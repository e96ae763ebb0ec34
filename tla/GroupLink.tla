------------------------------ MODULE GroupLink ------------------------------
(***************************************************************************)
(* The inbound side of a group link (orchestrator/orchestrator.ts with a   *)
(* groupLinkConversationId): which conversation a link belongs to follows  *)
(* from the peer's Hello, so what arrives while that is worked out is      *)
(* parked, and encrypted frames that come before the handshake completes   *)
(* are kept for afterwards.                                                *)
(*                                                                         *)
(* A group session makes an orchestrator for every transport and never     *)
(* calls its retry(), so the link here lives once.  What the handshake     *)
(* makes of its messages is module Handshake: here a Hello and a signature *)
(* complete it, in the end.                                                *)
(***************************************************************************)
EXTENDS Naturals, Sequences

CONSTANTS
    MaxParked,     \* MAX_GROUP_LINK_PARKED_MESSAGES
    MaxArrivals    \* bound on the messages that arrive

VARIABLES
    state,         \* currentState
    conversation,  \* conversation is known
    resolving,     \* groupLinkResolving
    held,          \* groupLinkPendingBytes
    early,         \* groupLinkEarlyFrames
    resolution,    \* where resolveGroupLinkConversation is
    first,         \* the Hello it holds, in a sequence
    flush,         \* the early frames verifyPeerAndComplete still holds
    arrived,       \* history: what came over the transport
    heard,         \* history: handshake messages handed on
    ingested,      \* history: frames handed to the receiver
    blamed         \* history: a message of the peer failed the handshake

vars == <<state, conversation, resolving, held, early, resolution, first, flush,
          arrived, heard, ingested, blamed>>

Kinds == {"hello", "signature", "frame"}
Messages == [n : 1..MaxArrivals, kind : Kinds]

TypeOK ==
  /\ state \in {"Handshaking", "Connected", "Disconnected"}
  /\ {conversation, resolving, blamed} \subseteq BOOLEAN
  /\ resolution \in {"none", "resolver", "create", "authFailed", "over"}
  /\ \A s \in {held, early, first, flush, arrived, heard, ingested} : s \in Seq(Messages)

(* attachLinkTransport: a new orchestrator, begun and attached.            *)
Init ==
  /\ state = "Handshaking" /\ conversation = FALSE
  /\ resolving = FALSE /\ held = <<>> /\ early = <<>>
  /\ resolution = "none" /\ first = <<>> /\ flush = <<>>
  /\ arrived = <<>> /\ heard = <<>> /\ ingested = <<>> /\ blamed = FALSE

-----------------------------------------------------------------------------
(* The ends of a session.                                                  *)

(* teardownSession and the state after it; the coroutines run on.          *)
Torn == /\ state' = "Disconnected"
        /\ resolving' = FALSE /\ held' = <<>> /\ early' = <<>>

(* The peer left, the link was closed, the handshake timed out or failed   *)
(* on the content of a message.                                            *)
Teardown ==
  /\ state # "Disconnected" /\ Torn
  /\ UNCHANGED <<conversation, resolution, first, flush, arrived, heard, ingested, blamed>>

(* A message that may not come here or now: failHandshake.                 *)
Refuse == Torn /\ blamed' = TRUE

-----------------------------------------------------------------------------
(* dispatchHandshakeMessage.  It takes the first Hello, and a signature    *)
(* once there is a transcript; a frame waits for the session, within       *)
(* bounds.                                                                 *)

(* The messages of these kinds, in their order: SelectSeq, as a function   *)
(* of the messages seen so far.                                            *)
OfKinds(ms, kinds) ==
  LET kept[i \in 0..Len(ms)] ==
        IF i = 0 THEN <<>>
        ELSE IF ms[i].kind \in kinds THEN Append(kept[i - 1], ms[i])
        ELSE kept[i - 1]
  IN kept[Len(ms)]

Handshakes(ms) == OfKinds(ms, Kinds \ {"frame"})
Frames(ms) == OfKinds(ms, {"frame"})

OutOfTurn(m, before) ==
  m.kind # "frame" /\ ((m.kind = "hello") = (\E i \in DOMAIN before : before[i].kind = "hello"))

(* For messages handed over one after the other without an await.          *)
Refused(ms) ==
  \/ \E i \in DOMAIN ms : OutOfTurn(ms[i], heard \o SubSeq(ms, 1, i - 1))
  \/ Len(early) + Len(Frames(ms)) > MaxParked

Dispatch(ms) ==
  /\ heard' = heard \o Handshakes(ms)
  /\ resolving' = FALSE /\ held' = <<>>
  /\ IF Refused(ms) THEN Refuse
     ELSE early' = early \o Frames(ms) /\ UNCHANGED <<state, blamed>>

(* handleInbound, test by test.                                            *)
Ingest(m) ==
  /\ state = "Connected"
  /\ ingested' = Append(ingested, m)
  /\ UNCHANGED <<state, conversation, resolving, held, early, resolution, first,
                 heard, blamed>>

Park(m) ==
  /\ state = "Handshaking" /\ resolving
  /\ IF Len(held) >= MaxParked THEN Refuse
     ELSE held' = Append(held, m) /\ UNCHANGED <<state, resolving, early, blamed>>
  /\ UNCHANGED <<conversation, resolution, first, heard, ingested>>

(* resolveGroupLinkConversation, up to its first await.                    *)
Resolve(m) ==
  /\ state = "Handshaking" /\ ~resolving /\ ~conversation
  /\ IF m.kind # "hello" THEN Refuse /\ UNCHANGED <<resolution, first>>
     ELSE /\ resolving' = TRUE /\ resolution' = "resolver" /\ first' = <<m>>
          /\ UNCHANGED <<state, held, early, blamed>>
  /\ UNCHANGED <<conversation, heard, ingested>>

HandOn(m) ==
  /\ state = "Handshaking" /\ ~resolving /\ conversation
  /\ Dispatch(<<m>>)
  /\ UNCHANGED <<conversation, resolution, first, ingested>>

(* Anything that comes after a teardown: a stale flush, at most.           *)
Dropped(m) ==
  /\ state = "Disconnected"
  /\ UNCHANGED <<state, conversation, resolving, held, early, resolution, first,
                 heard, ingested, blamed>>

Inbound(m) == Ingest(m) \/ Park(m) \/ Resolve(m) \/ HandOn(m) \/ Dropped(m)

(* The transport delivers; after the handshake the peer sends frames.      *)
Arrive ==
  /\ state # "Disconnected" /\ Len(arrived) < MaxArrivals
  /\ \E k \in Kinds :
       LET m == [n |-> Len(arrived) + 1, kind |-> k]
       IN /\ k = "frame" \/ state = "Handshaking"
          /\ arrived' = Append(arrived, m)
          /\ Inbound(m)
  /\ UNCHANGED flush

-----------------------------------------------------------------------------
(* resolveGroupLinkConversation after each of its awaits.                  *)

(* Mutant: the messages that wait are handed on once the identifier is     *)
(* known, while the stores are still awaited.                              *)
DerivedUnlatched ==
  /\ resolution = "resolver" /\ state = "Handshaking"
  /\ conversation' = TRUE /\ resolution' = "create" /\ resolving' = FALSE
  /\ UNCHANGED <<state, held, early, first, flush, arrived, heard, ingested, blamed>>

(* The identifier is derived and set; then createConversation is awaited,  *)
(* then the two stores of failed authentications.                          *)
Derived ==
  /\ resolution = "resolver" /\ state = "Handshaking"
  /\ conversation' = TRUE /\ resolution' = "create"
  /\ UNCHANGED <<state, resolving, held, early, first, flush, arrived, heard,
                 ingested, blamed>>

Created ==
  /\ resolution = "create" /\ state = "Handshaking"
  /\ resolution' = "authFailed"
  /\ UNCHANGED <<state, conversation, resolving, held, early, first, flush,
                 arrived, heard, ingested, blamed>>

(* The Hello and what was parked behind it are handed on in one step; if   *)
(* one of them is refused the handshake fails after that.                  *)
Replay ==
  /\ resolution = "authFailed" /\ state = "Handshaking"
  /\ Dispatch(first \o held)
  /\ resolution' = "over" /\ first' = <<>>
  /\ UNCHANGED <<conversation, flush, arrived, ingested>>

(* The transport is gone.                                                  *)
GiveUp ==
  /\ resolution \in {"resolver", "create", "authFailed"} /\ state = "Disconnected"
  /\ resolution' = "over" /\ first' = <<>>
  /\ resolving' = FALSE /\ held' = <<>>
  /\ UNCHANGED <<state, conversation, early, flush, arrived, heard, ingested, blamed>>

(* A store rejects, and the handshake fails.                               *)
Rejected ==
  /\ resolution = "authFailed" /\ Torn
  /\ resolution' = "over" /\ first' = <<>>
  /\ UNCHANGED <<conversation, flush, arrived, heard, ingested, blamed>>

-----------------------------------------------------------------------------
(* The end of verifyPeerAndComplete: the early frames are ingested one by  *)
(* one, each after the one before it was.                                  *)

Complete ==
  /\ state = "Handshaking" /\ Len(heard) >= 2
  /\ state' = "Connected" /\ early' = <<>>
  /\ IF early = <<>> THEN UNCHANGED <<ingested, flush>>
     ELSE ingested' = <<Head(early)>> /\ flush' = Tail(early)
  /\ UNCHANGED <<conversation, resolving, held, resolution, first, arrived, heard, blamed>>

Flush ==
  /\ flush # <<>>
  /\ flush' = Tail(flush)
  /\ Inbound(Head(flush))
  /\ UNCHANGED arrived

Next == Teardown \/ Arrive \/ Derived \/ Created \/ Replay \/ GiveUp \/ Rejected
        \/ Complete \/ Flush

-----------------------------------------------------------------------------
Range(s) == {s[i] : i \in DOMAIN s}
Ascending(s) == \A i, j \in DOMAIN s : i < j => s[i].n < s[j].n

(* While the link is up, everything that arrived is in exactly one place:  *)
(* handed on, parked or kept for later; and the handshake is handed its    *)
(* messages in the order they came in.                                     *)
HandedInOrder ==
  LET places == <<heard, first, held, early, flush, ingested>>
  IN state # "Disconnected" =>
       /\ UNION {Range(places[i]) : i \in 1..6} = Range(arrived)
       /\ \A i, j \in 1..6 : i # j => Range(places[i]) \cap Range(places[j]) = {}
       /\ Ascending(heard)

(* The link refuses no message of a peer that says Hello once, first, and  *)
(* sends less than the bound before the handshake completes.               *)
BlamedForCause ==
  blamed => \/ arrived[1].kind # "hello"
            \/ \E i \in DOMAIN arrived \ {1} : arrived[i].kind = "hello"
            \/ Len(arrived) > MaxParked + 1

(* However the Hello's resolution and what else arrives fall, the link     *)
(* loses nothing, repeats nothing and blames its peer for nothing.         *)
InboundIsFaithful == HandedInOrder /\ BlamedForCause

(* Frames reach the receiver in the order they came in.                    *)
FramesInOrder == Ascending(ingested)
=============================================================================
