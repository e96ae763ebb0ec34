------------------------------ MODULE Handshake ------------------------------
(***************************************************************************)
(* Two ConversationOrchestrators establishing a session over the data      *)
(* channels the WebRTC bridge opens between them (orchestrator.ts).        *)
(*                                                                         *)
(* The orchestrator is single threaded but its handlers are async: every   *)
(* `await` parks a coroutine, and timers, inbound messages, leave(),       *)
(* retry() and a re-attach run in between.  A parked coroutine is a record *)
(* in tasks[p]; one action below is one run of JavaScript from an await    *)
(* (or an event) to the next await.                                        *)
(*                                                                         *)
(* Keys are abstracted to what tells them apart: a Hello is the number of  *)
(* the handshake that generated it, a transcript is the pair of Hellos and *)
(* the mode it binds, a signature is the transcript it covers, and an      *)
(* SPAKE2 secret is shared exactly when both sides used the same code.     *)
(***************************************************************************)
EXTENDS Naturals, Sequences, FiniteSets

CONSTANTS
  Peer,         \* the two endpoints
  Codes,        \* 6-digit PAKE codes
  NoCode,       \* an invitation without a code: SafetyNumberOnly
  Invitations,  \* the codes the two endpoints may hold, as functions of Peer
  Contacts,     \* what an endpoint may have pinned before it starts
  None,
  MaxConn,      \* bound: data channels the bridge ever opens
  MaxTexts,     \* bound: texts each endpoint sends
  Faults        \* what the environment may do, see the actions below

ASSUME PeerAssumption == \E a, b \in Peer : a # b /\ Peer = {a, b}
ASSUME NoneAssumption == /\ None \notin Peer
                         /\ NoCode \notin Codes
ASSUME InvitationsAssumption == Invitations \subseteq [Peer -> Codes \cup {NoCode}]
ASSUME ContactsAssumption == Contacts \subseteq {"nobody", "peer", "stranger"}
ASSUME BoundsAssumption == MaxConn \in Nat /\ MaxTexts \in Nat

VARIABLES
  \* the orchestrator
  state,        \* currentState
  gen,          \* handshakeGeneration
  chan,         \* transport: the data channel attached, 0 for null
  hs,           \* the fields one handshake fills and teardownSession clears
  keys,         \* frameSender/frameReceiver: the session they were built for
  timer,        \* handshakeTimeoutHandle is armed
  failure,      \* handshakeError, and the handshake whose coroutine raised it
  authFailed,   \* authFailedCached
  code,         \* pakeCode; NoCode stands for authMode SafetyNumberOnly
  tasks,        \* parked coroutines
  texts,        \* sendText() calls so far
  \* durable storage
  pinned,       \* the TOFU identity of the conversation
  durable,      \* the auth-failed flag of the repository and durable store
  \* data channels
  conn,         \* the newest channel
  shut,         \* channels that an endpoint has closed
  wire          \* wire[c][p]: messages in flight to p on channel c

orch == <<state, gen, chan, hs, keys, timer, failure, authFailed, code>>
disk == <<pinned, durable>>
net  == <<conn, shut, wire>>
vars == <<orch, tasks, texts, disk, net>>

Other(p) == CHOOSE q \in Peer : q # p

-----------------------------------------------------------------------------
(* Data.                                                                   *)

Mode(p) == IF code[p] = NoCode THEN "SafetyNumberOnly" ELSE "Pake"

Transcripts == [hello : [Peer -> Nat], mode : {"SafetyNumberOnly", "Pake"}]

(* A secret both sides derived has no owner; one derived under divergent   *)
(* codes is known to its owner alone.                                      *)
Secrets == [owner : Peer \cup {None}, share : [Peer -> Nat]]

Kinds == {"Hello", "Signature", "PakeShare", "PakeConfirm", "Frame", "Leave"}

Messages == [kind : Kinds, gen : Nat, code : Codes \cup {NoCode},
             t : Transcripts \cup {None}, secret : Secrets \cup {None}]

Message(kind, g, c, t, secret) ==
  [kind |-> kind, gen |-> g, code |-> c, t |-> t, secret |-> secret]

Hello(g)             == Message("Hello", g, NoCode, None, None)
Signature(t)         == Message("Signature", 0, NoCode, t, None)
PakeShare(g, c)      == Message("PakeShare", g, c, None, None)
PakeConfirm(t, s)    == Message("PakeConfirm", 0, NoCode, t, s)
Sealed(kind, k)      == Message(kind, 0, NoCode, k.t, k.secret)

Sessions == [t : Transcripts, secret : Secrets \cup {None}]

Handshakes == [own : Nat, peer : Nat, transcript : Transcripts \cup {None},
               sigSent : BOOLEAN, completing : BOOLEAN, pakeBegun : BOOLEAN,
               session : Nat, share : Messages \cup {None},
               confirm : Messages \cup {None}]

(* What teardownSession leaves of a handshake.                             *)
Blank == [own |-> 0, peer |-> 0, transcript |-> None, sigSent |-> FALSE,
          completing |-> FALSE, pakeBegun |-> FALSE, session |-> 0,
          share |-> None, confirm |-> None]

ASSUME AbsenceAssumption == None \notin Messages \cup Transcripts \cup Sessions

(* Where a coroutine is parked, named for what it awaits.                  *)
Chain  == {"verify", "tofu", "create", "shareWait", "shareGot", "finish",
           "tag", "confirmWait", "confirmGot", "check", "derive", "store"}
Parked == {"shareWait", "confirmWait"}
Points == Chain \cup {"keygen", "sign", "append", "seal"}

Tasks == [at : Points, gen : Nat, t : Transcripts \cup {None},
          first : BOOLEAN, secret : Secrets \cup {None},
          got : Messages \cup {None}, on : 0 .. MaxConn]

Task(at, g, t) == [at |-> at, gen |-> g, t |-> t, first |-> FALSE,
                   secret |-> None, got |-> None, on |-> 0]

Live == {"handshaking", "verifying", "connected"}
Failures == {"Malformed", "HandshakeFailed", "SignatureMismatch", "Timeout",
             "IdentityChanged", "PakeMismatch", "PakeAbort", "SendFailed",
             "StoreFailed"}

(* Mutant: a timeout counts as an authentication failure.                  *)
AuthFailuresTimeout == {"IdentityChanged", "PakeMismatch", "PakeAbort", "Timeout"}

(* isAuthFailureError: the failures retry() never recovers from.           *)
AuthFailures == {"IdentityChanged", "PakeMismatch", "PakeAbort"}

-----------------------------------------------------------------------------
Init ==
  /\ state = [p \in Peer |-> "idle"]
  /\ gen = [p \in Peer |-> 0]
  /\ chan = [p \in Peer |-> 0]
  /\ hs = [p \in Peer |-> Blank]
  /\ keys = [p \in Peer |-> None]
  /\ timer = [p \in Peer |-> FALSE]
  /\ failure = [p \in Peer |-> None]
  /\ authFailed = [p \in Peer |-> FALSE]
  /\ code \in Invitations
  /\ tasks = [p \in Peer |-> {}]
  /\ texts = [p \in Peer |-> 0]
  /\ pinned \in [Peer -> Contacts]
  /\ durable = [p \in Peer |-> FALSE]
  /\ conn = 0
  /\ shut = [c \in 0 .. MaxConn |-> c = 0]
  /\ wire = [c \in 0 .. MaxConn |-> [p \in Peer |-> <<>>]]

-----------------------------------------------------------------------------
(* Shared steps.                                                           *)

(* Mutant: the guard tests only that some handshake is running.            *)
SupersededAnyHandshake(p, k) == chan[p] = 0 \/ hs[p].own = 0

(* handshakeSuperseded: the coroutine's handshake was torn down, or torn   *)
(* down and replaced.                                                      *)
Superseded(p, k) == k.gen # gen[p] \/ chan[p] = 0 \/ hs[p].own = 0

(* beginHandshake's own check: the ephemeral key is not assigned yet.      *)
KeygenSuperseded(p, k) == k.gen # gen[p] \/ chan[p] = 0

(* A send on a channel the other end has closed is lost until the local    *)
(* end notices, and throws after that (SendThrows).                        *)
Send(p, m) ==
  wire' = IF shut[chan[p]] THEN wire
          ELSE [wire EXCEPT ![chan[p]][Other(p)] = Append(@, m)]

Resume(p, k, spawned) == tasks' = [tasks EXCEPT ![p] = (@ \ {k}) \cup spawned]

(* Mutant: the PAKE timers are cleared and the parked waits not rejected.  *)
TeardownKeepsParked(p, running) ==
  /\ hs' = [hs EXCEPT ![p] = Blank]
  /\ keys' = [keys EXCEPT ![p] = None]
  /\ timer' = [timer EXCEPT ![p] = FALSE]
  /\ chan' = [chan EXCEPT ![p] = 0]
  /\ shut' = [shut EXCEPT ![chan[p]] = TRUE]
  /\ wire' = [wire EXCEPT ![chan[p]][p] = <<>>]
  /\ tasks' = [tasks EXCEPT ![p] = running]

(* teardownSession.  Parked PAKE waits are rejected with Cancelled, which  *)
(* failHandshake swallows: their coroutines end here.  handshakeGeneration *)
(* and handshakeError are kept.                                            *)
Teardown(p, running) ==
  /\ hs' = [hs EXCEPT ![p] = Blank]
  /\ keys' = [keys EXCEPT ![p] = None]
  /\ timer' = [timer EXCEPT ![p] = FALSE]
  /\ chan' = [chan EXCEPT ![p] = 0]
  /\ shut' = [shut EXCEPT ![chan[p]] = TRUE]
  /\ wire' = [wire EXCEPT ![chan[p]][p] = <<>>]
  /\ tasks' = [tasks EXCEPT ![p] = {k \in running : k.at \notin Parked}]

Disconnect(p, running) ==
  /\ Teardown(p, running)
  /\ state' = [state EXCEPT ![p] = "disconnected"]
  /\ UNCHANGED <<gen, failure, authFailed, code, texts, disk, conn>>

(* failHandshake, reached from the coroutines and events of handshake      *)
(* `origin`; `running` are the coroutines left.  Only the first failure    *)
(* since the last attach is acted on.                                      *)
Fail(p, kind, origin, running) ==
  IF failure[p] # None
  THEN /\ tasks' = [tasks EXCEPT ![p] = running]
       /\ UNCHANGED <<orch, texts, disk, net>>
  ELSE /\ failure' = [failure EXCEPT ![p] = [kind |-> kind, origin |-> origin]]
       /\ authFailed' = [authFailed EXCEPT ![p] = @ \/ kind \in AuthFailures]
       /\ durable' = [durable EXCEPT ![p] = @ \/ kind \in AuthFailures]
       /\ Teardown(p, running)
       /\ state' = [state EXCEPT ![p] = IF @ \in Live THEN "disconnected" ELSE @]
       /\ UNCHANGED <<gen, code, texts, pinned, conn>>

-----------------------------------------------------------------------------
(* Entry points.                                                           *)

(* Mutant: the durable flag is not read.                                   *)
StartUncached(p) ==
  /\ state[p] = "idle"
  /\ state' = [state EXCEPT ![p] = "waiting"]
  /\ UNCHANGED <<gen, chan, hs, keys, timer, failure, authFailed, code, tasks, texts,
                 disk, net>>

(* start() and join(): the cache is hydrated from the durable flag.        *)
Start(p) ==
  /\ state[p] = "idle"
  /\ state' = [state EXCEPT ![p] = "waiting"]
  /\ authFailed' = [authFailed EXCEPT ![p] = durable[p]]
  /\ UNCHANGED <<gen, chan, hs, keys, timer, failure, code, tasks, texts, disk, net>>

NotifyPeerJoined(p) ==
  /\ state[p] = "waiting"
  /\ state' = [state EXCEPT ![p] = "signaling"]
  /\ UNCHANGED <<gen, chan, hs, keys, timer, failure, authFailed, code, tasks,
                 texts, disk, net>>

(* notifyPeerLeft and notifySignalingClosed: the bridge saw the channel or *)
(* the broker seat of the peer close, or the network dropped it.           *)
NotifyPeerLeft(p) ==
  /\ "drop" \in Faults \/ (chan[p] # 0 /\ shut[chan[p]])
  /\ state[p] \notin {"idle", "disconnected"}
  /\ Disconnect(p, tasks[p])

(* The bridges open a new data channel once the previous one is closed.    *)
OpenChannel ==
  /\ shut[conn]
  /\ conn < MaxConn
  /\ conn' = conn + 1
  /\ UNCHANGED <<orch, tasks, texts, disk, shut, wire>>

(* Mutant: a transport is accepted after a teardown, without a retry().    *)
CanReattach(p) == state[p] \in {"waiting", "signaling", "disconnected"}

CanAttach(p) == state[p] \in {"waiting", "signaling"}

AttachTransport(p) ==
  /\ CanAttach(p)
  /\ ~shut[conn]
  /\ gen' = [gen EXCEPT ![p] = @ + 1]
  /\ failure' = [failure EXCEPT ![p] = None]
  /\ chan' = [chan EXCEPT ![p] = conn]
  /\ state' = [state EXCEPT ![p] = "handshaking"]
  /\ timer' = [timer EXCEPT ![p] = TRUE]
  /\ tasks' = [tasks EXCEPT ![p] = @ \cup {Task("keygen", gen[p] + 1, None)}]
  /\ UNCHANGED <<hs, keys, authFailed, code, texts, disk, net>>

(* leave(): the Leave frame is encrypted asynchronously, the teardown runs *)
(* in the same tick.                                                       *)
Leave(p) ==
  /\ "leave" \in Faults
  /\ state[p] \notin {"idle", "disconnected"}
  /\ LET frame == [Task("seal", gen[p], None) EXCEPT
                     !.got = Sealed("Leave", keys[p]), !.on = chan[p]]
     IN Disconnect(p, tasks[p] \cup IF state[p] = "connected" /\ keys[p] # None
                                   THEN {frame} ELSE {})

Retry(p) ==
  /\ state[p] = "disconnected"
  /\ ~authFailed[p]
  /\ state' = [state EXCEPT ![p] = "signaling"]
  /\ UNCHANGED <<gen, chan, hs, keys, timer, failure, authFailed, code, tasks,
                 texts, disk, net>>

(* The process dies; the conversation is later resumed by a fresh          *)
(* orchestrator that join()s the bare conversation id.  The generation     *)
(* keeps counting so that handshakes of two processes stay distinct.       *)
Restart(p) ==
  /\ "crash" \in Faults
  /\ state[p] # "idle"
  /\ Teardown(p, {})
  /\ state' = [state EXCEPT ![p] = "idle"]
  /\ failure' = [failure EXCEPT ![p] = None]
  /\ authFailed' = [authFailed EXCEPT ![p] = FALSE]
  /\ code' = [code EXCEPT ![p] = NoCode]
  /\ UNCHANGED <<gen, texts, disk, conn>>

(* Mutant: the bound covers the verification only.                         *)
HandshakeTimeoutLate(p) ==
  /\ "timeout" \in Faults
  /\ timer[p] /\ state[p] = "verifying"
  /\ Fail(p, "Timeout", gen[p], tasks[p])

(* The whole-handshake bound, armed by attachTransport.                    *)
HandshakeTimeout(p) ==
  /\ "timeout" \in Faults
  /\ timer[p]
  /\ Fail(p, "Timeout", gen[p], tasks[p])

(* The bounds of awaitPakeShareBounded and awaitPakeConfirmBounded.        *)
PakeTimeout(p) ==
  /\ "timeout" \in Faults
  /\ chan[p] # 0
  /\ \E k \in tasks[p] :
       /\ k.at \in Parked
       /\ Fail(p, "Timeout", k.gen, tasks[p] \ {k})

-----------------------------------------------------------------------------
(* Inbound messages (handleInbound, dispatchHandshakeMessage).             *)

Inbox(p) == wire[chan[p]][p]

Arrived(p, kinds, states) ==
  /\ chan[p] # 0
  /\ state[p] \in states
  /\ Inbox(p) # <<>>
  /\ Head(Inbox(p)).kind \in kinds

(* Delivery of the head message ...                                        *)
Take(p) == wire' = [wire EXCEPT ![chan[p]][p] = Tail(@)]

(* ... which, for a handshake message, a peer may repeat.                  *)
Consume(p) == Take(p) \/ ("dup" \in Faults /\ UNCHANGED wire)

(* maybeSignAndSend up to its await, for the handshake fields h.           *)
CanSign(h) == h.own # 0 /\ h.peer # 0 /\ ~h.sigSent

BuildTranscript(p, h) ==
  [hello |-> [q \in Peer |-> IF q = p THEN h.own ELSE h.peer], mode |-> Mode(p)]

MaybeSign(p, h) ==
  hs' = [hs EXCEPT ![p] =
           IF CanSign(h) THEN [h EXCEPT !.transcript = BuildTranscript(p, h)] ELSE h]

SignTasks(p, h) ==
  IF CanSign(h) THEN {Task("sign", gen[p], BuildTranscript(p, h))} ELSE {}

InboundHello(p) ==
  /\ Arrived(p, {"Hello"}, {"handshaking", "verifying"})
  /\ IF hs[p].peer # 0
     THEN Fail(p, "Malformed", gen[p], tasks[p])
     ELSE LET h == [hs[p] EXCEPT !.peer = Head(Inbox(p)).gen]
          IN /\ MaybeSign(p, h)
             /\ tasks' = [tasks EXCEPT ![p] = @ \cup SignTasks(p, h)]
             /\ Consume(p)
             /\ UNCHANGED <<state, gen, chan, keys, timer, failure, authFailed,
                            code, texts, disk, conn, shut>>

(* Mutant: the latch is not armed.                                         *)
LatchForgotten(h, coded) == [h EXCEPT !.pakeBegun = coded]

Latch(h, coded) == [h EXCEPT !.completing = TRUE, !.pakeBegun = coded]

(* verifyPeerAndComplete up to its first await: the latch, the check of    *)
(* what the hello round set, and the side byte that admits PAKE messages.  *)
InboundSignature(p) ==
  /\ Arrived(p, {"Signature"}, {"handshaking", "verifying"})
  /\ \/ /\ hs[p].completing
        /\ Consume(p)
        /\ UNCHANGED <<orch, tasks, texts, disk, conn, shut>>
     \/ /\ ~hs[p].completing
        /\ hs[p].transcript = None
        /\ Fail(p, "HandshakeFailed", gen[p], tasks[p])
     \/ /\ ~hs[p].completing
        /\ hs[p].transcript # None
        /\ hs' = [hs EXCEPT ![p] = Latch(@, code[p] # NoCode)]
        /\ tasks' = [tasks EXCEPT ![p] = @ \cup
             {[Task("verify", gen[p], hs[p].transcript) EXCEPT !.got = Head(Inbox(p))]}]
        /\ Consume(p)
        /\ UNCHANGED <<state, gen, chan, keys, timer, failure, authFailed, code,
                       texts, disk, conn, shut>>

(* The coroutines a PAKE message wakes, with the message.                  *)
Wake(p, from, to, m) ==
  tasks' = [tasks EXCEPT ![p] =
              {IF k.at = from THEN [k EXCEPT !.at = to, !.got = m] ELSE k : k \in @}]

PakeExpected(p) == hs[p].pakeBegun \/ hs[p].session # 0

(* handlePakeShare *)
InboundPakeShare(p) ==
  /\ Arrived(p, {"PakeShare"}, {"handshaking", "verifying"})
  /\ \/ /\ ~PakeExpected(p)
        /\ Fail(p, "Malformed", gen[p], tasks[p])
     \/ /\ PakeExpected(p)
        /\ hs[p].share # None
        /\ Fail(p, "PakeAbort", gen[p], tasks[p])
     \/ /\ PakeExpected(p)
        /\ hs[p].share = None
        /\ hs' = [hs EXCEPT ![p].share = Head(Inbox(p))]
        /\ Wake(p, "shareWait", "shareGot", Head(Inbox(p)))
        /\ Consume(p)
        /\ UNCHANGED <<state, gen, chan, keys, timer, failure, authFailed, code,
                       texts, disk, conn, shut>>

(* handlePakeConfirm *)
InboundPakeConfirm(p) ==
  /\ Arrived(p, {"PakeConfirm"}, {"handshaking", "verifying"})
  /\ \/ /\ ~PakeExpected(p)
        /\ Fail(p, "Malformed", gen[p], tasks[p])
     \/ /\ PakeExpected(p)
        /\ hs[p].confirm # None
        /\ Fail(p, "PakeAbort", gen[p], tasks[p])
     \/ /\ PakeExpected(p)
        /\ hs[p].confirm = None
        /\ hs' = [hs EXCEPT ![p].confirm = Head(Inbox(p))]
        /\ Wake(p, "confirmWait", "confirmGot", Head(Inbox(p)))
        /\ Consume(p)
        /\ UNCHANGED <<state, gen, chan, keys, timer, failure, authFailed, code,
                       texts, disk, conn, shut>>

(* An encrypted frame has no handshake length: pair mode treats one that   *)
(* arrives before Connected as a protocol error.                           *)
InboundEarlyFrame(p) ==
  /\ Arrived(p, {"Frame", "Leave"}, {"handshaking", "verifying"})
  /\ Fail(p, "Malformed", gen[p], tasks[p])

(* Connected: FrameReceiver.ingest accepts what the peer sealed under the  *)
(* same session, once, and rejects everything else, which ends the session.*)
InboundConnected(p) ==
  /\ Arrived(p, Kinds, {"connected"})
  /\ LET m == Head(Inbox(p))
         genuine == m.kind \in {"Frame", "Leave"} /\ m.t = keys[p].t
                    /\ m.secret = keys[p].secret
     IN IF genuine
        THEN Take(p) /\ UNCHANGED <<orch, tasks, texts, disk, conn, shut>>
        ELSE Fail(p, "Malformed", gen[p], tasks[p])

(* Before attachTransport sets a handler, an open channel drops messages.  *)
DropUnattached(p) ==
  /\ chan[p] # conn
  /\ wire[conn][p] # <<>>
  /\ wire' = [wire EXCEPT ![conn][p] = Tail(@)]
  /\ UNCHANGED <<orch, tasks, texts, disk, conn, shut>>

-----------------------------------------------------------------------------
(* Coroutines resuming.                                                    *)

(* A superseded coroutine bails out silently.  One parked in awaitPakeShare*)
(* finds another PAKE session (or none) and throws Cancelled, which        *)
(* failHandshake swallows.  "check" and "store" have no test of their own  *)
(* before their effect.                                                    *)
Abandon(p, k) ==
  /\ \/ k.at = "keygen" /\ KeygenSuperseded(p, k)
     \/ k.at = "sign" /\ (Superseded(p, k) \/ hs[p].sigSent)
     \/ k.at = "shareGot" /\ hs[p].session # k.gen
     \/ /\ k.at \in {"verify", "tofu", "create", "finish", "tag", "confirmGot", "derive"}
        /\ Superseded(p, k)
  /\ Resume(p, k, {})
  /\ UNCHANGED <<orch, texts, disk, net>>

(* transport.send on a channel that is no longer open.                     *)
SendThrows(p, k) ==
  /\ chan[p] # 0 /\ shut[chan[p]]
  /\ \/ k.at = "keygen" /\ ~KeygenSuperseded(p, k)
     \/ k.at \in {"sign", "create", "tag"} /\ ~Superseded(p, k)
  /\ Fail(p, "SendFailed", k.gen, tasks[p] \ {k})

KeygenDone(p, k) ==
  /\ k.at = "keygen" /\ ~KeygenSuperseded(p, k)
  /\ LET h == [hs[p] EXCEPT !.own = gen[p]]
     IN /\ MaybeSign(p, h)
        /\ Resume(p, k, SignTasks(p, h))
  /\ Send(p, Hello(gen[p]))
  /\ UNCHANGED <<state, gen, chan, keys, timer, failure, authFailed, code, texts,
                 disk, conn, shut>>

SignDone(p, k) ==
  /\ k.at = "sign" /\ ~Superseded(p, k) /\ ~hs[p].sigSent
  /\ Send(p, Signature(k.t))
  /\ hs' = [hs EXCEPT ![p].sigSent = TRUE]
  /\ Resume(p, k, {})
  /\ UNCHANGED <<state, gen, chan, keys, timer, failure, authFailed, code, texts,
                 disk, conn, shut>>

(* Mutant: the signature is not compared with the transcript.              *)
SignatureAssumed(k) == k.got # None

SignatureHolds(k) == k.got.t = k.t

VerifyDone(p, k) ==
  /\ k.at = "verify" /\ ~Superseded(p, k)
  /\ IF SignatureHolds(k)
     THEN /\ state' = [state EXCEPT ![p] = "verifying"]
          /\ Resume(p, k, {[k EXCEPT !.at = "tofu"]})
          /\ UNCHANGED <<gen, chan, hs, keys, timer, failure, authFailed, code,
                         texts, disk, net>>
     ELSE Fail(p, "SignatureMismatch", k.gen, tasks[p] \ {k})

(* Mutant: any known contact is accepted.                                  *)
AnyContact(p) == pinned[p] \in {"nobody", "peer", "stranger"}

IdentityUnchanged(p) == pinned[p] # "stranger"

(* getPeerIdentity resolved. *)
TofuDone(p, k) ==
  /\ k.at = "tofu" /\ ~Superseded(p, k)
  /\ IF ~IdentityUnchanged(p)
     THEN Fail(p, "IdentityChanged", k.gen, tasks[p] \ {k})
     ELSE /\ Resume(p, k, {[k EXCEPT !.at = IF code[p] = NoCode THEN "derive" ELSE "create",
                                     !.first = (pinned[p] = "nobody")]})
          /\ UNCHANGED <<orch, texts, disk, net>>

(* The SPAKE2 secret from our session and the peer's share.                *)
PakeSecret(p, k, m) ==
  [owner |-> IF m.code = code[p] THEN None ELSE p,
   share |-> [q \in Peer |-> IF q = p THEN k.gen ELSE m.gen]]

(* createPakeSession resolved: send our share; awaitPakeFinish parks, or   *)
(* consumes the share that is already here.                                *)
CreateDone(p, k) ==
  /\ k.at = "create" /\ ~Superseded(p, k)
  /\ Send(p, PakeShare(k.gen, code[p]))
  /\ IF hs[p].share = None
     THEN /\ hs' = [hs EXCEPT ![p].session = k.gen]
          /\ Resume(p, k, {[k EXCEPT !.at = "shareWait"]})
     ELSE /\ hs' = [hs EXCEPT ![p].session = 0, ![p].share = None]
          /\ Resume(p, k, {[k EXCEPT !.at = "finish",
                                     !.secret = PakeSecret(p, k, hs[p].share)]})
  /\ UNCHANGED <<state, gen, chan, keys, timer, failure, authFailed, code, texts,
                 disk, conn, shut>>

ShareResumed(p, k) ==
  /\ k.at = "shareGot" /\ hs[p].session = k.gen
  /\ hs' = [hs EXCEPT ![p].session = 0, ![p].share = None]
  /\ Resume(p, k, {[k EXCEPT !.at = "finish", !.secret = PakeSecret(p, k, k.got)]})
  /\ UNCHANGED <<state, gen, chan, keys, timer, failure, authFailed, code, texts,
                 disk, net>>

(* pakeFinish resolved; runPakeConfirmation starts on the local tag.       *)
FinishDone(p, k) ==
  /\ k.at = "finish" /\ ~Superseded(p, k)
  /\ Resume(p, k, {[k EXCEPT !.at = "tag"]})
  /\ UNCHANGED <<orch, texts, disk, net>>

TagDone(p, k) ==
  /\ k.at = "tag" /\ ~Superseded(p, k)
  /\ Send(p, PakeConfirm(k.t, k.secret))
  /\ IF hs[p].confirm = None
     THEN /\ Resume(p, k, {[k EXCEPT !.at = "confirmWait"]})
          /\ UNCHANGED hs
     ELSE /\ Resume(p, k, {[k EXCEPT !.at = "check", !.got = hs[p].confirm]})
          /\ hs' = [hs EXCEPT ![p].confirm = None]
  /\ UNCHANGED <<state, gen, chan, keys, timer, failure, authFailed, code, texts,
                 disk, conn, shut>>

ConfirmResumed(p, k) ==
  /\ k.at = "confirmGot" /\ ~Superseded(p, k)
  /\ hs' = [hs EXCEPT ![p].confirm = None]
  /\ Resume(p, k, {[k EXCEPT !.at = "check"]})
  /\ UNCHANGED <<state, gen, chan, keys, timer, failure, authFailed, code, texts,
                 disk, net>>

(* Mutant: the tag does not depend on the PAKE secret.                     *)
TagOfTranscript(k) == k.got.t = k.t

TagMatches(k) == k.got.t = k.t /\ k.got.secret = k.secret

(* The expected tag is derived: a mismatch throws before any test for      *)
(* supersession, a match is followed by one.                               *)
CheckDone(p, k) ==
  /\ k.at = "check"
  /\ IF ~TagMatches(k)
     THEN Fail(p, "PakeMismatch", k.gen, tasks[p] \ {k})
     ELSE /\ Resume(p, k, IF Superseded(p, k) THEN {} ELSE {[k EXCEPT !.at = "derive"]})
          /\ UNCHANGED <<orch, texts, disk, net>>

(* Mutant: the keys are mixed with the peer's message, not the secret.     *)
SessionFromMessage(k) == [t |-> k.t, secret |-> k.got]

SessionFor(k) == [t |-> k.t, secret |-> k.secret]

(* The last part of verifyPeerAndComplete: framing is wired, the timer is  *)
(* disarmed, the session is Connected.                                     *)
Establish(p, k) ==
  /\ keys' = [keys EXCEPT ![p] = SessionFor(k)]
  /\ timer' = [timer EXCEPT ![p] = FALSE]
  /\ state' = [state EXCEPT ![p] = "connected"]
  /\ Resume(p, k, {})
  /\ UNCHANGED <<gen, chan, hs, failure, authFailed, code, texts, durable, net>>

(* deriveSessionKeys and computeSafetyNumber resolved.                     *)
DeriveDone(p, k) ==
  /\ k.at = "derive" /\ ~Superseded(p, k)
  /\ IF k.first
     THEN /\ Resume(p, k, {[k EXCEPT !.at = "store"]})
          /\ UNCHANGED <<orch, texts, disk, net>>
     ELSE /\ Establish(p, k)
          /\ UNCHANGED pinned

(* Mutant: no test for supersession after the pin is stored.               *)
StoreDoneUnchecked(p, k) ==
  /\ k.at = "store"
  /\ pinned' = [pinned EXCEPT ![p] = "peer"]
  /\ Establish(p, k)

(* storePeerIdentity wrote the pin, whatever became of the handshake.      *)
StoreDone(p, k) ==
  /\ k.at = "store"
  /\ pinned' = [pinned EXCEPT ![p] = "peer"]
  /\ IF Superseded(p, k)
     THEN /\ Resume(p, k, {})
          /\ UNCHANGED <<orch, texts, durable, net>>
     ELSE Establish(p, k)

(* A repository that rejects (locked at-rest key, failed write).           *)
RepositoryRejects(p, k) ==
  /\ "repo" \in Faults
  /\ k.at \in {"tofu", "store"}
  /\ Fail(p, "StoreFailed", k.gen, tasks[p] \ {k})

-----------------------------------------------------------------------------
(* Sending on an established session.                                      *)

(* sendText persists first ...                                             *)
SendText(p) ==
  /\ state[p] = "connected" /\ keys[p] # None
  /\ texts[p] < MaxTexts
  /\ texts' = [texts EXCEPT ![p] = @ + 1]
  /\ tasks' = [tasks EXCEPT ![p] = @ \cup {Task("append", gen[p], None)}]
  /\ UNCHANGED <<orch, disk, net>>

(* ... then uses whatever frameSender it finds.                            *)
AppendDone(p, k) ==
  /\ k.at = "append"
  /\ Resume(p, k, IF keys[p] = None THEN {}
                  ELSE {[Task("seal", gen[p], None) EXCEPT
                           !.got = Sealed("Frame", keys[p]), !.on = chan[p]]})
  /\ UNCHANGED <<orch, texts, disk, net>>

(* The frame is encrypted and handed to the transport the FrameSender was  *)
(* built over; on a closed one it is lost or the send throws to the caller.*)
SealDone(p, k) ==
  /\ k.at = "seal"
  /\ Resume(p, k, {})
  /\ wire' = IF shut[k.on] THEN wire
             ELSE [wire EXCEPT ![k.on][Other(p)] = Append(@, k.got)]
  /\ UNCHANGED <<orch, texts, disk, conn, shut>>

-----------------------------------------------------------------------------
Coroutine(p) ==
  \E k \in tasks[p] :
    \/ Abandon(p, k)    \/ SendThrows(p, k)     \/ KeygenDone(p, k)
    \/ SignDone(p, k)   \/ VerifyDone(p, k)     \/ TofuDone(p, k)
    \/ CreateDone(p, k) \/ ShareResumed(p, k)   \/ FinishDone(p, k)
    \/ TagDone(p, k)    \/ ConfirmResumed(p, k) \/ CheckDone(p, k)
    \/ DeriveDone(p, k) \/ StoreDone(p, k)      \/ RepositoryRejects(p, k)
    \/ AppendDone(p, k) \/ SealDone(p, k)

Inbound(p) ==
  \/ InboundHello(p)     \/ InboundSignature(p)   \/ InboundPakeShare(p)
  \/ InboundPakeConfirm(p) \/ InboundEarlyFrame(p) \/ InboundConnected(p)
  \/ DropUnattached(p)

Calls(p) ==
  \/ Start(p)  \/ NotifyPeerJoined(p) \/ NotifyPeerLeft(p) \/ AttachTransport(p)
  \/ Leave(p)  \/ Retry(p)            \/ Restart(p)        \/ SendText(p)

Timers(p) == HandshakeTimeout(p) \/ PakeTimeout(p)

Next == OpenChannel \/ \E p \in Peer : Calls(p) \/ Timers(p) \/ Inbound(p) \/ Coroutine(p)

Spec == Init /\ [][Next]_vars

(* Awaited promises settle, armed timers fire, an open channel delivers.   *)
Fairness == \A p \in Peer : /\ WF_vars(Coroutine(p))
                            /\ WF_vars(Timers(p))
                            /\ WF_vars(Inbound(p))

FairSpec == Spec /\ Fairness

-----------------------------------------------------------------------------
(* Type invariant.  Channels, coroutines and handshakes hold only values   *)
(* the code can put there.                                                 *)
TypeOK ==
  /\ state \in [Peer -> {"idle", "waiting", "signaling", "handshaking",
                         "verifying", "connected", "disconnected"}]
  /\ gen \in [Peer -> Nat]
  /\ chan \in [Peer -> 0 .. MaxConn]
  /\ hs \in [Peer -> Handshakes]
  /\ keys \in [Peer -> Sessions \cup {None}]
  /\ timer \in [Peer -> BOOLEAN]
  /\ failure \in [Peer -> [kind : Failures, origin : Nat] \cup {None}]
  /\ authFailed \in [Peer -> BOOLEAN]
  /\ code \in [Peer -> Codes \cup {NoCode}]
  /\ tasks \in [Peer -> SUBSET Tasks]
  /\ texts \in [Peer -> 0 .. MaxTexts]
  /\ pinned \in [Peer -> {"nobody", "peer", "stranger"}]
  /\ durable \in [Peer -> BOOLEAN]
  /\ conn \in 0 .. MaxConn
  /\ shut \in [0 .. MaxConn -> BOOLEAN]
  /\ wire \in [0 .. MaxConn -> [Peer -> Seq(Messages)]]

-----------------------------------------------------------------------------
(* Safety.                                                                 *)

(* Two ends Connected over the same channel hold the same session: keys    *)
(* from the same two Hellos, the same mode and the same PAKE secret.       *)
SessionsAgree ==
  \A p \in Peer :
    keys[p] # None /\ keys[Other(p)] # None /\ chan[p] = chan[Other(p)]
      => keys[p] = keys[Other(p)]

(* A session exists only for a peer that took part: while the other end is *)
(* still on the channel it has signed this very transcript, and in PAKE    *)
(* mode it holds the same code.                                            *)
PeerProved ==
  \A p \in Peer :
    keys[p] # None /\ chan[p] = chan[Other(p)]
      => /\ hs[Other(p)].sigSent
         /\ hs[Other(p)].transcript = keys[p].t
         /\ keys[p].secret # None =>
              keys[p].secret.owner = None /\ code[p] = code[Other(p)]

(* Framing is never wired by a coroutine of an earlier handshake: the      *)
(* session in place is the one of the current generation, over the         *)
(* transcript that is still in force.                                      *)
SessionOf(p) ==
  /\ keys[p] # None => /\ keys[p].t.hello[p] = gen[p]
                       /\ keys[p].t = hs[p].transcript
  /\ (keys[p] # None) <=> (state[p] = "connected")

SessionIsCurrent == \A p \in Peer : SessionOf(p)

(* Outside a handshake or session nothing of one survives: no transport,   *)
(* no key material, no armed timer, no PAKE wait that could still be woken.*)
Quiet(p) ==
  /\ (chan[p] # 0) <=> (state[p] \in Live)
  /\ timer[p] <=> (state[p] \in {"handshaking", "verifying"})
  /\ chan[p] = 0 => /\ hs[p] = Blank
                    /\ keys[p] = None
                    /\ \A k \in tasks[p] : k.at \notin Parked

QuietWhenDown == \A p \in Peer : Quiet(p)

(* At most one coroutine completes a handshake, however often the peer's   *)
(* signature is delivered: the handshakeCompleting latch.                  *)
CompletesOnce(p) ==
  \A k, l \in tasks[p] : k.at \in Chain /\ l.at \in Chain /\ k.gen = l.gen => k = l

OneCompletion == \A p \in Peer : CompletesOnce(p)

(* Connected means the peer whose key is pinned: an endpoint that pinned   *)
(* somebody else never completes, one that pinned nobody pins first.       *)
ConnectedIsPinned ==
  \A p \in Peer : keys[p] # None => pinned[p] = "peer"

(* The session in place belongs to the handshake in force, was completed   *)
(* by one coroutine and talks to the pinned peer.                          *)
SessionsAreSound == SessionIsCurrent /\ OneCompletion /\ ConnectedIsPinned

(* A conversation is bricked only for cause.  Leaving, dropping, timing    *)
(* out and reordered or early messages never set the durable flag.         *)
AuthFailureHasCause ==
  [][\A p \in Peer : ~durable[p] /\ durable'[p]
       => code[p] # code[Other(p)] \/ pinned[p] = "stranger"]_vars

(* The in-memory flag that gates retry() never lags the durable one, across*)
(* restarts too: a dropped session of a bricked conversation stays down.   *)
BrickedStaysDown ==
  [][\A p \in Peer : durable[p] /\ state[p] = "disconnected"
                       => state'[p] \in {"disconnected", "idle"}]_vars

(* A failure surfaces only from the handshake that is running: nothing is  *)
(* reported, and nothing torn down, by the coroutine of a session that is  *)
(* already gone.                                                           *)
FailureIsCurrent ==
  [][\A p \in Peer : failure[p] = None /\ failure'[p] # None
       => chan[p] # 0 /\ failure'[p].origin = gen[p]]_vars

(* Every endpoint implements the lifecycle table: the validator in         *)
(* setState never throws.                                                  *)
Lifecycle == INSTANCE ConnectionStates WITH Endpoint <- Peer
LifecycleImplemented == Lifecycle!Spec

-----------------------------------------------------------------------------
(* What makes the safety properties inductive.                             *)

Woken == {"verify", "shareGot", "confirmGot", "check", "seal"}

(* The fields of a handshake are those of the current generation.          *)
FieldsAreCurrent(p) ==
  /\ chan[p] # 0 => gen[p] > 0
  /\ hs[p].own \in {0, gen[p]}
  /\ hs[p].transcript # None => /\ hs[p].own # 0 /\ hs[p].peer # 0
                                /\ hs[p].transcript.hello[p] = hs[p].own
  /\ state[p] = "verifying" => hs[p].completing

(* A coroutine, current or stale, is one that the handlers spawn; past the *)
(* TOFU check it either pins the peer itself or found the peer pinned.     *)
WellFormed(p, k) ==
  /\ k.gen <= gen[p]
  /\ k.at \in Chain => k.gen > 0 /\ k.t # None
  /\ k.at = "keygen" => k = Task("keygen", k.gen, None)
  /\ k.at \in Woken => k.got # None
  /\ k.at \in Chain \ {"verify", "tofu"} /\ ~k.first => pinned[p] = "peer"

(* A coroutine of the running handshake: the ephemeral key appears once,   *)
(* and the completion works on the transcript in force.                    *)
InStep(p, k) ==
  chan[p] # 0 /\ k.gen = gen[p] =>
    /\ k.at = "keygen" => hs[p].own = 0
    /\ k.at \in Chain =>
         /\ hs[p].completing /\ hs[p].transcript # None /\ k.t = hs[p].transcript
         /\ state[p] = IF k.at = "verify" THEN "handshaking" ELSE "verifying"

(* The durable flag is in the cache as soon as start() has read it.        *)
FlagIsCached(p) == durable[p] => authFailed[p] \/ state[p] = "idle"

Strengthening ==
  /\ shut[0]
  /\ \A p \in Peer : /\ FieldsAreCurrent(p)
                     /\ \A k \in tasks[p] : WellFormed(p, k) /\ InStep(p, k)
                     /\ FlagIsCached(p)

(* The inductive invariant the proofs use: the safety properties that hold *)
(* of one endpoint whatever the other one sends, and their strengthening.  *)
HandshakeInv ==
  /\ TypeOK
  /\ QuietWhenDown
  /\ SessionIsCurrent
  /\ OneCompletion
  /\ ConnectedIsPinned
  /\ Strengthening

-----------------------------------------------------------------------------
(* Liveness.                                                               *)

(* The whole-handshake bound: no silent peer parks a session in the        *)
(* handshake forever.                                                      *)
HandshakeEnds ==
  \A p \in Peer : state[p] \in {"handshaking", "verifying"}
                    ~> state[p] \notin {"handshaking", "verifying"}

(* Every coroutine settles: a PAKE wait is woken, timed out, or rejected by*)
(* the teardown; none is left behind with the secrets it holds.            *)
CoroutinesSettle ==
  \A p \in Peer : (\E k \in tasks[p] : k.at \in Chain)
                    ~> (\A k \in tasks[p] : k.at \notin Chain)

(* A handshake leaves nothing behind: it ends, and so do the coroutines    *)
(* that worked for it.                                                     *)
HandshakesSettle == HandshakeEnds /\ CoroutinesSettle
=============================================================================
