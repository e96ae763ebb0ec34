---------------------------- MODULE Negotiation ----------------------------
(***************************************************************************)
(* How two peers of a conversation turn two broker seats into one open     *)
(* data channel: the WebRTC bridge (runtime/webrtc-bridge.ts), the pair    *)
(* signaling client (signaling/signaling-client.ts) and the glare resolver *)
(* (signaling/state-machine.ts) of each peer.  Every await of the bridge   *)
(* is a point where the coroutine parks: an operation of the peer          *)
(* connection is a task of the connection's operation chain, and its       *)
(* continuation is the step that settles it.  The browser's peer           *)
(* connection and the broker (modelled in Broker) appear as far as the     *)
(* bridge uses them.  Candidates, SDP texts and ICE servers are left out.  *)
(***************************************************************************)
EXTENDS Naturals, Sequences, FiniteSets, SequencesExt

CONSTANTS Peer,        \* the two ends
          Polite,      \* the ends whose role is Responder
          Eager,       \* ends that may run a client that also offers when promoted
          None,
          Faults,      \* what may go wrong: "network", "reject"
          MaxSpawn,    \* bound on bridges and peer connections built per peer
          MaxFaults    \* bound on the faults of the network in a behaviour

ASSUME PeerAssumption == \E a, b \in Peer : a # b /\ Peer = {a, b}
ASSUME PoliteAssumption == Polite \subseteq Peer
ASSUME BoundAssumption == MaxSpawn \in Nat /\ MaxFaults \in Nat

VARIABLES
  orch,      \* of the conversation: waiting stands for Waiting and Signaling,
             \* attached for Handshaking to Connected, left for a closed bridge
  nego,      \* the bridge: NegotiationState, its generation and its latches
  client,    \* the signaling client: socket, peerPresent, the glare flag, and
             \* whether it is of a version that also offers when promoted
  pc,        \* the live peer connection
  tasks,     \* the operations in flight and the coroutines they resume
  wire,      \* broker messages on their way to the current socket
  faults     \* faults so far; more than MaxFaults when the browser rejected

vars == <<orch, nego, client, pc, tasks, wire, faults>>

Other(p) == CHOOSE q \in Peer : q # p

Channels == [by : Peer, n : Nat]
Offers   == [chan : Channels, gen : Nat]
(* An exchange joins the offer to the connection that answered it.         *)
Exchanges == [offer : Offers, answerer : Nat]

(* No exchange is the absence of one.                                      *)
ASSUME NoneAssumption == None \notin Exchanges

Message(kind, offer, answerer) == [kind |-> kind, offer |-> offer, answerer |-> answerer]

Steps == {"createOffer", "setOffer", "rollback", "setRemote", "createAnswer",
          "setAnswer", "applyAnswer"}

(* on: the connection whose chain holds the operation; gen: the generation *)
(* its coroutine captured when it started.                                 *)
Task(at, g, offer, answerer) ==
  [at |-> at, gen |-> g, on |-> g, offer |-> offer, answerer |-> answerer]

FreshNego(g, made) == [gen |-> g, inFlight |-> FALSE, chan |-> None, open |-> FALSE,
                       fired |-> FALSE, suppress |-> FALSE, timer |-> FALSE, made |-> made]
NoClient == [sock |-> "none", present |-> FALSE, glare |-> FALSE, eager |-> FALSE]
FreshPc  == [sig |-> "stable", live |-> None, exchange |-> None, arrived |-> None]

Init ==
  /\ orch = [p \in Peer |-> "left"]
  /\ nego = [p \in Peer |-> FreshNego(0, 0)]
  /\ \E legacy \in {{}, Eager} :
       client = [p \in Peer |-> [NoClient EXCEPT !.eager = p \in legacy]]
  /\ pc = [p \in Peer |-> FreshPc]
  /\ tasks = [p \in Peer |-> <<>>]
  /\ wire = [p \in Peer |-> <<>>]
  /\ faults = 0

-----------------------------------------------------------------------------
(* The broker, as the clients see it: it relays to the other seat, tells   *)
(* the seated peer of a join, and tells the one that stays of a socket     *)
(* that closed, but never of an explicit leave.                            *)

Seated(p) == client[p].sock = "open"

Relay(p, m) ==
  wire' = IF Seated(p) /\ Seated(Other(p))
          THEN [wire EXCEPT ![Other(p)] = Append(@, m)] ELSE wire

CloseSocket(p, told) ==
  wire' = [wire EXCEPT
             ![p] = <<>>,
             ![Other(p)] = IF told /\ Seated(p) /\ Seated(Other(p))
                           THEN Append(@, Message("leave", None, 0)) ELSE @]

-----------------------------------------------------------------------------
(* The bridge's helpers, as functions of the state they change.            *)

DiscardChannel(n) == [n EXCEPT !.chan = None, !.open = FALSE]

(* The local channel object of the connection is live until it is closed.  *)
CloseLocal(c, chan) == [c EXCEPT !.live = IF @ = chan THEN None ELSE @]

Released(n) ==
  [DiscardChannel(n) EXCEPT !.inFlight = FALSE, !.fired = FALSE,
                            !.timer = FALSE, !.suppress = FALSE]

EndOffer(c) == [c EXCEPT !.glare = FALSE]

(* Mutant: a drop before the transport is attached is not surfaced.        *)
DroppedAttached(o) == IF o = "attached" THEN "disconnected" ELSE o

(* notifyPeerLeft and notifySignalingClosed of the orchestrator.           *)
Dropped(o) == IF o \in {"waiting", "attached"} THEN "disconnected" ELSE o

(* The peer is gone: release first, then tell the orchestrator.            *)
PeerGone(p) ==
  /\ nego' = [nego EXCEPT ![p] = Released(@)]
  /\ pc' = [pc EXCEPT ![p] = CloseLocal(@, nego[p].chan)]
  /\ orch' = [orch EXCEPT ![p] = Dropped(@)]

(* recordChannel is first-wins.                                            *)
Recorded(n, chan) == IF n.chan = None THEN [n EXCEPT !.chan = chan] ELSE n

(* maybeFireTransportReady: the attach throws unless the orchestrator      *)
(* waits for a transport, and a throw latches nothing.                     *)
Ready(p, n) == ~n.fired /\ n.chan # None /\ n.open /\ orch[p] = "waiting"

MaybeFire(p, n) ==
  /\ nego' = [nego EXCEPT ![p] =
                IF Ready(p, n)
                THEN [n EXCEPT !.fired = TRUE, !.suppress = TRUE, !.timer = TRUE]
                ELSE n]
  /\ orch' = [orch EXCEPT ![p] = IF Ready(p, n) THEN "attached" ELSE @]

-----------------------------------------------------------------------------
(* Calls of the controller.                                                *)

(* A conversation is started or resumed: a new bridge dials the broker.    *)
Start(p) ==
  /\ orch[p] = "left"
  /\ nego[p].gen < MaxSpawn
  /\ orch' = [orch EXCEPT ![p] = "waiting"]
  /\ nego' = [nego EXCEPT ![p] = FreshNego(@.gen + 1, @.made)]
  /\ client' = [client EXCEPT ![p] = [NoClient EXCEPT !.sock = "dialing", !.eager = client[p].eager]]
  /\ pc' = [pc EXCEPT ![p] = FreshPc]
  /\ UNCHANGED <<tasks, wire, faults>>

(* Mutant: a pending grace teardown survives the fresh dial.               *)
ReconnectTimerKept(p) ==
  /\ orch[p] = "disconnected"
  /\ nego[p].gen < MaxSpawn
  /\ orch' = [orch EXCEPT ![p] = "waiting"]
  /\ nego' = [nego EXCEPT ![p] = [FreshNego(@.gen + 1, @.made) EXCEPT
                                    !.timer = nego[p].timer]]
  /\ pc' = [pc EXCEPT ![p] = FreshPc]
  /\ CloseSocket(p, FALSE)
  /\ client' = [client EXCEPT ![p] = [NoClient EXCEPT !.sock = "dialing", !.eager = client[p].eager]]
  /\ UNCHANGED <<tasks, faults>>

(* retry(): the orchestrator waits again and the bridge reconnects, with a *)
(* silent leave of a seat it still holds.                                  *)
Reconnect(p) ==
  /\ orch[p] = "disconnected"
  /\ nego[p].gen < MaxSpawn
  /\ orch' = [orch EXCEPT ![p] = "waiting"]
  /\ nego' = [nego EXCEPT ![p] = FreshNego(@.gen + 1, @.made)]
  /\ pc' = [pc EXCEPT ![p] = FreshPc]
  /\ CloseSocket(p, FALSE)
  /\ client' = [client EXCEPT ![p] = [NoClient EXCEPT !.sock = "dialing", !.eager = client[p].eager]]
  /\ UNCHANGED <<tasks, faults>>

(* leaveConversation: the bridge closes its socket and its connection.     *)
Close(p) ==
  /\ orch[p] # "left"
  /\ nego[p].gen < MaxSpawn
  /\ orch' = [orch EXCEPT ![p] = "left"]
  /\ nego' = [nego EXCEPT ![p] = FreshNego(@.gen, @.made)]
  /\ pc' = [pc EXCEPT ![p] = FreshPc]
  /\ CloseSocket(p, TRUE)
  /\ client' = [client EXCEPT ![p] = [NoClient EXCEPT !.eager = client[p].eager]]
  /\ tasks' = [tasks EXCEPT ![p] = <<>>]
  /\ UNCHANGED faults

(* The handshake over the channel fails or times out, the peer's Leave     *)
(* arrives: the orchestrator tears its session down and closes the channel.*)
SessionEnds(p) ==
  /\ orch[p] = "attached"
  /\ orch' = [orch EXCEPT ![p] = "disconnected"]
  /\ nego' = [nego EXCEPT ![p].open = FALSE]
  /\ pc' = [pc EXCEPT ![p] = CloseLocal(@, nego[p].chan)]
  /\ UNCHANGED <<client, tasks, wire, faults>>

-----------------------------------------------------------------------------
(* Events of the signaling socket.                                         *)

SocketOpen(p) ==
  /\ client[p].sock = "dialing"
  /\ client' = [client EXCEPT ![p].sock = "open"]
  /\ wire' = IF Seated(Other(p))
             THEN [wire EXCEPT ![Other(p)] = Append(@, Message("join", None, 0))]
             ELSE wire
  /\ UNCHANGED <<orch, nego, pc, tasks, faults>>

(* handleClose of a socket the peer did not close itself.                  *)
SocketDrop(p) ==
  /\ client[p].sock # "none"
  /\ "network" \in Faults /\ faults < MaxFaults
  /\ faults' = faults + 1
  /\ client' = [client EXCEPT ![p] = [NoClient EXCEPT !.eager = client[p].eager]]
  /\ CloseSocket(p, TRUE)
  /\ IF client[p].present THEN PeerGone(p)
     ELSE /\ orch' = [orch EXCEPT ![p] = IF nego[p].suppress THEN @ ELSE Dropped(@)]
          /\ UNCHANGED <<nego, pc>>
  /\ UNCHANGED tasks

(* The grace timer: signalP2pOpen relays a leave and closes the socket.    *)
GraceExpires(p) ==
  /\ nego[p].timer
  /\ nego' = [nego EXCEPT ![p].timer = FALSE]
  /\ CloseSocket(p, FALSE)
  /\ client' = [client EXCEPT ![p] = [NoClient EXCEPT !.eager = client[p].eager]]
  /\ UNCHANGED <<orch, pc, tasks, faults>>

Take(p) == wire' = [wire EXCEPT ![p] = Tail(@)]

(* handlePeerJoin: every join is a fresh presence edge.  The offer starts  *)
(* at once: the resolver is armed, the channel made and recorded.  A local *)
(* channel that is still live would make createDataChannel throw; that it  *)
(* never is, is part of WaitingIsUnlatched.                                *)
Originates(p) ==
  LET stale == nego[p].chan # None \/ nego[p].inFlight
      n == IF stale THEN Released(nego[p]) ELSE nego[p]
      c == [by |-> p, n |-> n.made + 1]
  IN /\ client' = [client EXCEPT ![p].present = TRUE, ![p].glare = TRUE]
     /\ nego' = [nego EXCEPT ![p] =
                   [Recorded(n, c) EXCEPT !.inFlight = TRUE, !.made = @ + 1]]
     /\ pc' = [pc EXCEPT ![p] = [IF stale THEN CloseLocal(@, nego[p].chan) ELSE @
                                EXCEPT !.live = c]]
     /\ tasks' = [tasks EXCEPT ![p] = Append(@,
                    Task("createOffer", n.gen, [chan |-> c, gen |-> n.gen], 0))]
     /\ UNCHANGED <<orch, faults>>

DeliverJoin(p) ==
  /\ wire[p] # <<>> /\ Head(wire[p]).kind = "join"
  /\ Take(p)
  /\ Originates(p)

DeliverLeave(p) ==
  /\ wire[p] # <<>> /\ Head(wire[p]).kind = "leave"
  /\ Take(p)
  /\ IF client[p].present
     THEN /\ client' = [client EXCEPT ![p].present = FALSE, ![p].glare = FALSE]
          /\ PeerGone(p)
     ELSE UNCHANGED <<client, nego, pc, orch>>
  /\ UNCHANGED <<tasks, faults>>

(* onRemoteOffer of the resolver: the impolite side ignores an offer that  *)
(* collides with its own.                                                  *)
Ignores(p) == client[p].glare /\ p \notin Polite

(* Mutant: every promotion originates an offer.                            *)
PromotesAlways(p) == ~client[p].present

(* An end that runs a client from before the promotion became presence-    *)
(* only offers itself when an offer makes the peer present.                *)
Promotes(p) == client[p].eager /\ ~client[p].present

CounterOffer(p) ==
  /\ wire[p] # <<>> /\ Head(wire[p]).kind = "offer"
  /\ Promotes(p)
  /\ Originates(p)
  /\ UNCHANGED wire

DeliverOffer(p) ==
  LET m == Head(wire[p]) IN
  /\ wire[p] # <<>> /\ m.kind = "offer"
  /\ ~Promotes(p)
  /\ Take(p)
  /\ client' = [client EXCEPT ![p].present = TRUE]
  /\ tasks' = [tasks EXCEPT ![p] =
                 IF Ignores(p) THEN @
                 ELSE Append(@, Task(IF nego[p].inFlight THEN "rollback" ELSE "setRemote",
                                     nego[p].gen, m.offer, 0))]
  /\ UNCHANGED <<orch, nego, pc, faults>>

DeliverAnswer(p) ==
  LET m == Head(wire[p]) IN
  /\ wire[p] # <<>> /\ m.kind = "answer"
  /\ Take(p)
  /\ client' = [client EXCEPT ![p].present = TRUE, ![p].glare = FALSE]
  /\ nego' = [nego EXCEPT ![p].inFlight = FALSE]
  /\ tasks' = [tasks EXCEPT ![p] = Append(@,
                 Task("applyAnswer", nego[p].gen, m.offer, m.answerer))]
  /\ UNCHANGED <<orch, pc, faults>>

Deliver(p) == \/ DeliverJoin(p) \/ DeliverLeave(p) \/ DeliverAnswer(p)
              \/ CounterOffer(p) \/ DeliverOffer(p)

-----------------------------------------------------------------------------
(* The peer connection: operations of one connection settle in the order   *)
(* they were called.  An operation of a replaced connection resolves or    *)
(* rejects at any time and changes nothing.                                *)

IsNext(p, i) == \A j \in 1..(i - 1) : tasks[p][j].on # tasks[p][i].on

Current(p, k) == k.on = nego[p].gen

(* The signaling states in which an operation succeeds.                    *)
Accepts(at) ==
  CASE at = "createOffer"  -> {"stable", "haveLocalOffer"}
    [] at = "setOffer"     -> {"stable", "haveLocalOffer"}
    [] at = "rollback"     -> {"haveLocalOffer", "haveRemoteOffer"}
    [] at = "setRemote"    -> {"stable", "haveLocalOffer", "haveRemoteOffer"}
    [] at = "createAnswer" -> {"haveRemoteOffer"}
    [] at = "setAnswer"    -> {"haveRemoteOffer"}
    [] at = "applyAnswer"  -> {"haveLocalOffer"}

Resolves(p, k) == Current(p, k) => pc[p].sig \in Accepts(k.at)

(* An operation may also fail for the browser's own reasons.               *)
Rejects(p, k) == \/ ~Current(p, k)
                 \/ pc[p].sig \notin Accepts(k.at)
                 \/ "reject" \in Faults /\ faults < MaxFaults

(* What a resolved operation does to its connection.                       *)
Applied(c, k) ==
  CASE k.at = "setOffer"    -> [c EXCEPT !.sig = "haveLocalOffer"]
    [] k.at = "rollback"    -> [c EXCEPT !.sig = "stable"]
    [] k.at = "setRemote"   -> [c EXCEPT !.sig = "haveRemoteOffer"]
    [] k.at = "setAnswer"   -> [c EXCEPT !.sig = "stable", !.arrived = None,
                                 !.exchange = [offer |-> k.offer, answerer |-> k.on]]
    [] k.at = "applyAnswer" -> [c EXCEPT !.sig = "stable", !.arrived = None,
                                 !.exchange = [offer |-> k.offer, answerer |-> k.answerer]]
    [] OTHER -> c

Settled(p, k) == IF Current(p, k) THEN Applied(pc[p], k) ELSE pc[p]

(* The task at index i is done, or goes on with its next operation, which  *)
(* is called on the connection that is live by then.                       *)
Done(p, i) == tasks' = [tasks EXCEPT ![p] = RemoveAt(@, i)]

Continue(p, i, at) ==
  tasks' = [tasks EXCEPT ![p] =
              Append(RemoveAt(@, i), [@[i] EXCEPT !.at = at, !.on = nego[p].gen])]

(* The rejection is the last fault of a behaviour.                         *)
BrowserRejected == faults > MaxFaults

Fault(p, k) ==
  faults' = IF Current(p, k) /\ pc[p].sig \in Accepts(k.at) THEN MaxFaults + 1 ELSE faults

Owns(p, k) == k.gen = nego[p].gen

(* Mutant: the flag alone decides, as before the channel was compared.     *)
IsLiveOfferByFlag(p, k) == Owns(p, k) /\ nego[p].inFlight

(* isLiveOffer.                                                            *)
IsLiveOffer(p, k) == Owns(p, k) /\ nego[p].inFlight /\ nego[p].chan = k.offer.chan

(* createOffer resolves: set it, or abandon a superseded offer.            *)
OfferCreated(p, i, k) ==
  /\ k.at = "createOffer"
  /\ IF IsLiveOffer(p, k)
     THEN Continue(p, i, "setOffer") /\ UNCHANGED pc
     ELSE Done(p, i) /\ pc' = [pc EXCEPT ![p] = CloseLocal(@, k.offer.chan)]
  /\ UNCHANGED <<orch, nego, client, wire, faults>>

(* setLocalDescription resolves: the offer goes out, and arms the resolver *)
(* again only when the socket took it.                                     *)
OfferSet(p, i, k) ==
  /\ k.at = "setOffer"
  /\ Done(p, i)
  /\ IF IsLiveOffer(p, k)
     THEN /\ Relay(p, Message("offer", k.offer, 0))
          /\ client' = [client EXCEPT ![p].glare = @ \/ Seated(p)]
          /\ pc' = [pc EXCEPT ![p] = Settled(p, k)]
     ELSE /\ pc' = [pc EXCEPT ![p] = CloseLocal(Settled(p, k), k.offer.chan)]
          /\ UNCHANGED <<client, wire>>
  /\ UNCHANGED <<orch, nego, faults>>

(* The catch of initiateOffer.  Its clears do not know whose flags they    *)
(* are: a newer attempt of the same generation is disarmed too.            *)
OfferFails(p, i, k) ==
  /\ k.at \in {"createOffer", "setOffer"}
  /\ Done(p, i)
  /\ pc' = [pc EXCEPT ![p] = CloseLocal(@, k.offer.chan)]
  /\ IF Owns(p, k)
     THEN /\ nego' = [nego EXCEPT ![p] =
                        IF nego[p].chan = k.offer.chan
                        THEN [DiscardChannel(nego[p]) EXCEPT !.inFlight = FALSE]
                        ELSE [nego[p] EXCEPT !.inFlight = FALSE]]
          /\ client' = [client EXCEPT ![p] = EndOffer(@)]
     ELSE UNCHANGED <<nego, client>>
  /\ Fault(p, k)
  /\ UNCHANGED <<orch, wire>>

(* Mutant: the rolled-back offer's channel stays adopted.                  *)
RolledBackChannelKept(p, i, k) ==
  /\ k.at = "rollback"
  /\ IF Owns(p, k)
     THEN /\ nego' = [nego EXCEPT ![p].inFlight = FALSE]
          /\ client' = [client EXCEPT ![p] = EndOffer(@)]
          /\ pc' = [pc EXCEPT ![p] = Settled(p, k)]
          /\ Continue(p, i, "setRemote")
     ELSE Done(p, i) /\ UNCHANGED <<nego, client, pc>>
  /\ UNCHANGED <<orch, wire, faults>>

(* The local offer is rolled back: its channel is dead and makes room for  *)
(* the answering side's.                                                   *)
RolledBack(p, i, k) ==
  /\ k.at = "rollback"
  /\ IF Owns(p, k)
     THEN /\ nego' = [nego EXCEPT ![p] = [DiscardChannel(@) EXCEPT !.inFlight = FALSE]]
          /\ client' = [client EXCEPT ![p] = EndOffer(@)]
          /\ pc' = [pc EXCEPT ![p] = CloseLocal(Settled(p, k), nego[p].chan)]
          /\ Continue(p, i, "setRemote")
     ELSE Done(p, i) /\ UNCHANGED <<nego, client, pc>>
  /\ UNCHANGED <<orch, wire, faults>>

(* A failed rollback is a peer drop.                                       *)
RollbackFails(p, i, k) ==
  /\ k.at = "rollback"
  /\ Done(p, i)
  /\ IF Owns(p, k)
     THEN /\ nego' = [nego EXCEPT ![p] = [DiscardChannel(@) EXCEPT !.inFlight = FALSE]]
          /\ client' = [client EXCEPT ![p] = EndOffer(@)]
          /\ pc' = [pc EXCEPT ![p] = CloseLocal(@, nego[p].chan)]
          /\ orch' = [orch EXCEPT ![p] = Dropped(@)]
     ELSE UNCHANGED <<nego, client, pc, orch>>
  /\ Fault(p, k)
  /\ UNCHANGED wire

(* setRemoteDescription or createAnswer resolves.                          *)
AnswerAdvances(p, i, k) ==
  /\ k.at \in {"setRemote", "createAnswer"}
  /\ IF Owns(p, k)
     THEN Continue(p, i, IF k.at = "setRemote" THEN "createAnswer" ELSE "setAnswer")
     ELSE Done(p, i)
  /\ pc' = [pc EXCEPT ![p] = Settled(p, k)]
  /\ UNCHANGED <<orch, nego, client, wire, faults>>

AnswerSet(p, i, k) ==
  /\ k.at = "setAnswer"
  /\ Done(p, i)
  /\ pc' = [pc EXCEPT ![p] = Settled(p, k)]
  /\ IF Owns(p, k) THEN Relay(p, Message("answer", k.offer, k.on)) ELSE UNCHANGED wire
  /\ UNCHANGED <<orch, nego, client, faults>>

(* The catch of handleRemoteOffer keeps a channel that carries a session.  *)
AnswerFails(p, i, k) ==
  /\ k.at \in {"setRemote", "createAnswer", "setAnswer"}
  /\ Done(p, i)
  /\ IF Owns(p, k) /\ ~nego[p].fired
     THEN /\ nego' = [nego EXCEPT ![p] = DiscardChannel(@)]
          /\ pc' = [pc EXCEPT ![p] = CloseLocal(@, nego[p].chan)]
     ELSE UNCHANGED <<nego, pc>>
  /\ Fault(p, k)
  /\ UNCHANGED <<orch, client, wire>>

(* setRemoteDescription of an answer has no continuation.                  *)
AnswerApplied(p, i, k) ==
  /\ k.at = "applyAnswer"
  /\ Done(p, i)
  /\ pc' = [pc EXCEPT ![p] = Settled(p, k)]
  /\ UNCHANGED <<orch, nego, client, wire, faults>>

AnswerRefused(p, i, k) ==
  /\ k.at = "applyAnswer"
  /\ Done(p, i)
  /\ Fault(p, k)
  /\ UNCHANGED <<orch, nego, client, pc, wire>>

Settle(p) ==
  \E i \in DOMAIN tasks[p] :
    /\ IsNext(p, i)
    /\ LET k == tasks[p][i] IN
       \/ /\ Resolves(p, k)
          /\ \/ OfferCreated(p, i, k)
             \/ OfferSet(p, i, k)
             \/ RolledBack(p, i, k)
             \/ AnswerAdvances(p, i, k)
             \/ AnswerSet(p, i, k)
             \/ AnswerApplied(p, i, k)
       \/ /\ Rejects(p, k)
          /\ \/ OfferFails(p, i, k)
             \/ RollbackFails(p, i, k)
             \/ AnswerFails(p, i, k)
             \/ AnswerRefused(p, i, k)

-----------------------------------------------------------------------------
(* Events of the peer connection.                                          *)

(* The two live connections completed the same exchange with each other.   *)
OwnExchange(p) ==
  /\ pc[p].exchange # None
  /\ IF pc[p].exchange.offer.chan.by = p
     THEN pc[p].exchange.offer.gen = nego[p].gen
     ELSE pc[p].exchange.answerer = nego[p].gen

Linked == /\ \A p \in Peer : OwnExchange(p)
          /\ \A p, q \in Peer : pc[p].exchange = pc[q].exchange

(* onDataChannel: a live local channel of the other end arrives, whichever *)
(* end's offer joined the connections.                                     *)
ChannelArrives(p) ==
  LET theirs == pc[Other(p)].live IN
  /\ Linked
  /\ theirs \notin {None, pc[p].arrived}
  /\ pc' = [pc EXCEPT ![p].arrived = theirs]
  /\ nego' = [nego EXCEPT ![p] = Recorded(@, theirs)]
  /\ UNCHANGED <<orch, client, tasks, wire, faults>>

(* The open event of the adopted channel, the end's own or the one that    *)
(* arrived.  (The channel of a session that ended is closed and stays so.) *)
ChannelOpens(p) ==
  /\ Linked
  /\ nego[p].chan \in {pc[p].live, pc[p].arrived} \ {None} /\ ~nego[p].open
  /\ orch[p] # "disconnected"
  /\ MaybeFire(p, [nego[p] EXCEPT !.open = TRUE])
  /\ UNCHANGED <<client, pc, tasks, wire, faults>>

(* failed or closed: the connection completed an exchange with a           *)
(* connection that is gone or that completed another one, or the network   *)
(* went away.                                                              *)
ConnectionFails(p) ==
  /\ orch[p] # "left"
  /\ pc[p].exchange # None
  /\ \/ ~Linked /\ UNCHANGED faults
     \/ Linked /\ "network" \in Faults /\ faults < MaxFaults /\ faults' = faults + 1
  /\ nego' = [nego EXCEPT ![p] = Released(@)]
  /\ client' = [client EXCEPT ![p] = EndOffer(@)]
  /\ pc' = [pc EXCEPT ![p] = [CloseLocal(@, nego[p].chan) EXCEPT !.exchange = None]]
  /\ orch' = [orch EXCEPT ![p] = Dropped(@)]
  /\ UNCHANGED <<tasks, wire>>

-----------------------------------------------------------------------------
Events(p) == \/ SocketOpen(p)
             \/ Deliver(p)
             \/ Settle(p)
             \/ ChannelArrives(p)
             \/ ChannelOpens(p)
             \/ GraceExpires(p)

Next == \E p \in Peer :
          \/ Start(p) \/ Reconnect(p) \/ Close(p) \/ SessionEnds(p)
          \/ SocketDrop(p) \/ ConnectionFails(p)
          \/ Events(p)

Spec == Init /\ [][Next]_vars

Together == /\ Linked
            /\ \A p \in Peer : nego[p].fired /\ nego[p].chan = nego[Other(p)].chan

(* Promises resolve, sockets and messages make progress, ICE gives up on   *)
(* a connection that cannot be completed, and the handshake timeout ends   *)
(* an attached session whose peer is not attached to the same channel.     *)
Fairness == \A p \in Peer : /\ WF_vars(Events(p))
                            /\ WF_vars(~Linked /\ ConnectionFails(p))
                            /\ WF_vars(~Together /\ SessionEnds(p))

FairSpec == Spec /\ Fairness

-----------------------------------------------------------------------------
TypeOK ==
  /\ orch \in [Peer -> {"left", "waiting", "attached", "disconnected"}]
  /\ nego \in [Peer -> [gen : Nat, inFlight : BOOLEAN, chan : Channels \cup {None},
                        open : BOOLEAN, fired : BOOLEAN, suppress : BOOLEAN,
                        timer : BOOLEAN, made : Nat]]
  /\ client \in [Peer -> [sock : {"none", "dialing", "open"}, present : BOOLEAN,
                          glare : BOOLEAN, eager : BOOLEAN]]
  /\ pc \in [Peer -> [sig : {"stable", "haveLocalOffer", "haveRemoteOffer"},
                      live : Channels \cup {None}, exchange : Exchanges \cup {None},
                      arrived : Channels \cup {None}]]
  /\ tasks \in [Peer -> Seq([at : Steps, gen : Nat, on : Nat, offer : Offers,
                             answerer : Nat])]
  /\ wire \in [Peer -> Seq([kind : {"join", "leave", "offer", "answer"},
                            offer : Offers \cup {None}, answerer : Nat])]
  /\ faults \in 0..(MaxFaults + 1)

(* When both ends told their orchestrators that the transport is ready and *)
(* their connections are connected with each other, both hold the same     *)
(* channel: never each its own, on which every frame of the other is       *)
(* silently lost.                                                          *)
SameChannel ==
  Linked /\ (\A p \in Peer : nego[p].fired)
    => \A p \in Peer : nego[p].chan = nego[Other(p)].chan

(* A bridge whose orchestrator waits for a transport has no latch of an    *)
(* earlier session: a fired readiness would swallow the next channel, and  *)
(* a grace timer would close the fresh socket.  Latches belong to an       *)
(* adopted channel, and no local channel outlives its adoption, so         *)
(* createDataChannel never throws.                                         *)
WaitingIsUnlatched ==
  \A p \in Peer : /\ nego[p].timer \/ nego[p].suppress => nego[p].fired
                  /\ nego[p].fired => orch[p] # "waiting" /\ nego[p].chan # None
                  /\ pc[p].live \in {None, nego[p].chan}

(* Only the seated end originates, so with two bridges of this version     *)
(* offers never cross, however sockets drop and re-dial: whoever dialed    *)
(* last has no offer in flight.                                            *)
OffersNeverCross ==
  (\A p \in Peer : nego[p].inFlight) => \E p \in Peer : client[p].eager

(* Bridges take their turns: one that waits is free to take the next       *)
(* channel, and of two that negotiate only one offers.                     *)
InTurn == WaitingIsUnlatched /\ OffersNeverCross

OfferSent(p) == /\ Len(wire'[Other(p)]) = Len(wire[Other(p)]) + 1
                /\ Last(wire'[Other(p)]).kind = "offer"

(* An offer that reaches the wire is the one its bridge stands by: of the  *)
(* live connection, set on it, for the adopted channel, and with the glare *)
(* resolver armed.  A parked coroutine that wakes after a reconnect, a     *)
(* rollback or a newer join never sends.                                   *)
NoStaleOffer ==
  [][\A p \in Peer : OfferSent(p) =>
       LET o == Last(wire'[Other(p)]).offer IN
       /\ o = [chan |-> nego'[p].chan, gen |-> nego'[p].gen]
       /\ pc'[p].sig = "haveLocalOffer"
       /\ client'[p].glare]_vars

(* Two ends of this version that keep waiting end up attached to one       *)
(* channel, unless the drop of one was surfaced or the browser rejected an *)
(* operation: no interleaving of drops, re-dials and parked coroutines is  *)
(* a silent stall.                                                         *)
Converges ==
  []<>(\/ Together
       \/ \E p \in Peer : orch[p] \in {"left", "disconnected"} \/ client[p].eager
       \/ BrowserRejected)

(* While the close of the broker socket is suppressed (the channel is up,  *)
(* the grace period runs), a socket that closes is not surfaced to the     *)
(* orchestrator as a drop of the peer.                                     *)
GraceCloseIsQuiet ==
  [][\A p \in Peer : nego[p].suppress /\ Seated(p) /\ ~Seated(p)'
       => orch'[p] \in {orch[p], "left"}]_vars

=============================================================================
