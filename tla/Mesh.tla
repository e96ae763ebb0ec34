-------------------------------- MODULE Mesh --------------------------------
(***************************************************************************)
(* The peer connections of a group: one GroupWebrtcManager per seat        *)
(* (runtime/group-webrtc-manager.ts) with its GroupSignalingClient         *)
(* (signaling/group-signaling-client.ts), and the host that pairs it with  *)
(* a group session (runtime/group-session-host.ts).  Seated members offer  *)
(* to a newcomer, a pair whose connection failed is re-signalled by the    *)
(* member that offered, and every open channel becomes a link of the       *)
(* session.                                                                *)
(*                                                                         *)
(* A connection is named by its seat and a number.  It makes one channel   *)
(* at most, so the channel has its name; and a link's generation changes   *)
(* exactly when its connection does, so the number stands for both.  The   *)
(* awaits of runOffer are one parked step, those of answerRemoteOffer      *)
(* another: each resumes with the same test.  What the session does with a *)
(* link is in module Group, the broker in module Broker.                   *)
(***************************************************************************)
EXTENDS Naturals, Sequences, FiniteSets, SequencesExt

CONSTANTS Seat,       \* peer ids, ordered; one manager each: numbers from 1
          MaxPeers,   \* maxMembers - 1
          None,
          Faults,     \* "drop": a socket, "ice": a connection, "reject": the browser
          MaxFaults   \* bound on the faults in a behaviour

VARIABLES
  seat,      \* the life of the manager and of its socket
  present,   \* the client's presence set
  links,     \* links[p][q]: the PeerLink, pc 0 when there is none
  session,   \* the peers the group session holds a link for
  parked,    \* coroutines of the manager that wait for the browser
  wire,      \* what the broker has sent to each socket
  made,      \* connections made by each seat
  faults     \* faults so far

vars == <<seat, present, links, session, parked, wire, made, faults>>

Channels == [by : Seat, n : Nat]
(* An exchange: the offering connection and the number of the answering    *)
(* one.                                                                    *)
Exchange == [offer : Channels, answer : Nat]
Link == [pc : Nat, chan : Channels \cup {None}, inFlight : BOOLEAN, offered : BOOLEAN,
         seatedByUs : BOOLEAN, attached : BOOLEAN, ex : Exchange \cup {None}]

FreshLink(n) == [pc |-> n, chan |-> None, inFlight |-> FALSE, offered |-> FALSE,
                 seatedByUs |-> FALSE, attached |-> FALSE, ex |-> None]
NoLink == FreshLink(0)

Init ==
  /\ seat = [p \in Seat |-> "new"]
  /\ present = [p \in Seat |-> {}]
  /\ links = [p \in Seat |-> [q \in Seat |-> NoLink]]
  /\ session = [p \in Seat |-> {}]
  /\ parked = [p \in Seat |-> {}]
  /\ wire = [p \in Seat |-> <<>>]
  /\ made = [p \in Seat |-> 0]
  /\ faults = 0

-----------------------------------------------------------------------------
(* The broker relays to the seat a message names and tells every other     *)
(* seat of a join, of a leave and of a socket that closed.                 *)

Seated(p) == seat[p] = "open"

Message(kind, from, offer, answer) ==
  [kind |-> kind, from |-> from, offer |-> offer, answer |-> answer]

Told(w, p, kind) ==
  [q \in Seat |-> IF q # p /\ Seated(q)
                  THEN Append(w[q], Message(kind, p, None, 0)) ELSE w[q]]

Relayed(w, p, q, m) ==
  IF Seated(p) /\ Seated(q) THEN [w EXCEPT ![q] = Append(@, m)] ELSE w

-----------------------------------------------------------------------------
(* Links of a manager, as functions of its row.                            *)

LinkedTo(p) == {q \in Seat : links[p][q].pc # 0}
IsFull(p) == Cardinality(LinkedTo(p)) >= MaxPeers

(* createLink, or resetLink onto a fresh connection; the role survives a   *)
(* reset.                                                                  *)
Rebuilt(p, q) == [FreshLink(made[p] + 1) EXCEPT !.seatedByUs = links[p][q].seatedByUs]

(* The synchronous part of runOffer on a fresh connection of p.            *)
Armed(p, l) == [l EXCEPT !.inFlight = TRUE, !.chan = [by |-> p, n |-> l.pc]]

Parked(kind, q, n, offer) == [kind |-> kind, with |-> q, pc |-> n, offer |-> offer]

(* p makes a connection for q, and offers on it if it is its turn.         *)
Dial(p, q, l, offers) ==
  /\ made' = [made EXCEPT ![p] = @ + 1]
  /\ links' = [links EXCEPT ![p][q] = IF offers THEN Armed(p, l) ELSE l]
  /\ parked' = IF offers
               THEN [parked EXCEPT ![p] = @ \cup {Parked("offer", q, l.pc, None)}]
               ELSE parked

(* dropLink of the session.                                                *)
DropLink(p, q) == session' = [session EXCEPT ![p] = @ \ {q}]

(* Mutant: the pair is removed but the session keeps its link.             *)
TeardownKeepsSession(p, q) ==
  /\ links' = [links EXCEPT ![p][q] = NoLink]
  /\ UNCHANGED session

(* teardownLink.                                                           *)
Teardown(p, q) ==
  /\ links' = [links EXCEPT ![p][q] = NoLink]
  /\ DropLink(p, q)

-----------------------------------------------------------------------------
(* The seat.                                                               *)

Connect(p) ==
  /\ seat[p] = "new"
  /\ seat' = [seat EXCEPT ![p] = "dialing"]
  /\ UNCHANGED <<present, links, session, parked, wire, made, faults>>

SocketOpen(p) ==
  /\ seat[p] = "dialing"
  /\ seat' = [seat EXCEPT ![p] = "open"]
  /\ wire' = Told(wire, p, "join")
  /\ UNCHANGED <<present, links, session, parked, made, faults>>

(* finishGroup: session and manager end together, whichever ended first.   *)
Finish(p) ==
  /\ seat' = [seat EXCEPT ![p] = "gone"]
  /\ present' = [present EXCEPT ![p] = {}]
  /\ links' = [links EXCEPT ![p] = [q \in Seat |-> NoLink]]
  /\ session' = [session EXCEPT ![p] = {}]
  /\ parked' = [parked EXCEPT ![p] = {}]
  /\ wire' = [(IF Seated(p) THEN Told(wire, p, "leave") ELSE wire) EXCEPT ![p] = <<>>]
  /\ UNCHANGED made

(* leaveGroup, or the session ejects itself.                               *)
Leave(p) ==
  /\ seat[p] \in {"dialing", "open"}
  /\ Finish(p)
  /\ UNCHANGED faults

(* handleClose: every present peer is surfaced as a leave, the closed      *)
(* socket ends the session, and that the manager.                          *)
SocketDrop(p) ==
  /\ "drop" \in Faults /\ faults < MaxFaults
  /\ faults' = faults + 1
  /\ seat[p] \in {"dialing", "open"}
  /\ Finish(p)

-----------------------------------------------------------------------------
(* Messages of the broker.                                                 *)

Takes(p, kind) ==
  /\ wire[p] # <<>> /\ Head(wire[p]).kind = kind
  /\ wire' = [wire EXCEPT ![p] = Tail(@)]

Promote(p, q) == present' = [present EXCEPT ![p] = @ \cup {q}]

(* handlePeerJoin: the seated member originates, unless it is full.        *)
DeliverJoin(p) ==
  LET q == Head(wire[p]).from IN
  /\ Takes(p, "join")
  /\ Promote(p, q)
  /\ IF links[p][q].pc = 0 /\ IsFull(p)
     THEN UNCHANGED <<links, made, parked, session>>
     ELSE /\ Dial(p, q, [Rebuilt(p, q) EXCEPT !.seatedByUs = TRUE], TRUE)
          /\ DropLink(p, q)
  /\ UNCHANGED <<seat, faults>>

DeliverLeave(p) ==
  LET q == Head(wire[p]).from IN
  /\ Takes(p, "leave")
  /\ present' = [present EXCEPT ![p] = @ \ {q}]
  /\ IF q \in present[p] THEN Teardown(p, q) ELSE UNCHANGED <<links, session>>
  /\ UNCHANGED <<seat, parked, made, faults>>

(* Mutant: an offer that makes the peer present is answered by a           *)
(* counter-offer, as in the 1:1 client of old.                             *)
DeliverOfferPromotes(p) ==
  LET m == Head(wire[p])
      q == m.from
  IN
  /\ Takes(p, "offer")
  /\ Promote(p, q)
  /\ IF links[p][q].pc = 0
     THEN Dial(p, q, [Rebuilt(p, q) EXCEPT !.seatedByUs = TRUE], TRUE)
     ELSE /\ parked' = [parked EXCEPT ![p] = @ \cup
                          {Parked("answer", q, links[p][q].pc, m.offer)}]
          /\ UNCHANGED <<links, made>>
  /\ UNCHANGED <<seat, session, faults>>

(* handleRemoteOffer: a newcomer makes its link now.  In a glare the       *)
(* smaller id ignores the offer, the larger rolls its own back.            *)
DeliverOffer(p) ==
  LET m == Head(wire[p])
      q == m.from
      glare == links[p][q].inFlight
      l == IF links[p][q].pc = 0 THEN FreshLink(made[p] + 1)
           ELSE IF glare THEN [links[p][q] EXCEPT !.inFlight = FALSE, !.offered = FALSE,
                                                  !.chan = None]
           ELSE links[p][q]
  IN
  /\ Takes(p, "offer")
  /\ Promote(p, q)
  /\ IF (links[p][q].pc = 0 /\ IsFull(p)) \/ (glare /\ p < q)
     THEN UNCHANGED <<links, made, parked>>
     ELSE /\ links' = [links EXCEPT ![p][q] = l]
          /\ made' = [made EXCEPT ![p] = IF links[p][q].pc = 0 THEN @ + 1 ELSE @]
          /\ parked' = [parked EXCEPT ![p] = @ \cup {Parked("answer", q, l.pc, m.offer)}]
  /\ UNCHANGED <<seat, session, faults>>

(* handleAnswer: the latch goes whatever the answer is for; the connection *)
(* takes it only while its own offer is pending.                           *)
DeliverAnswer(p) ==
  LET m == Head(wire[p])
      q == m.from
      l == links[p][q]
      e == [offer |-> m.offer, answer |-> m.answer]
  IN
  /\ Takes(p, "answer")
  /\ Promote(p, q)
  /\ links' = [links EXCEPT ![p][q] =
                 IF l.pc = 0 THEN l
                 ELSE [l EXCEPT !.inFlight = FALSE, !.offered = FALSE,
                                !.ex = IF l.offered THEN e ELSE @]]
  /\ UNCHANGED <<seat, session, parked, made, faults>>

-----------------------------------------------------------------------------
(* The coroutines.                                                         *)

Resumes(p, k) == k \in parked[p] /\ parked' = [parked EXCEPT ![p] = @ \ {k}]

(* The link is the one the coroutine started on.                           *)
IsLive(p, k) == links[p][k.with].pc = k.pc

Rejected == "reject" \in Faults /\ faults < MaxFaults /\ faults' = faults + 1

(* runOffer after its awaits.                                              *)
OfferReady(p, k) ==
  LET l == links[p][k.with] IN
  /\ k.kind = "offer" /\ Resumes(p, k)
  /\ IF IsLive(p, k) /\ l.inFlight /\ l.chan # None
     THEN /\ links' = [links EXCEPT ![p][k.with].offered = TRUE]
          /\ wire' = Relayed(wire, p, k.with,
                       Message("offer", p, [by |-> p, n |-> k.pc], 0))
     ELSE UNCHANGED <<links, wire>>
  /\ UNCHANGED <<seat, present, session, made, faults>>

OfferRejected(p, k) ==
  /\ k.kind = "offer" /\ Resumes(p, k)
  /\ Rejected
  /\ links' = [links EXCEPT ![p][k.with] =
                 IF IsLive(p, k) THEN [@ EXCEPT !.chan = None, !.inFlight = FALSE] ELSE @]
  /\ UNCHANGED <<seat, present, session, wire, made>>

(* answerRemoteOffer after its awaits: the offering end has the re-offer   *)
(* duty.  A connection that joined one other connection joins no second:   *)
(* its end of the exchange stays what it was.                              *)
AnswerReady(p, k) ==
  LET q == k.with IN
  /\ k.kind = "answer" /\ Resumes(p, k)
  /\ IF IsLive(p, k)
     THEN /\ links' = [links EXCEPT ![p][q].seatedByUs = FALSE,
                                    ![p][q].ex = IF @ = None THEN [offer |-> k.offer, answer |-> k.pc]
                                                 ELSE @]
          /\ wire' = Relayed(wire, p, q, Message("answer", p, k.offer, k.pc))
     ELSE UNCHANGED <<links, wire>>
  /\ UNCHANGED <<seat, present, session, made, faults>>

AnswerRejected(p, k) ==
  /\ k.kind = "answer" /\ Resumes(p, k)
  /\ Rejected
  /\ links' = [links EXCEPT ![p][k.with] =
                 IF IsLive(p, k) /\ ~@.attached THEN [@ EXCEPT !.chan = None] ELSE @]
  /\ UNCHANGED <<seat, present, session, wire, made>>

-----------------------------------------------------------------------------
(* Events of the connections.                                              *)

(* The connection of p for q, seen from an exchange, and its counterpart.  *)
Joined(p, q) ==
  LET e == links[p][q].ex IN
  /\ e # None /\ links[q][p].ex = e
  /\ \E a, b \in {p, q} : /\ a # b
                          /\ e.offer = [by |-> a, n |-> links[a][b].pc]
                          /\ e.answer = links[b][a].pc

(* The connection the exchange was made with is no longer there.           *)
Lost(p, q) ==
  LET e == links[p][q].ex IN
  /\ e # None
  /\ links[q][p].pc # (IF e.offer.by = p THEN e.answer ELSE e.offer.n)

(* The channel opens at the end that made it, or arrives open at the other *)
(* one, which adopts it when it has none.  The session may refuse it.      *)
ChannelOpens(p, q) ==
  LET c == links[p][q].ex.offer IN
  /\ Joined(p, q)
  /\ links[p][q].chan \in {None, c} /\ ~links[p][q].attached
  /\ IF Cardinality(session[p] \ {q}) < MaxPeers
     THEN /\ links' = [links EXCEPT ![p][q].chan = c, ![p][q].attached = TRUE]
          /\ session' = [session EXCEPT ![p] = @ \cup {q}]
     ELSE Teardown(p, q)
  /\ UNCHANGED <<seat, present, parked, wire, made, faults>>

(* The session gives the link up: a handshake that failed, a peer that is  *)
(* not on the list, the Leave of the peer.  The manager is not told.       *)
SessionDrops(p, q) ==
  /\ q \in session[p]
  /\ DropLink(p, q)
  /\ UNCHANGED <<seat, present, links, parked, wire, made, faults>>

(* Mutant: the end that answered re-offers as well.                        *)
ReoffersAlways(p, q) == TRUE

Reoffers(p, q) == links[p][q].seatedByUs

(* handleLinkFailure.                                                      *)
LinkFailure(p, q) ==
  IF q \in present[p]
  THEN Dial(p, q, Rebuilt(p, q), Reoffers(p, q)) /\ DropLink(p, q)
  ELSE Teardown(p, q) /\ UNCHANGED <<made, parked>>

ConnectionLost(p, q) ==
  /\ Lost(p, q)
  /\ LinkFailure(p, q)
  /\ UNCHANGED <<seat, present, wire, faults>>

ConnectionFails(p, q) ==
  /\ Joined(p, q)
  /\ "ice" \in Faults /\ faults < MaxFaults
  /\ faults' = faults + 1
  /\ LinkFailure(p, q)
  /\ UNCHANGED <<seat, present, wire>>

-----------------------------------------------------------------------------
Delivers(p) == \/ DeliverJoin(p) \/ DeliverLeave(p)
               \/ DeliverOffer(p) \/ DeliverAnswer(p)

Wakes(p) == \E k \in parked[p] : OfferReady(p, k) \/ AnswerReady(p, k)

Events(p) == \/ SocketOpen(p)
             \/ Delivers(p)
             \/ Wakes(p)
             \/ \E q \in Seat : ChannelOpens(p, q) \/ ConnectionLost(p, q)

Next == \E p \in Seat :
          \/ Connect(p) \/ Leave(p) \/ SocketDrop(p)
          \/ Events(p)
          \/ \E k \in parked[p] : OfferRejected(p, k) \/ AnswerRejected(p, k)
          \/ \E q \in Seat : SessionDrops(p, q) \/ ConnectionFails(p, q)

Spec == Init /\ [][Next]_vars

(* Messages arrive, promises settle, and a connection whose counterpart is *)
(* gone fails in the end: ICE consent runs out.                            *)
Fairness == \A p \in Seat :
              /\ WF_vars(SocketOpen(p)) /\ WF_vars(Delivers(p)) /\ WF_vars(Wakes(p))
              /\ \A q \in Seat : /\ WF_vars(ChannelOpens(p, q))
                                 /\ WF_vars(ConnectionLost(p, q))

FairSpec == Spec /\ Fairness

-----------------------------------------------------------------------------
TypeOK ==
  /\ seat \in [Seat -> {"new", "dialing", "open", "gone"}]
  /\ present \in [Seat -> SUBSET Seat]
  /\ links \in [Seat -> [Seat -> Link]]
  /\ session \in [Seat -> SUBSET Seat]
  /\ \A p \in Seat : parked[p] \subseteq
       [kind : {"offer", "answer"}, with : Seat, pc : Nat, offer : Channels \cup {None}]
  /\ \A p \in Seat : \A i \in DOMAIN wire[p] : wire[p][i] \in
       [kind : {"join", "leave", "offer", "answer"}, from : Seat,
        offer : Channels \cup {None}, answer : Nat]
  /\ made \in [Seat -> Nat]
  /\ faults \in 0..MaxFaults

(* One end of a pair offers, at first and again after every failure,       *)
(* whichever end notices it: the offers of a pair never cross, so the      *)
(* glare rules of the group manager are never needed.                      *)
OffersNeverCross ==
  \A p, q \in Seat : p # q => ~(links[p][q].inFlight /\ links[q][p].inFlight)

(* The session holds links only for pairs whose channel the manager handed *)
(* over and still has.                                                     *)
SessionFollowsManager ==
  \A p \in Seat : \A q \in session[p] : links[p][q].attached

(* The two caps agree: a manager keeps to its own, and the session never   *)
(* refuses a channel that the manager hands it.                            *)
CapsAgree ==
  \A p \in Seat : /\ Cardinality(LinkedTo(p)) <= MaxPeers
                  /\ session[p] \subseteq LinkedTo(p)

(* What the manager holds and what the session holds stay in step, through *)
(* rebuilds, departures and the ends of either, and the two ends of a link *)
(* agree on who dials.                                                     *)
InStep == TypeOK /\ OffersNeverCross /\ SessionFollowsManager /\ CapsAgree

(* handleLinkFailure re-signals a dead pair whose seat is still present:   *)
(* the originally seated member offers again, the newcomer rebuilds and    *)
(* waits for that offer.  So two members that stay seated end up with one  *)
(* channel attached at both ends, whichever end noticed the failure first. *)
PairsRelink ==
  \A p, q \in Seat : p # q =>
    []<>(\/ ~Seated(p) \/ ~Seated(q)
         \/ Joined(p, q) /\ links[p][q].attached /\ links[q][p].attached)

=============================================================================
