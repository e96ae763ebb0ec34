-------------------------- MODULE NegotiationProofs --------------------------
(***************************************************************************)
(* Whatever two bridges, their sockets and their parked coroutines do, an  *)
(* offer on the wire is the one its bridge stands by, two ends of this     *)
(* version never offer at once, a bridge that waits for the other end      *)
(* holds no latch of an earlier session, and two of this version that are  *)
(* linked and fired hold one channel.                                      *)
(***************************************************************************)
EXTENDS Negotiation, SequenceTheorems, TLAPS

Bridges == [gen : Nat, inFlight : BOOLEAN, chan : Channels \cup {None},
            open : BOOLEAN, fired : BOOLEAN, suppress : BOOLEAN,
            timer : BOOLEAN, made : Nat]
Clients == [sock : {"none", "dialing", "open"}, present : BOOLEAN,
            glare : BOOLEAN, eager : BOOLEAN]
Connections == [sig : {"stable", "haveLocalOffer", "haveRemoteOffer"},
                live : Channels \cup {None}, exchange : Exchanges \cup {None},
                arrived : Channels \cup {None}]
Tasks == [at : Steps, gen : Nat, on : Nat, offer : Offers, answerer : Nat]
Wired == [kind : {"join", "leave", "offer", "answer"},
          offer : Offers \cup {None}, answerer : Nat]

(* An offer or an answer names the offer it carries or answers.            *)
Carries == \A p \in Peer : \A i \in DOMAIN wire[p] :
              wire[p][i].kind \in {"offer", "answer"} => wire[p][i].offer \in Offers

(* A coroutine belongs to a generation that was, its operation to that or  *)
(* a later connection, and an offer to its coroutine's generation.         *)
Sound(k, g) == /\ k.gen <= k.on /\ k.on <= g
               /\ k.at \in {"createOffer", "setOffer"} => k.offer.gen = k.gen
TasksAreSound == \A p \in Peer : \A i \in DOMAIN tasks[p] : Sound(tasks[p][i], nego[p].gen)

(* The broker writes to open sockets only, a bridge that dials has just    *)
(* been made, and one that is closed has no socket.                        *)
SocketsAreSound ==
  \A p \in Peer : /\ wire[p] # <<>> => Seated(p)
                  /\ client[p].sock = "dialing" => ~nego[p].inFlight
                  /\ orch[p] = "left" => client[p].sock = "none"

(* An end offers, or will when it hears that the other one joined.         *)
JoinComes(p) == \E i \in DOMAIN wire[p] : wire[p][i].kind = "join"
Dials(p) == nego[p].inFlight \/ JoinComes(p)
OneDials == (\A p \in Peer : ~client[p].eager) => \A p, q \in Peer : p # q => ~(Dials(p) /\ Dials(q))

(* The invariant of the two bridges.                                       *)
BridgesInv == TypeOK /\ Carries /\ TasksAreSound /\ SocketsAreSound /\ OneDials

-----------------------------------------------------------------------------
(* The records the actions are built from.                                 *)

LEMMA BridgeFlag ==
  ASSUME NEW n \in Bridges, NEW v \in BOOLEAN
  PROVE  /\ [n EXCEPT !.inFlight = v] \in Bridges
         /\ [n EXCEPT !.open = v] \in Bridges
         /\ [n EXCEPT !.fired = v] \in Bridges
         /\ [n EXCEPT !.suppress = v] \in Bridges
         /\ [n EXCEPT !.timer = v] \in Bridges
BY DEF Bridges

LEMMA BridgeFlagKeeps ==
  ASSUME NEW n \in Bridges, NEW v, NEW d \in Bridges,
         \/ d = [n EXCEPT !.open = v] \/ d = [n EXCEPT !.fired = v]
         \/ d = [n EXCEPT !.suppress = v] \/ d = [n EXCEPT !.timer = v]
  PROVE  d.gen = n.gen /\ d.chan = n.chan /\ d.made = n.made /\ d.inFlight = n.inFlight
BY DEF Bridges

LEMMA BridgeFlight ==
  ASSUME NEW n \in Bridges, NEW v \in BOOLEAN, NEW d, d = [n EXCEPT !.inFlight = v]
  PROVE  d \in Bridges /\ d.gen = n.gen /\ d.chan = n.chan /\ d.made = n.made /\ d.inFlight = v
<1>1. d \in Bridges /\ d.gen = n.gen /\ d.chan = n.chan /\ d.made = n.made
  BY DEF Bridges
<1>2. d.inFlight = v
  BY DEF Bridges
<1> QED BY <1>1, <1>2

LEMMA BridgeChan ==
  ASSUME NEW n \in Bridges, NEW c \in Channels \cup {None}, NEW d, d = [n EXCEPT !.chan = c]
  PROVE  /\ d \in Bridges /\ d.gen = n.gen /\ d.chan = c /\ d.made = n.made
         /\ d.inFlight = n.inFlight
<1>1. d \in Bridges /\ d.gen = n.gen /\ d.chan = c /\ d.made = n.made
  BY DEF Bridges
<1>2. d.inFlight = n.inFlight
  BY DEF Bridges
<1> QED BY <1>1, <1>2

LEMMA BridgeMade ==
  ASSUME NEW n \in Bridges, NEW k \in Nat, NEW d, d = [n EXCEPT !.made = k]
  PROVE  /\ d \in Bridges /\ d.gen = n.gen /\ d.chan = n.chan /\ d.made = k
         /\ d.inFlight = n.inFlight
<1>1. d \in Bridges /\ d.gen = n.gen /\ d.chan = n.chan /\ d.made = k
  BY DEF Bridges
<1>2. d.inFlight = n.inFlight
  BY DEF Bridges
<1> QED BY <1>1, <1>2

LEMMA FreshBridge ==
  ASSUME NEW g \in Nat, NEW m \in Nat
  PROVE  FreshNego(g, m) \in Bridges /\ FreshNego(g, m).gen = g /\ FreshNego(g, m).inFlight = FALSE
<1>1. FALSE \in BOOLEAN
  OBVIOUS
<1>2. FreshNego(g, m) \in Bridges
  BY <1>1 DEF FreshNego, Bridges
<1> QED
  BY <1>2 DEF FreshNego

LEMMA Discarded ==
  ASSUME NEW n \in Bridges
  PROVE  /\ DiscardChannel(n) \in Bridges /\ DiscardChannel(n).gen = n.gen
         /\ DiscardChannel(n).inFlight = n.inFlight /\ DiscardChannel(n).chan = None
         /\ DiscardChannel(n).made = n.made
<1> DEFINE a == [n EXCEPT !.chan = None]
           b == [a EXCEPT !.open = FALSE]
<1>1. FALSE \in BOOLEAN /\ None \in Channels \cup {None}
  OBVIOUS
<1>2. a \in Bridges /\ a.gen = n.gen /\ a.inFlight = n.inFlight /\ a.chan = None /\ a.made = n.made
  BY <1>1, BridgeChan
<1>3. DiscardChannel(n) = b
  BY DEF DiscardChannel
<1> HIDE DEF a
<1>4. b \in Bridges
  BY <1>1, <1>2, BridgeFlag
<1>5. b.gen = a.gen /\ b.chan = a.chan /\ b.made = a.made /\ b.inFlight = a.inFlight
  BY <1>2, <1>4, BridgeFlagKeeps
<1> HIDE DEF b
<1> QED
  BY <1>2, <1>3, <1>4, <1>5

LEMMA ReleasedBridge ==
  ASSUME NEW n \in Bridges
  PROVE  /\ Released(n) \in Bridges /\ Released(n).gen = n.gen
         /\ Released(n).inFlight = FALSE /\ Released(n).chan = None
         /\ Released(n).made = n.made
<1> DEFINE d == DiscardChannel(n)
           a == [d EXCEPT !.inFlight = FALSE]
           b == [a EXCEPT !.fired = FALSE]
           c == [b EXCEPT !.timer = FALSE]
           e == [c EXCEPT !.suppress = FALSE]
<1>1. FALSE \in BOOLEAN
  OBVIOUS
<1>2. d \in Bridges /\ d.gen = n.gen /\ d.chan = None /\ d.made = n.made
  BY Discarded
<1>3. Released(n) = e
  BY DEF Released
<1> HIDE DEF d
<1>4. a \in Bridges /\ a.gen = d.gen /\ a.chan = d.chan /\ a.made = d.made /\ a.inFlight = FALSE
  BY <1>1, <1>2, BridgeFlight
<1> HIDE DEF a
<1>5. b \in Bridges
  BY <1>1, <1>4, BridgeFlag
<1>6. b.gen = a.gen /\ b.chan = a.chan /\ b.made = a.made /\ b.inFlight = a.inFlight
  BY <1>4, <1>5, BridgeFlagKeeps
<1> HIDE DEF b
<1>7. c \in Bridges
  BY <1>1, <1>5, BridgeFlag
<1>8. c.gen = b.gen /\ c.chan = b.chan /\ c.made = b.made /\ c.inFlight = b.inFlight
  BY <1>5, <1>7, BridgeFlagKeeps
<1> HIDE DEF c
<1>9. e \in Bridges
  BY <1>1, <1>7, BridgeFlag
<1>10. e.gen = c.gen /\ e.chan = c.chan /\ e.made = c.made /\ e.inFlight = c.inFlight
  BY <1>7, <1>9, BridgeFlagKeeps
<1> HIDE DEF e
<1> QED
  BY <1>2, <1>3, <1>4, <1>6, <1>8, <1>9, <1>10

LEMMA RecordedBridge ==
  ASSUME NEW n \in Bridges, NEW c \in Channels
  PROVE  /\ Recorded(n, c) \in Bridges /\ Recorded(n, c).gen = n.gen
         /\ Recorded(n, c).inFlight = n.inFlight /\ Recorded(n, c).made = n.made
         /\ Recorded(n, c).chan = IF n.chan = None THEN c ELSE n.chan
<1>1. CASE n.chan = None
  <2>1. Recorded(n, c) = [n EXCEPT !.chan = c]
    BY <1>1 DEF Recorded
  <2>2. c \in Channels \cup {None}
    OBVIOUS
  <2> QED BY <1>1, <2>1, <2>2, BridgeChan
<1>2. CASE n.chan # None
  <2>1. Recorded(n, c) = n
    BY <1>2 DEF Recorded
  <2> QED BY <1>2, <2>1
<1> QED BY <1>1, <1>2

LEMMA ClientFlags ==
  ASSUME NEW l \in Clients, NEW v \in BOOLEAN, NEW d,
         d = [l EXCEPT !.glare = v] \/ d = [l EXCEPT !.present = v]
  PROVE  d \in Clients /\ d.sock = l.sock /\ d.eager = l.eager
<1>1. d \in Clients /\ d.sock = l.sock
  BY DEF Clients
<1>2. d.eager = l.eager
  BY DEF Clients
<1> QED BY <1>1, <1>2

LEMMA ClientGlare ==
  ASSUME NEW l \in Clients, NEW v \in BOOLEAN
  PROVE  [l EXCEPT !.glare = v].glare = v
BY DEF Clients

LEMMA ClientSock ==
  ASSUME NEW l \in Clients, NEW s \in {"none", "dialing", "open"}, NEW d, d = [l EXCEPT !.sock = s]
  PROVE  d \in Clients /\ d.sock = s /\ d.eager = l.eager
<1>1. d \in Clients /\ d.sock = s
  BY DEF Clients
<1>2. d.eager = l.eager
  BY DEF Clients
<1> QED BY <1>1, <1>2

LEMMA ClientEager ==
  ASSUME NEW l \in Clients, NEW v \in BOOLEAN, NEW d, d = [l EXCEPT !.eager = v]
  PROVE  d \in Clients /\ d.sock = l.sock /\ d.eager = v
<1>1. d \in Clients /\ d.sock = l.sock
  BY DEF Clients
<1>2. d.eager = v
  BY DEF Clients
<1> QED BY <1>1, <1>2

LEMMA NoClients ==
  ASSUME NEW v \in BOOLEAN
  PROVE  /\ [NoClient EXCEPT !.eager = v] \in Clients /\ [NoClient EXCEPT !.eager = v].sock = "none"
         /\ [NoClient EXCEPT !.eager = v].eager = v
         /\ [NoClient EXCEPT !.sock = "dialing", !.eager = v] \in Clients
         /\ [NoClient EXCEPT !.sock = "dialing", !.eager = v].sock = "dialing"
         /\ [NoClient EXCEPT !.sock = "dialing", !.eager = v].eager = v
<1> DEFINE a == [NoClient EXCEPT !.sock = "dialing"]
<1>1. FALSE \in BOOLEAN
  OBVIOUS
<1>2. NoClient \in Clients /\ NoClient.sock = "none"
  BY <1>1 DEF NoClient, Clients
<1> HIDE DEF NoClient
<1>3. a \in Clients /\ a.sock = "dialing"
  BY <1>1, <1>2, ClientSock
<1>4. [a EXCEPT !.eager = v] = [NoClient EXCEPT !.sock = "dialing", !.eager = v]
  OBVIOUS
<1> HIDE DEF a
<1>5. [a EXCEPT !.eager = v] \in Clients /\ [a EXCEPT !.eager = v].sock = "dialing"
      /\ [a EXCEPT !.eager = v].eager = v
  BY <1>3, ClientEager
<1>6. /\ [NoClient EXCEPT !.eager = v] \in Clients /\ [NoClient EXCEPT !.eager = v].sock = "none"
      /\ [NoClient EXCEPT !.eager = v].eager = v
  BY <1>2, ClientEager
<1> QED
  BY <1>4, <1>5, <1>6

LEMMA ConnectionChan ==
  ASSUME NEW x \in Connections, NEW c \in Channels \cup {None}
  PROVE  /\ [x EXCEPT !.live = c] \in Connections /\ [x EXCEPT !.arrived = c] \in Connections
         /\ [x EXCEPT !.live = c].sig = x.sig
BY DEF Connections

LEMMA ConnectionExchange ==
  ASSUME NEW x \in Connections, NEW e \in Exchanges \cup {None}
  PROVE  [x EXCEPT !.exchange = e] \in Connections
BY DEF Connections

LEMMA ConnectionSig ==
  ASSUME NEW x \in Connections, NEW s \in {"stable", "haveLocalOffer", "haveRemoteOffer"}
  PROVE  [x EXCEPT !.sig = s] \in Connections /\ [x EXCEPT !.sig = s].sig = s
BY DEF Connections

LEMMA FreshConnection == FreshPc \in Connections
BY DEF FreshPc, Connections

LEMMA ClosedConnection ==
  ASSUME NEW x \in Connections, NEW c
  PROVE  CloseLocal(x, c) \in Connections /\ CloseLocal(x, c).sig = x.sig
<1> DEFINE v == IF x.live = c THEN None ELSE x.live
<1>1. v \in Channels \cup {None}
  BY DEF Connections
<1>2. CloseLocal(x, c) = [x EXCEPT !.live = v]
  BY DEF CloseLocal
<1> HIDE DEF v
<1> QED
  BY <1>1, <1>2, ConnectionChan

LEMMA AppliedConnection ==
  ASSUME NEW x \in Connections, NEW k \in Tasks
  PROVE  /\ Applied(x, k) \in Connections
         /\ k.at = "setOffer" => Applied(x, k).sig = "haveLocalOffer"
<1> DEFINE e(w) == [offer |-> k.offer, answerer |-> w]
           j(w) == [[[x EXCEPT !.sig = "stable"] EXCEPT !.arrived = None] EXCEPT !.exchange = e(w)]
<1>1. ASSUME NEW w \in Nat PROVE j(w) \in Connections
  <2>1. e(w) \in Exchanges \cup {None}
    BY <1>1 DEF Tasks, Exchanges
  <2> HIDE DEF e
  <2>2. [x EXCEPT !.sig = "stable"] \in Connections
    BY ConnectionSig
  <2>3. [[x EXCEPT !.sig = "stable"] EXCEPT !.arrived = None] \in Connections
    BY <2>2, ConnectionChan
  <2> QED BY <2>1, <2>3, ConnectionExchange
<1>2. k.on \in Nat /\ k.answerer \in Nat
  BY DEF Tasks
<1>3. CASE k.at = "setOffer"
  <2>1. Applied(x, k) = [x EXCEPT !.sig = "haveLocalOffer"]
    BY <1>3 DEF Applied
  <2> QED BY <2>1, ConnectionSig
<1>4. CASE k.at = "rollback"
  <2>1. Applied(x, k) = [x EXCEPT !.sig = "stable"]
    BY <1>4 DEF Applied
  <2> QED BY <1>4, <2>1, ConnectionSig
<1>5. CASE k.at = "setRemote"
  <2>1. Applied(x, k) = [x EXCEPT !.sig = "haveRemoteOffer"]
    BY <1>5 DEF Applied
  <2> QED BY <1>5, <2>1, ConnectionSig
<1>6. CASE k.at = "setAnswer"
  <2>1. Applied(x, k) = j(k.on)
    BY <1>6 DEF Applied
  <2> QED BY <1>1, <1>2, <1>6, <2>1
<1>7. CASE k.at = "applyAnswer"
  <2>1. Applied(x, k) = j(k.answerer)
    BY <1>7 DEF Applied
  <2> QED BY <1>1, <1>2, <1>7, <2>1
<1>8. CASE k.at \notin {"setOffer", "rollback", "setRemote", "setAnswer", "applyAnswer"}
  <2>1. Applied(x, k) = x
    BY <1>8 DEF Applied
  <2> QED BY <1>8, <2>1
<1> QED
  BY <1>3, <1>4, <1>5, <1>6, <1>7, <1>8

LEMMA TheOther ==
  ASSUME NEW p \in Peer
  PROVE  Other(p) \in Peer /\ Other(p) # p /\ \A q \in Peer : q # p => q = Other(p)
BY PeerAssumption DEF Other

-----------------------------------------------------------------------------
(* What a step does to one end's rows and to the wires.                    *)

Orchs == {"left", "waiting", "attached", "disconnected"}

AllSound(ts, g) == \A i \in DOMAIN ts : Sound(ts[i], g)

(* The wires stay sound while the socket of p is in state s.               *)
WiresHold(p, s) == /\ wire' \in [Peer -> Seq(Wired)] /\ Carries'
                   /\ wire'[p] # <<>> => s = "open"
                   /\ wire'[Other(p)] # <<>> => Seated(Other(p))
NoMoreJoins == \A q \in Peer : JoinComes(q)' => JoinComes(q)
Silent == \A q \in Peer : ~OfferSent(q)

LEMMA Rows ==
  ASSUME BridgesInv, NEW p \in Peer
  PROVE  /\ orch \in [Peer -> Orchs] /\ nego \in [Peer -> Bridges] /\ client \in [Peer -> Clients]
         /\ pc \in [Peer -> Connections] /\ tasks \in [Peer -> Seq(Tasks)]
         /\ wire \in [Peer -> Seq(Wired)] /\ faults \in 0..(MaxFaults + 1)
         /\ orch[p] \in Orchs /\ nego[p] \in Bridges /\ client[p] \in Clients
         /\ pc[p] \in Connections /\ tasks[p] \in Seq(Tasks) /\ wire[p] \in Seq(Wired)
         /\ nego[p].gen \in Nat /\ AllSound(tasks[p], nego[p].gen)
<1>1. /\ orch \in [Peer -> Orchs] /\ nego \in [Peer -> Bridges] /\ client \in [Peer -> Clients]
      /\ pc \in [Peer -> Connections] /\ tasks \in [Peer -> Seq(Tasks)]
      /\ wire \in [Peer -> Seq(Wired)] /\ faults \in 0..(MaxFaults + 1)
  BY DEF BridgesInv, TypeOK, Orchs, Bridges, Clients, Connections, Tasks, Wired
<1>2. nego[p] \in Bridges
  BY <1>1
<1>3. nego[p].gen \in Nat
  BY <1>2 DEF Bridges
<1>4. AllSound(tasks[p], nego[p].gen)
  BY DEF BridgesInv, TasksAreSound, AllSound
<1> QED BY <1>1, <1>3, <1>4

LEMMA RowsKept ==
  ASSUME BridgesInv, NEW p \in Peer
  PROVE  /\ orch = [orch EXCEPT ![p] = orch[p]] /\ nego = [nego EXCEPT ![p] = nego[p]]
         /\ client = [client EXCEPT ![p] = client[p]] /\ pc = [pc EXCEPT ![p] = pc[p]]
         /\ tasks = [tasks EXCEPT ![p] = tasks[p]]
BY Rows

LEMMA RowStep ==
  ASSUME BridgesInv, NEW p \in Peer, NEW n \in Bridges, NEW l \in Clients, NEW x \in Connections,
         NEW ts \in Seq(Tasks), NEW o \in Orchs,
         nego' = [nego EXCEPT ![p] = n], client' = [client EXCEPT ![p] = l],
         pc' = [pc EXCEPT ![p] = x], tasks' = [tasks EXCEPT ![p] = ts],
         orch' = [orch EXCEPT ![p] = o], faults' \in 0..(MaxFaults + 1),
         WiresHold(p, l.sock), AllSound(ts, n.gen),
         l.sock = "dialing" => ~n.inFlight, o = "left" => l.sock = "none", OneDials'
  PROVE  BridgesInv'
<1>1. TypeOK'
  <2>1. /\ orch' \in [Peer -> Orchs] /\ nego' \in [Peer -> Bridges] /\ client' \in [Peer -> Clients]
        /\ pc' \in [Peer -> Connections] /\ tasks' \in [Peer -> Seq(Tasks)]
        /\ wire' \in [Peer -> Seq(Wired)]
    BY Rows DEF WiresHold
  <2> QED BY <2>1 DEF TypeOK, Orchs, Bridges, Clients, Connections, Tasks, Wired
<1>2. Carries'
  BY DEF WiresHold
<1>3. nego'[p] = n /\ client'[p] = l /\ tasks'[p] = ts /\ orch'[p] = o
  BY Rows
<1>4. ASSUME NEW q \in Peer, q # p
      PROVE  nego'[q] = nego[q] /\ client'[q] = client[q] /\ tasks'[q] = tasks[q] /\ orch'[q] = orch[q]
  BY <1>4, Rows
<1>5. TasksAreSound'
  <2> SUFFICES ASSUME NEW q \in Peer PROVE AllSound(tasks'[q], nego'[q].gen)
    BY DEF TasksAreSound, AllSound, Sound
  <2>1. CASE q = p
    BY <1>3, <2>1
  <2>2. CASE q # p
    BY <1>4, <2>2, Rows
  <2> QED BY <2>1, <2>2
<1>6. SocketsAreSound'
  <2> SUFFICES ASSUME NEW q \in Peer
               PROVE  /\ wire'[q] # <<>> => client'[q].sock = "open"
                      /\ client'[q].sock = "dialing" => ~nego'[q].inFlight
                      /\ orch'[q] = "left" => client'[q].sock = "none"
    BY DEF SocketsAreSound, Seated
  <2>1. CASE q = p
    <3>1. wire'[p] # <<>> => l.sock = "open"
      BY DEF WiresHold
    <3>2. wire'[p] # <<>> => client'[p].sock = "open"
      BY <1>3, <3>1
    <3>3. client'[p].sock = "dialing" => ~nego'[p].inFlight
      BY <1>3
    <3>4. orch'[p] = "left" => client'[p].sock = "none"
      BY <1>3
    <3> QED BY <2>1, <3>2, <3>3, <3>4
  <2>2. CASE q # p
    <3>1. q = Other(p)
      BY <2>2, TheOther
    <3>2. wire'[q] # <<>> => client[q].sock = "open"
      BY <3>1 DEF WiresHold, Seated
    <3>3. /\ client[q].sock = "dialing" => ~nego[q].inFlight
          /\ orch[q] = "left" => client[q].sock = "none"
      BY DEF BridgesInv, SocketsAreSound
    <3>4. wire'[q] # <<>> => client'[q].sock = "open"
      BY <1>4, <2>2, <3>2
    <3>5. client'[q].sock = "dialing" => ~nego'[q].inFlight
      BY <1>4, <2>2, <3>3
    <3>6. orch'[q] = "left" => client'[q].sock = "none"
      BY <1>4, <2>2, <3>3
    <3> QED BY <3>4, <3>5, <3>6
  <2> QED BY <2>1, <2>2
<1> QED BY <1>1, <1>2, <1>5, <1>6 DEF BridgesInv

LEMMA RowQuiet ==
  ASSUME BridgesInv, NEW p \in Peer, NEW n \in Bridges, NEW l \in Clients, NEW x \in Connections,
         NEW ts \in Seq(Tasks), NEW o \in Orchs,
         nego' = [nego EXCEPT ![p] = n], client' = [client EXCEPT ![p] = l],
         pc' = [pc EXCEPT ![p] = x], tasks' = [tasks EXCEPT ![p] = ts],
         orch' = [orch EXCEPT ![p] = o], faults' \in 0..(MaxFaults + 1),
         WiresHold(p, l.sock), NoMoreJoins, AllSound(ts, n.gen),
         l.sock = "dialing" => ~n.inFlight, o = "left" => l.sock = "none",
         n.inFlight => Dials(p), l.eager = client[p].eager
  PROVE  BridgesInv'
<1>1. \A q \in Peer : client'[q].eager = client[q].eager
  <2>1. client'[p] = l /\ \A q \in Peer : q # p => client'[q] = client[q]
    BY Rows
  <2> QED BY <2>1
<1>2. ASSUME NEW q \in Peer, Dials(q)' PROVE Dials(q)
  <2>1. CASE JoinComes(q)'
    BY <2>1 DEF NoMoreJoins, Dials
  <2>2. CASE nego'[q].inFlight
    <3>1. CASE q = p
      <4>1. nego'[p] = n
        BY Rows
      <4> QED BY <2>2, <3>1, <4>1
    <3>2. CASE q # p
      <4>1. nego'[q] = nego[q]
        BY <3>2, Rows
      <4> QED BY <2>2, <4>1 DEF Dials
    <3> QED BY <3>1, <3>2
  <2> QED BY <1>2, <2>1, <2>2 DEF Dials
<1>3. OneDials'
  <2> SUFFICES ASSUME \A q \in Peer : ~client'[q].eager, NEW q \in Peer, NEW r \in Peer, q # r,
                      Dials(q)', Dials(r)'
               PROVE  FALSE
    BY DEF OneDials
  <2>1. \A s \in Peer : ~client[s].eager
    BY <1>1
  <2>2. Dials(q) /\ Dials(r)
    BY <1>2
  <2> QED BY <2>1, <2>2 DEF BridgesInv, OneDials
<1> QED BY <1>3, RowStep

LEMMA OthersRow ==
  ASSUME BridgesInv, NEW p \in Peer
  PROVE  /\ wire[p] # <<>> => client[p].sock = "open"
         /\ client[p].sock = "dialing" => ~nego[p].inFlight
         /\ orch[p] = "left" => client[p].sock = "none"
         /\ wire[Other(p)] # <<>> => Seated(Other(p))
         /\ Other(p) \in Peer /\ Other(p) # p
<1>1. Other(p) \in Peer /\ Other(p) # p
  BY PeerAssumption DEF Other
<1> QED BY <1>1 DEF BridgesInv, SocketsAreSound, Seated

LEMMA WireKept ==
  ASSUME BridgesInv, NEW p \in Peer, wire' = wire
  PROVE  WiresHold(p, client[p].sock) /\ NoMoreJoins /\ Silent
<1>1. wire' \in [Peer -> Seq(Wired)] /\ Carries'
  BY Rows DEF BridgesInv, Carries
<1>2. WiresHold(p, client[p].sock)
  BY <1>1, OthersRow DEF WiresHold
<1>3. NoMoreJoins
  BY DEF NoMoreJoins, JoinComes
<1>4. ASSUME NEW q \in Peer PROVE ~OfferSent(q)
  <2>1. Len(wire[Other(q)]) \in Nat
    BY OthersRow, Rows
  <2> QED BY <2>1 DEF OfferSent
<1> QED BY <1>2, <1>3, <1>4 DEF Silent

LEMMA SeqAppend ==
  ASSUME NEW S, NEW s \in Seq(S), NEW e \in S
  PROVE  /\ Append(s, e) \in Seq(S) /\ Len(Append(s, e)) = Len(s) + 1
         /\ DOMAIN Append(s, e) = 1..(Len(s) + 1) /\ DOMAIN s = 1..Len(s) /\ Len(s) \in Nat
         /\ Append(s, e)[Len(s) + 1] = e /\ Last(Append(s, e)) = e
         /\ \A i \in 1..Len(s) : Append(s, e)[i] = s[i]
<1>1. /\ Append(s, e) \in Seq(S) /\ Len(Append(s, e)) = Len(s) + 1
      /\ DOMAIN Append(s, e) = 1..(Len(s) + 1) /\ DOMAIN s = 1..Len(s) /\ Len(s) \in Nat
      /\ Append(s, e)[Len(s) + 1] = e
      /\ \A i \in 1..Len(s) : Append(s, e)[i] = s[i]
  OBVIOUS
<1> QED BY <1>1 DEF Last

(* One more message on the wire of q, the other wires as they were or      *)
(* emptied.                                                                *)
LEMMA OneMore ==
  ASSUME BridgesInv, NEW q \in Peer, NEW m \in Wired,
         m.kind \in {"offer", "answer"} => m.offer \in Offers,
         wire' \in [Peer -> Seq(Wired)], wire'[q] = Append(wire[q], m),
         \A r \in Peer : r # q => wire'[r] = wire[r] \/ wire'[r] = <<>>
  PROVE  /\ Carries'
         /\ \A r \in Peer : JoinComes(r)' => JoinComes(r) \/ (r = q /\ m.kind = "join")
         /\ \A r \in Peer : OfferSent(r) => Other(r) = q /\ m.kind = "offer" /\ Last(wire'[q]) = m
<1>1. wire[q] \in Seq(Wired)
  BY Rows
<1>2. /\ Len(wire'[q]) = Len(wire[q]) + 1 /\ DOMAIN wire'[q] = 1..(Len(wire[q]) + 1)
      /\ DOMAIN wire[q] = 1..Len(wire[q]) /\ Len(wire[q]) \in Nat
      /\ wire'[q][Len(wire[q]) + 1] = m /\ Last(wire'[q]) = m
      /\ \A i \in 1..Len(wire[q]) : wire'[q][i] = wire[q][i]
  BY <1>1, SeqAppend
<1>3. ASSUME NEW i \in DOMAIN wire'[q]
      PROVE  wire'[q][i] = m \/ \E j \in DOMAIN wire[q] : wire'[q][i] = wire[q][j]
  BY <1>2
<1>4. ASSUME NEW r \in Peer, r # q, NEW i \in DOMAIN wire'[r]
      PROVE  i \in DOMAIN wire[r] /\ wire'[r][i] = wire[r][i]
  <2>1. CASE wire'[r] = wire[r]
    BY <1>4, <2>1
  <2>2. CASE wire'[r] = <<>>
    BY <1>4, <2>2
  <2> QED BY <1>4, <2>1, <2>2
<1>5. Carries'
  <2> SUFFICES ASSUME NEW r \in Peer, NEW i \in DOMAIN wire'[r],
                      wire'[r][i].kind \in {"offer", "answer"}
               PROVE  wire'[r][i].offer \in Offers
    BY DEF Carries
  <2>1. \A j \in DOMAIN wire[r] : wire[r][j].kind \in {"offer", "answer"} => wire[r][j].offer \in Offers
    BY DEF BridgesInv, Carries
  <2>2. CASE r = q
    BY <1>3, <2>1, <2>2
  <2>3. CASE r # q
    BY <1>4, <2>1, <2>3
  <2> QED BY <2>2, <2>3
<1>6. ASSUME NEW r \in Peer, JoinComes(r)' PROVE JoinComes(r) \/ (r = q /\ m.kind = "join")
  <2>1. PICK i \in DOMAIN wire'[r] : wire'[r][i].kind = "join"
    BY <1>6 DEF JoinComes
  <2>2. CASE r = q
    BY <1>3, <2>1, <2>2 DEF JoinComes
  <2>3. CASE r # q
    BY <1>4, <2>1, <2>3 DEF JoinComes
  <2> QED BY <2>2, <2>3
<1>7. ASSUME NEW r \in Peer, OfferSent(r)
      PROVE  Other(r) = q /\ m.kind = "offer" /\ Last(wire'[q]) = m
  <2>1. Other(r) = q
    <3>1. Other(r) \in Peer
      BY OthersRow
    <3>2. Len(wire'[Other(r)]) = Len(wire[Other(r)]) + 1 /\ Len(wire[Other(r)]) \in Nat
      BY <1>7, <3>1, Rows DEF OfferSent
    <3>3. CASE wire'[Other(r)] = wire[Other(r)]
      BY <3>2, <3>3
    <3>4. CASE wire'[Other(r)] = <<>>
      <4>1. Len(wire'[Other(r)]) = 0
        BY <3>4
      <4> QED BY <3>2, <4>1
    <3> QED BY <3>1, <3>3, <3>4
  <2> QED BY <1>2, <1>7, <2>1 DEF OfferSent
<1> QED BY <1>5, <1>6, <1>7

(* A wire read or emptied, the others as they were or emptied.             *)
LEMMA NoneMore ==
  ASSUME BridgesInv, wire' \in [Peer -> Seq(Wired)],
         \A r \in Peer : \/ wire'[r] = wire[r] \/ wire'[r] = <<>>
                         \/ wire[r] # <<>> /\ wire'[r] = Tail(wire[r])
  PROVE  Carries' /\ NoMoreJoins /\ Silent
<1>1. ASSUME NEW r \in Peer
      PROVE  /\ wire'[r] # <<>> => wire[r] # <<>>
             /\ Len(wire'[r]) # Len(wire[r]) + 1
             /\ \A i \in DOMAIN wire'[r] : \E j \in DOMAIN wire[r] : wire'[r][i] = wire[r][j]
  <2>1. wire[r] \in Seq(Wired) /\ Len(wire[r]) \in Nat
    BY Rows
  <2>2. CASE wire'[r] = wire[r]
    BY <2>1, <2>2
  <2>3. CASE wire'[r] = <<>>
    BY <2>1, <2>3
  <2>4. CASE wire[r] # <<>> /\ wire'[r] = Tail(wire[r])
    <3>1. /\ DOMAIN Tail(wire[r]) = 1..(Len(wire[r]) - 1) /\ Len(Tail(wire[r])) = Len(wire[r]) - 1
          /\ DOMAIN wire[r] = 1..Len(wire[r])
      BY <2>1, <2>4
    <3>2. ASSUME NEW i \in 1..(Len(wire[r]) - 1) PROVE Tail(wire[r])[i] = wire[r][i+1]
      BY <2>1, <2>4
    <3> QED BY <2>1, <2>4, <3>1, <3>2, SMTT(40)
  <2> QED BY <2>2, <2>3, <2>4
<1>2. Carries'
  BY <1>1 DEF BridgesInv, Carries
<1>3. NoMoreJoins
  BY <1>1 DEF NoMoreJoins, JoinComes
<1>4. Silent
  BY <1>1, OthersRow DEF Silent, OfferSent
<1> QED BY <1>2, <1>3, <1>4

LEMMA WireTaken ==
  ASSUME BridgesInv, NEW p \in Peer, wire[p] # <<>>, Take(p)
  PROVE  WiresHold(p, client[p].sock) /\ NoMoreJoins /\ Silent
<1>1. wire' = [wire EXCEPT ![p] = Tail(wire[p])]
  BY DEF Take
<1>2. wire' \in [Peer -> Seq(Wired)]
  BY <1>1, Rows
<1>3. \A r \in Peer : \/ wire'[r] = wire[r] \/ wire'[r] = <<>>
                      \/ wire[r] # <<>> /\ wire'[r] = Tail(wire[r])
  <2> SUFFICES ASSUME NEW r \in Peer
               PROVE  \/ wire'[r] = wire[r] \/ wire'[r] = <<>>
                      \/ wire[r] # <<>> /\ wire'[r] = Tail(wire[r])
    OBVIOUS
  <2>1. CASE r = p
    BY <1>1, <2>1, Rows
  <2>2. CASE r # p
    BY <1>1, <2>2, Rows
  <2> QED BY <2>1, <2>2
<1>4. Carries' /\ NoMoreJoins /\ Silent
  BY <1>2, <1>3, NoneMore
<1>5. wire'[Other(p)] = wire[Other(p)]
  BY <1>1, OthersRow, Rows
<1> QED BY <1>2, <1>4, <1>5, OthersRow DEF WiresHold

LEMMA WireClosed ==
  ASSUME BridgesInv, NEW p \in Peer, NEW told, NEW s, CloseSocket(p, told)
  PROVE  WiresHold(p, s) /\ NoMoreJoins /\ Silent /\ wire'[p] = <<>>
<1> DEFINE m == Message("leave", None, 0)
           q == Other(p)
           sent == told /\ Seated(p) /\ Seated(q)
           w == IF sent THEN Append(wire[q], m) ELSE wire[q]
<1>1. q \in Peer /\ q # p /\ \A r \in Peer : r # q => r = p
  BY OthersRow, TheOther
<1>2. m \in Wired /\ m.kind = "leave"
  BY DEF Message, Wired
<1>3. w \in Seq(Wired)
  BY <1>1, <1>2, Rows
<1>4. wire' = [wire EXCEPT ![p] = <<>>, ![q] = w]
  BY DEF CloseSocket
<1>5. wire' \in [Peer -> Seq(Wired)] /\ wire'[p] = <<>> /\ wire'[q] = w
  <2> HIDE DEF w, q
  <2>1. <<>> \in Seq(Wired) /\ wire \in [Peer -> Seq(Wired)]
    BY Rows
  <2> QED BY <1>1, <1>3, <1>4, <2>1
<1>6. Carries' /\ NoMoreJoins /\ Silent
  <2>1. CASE sent
    <3>1. wire'[q] = Append(wire[q], m) /\ \A r \in Peer : r # q => wire'[r] = <<>>
      BY <1>1, <1>5, <2>1
    <3>2. /\ Carries' /\ \A r \in Peer : JoinComes(r)' => JoinComes(r) \/ (r = q /\ m.kind = "join")
          /\ \A r \in Peer : OfferSent(r) => m.kind = "offer"
      BY <1>1, <1>2, <1>5, <3>1, OneMore
    <3> QED BY <1>2, <3>2 DEF NoMoreJoins, Silent
  <2>2. CASE ~sent
    <3>1. wire'[q] = wire[q]
      BY <1>5, <2>2
    <3> QED BY <1>1, <1>5, <3>1, NoneMore
  <2> QED BY <2>1, <2>2
<1>7. wire'[q] # <<>> => Seated(q)
  <2>1. CASE sent
    BY <2>1
  <2>2. CASE ~sent
    BY <1>5, <2>2, OthersRow
  <2> QED BY <2>1, <2>2
<1> QED BY <1>5, <1>6, <1>7 DEF WiresHold

LEMMA WireRelayed ==
  ASSUME BridgesInv, NEW p \in Peer, NEW m \in Wired, Relay(p, m),
         m.kind \in {"offer", "answer"}, m.offer \in Offers
  PROVE  /\ WiresHold(p, client[p].sock) /\ NoMoreJoins
         /\ \A q \in Peer : OfferSent(q) =>
              q = p /\ Seated(p) /\ m.kind = "offer" /\ Last(wire'[Other(q)]) = m
<1>1. CASE Seated(p) /\ Seated(Other(p))
  <2>1. wire' = [wire EXCEPT ![Other(p)] = Append(wire[Other(p)], m)]
    BY <1>1 DEF Relay
  <2>2. Other(p) \in Peer /\ Other(p) # p
    BY OthersRow
  <2>3. /\ wire' \in [Peer -> Seq(Wired)] /\ wire'[Other(p)] = Append(wire[Other(p)], m)
        /\ \A r \in Peer : r # Other(p) => wire'[r] = wire[r]
    BY <2>1, <2>2, Rows
  <2>4. /\ Carries'
        /\ \A r \in Peer : JoinComes(r)' => JoinComes(r) \/ (r = Other(p) /\ m.kind = "join")
        /\ \A r \in Peer : OfferSent(r) =>
             Other(r) = Other(p) /\ m.kind = "offer" /\ Last(wire'[Other(p)]) = m
    BY <2>2, <2>3, OneMore
  <2>5. \A r \in Peer : Other(r) = Other(p) => r = p
    BY <2>2, OthersRow, TheOther
  <2>6. NoMoreJoins
    BY <2>4 DEF NoMoreJoins
  <2>7. WiresHold(p, client[p].sock)
    BY <1>1, <2>3, <2>4 DEF WiresHold, Seated
  <2> QED BY <1>1, <2>4, <2>5, <2>6, <2>7
<1>2. CASE ~(Seated(p) /\ Seated(Other(p)))
  <2>1. wire' = wire
    BY <1>2 DEF Relay
  <2> QED BY <2>1, WireKept DEF Silent
<1> QED BY <1>1, <1>2

-----------------------------------------------------------------------------
(* The tasks of one end.                                                   *)

LEMMA TaskAdded ==
  ASSUME NEW ts \in Seq(Tasks), NEW g \in Nat, AllSound(ts, g), NEW k \in Tasks, Sound(k, g)
  PROVE  Append(ts, k) \in Seq(Tasks) /\ AllSound(Append(ts, k), g)
<1>1. /\ Append(ts, k) \in Seq(Tasks) /\ DOMAIN Append(ts, k) = 1..(Len(ts) + 1)
      /\ DOMAIN ts = 1..Len(ts) /\ Len(ts) \in Nat /\ Append(ts, k)[Len(ts) + 1] = k
      /\ \A i \in 1..Len(ts) : Append(ts, k)[i] = ts[i]
  BY SeqAppend
<1>2. ASSUME NEW i \in DOMAIN Append(ts, k)
      PROVE  Append(ts, k)[i] = k \/ \E j \in DOMAIN ts : Append(ts, k)[i] = ts[j]
  BY <1>1
<1> QED BY <1>1, <1>2 DEF AllSound

LEMMA TaskRemoved ==
  ASSUME NEW ts \in Seq(Tasks), NEW g \in Nat, AllSound(ts, g), NEW i \in DOMAIN ts
  PROVE  RemoveAt(ts, i) \in Seq(Tasks) /\ AllSound(RemoveAt(ts, i), g)
<1> DEFINE a == SubSeq(ts, 1, i - 1)
           b == SubSeq(ts, i + 1, Len(ts))
<1>1. i \in 1..Len(ts) /\ Len(ts) \in Nat
  OBVIOUS
<1>2. /\ a \in Seq(Tasks) /\ Len(a) = i - 1 /\ DOMAIN a = 1..(i - 1)
      /\ \A j \in 1..(i - 1) : a[j] = ts[j]
  BY <1>1
<1>3. /\ b \in Seq(Tasks) /\ Len(b) = Len(ts) - i /\ DOMAIN b = 1..(Len(ts) - i)
      /\ \A j \in 1..(Len(ts) - i) : b[j] = ts[j + i]
  BY <1>1
<1> HIDE DEF a, b
<1>4. /\ a \o b \in Seq(Tasks) /\ DOMAIN (a \o b) = 1..(Len(ts) - 1)
      /\ \A j \in 1..(i - 1) : (a \o b)[j] = a[j]
      /\ \A j \in 1..(Len(ts) - i) : (a \o b)[j + i - 1] = b[j]
  <2>1. /\ a \o b \in Seq(Tasks) /\ Len(a \o b) = Len(a) + Len(b)
        /\ \A j \in 1..(Len(a) + Len(b)) :
             (a \o b)[j] = IF j <= Len(a) THEN a[j] ELSE b[j - Len(a)]
    BY <1>2, <1>3, ConcatProperties
  <2>2. Len(a) + Len(b) = Len(ts) - 1
    BY <1>1, <1>2, <1>3
  <2>3. DOMAIN (a \o b) = 1..(Len(ts) - 1)
    BY <2>1, <2>2
  <2>4. ASSUME NEW j \in 1..(i - 1) PROVE (a \o b)[j] = a[j]
    BY <1>1, <1>2, <1>3, <2>1
  <2>5. ASSUME NEW j \in 1..(Len(ts) - i) PROVE (a \o b)[j + i - 1] = b[j]
    <3> DEFINE h == j + i - 1
    <3>1. Len(a) = i - 1 /\ Len(b) = Len(ts) - i /\ i \in Nat /\ j \in Nat /\ 1 <= i /\ 1 <= j
      BY <1>1, <1>2, <1>3
    <3>2. h \in 1..(Len(a) + Len(b))
      BY <1>1, <3>1, SMTT(40)
    <3>3. ~(h <= Len(a)) /\ h - Len(a) = j
      BY <3>1, SMTT(40)
    <3> HIDE DEF h
    <3>4. (a \o b)[h] = b[j]
      BY <2>1, <3>2, <3>3
    <3> QED BY <3>4 DEF h
  <2> QED BY <2>1, <2>3, <2>4, <2>5
<1>5. RemoveAt(ts, i) = a \o b
  BY DEF RemoveAt, a, b
<1>6. ASSUME NEW j \in DOMAIN (a \o b) PROVE \E h \in DOMAIN ts : (a \o b)[j] = ts[h]
  <2>1. CASE j <= i - 1
    BY <1>1, <1>2, <1>4, <2>1
  <2>2. CASE j > i - 1
    <3>1. j - i + 1 \in 1..(Len(ts) - i)
      BY <1>1, <1>4, <2>2, SMTT(40)
    <3>2. (a \o b)[j] = b[j - i + 1]
      <4>1. (j - i + 1) + i - 1 = j
        BY <1>1, <1>4
      <4> QED BY <1>4, <3>1, <4>1
    <3>3. b[j - i + 1] = ts[j + 1] /\ j + 1 \in DOMAIN ts
      <4>1. (j - i + 1) + i = j + 1 /\ j + 1 \in 1..Len(ts)
        BY <1>1, <1>4, <2>2
      <4>2. b[j - i + 1] = ts[(j - i + 1) + i]
        BY <1>3, <3>1
      <4> QED BY <1>1, <4>1, <4>2
    <3> QED BY <3>2, <3>3
  <2> QED BY <1>1, <1>4, <2>1, <2>2
<1> QED BY <1>4, <1>5, <1>6 DEF AllSound

(* Later generations find the same tasks sound.                            *)
LEMMA SoundLater ==
  ASSUME NEW ts \in Seq(Tasks), NEW g \in Nat, NEW h \in Nat, AllSound(ts, g), g <= h
  PROVE  AllSound(ts, h)
<1> SUFFICES ASSUME NEW i \in DOMAIN ts PROVE Sound(ts[i], h)
  BY DEF AllSound
<1>1. ts[i] \in Tasks /\ Sound(ts[i], g)
  BY DEF AllSound
<1>2. ts[i].on \in Nat
  BY <1>1 DEF Tasks
<1> QED BY <1>1, <1>2 DEF Sound

LEMMA NewTask ==
  ASSUME NEW at \in Steps, NEW g \in Nat, NEW o \in Offers, NEW w \in Nat,
         at \in {"createOffer", "setOffer"} => o.gen = g
  PROVE  Task(at, g, o, w) \in Tasks /\ Sound(Task(at, g, o, w), g)
BY DEF Task, Tasks, Sound

LEMMA TaskDone ==
  ASSUME BridgesInv, NEW p \in Peer, NEW i \in DOMAIN tasks[p], Done(p, i)
  PROVE  \E ts \in Seq(Tasks) : /\ tasks' = [tasks EXCEPT ![p] = ts]
                                /\ AllSound(ts, nego[p].gen)
<1>1. /\ RemoveAt(tasks[p], i) \in Seq(Tasks) /\ AllSound(RemoveAt(tasks[p], i), nego[p].gen)
  BY Rows, TaskRemoved
<1>2. tasks' = [tasks EXCEPT ![p] = RemoveAt(tasks[p], i)]
  BY DEF Done
<1> QED BY <1>1, <1>2

LEMMA TaskGoesOn ==
  ASSUME BridgesInv, NEW p \in Peer, NEW i \in DOMAIN tasks[p], NEW at \in Steps,
         Continue(p, i, at), at = "setOffer" => tasks[p][i].at = "createOffer",
         at # "createOffer"
  PROVE  \E ts \in Seq(Tasks) : /\ tasks' = [tasks EXCEPT ![p] = ts]
                                /\ AllSound(ts, nego[p].gen)
<1> DEFINE k == tasks[p][i]
           g == nego[p].gen
           h == [k EXCEPT !.at = at, !.on = g]
           rest == RemoveAt(tasks[p], i)
<1>1. k \in Tasks /\ g \in Nat /\ Sound(k, g)
  <2>1. tasks[p] \in Seq(Tasks) /\ g \in Nat /\ AllSound(tasks[p], g)
    BY Rows
  <2> QED BY <2>1 DEF AllSound
<1>2. rest \in Seq(Tasks) /\ AllSound(rest, g)
  BY Rows, TaskRemoved
<1>3. tasks' = [tasks EXCEPT ![p] = Append(rest, h)]
  BY DEF Continue
<1> HIDE DEF k, g, rest
<1>4. h \in Tasks /\ h.gen = k.gen /\ h.on = g /\ h.at = at /\ h.offer = k.offer
  BY <1>1 DEF Tasks
<1> HIDE DEF h
<1>5. Sound(h, g)
  <2>1. k.gen \in Nat /\ k.on \in Nat
    BY <1>1 DEF Tasks
  <2>2. k.gen <= g
    BY <1>1, <2>1 DEF Sound
  <2>3. at = "setOffer" => k.offer.gen = k.gen
    BY <1>1 DEF Sound, k
  <2> QED BY <1>1, <1>4, <2>2, <2>3 DEF Sound
<1>6. Append(rest, h) \in Seq(Tasks) /\ AllSound(Append(rest, h), g)
  BY <1>1, <1>2, <1>4, <1>5, TaskAdded
<1> QED BY <1>3, <1>6 DEF g

-----------------------------------------------------------------------------
(* The calls of the controller and the events of the socket.               *)

LEMMA DroppedOrch ==
  ASSUME NEW o \in Orchs
  PROVE  Dropped(o) \in Orchs /\ (Dropped(o) = "left" => o = "left")
BY DEF Dropped, Orchs

LEMMA StartInv == ASSUME BridgesInv, NEW p \in Peer, Start(p) PROVE BridgesInv' /\ Silent
<1> DEFINE n == FreshNego(nego[p].gen + 1, nego[p].made)
           l == [NoClient EXCEPT !.sock = "dialing", !.eager = client[p].eager]
<1>1. nego[p].gen + 1 \in Nat /\ nego[p].made \in Nat
  BY Rows DEF Bridges
<1>2. n \in Bridges /\ n.gen = nego[p].gen + 1 /\ n.inFlight = FALSE
  BY <1>1, FreshBridge
<1>3. client[p].eager \in BOOLEAN
  BY Rows DEF Clients
<1>4. l \in Clients /\ l.sock = "dialing" /\ l.eager = client[p].eager
  BY <1>3, NoClients
<1>5. /\ nego' = [nego EXCEPT ![p] = n] /\ client' = [client EXCEPT ![p] = l]
      /\ pc' = [pc EXCEPT ![p] = FreshPc] /\ orch' = [orch EXCEPT ![p] = "waiting"]
      /\ tasks' = tasks /\ wire' = wire /\ faults' = faults /\ orch[p] = "left"
  BY DEF Start
<1> HIDE DEF n, l
<1>6. wire[p] = <<>>
  BY <1>5, OthersRow
<1>7. WiresHold(p, l.sock) /\ NoMoreJoins /\ Silent
  BY <1>5, <1>6, WireKept DEF WiresHold
<1>8. AllSound(tasks[p], n.gen)
  <2>1. nego[p].gen <= n.gen /\ n.gen \in Nat /\ nego[p].gen \in Nat
    BY <1>1, <1>2, Rows
  <2> QED BY <2>1, Rows, SoundLater
<1>9. tasks' = [tasks EXCEPT ![p] = tasks[p]] /\ "waiting" \in Orchs
  BY <1>5, RowsKept DEF Orchs
<1> QED BY <1>2, <1>4, <1>5, <1>7, <1>8, <1>9, Rows, FreshConnection, RowQuiet

LEMMA ReconnectInv == ASSUME BridgesInv, NEW p \in Peer, Reconnect(p) PROVE BridgesInv' /\ Silent
<1> DEFINE n == FreshNego(nego[p].gen + 1, nego[p].made)
           l == [NoClient EXCEPT !.sock = "dialing", !.eager = client[p].eager]
<1>1. nego[p].gen + 1 \in Nat /\ nego[p].made \in Nat
  BY Rows DEF Bridges
<1>2. n \in Bridges /\ n.gen = nego[p].gen + 1 /\ n.inFlight = FALSE
  BY <1>1, FreshBridge
<1>3. client[p].eager \in BOOLEAN
  BY Rows DEF Clients
<1>4. l \in Clients /\ l.sock = "dialing" /\ l.eager = client[p].eager
  BY <1>3, NoClients
<1>5. /\ nego' = [nego EXCEPT ![p] = n] /\ client' = [client EXCEPT ![p] = l]
      /\ pc' = [pc EXCEPT ![p] = FreshPc] /\ orch' = [orch EXCEPT ![p] = "waiting"]
      /\ tasks' = tasks /\ CloseSocket(p, FALSE) /\ faults' = faults
  BY DEF Reconnect
<1> HIDE DEF n, l
<1>7. WiresHold(p, l.sock) /\ NoMoreJoins /\ Silent
  BY <1>5, WireClosed
<1>8. AllSound(tasks[p], n.gen)
  <2>1. nego[p].gen <= n.gen /\ n.gen \in Nat /\ nego[p].gen \in Nat
    BY <1>1, <1>2, Rows
  <2> QED BY <2>1, Rows, SoundLater
<1>9. tasks' = [tasks EXCEPT ![p] = tasks[p]] /\ "waiting" \in Orchs
  BY <1>5, RowsKept DEF Orchs
<1> QED BY <1>2, <1>4, <1>5, <1>7, <1>8, <1>9, Rows, FreshConnection, RowQuiet

LEMMA CloseInv == ASSUME BridgesInv, NEW p \in Peer, Close(p) PROVE BridgesInv' /\ Silent
<1> DEFINE n == FreshNego(nego[p].gen, nego[p].made)
           l == [NoClient EXCEPT !.eager = client[p].eager]
<1>1. nego[p].gen \in Nat /\ nego[p].made \in Nat
  BY Rows DEF Bridges
<1>2. n \in Bridges /\ n.inFlight = FALSE
  BY <1>1, FreshBridge
<1>3. client[p].eager \in BOOLEAN
  BY Rows DEF Clients
<1>4. l \in Clients /\ l.sock = "none" /\ l.eager = client[p].eager
  BY <1>3, NoClients
<1>5. /\ nego' = [nego EXCEPT ![p] = n] /\ client' = [client EXCEPT ![p] = l]
      /\ pc' = [pc EXCEPT ![p] = FreshPc] /\ orch' = [orch EXCEPT ![p] = "left"]
      /\ tasks' = [tasks EXCEPT ![p] = <<>>] /\ CloseSocket(p, TRUE) /\ faults' = faults
  BY DEF Close
<1> HIDE DEF n, l
<1>6. WiresHold(p, l.sock) /\ NoMoreJoins /\ Silent
  BY <1>5, WireClosed
<1>7. <<>> \in Seq(Tasks) /\ AllSound(<<>>, n.gen)
  BY DEF AllSound
<1>8. "left" \in Orchs
  BY DEF Orchs
<1> QED BY <1>2, <1>4, <1>5, <1>6, <1>7, <1>8, Rows, FreshConnection, RowQuiet

LEMMA SessionEndsInv ==
  ASSUME BridgesInv, NEW p \in Peer, SessionEnds(p) PROVE BridgesInv' /\ Silent
<1> DEFINE n == [nego[p] EXCEPT !.open = FALSE]
           x == CloseLocal(pc[p], nego[p].chan)
<1>1. FALSE \in BOOLEAN
  OBVIOUS
<1>2. n \in Bridges
  BY <1>1, Rows, BridgeFlag
<1>3. n.gen = nego[p].gen /\ n.inFlight = nego[p].inFlight
  BY <1>2, Rows, BridgeFlagKeeps
<1>4. x \in Connections
  BY Rows, ClosedConnection
<1>5. /\ nego' = [nego EXCEPT ![p] = n] /\ pc' = [pc EXCEPT ![p] = x]
      /\ orch' = [orch EXCEPT ![p] = "disconnected"]
      /\ client' = client /\ tasks' = tasks /\ wire' = wire /\ faults' = faults
  BY DEF SessionEnds
<1> HIDE DEF n, x
<1>6. /\ client' = [client EXCEPT ![p] = client[p]] /\ tasks' = [tasks EXCEPT ![p] = tasks[p]]
      /\ "disconnected" \in Orchs
  BY <1>5, RowsKept DEF Orchs
<1>7. WiresHold(p, client[p].sock) /\ NoMoreJoins /\ Silent
  BY <1>5, WireKept
<1>8. n.inFlight => Dials(p)
  BY <1>3 DEF Dials
<1>9. /\ client[p].sock = "dialing" => ~n.inFlight
      /\ AllSound(tasks[p], n.gen) /\ faults' \in 0..(MaxFaults + 1)
  BY <1>3, <1>5, Rows, OthersRow
<1>10. /\ client[p] \in Clients /\ tasks[p] \in Seq(Tasks)
       /\ "disconnected" = "left" => client[p].sock = "none"
  BY Rows
<1> QED BY <1>2, <1>4, <1>5, <1>6, <1>7, <1>8, <1>9, <1>10, RowQuiet

(* The one step that adds a join: the other end is told, and the one that  *)
(* dialed has no offer.                                                    *)
LEMMA SocketOpenInv ==
  ASSUME BridgesInv, NEW p \in Peer, SocketOpen(p) PROVE BridgesInv' /\ Silent
<1> DEFINE l == [client[p] EXCEPT !.sock = "open"]
           q == Other(p)
           m == Message("join", None, 0)
<1>1. l \in Clients /\ l.sock = "open" /\ l.eager = client[p].eager
  BY Rows, ClientSock
<1>2. /\ client' = [client EXCEPT ![p] = l] /\ client[p].sock = "dialing"
      /\ orch' = orch /\ nego' = nego /\ pc' = pc /\ tasks' = tasks /\ faults' = faults
  BY DEF SocketOpen
<1> HIDE DEF l
<1>3. q \in Peer /\ q # p /\ \A r \in Peer : r # p => r = q
  BY OthersRow, TheOther
<1>4. m \in Wired /\ m.kind = "join"
  BY DEF Message, Wired
<1>5. ~nego[p].inFlight /\ wire[p] = <<>> /\ ~(orch[p] = "left")
  BY <1>2, OthersRow
<1>6. /\ wire' \in [Peer -> Seq(Wired)] /\ Carries' /\ Silent /\ wire'[p] = <<>>
      /\ wire'[q] # <<>> => Seated(q)
  <2>1. CASE Seated(q)
    <3>1. wire' = [wire EXCEPT ![q] = Append(wire[q], m)]
      BY <2>1 DEF SocketOpen
    <3>2. Append(wire[q], m) \in Seq(Wired)
      BY <1>3, <1>4, Rows
    <3>3. /\ wire' \in [Peer -> Seq(Wired)] /\ wire'[q] = Append(wire[q], m)
          /\ \A r \in Peer : r # q => wire'[r] = wire[r]
      BY <1>3, <3>1, <3>2, Rows
    <3>4. Carries' /\ \A r \in Peer : OfferSent(r) => m.kind = "offer"
      BY <1>3, <1>4, <3>3, OneMore
    <3> QED BY <1>3, <1>4, <1>5, <2>1, <3>3, <3>4 DEF Silent
  <2>2. CASE ~Seated(q)
    <3>1. wire' = wire
      BY <2>2 DEF SocketOpen
    <3> QED BY <1>5, <3>1, Rows, OthersRow, WireKept DEF WiresHold
  <2> QED BY <2>1, <2>2
<1>7. WiresHold(p, l.sock)
  BY <1>6 DEF WiresHold
<1>8. OneDials'
  <2>1. ~Dials(p)'
    <3>1. ~nego'[p].inFlight
      BY <1>2, <1>5
    <3>2. ~JoinComes(p)'
      BY <1>6 DEF JoinComes
    <3> QED BY <3>1, <3>2 DEF Dials
  <2>2. \A r, t \in Peer : r # t => r = p \/ t = p
    BY <1>3
  <2> QED BY <2>1, <2>2 DEF OneDials
<1>9. /\ nego' = [nego EXCEPT ![p] = nego[p]] /\ pc' = [pc EXCEPT ![p] = pc[p]]
      /\ orch' = [orch EXCEPT ![p] = orch[p]] /\ tasks' = [tasks EXCEPT ![p] = tasks[p]]
  BY <1>2, RowsKept
<1>10. /\ l.sock = "dialing" => ~nego[p].inFlight
       /\ orch[p] = "left" => l.sock = "none"
       /\ AllSound(tasks[p], nego[p].gen) /\ faults' \in 0..(MaxFaults + 1)
  BY <1>2, <1>5, Rows
<1>11. /\ nego[p] \in Bridges /\ pc[p] \in Connections /\ tasks[p] \in Seq(Tasks)
       /\ orch[p] \in Orchs
  BY Rows
<1>12. BridgesInv'
  BY <1>1, <1>2, <1>6, <1>7, <1>8, <1>9, <1>10, <1>11, RowStep, ZenonT(60)
<1> QED BY <1>6, <1>12

LEMMA SocketDropInv ==
  ASSUME BridgesInv, NEW p \in Peer, SocketDrop(p) PROVE BridgesInv' /\ Silent
<1> DEFINE l == [NoClient EXCEPT !.eager = client[p].eager]
<1>1. client[p].eager \in BOOLEAN
  BY Rows DEF Clients
<1>2. l \in Clients /\ l.sock = "none" /\ l.eager = client[p].eager
  BY <1>1, NoClients
<1>3. /\ client' = [client EXCEPT ![p] = l] /\ CloseSocket(p, TRUE) /\ tasks' = tasks
      /\ faults' = faults + 1 /\ faults < MaxFaults
  BY DEF SocketDrop
<1> HIDE DEF l
<1>4. WiresHold(p, l.sock) /\ NoMoreJoins /\ Silent
  BY <1>3, WireClosed
<1>5. faults' \in 0..(MaxFaults + 1)
  BY <1>3, Rows, BoundAssumption
<1>6. tasks' = [tasks EXCEPT ![p] = tasks[p]]
  BY <1>3, RowsKept
<1>7. Dropped(orch[p]) \in Orchs
  BY Rows, DroppedOrch
<1>8. CASE client[p].present
  <2> DEFINE n == Released(nego[p])
             x == CloseLocal(pc[p], nego[p].chan)
             o == Dropped(orch[p])
  <2>1. n \in Bridges /\ n.gen = nego[p].gen /\ n.inFlight = FALSE
    BY Rows, ReleasedBridge
  <2>2. x \in Connections
    BY Rows, ClosedConnection
  <2>3. PeerGone(p)
    BY <1>8 DEF SocketDrop
  <2>4. /\ nego' = [nego EXCEPT ![p] = n] /\ pc' = [pc EXCEPT ![p] = x]
        /\ orch' = [orch EXCEPT ![p] = o]
    BY <2>3 DEF PeerGone
  <2> HIDE DEF n, x, o
  <2>5. o \in Orchs
    BY <1>7 DEF o
  <2> QED BY <1>2, <1>3, <1>4, <1>5, <1>6, <2>1, <2>2, <2>4, <2>5, Rows, RowQuiet
<1>9. CASE ~client[p].present
  <2> DEFINE o == IF nego[p].suppress THEN orch[p] ELSE Dropped(orch[p])
  <2>1. o \in Orchs
    BY <1>7, Rows
  <2>2. orch' = [orch EXCEPT ![p] = o] /\ nego' = nego /\ pc' = pc
    BY <1>9 DEF SocketDrop
  <2> HIDE DEF o
  <2>3. nego' = [nego EXCEPT ![p] = nego[p]] /\ pc' = [pc EXCEPT ![p] = pc[p]]
    BY <2>2, RowsKept
  <2>4. nego[p].inFlight => Dials(p)
    BY DEF Dials
  <2> QED BY <1>2, <1>3, <1>4, <1>5, <1>6, <2>1, <2>2, <2>3, <2>4, Rows, RowQuiet
<1> QED BY <1>8, <1>9

LEMMA GraceExpiresInv ==
  ASSUME BridgesInv, NEW p \in Peer, GraceExpires(p) PROVE BridgesInv' /\ Silent
<1> DEFINE n == [nego[p] EXCEPT !.timer = FALSE]
           l == [NoClient EXCEPT !.eager = client[p].eager]
<1>1. FALSE \in BOOLEAN /\ client[p].eager \in BOOLEAN
  BY Rows DEF Clients
<1>2. n \in Bridges
  BY <1>1, Rows, BridgeFlag
<1>3. n.gen = nego[p].gen /\ n.inFlight = nego[p].inFlight
  BY <1>2, Rows, BridgeFlagKeeps
<1>4. l \in Clients /\ l.sock = "none" /\ l.eager = client[p].eager
  BY <1>1, NoClients
<1>5. /\ nego' = [nego EXCEPT ![p] = n] /\ client' = [client EXCEPT ![p] = l]
      /\ CloseSocket(p, FALSE)
      /\ orch' = orch /\ pc' = pc /\ tasks' = tasks /\ faults' = faults
  BY DEF GraceExpires
<1> HIDE DEF n, l
<1>6. WiresHold(p, l.sock) /\ NoMoreJoins /\ Silent
  BY <1>5, WireClosed
<1>7. /\ orch' = [orch EXCEPT ![p] = orch[p]] /\ pc' = [pc EXCEPT ![p] = pc[p]]
      /\ tasks' = [tasks EXCEPT ![p] = tasks[p]]
  BY <1>5, RowsKept
<1>8. n.inFlight => Dials(p)
  BY <1>3 DEF Dials
<1>9. /\ l.sock = "dialing" => ~n.inFlight
      /\ AllSound(tasks[p], n.gen) /\ faults' \in 0..(MaxFaults + 1)
      /\ orch[p] = "left" => l.sock = "none"
  BY <1>3, <1>4, <1>5, Rows
<1>10. tasks[p] \in Seq(Tasks) /\ orch[p] \in Orchs /\ pc[p] \in Connections
  BY Rows
<1> QED BY <1>2, <1>4, <1>5, <1>6, <1>7, <1>8, <1>9, <1>10, RowQuiet

-----------------------------------------------------------------------------
(* The messages of the broker.                                             *)

(* An end that originates: its offer is recorded and on its way.           *)
LEMMA Originated ==
  ASSUME BridgesInv, NEW p \in Peer, Originates(p)
  PROVE  \E n \in Bridges, l \in Clients, x \in Connections, ts \in Seq(Tasks) :
           /\ nego' = [nego EXCEPT ![p] = n] /\ client' = [client EXCEPT ![p] = l]
           /\ pc' = [pc EXCEPT ![p] = x] /\ tasks' = [tasks EXCEPT ![p] = ts]
           /\ orch' = [orch EXCEPT ![p] = orch[p]] /\ faults' \in 0..(MaxFaults + 1)
           /\ AllSound(ts, n.gen) /\ l.sock = client[p].sock /\ l.eager = client[p].eager
<1> DEFINE stale == nego[p].chan # None \/ nego[p].inFlight
           n == IF stale THEN Released(nego[p]) ELSE nego[p]
           c == [by |-> p, n |-> n.made + 1]
           d == Recorded(n, c)
           e == [d EXCEPT !.inFlight = TRUE]
           f == [e EXCEPT !.made = d.made + 1]
           h == [client[p] EXCEPT !.present = TRUE]
           l == [h EXCEPT !.glare = TRUE]
           y == IF stale THEN CloseLocal(pc[p], nego[p].chan) ELSE pc[p]
           x == [y EXCEPT !.live = c]
           o == [chan |-> c, gen |-> n.gen]
           k == Task("createOffer", n.gen, o, 0)
<1>1. /\ nego' = [nego EXCEPT ![p] = f] /\ client' = [client EXCEPT ![p] = l]
      /\ pc' = [pc EXCEPT ![p] = x] /\ tasks' = [tasks EXCEPT ![p] = Append(tasks[p], k)]
      /\ orch' = orch /\ faults' = faults
  BY DEF Originates
<1>2. n \in Bridges /\ n.gen = nego[p].gen
  <2>1. CASE stale
    BY <2>1, Rows, ReleasedBridge
  <2>2. CASE ~stale
    BY <2>2, Rows
  <2> QED BY <2>1, <2>2
<1>3. y \in Connections
  <2>1. CASE stale
    BY <2>1, Rows, ClosedConnection
  <2>2. CASE ~stale
    BY <2>2, Rows
  <2> QED BY <2>1, <2>2
<1>4. TRUE \in BOOLEAN
  OBVIOUS
<1>5. h \in Clients /\ h.sock = client[p].sock /\ h.eager = client[p].eager
  BY <1>4, Rows, ClientFlags
<1> HIDE DEF h
<1>6. l \in Clients /\ l.sock = client[p].sock /\ l.eager = client[p].eager
  <2>1. l \in Clients /\ l.sock = h.sock /\ l.eager = h.eager
    BY <1>4, <1>5, ClientFlags
  <2> QED BY <1>5, <2>1
<1> HIDE DEF l, n, y
<1>7. c \in Channels /\ n.gen \in Nat
  BY <1>2 DEF Bridges, Channels
<1> HIDE DEF c
<1>8. x \in Connections
  BY <1>3, <1>7, ConnectionChan
<1> HIDE DEF x
<1>9. d \in Bridges /\ d.gen = n.gen
  BY <1>2, <1>7, RecordedBridge
<1> HIDE DEF d
<1>10. e \in Bridges /\ e.gen = d.gen
  BY <1>4, <1>9, BridgeFlight
<1> HIDE DEF e
<1>11. f \in Bridges /\ f.gen = e.gen
  <2>1. d.made + 1 \in Nat
    BY <1>9 DEF Bridges
  <2> QED BY <1>10, <2>1, BridgeMade
<1> HIDE DEF f
<1>12. o \in Offers /\ o.gen = n.gen
  BY <1>7 DEF Offers
<1> HIDE DEF o
<1>13. k \in Tasks /\ Sound(k, n.gen)
  BY <1>7, <1>12, NewTask DEF Steps
<1> HIDE DEF k
<1>14. Append(tasks[p], k) \in Seq(Tasks) /\ AllSound(Append(tasks[p], k), nego[p].gen)
  BY <1>2, <1>13, Rows, TaskAdded
<1>15. f.gen = nego[p].gen
  BY <1>2, <1>9, <1>10, <1>11
<1>16. AllSound(Append(tasks[p], k), f.gen)
  BY <1>14, <1>15
<1>17. orch' = [orch EXCEPT ![p] = orch[p]] /\ faults' \in 0..(MaxFaults + 1)
  BY <1>1, Rows, RowsKept
<1> QED BY <1>1, <1>6, <1>8, <1>11, <1>14, <1>16, <1>17

(* The socket that delivers is open.                                       *)
LEMMA Delivering ==
  ASSUME BridgesInv, NEW p \in Peer, wire[p] # <<>>
  PROVE  /\ client[p].sock = "open" /\ orch[p] # "left" /\ 1 \in DOMAIN wire[p]
         /\ Head(wire[p]) = wire[p][1] /\ Head(wire[p]) \in Wired
         /\ Head(wire[p]).kind \in {"offer", "answer"} => Head(wire[p]).offer \in Offers
<1>1. wire[p] \in Seq(Wired)
  BY Rows
<1>2. 1 \in DOMAIN wire[p] /\ Head(wire[p]) = wire[p][1] /\ Head(wire[p]) \in Wired
  BY <1>1
<1>3. \A i \in DOMAIN wire[p] : wire[p][i].kind \in {"offer", "answer"} => wire[p][i].offer \in Offers
  BY DEF BridgesInv, Carries
<1> QED BY <1>2, <1>3, OthersRow

LEMMA DeliverJoinInv ==
  ASSUME BridgesInv, NEW p \in Peer, DeliverJoin(p) PROVE BridgesInv' /\ Silent
<1>1. wire[p] # <<>> /\ Head(wire[p]).kind = "join" /\ Take(p) /\ Originates(p)
  BY DEF DeliverJoin
<1>2. WiresHold(p, client[p].sock) /\ NoMoreJoins /\ Silent
  BY <1>1, WireTaken
<1>3. Dials(p)
  BY <1>1, Delivering DEF Dials, JoinComes
<1>4. PICK n \in Bridges, l \in Clients, x \in Connections, ts \in Seq(Tasks) :
           /\ nego' = [nego EXCEPT ![p] = n] /\ client' = [client EXCEPT ![p] = l]
           /\ pc' = [pc EXCEPT ![p] = x] /\ tasks' = [tasks EXCEPT ![p] = ts]
           /\ orch' = [orch EXCEPT ![p] = orch[p]] /\ faults' \in 0..(MaxFaults + 1)
           /\ AllSound(ts, n.gen) /\ l.sock = client[p].sock /\ l.eager = client[p].eager
  BY <1>1, Originated
<1>5. /\ WiresHold(p, l.sock) /\ orch[p] \in Orchs
      /\ l.sock = "dialing" => ~n.inFlight
      /\ orch[p] = "left" => l.sock = "none"
      /\ n.inFlight => Dials(p)
  BY <1>1, <1>2, <1>3, <1>4, Delivering, Rows
<1> QED BY <1>2, <1>4, <1>5, RowQuiet

(* A client of an older version breaks the turns, and only it.             *)
LEMMA CounterOfferInv ==
  ASSUME BridgesInv, NEW p \in Peer, CounterOffer(p) PROVE BridgesInv' /\ Silent
<1>1. wire[p] # <<>> /\ client[p].eager /\ Originates(p) /\ wire' = wire
  BY DEF CounterOffer, Promotes
<1>2. WiresHold(p, client[p].sock) /\ Silent
  BY <1>1, WireKept
<1>4. PICK n \in Bridges, l \in Clients, x \in Connections, ts \in Seq(Tasks) :
           /\ nego' = [nego EXCEPT ![p] = n] /\ client' = [client EXCEPT ![p] = l]
           /\ pc' = [pc EXCEPT ![p] = x] /\ tasks' = [tasks EXCEPT ![p] = ts]
           /\ orch' = [orch EXCEPT ![p] = orch[p]] /\ faults' \in 0..(MaxFaults + 1)
           /\ AllSound(ts, n.gen) /\ l.sock = client[p].sock /\ l.eager = client[p].eager
  BY <1>1, Originated
<1>5. /\ WiresHold(p, l.sock) /\ orch[p] \in Orchs
      /\ l.sock = "dialing" => ~n.inFlight
      /\ orch[p] = "left" => l.sock = "none"
  BY <1>1, <1>2, <1>4, Delivering, Rows
<1>6. OneDials'
  <2>1. client'[p] = l
    BY <1>4, Rows
  <2>2. client'[p].eager
    BY <1>1, <1>4, <2>1
  <2> QED BY <2>2 DEF OneDials
<1> QED BY <1>2, <1>4, <1>5, <1>6, RowStep

LEMMA DeliverLeaveInv ==
  ASSUME BridgesInv, NEW p \in Peer, DeliverLeave(p) PROVE BridgesInv' /\ Silent
<1>1. wire[p] # <<>> /\ Take(p) /\ tasks' = tasks /\ faults' = faults
  BY DEF DeliverLeave
<1>2. WiresHold(p, client[p].sock) /\ NoMoreJoins /\ Silent
  BY <1>1, WireTaken
<1>3. tasks' = [tasks EXCEPT ![p] = tasks[p]] /\ faults' \in 0..(MaxFaults + 1)
  BY <1>1, Rows, RowsKept
<1>4. CASE client[p].present
  <2> DEFINE h == [client[p] EXCEPT !.present = FALSE]
             l == [h EXCEPT !.glare = FALSE]
             n == Released(nego[p])
             x == CloseLocal(pc[p], nego[p].chan)
             o == Dropped(orch[p])
  <2>1. client' = [client EXCEPT ![p] = l] /\ PeerGone(p)
    BY <1>4 DEF DeliverLeave
  <2>2. /\ nego' = [nego EXCEPT ![p] = n] /\ pc' = [pc EXCEPT ![p] = x]
        /\ orch' = [orch EXCEPT ![p] = o]
    BY <2>1 DEF PeerGone
  <2>3. FALSE \in BOOLEAN
    OBVIOUS
  <2>4. h \in Clients /\ h.sock = client[p].sock /\ h.eager = client[p].eager
    BY <2>3, Rows, ClientFlags
  <2> HIDE DEF h
  <2>5. l \in Clients /\ l.sock = h.sock /\ l.eager = h.eager
    BY <2>3, <2>4, ClientFlags
  <2>6. n \in Bridges /\ n.gen = nego[p].gen /\ n.inFlight = FALSE
    BY Rows, ReleasedBridge
  <2>7. x \in Connections
    BY Rows, ClosedConnection
  <2>8. o \in Orchs /\ (o = "left" => orch[p] = "left")
    BY Rows, DroppedOrch
  <2> HIDE DEF l, n, x, o
  <2>9. /\ WiresHold(p, l.sock) /\ AllSound(tasks[p], n.gen) /\ tasks[p] \in Seq(Tasks)
        /\ l.sock = "dialing" => ~n.inFlight
        /\ o = "left" => l.sock = "none"
        /\ n.inFlight => Dials(p)
        /\ l.eager = client[p].eager
    BY <1>1, <1>2, <2>4, <2>5, <2>6, <2>8, Delivering, Rows
  <2> QED BY <1>2, <1>3, <2>1, <2>2, <2>5, <2>6, <2>7, <2>8, <2>9, RowQuiet
<1>5. CASE ~client[p].present
  <2>1. client' = client /\ nego' = nego /\ pc' = pc /\ orch' = orch
    BY <1>5 DEF DeliverLeave
  <2>2. /\ client' = [client EXCEPT ![p] = client[p]] /\ nego' = [nego EXCEPT ![p] = nego[p]]
        /\ pc' = [pc EXCEPT ![p] = pc[p]] /\ orch' = [orch EXCEPT ![p] = orch[p]]
    BY <2>1, RowsKept
  <2>3. nego[p].inFlight => Dials(p)
    BY DEF Dials
  <2> QED BY <1>2, <1>3, <2>2, <2>3, Rows, OthersRow, RowQuiet
<1> QED BY <1>4, <1>5

LEMMA DeliverOfferInv ==
  ASSUME BridgesInv, NEW p \in Peer, DeliverOffer(p) PROVE BridgesInv' /\ Silent
<1> DEFINE m == Head(wire[p])
           l == [client[p] EXCEPT !.present = TRUE]
           at == IF nego[p].inFlight THEN "rollback" ELSE "setRemote"
           k == Task(at, nego[p].gen, m.offer, 0)
           ts == IF Ignores(p) THEN tasks[p] ELSE Append(tasks[p], k)
<1>1. /\ wire[p] # <<>> /\ m.kind = "offer" /\ Take(p)
      /\ client' = [client EXCEPT ![p] = l] /\ tasks' = [tasks EXCEPT ![p] = ts]
      /\ orch' = orch /\ nego' = nego /\ pc' = pc /\ faults' = faults
  BY DEF DeliverOffer
<1>2. WiresHold(p, client[p].sock) /\ NoMoreJoins /\ Silent
  BY <1>1, WireTaken
<1>3. TRUE \in BOOLEAN
  OBVIOUS
<1>4. l \in Clients /\ l.sock = client[p].sock /\ l.eager = client[p].eager
  BY <1>3, Rows, ClientFlags
<1>5. m.offer \in Offers
  BY <1>1, Delivering
<1>6. at \in Steps /\ at \notin {"createOffer", "setOffer"}
  BY DEF Steps
<1> HIDE DEF m, l, at
<1>7. k \in Tasks /\ Sound(k, nego[p].gen)
  BY <1>5, <1>6, Rows, NewTask
<1> HIDE DEF k
<1>8. ts \in Seq(Tasks) /\ AllSound(ts, nego[p].gen)
  <2>1. Append(tasks[p], k) \in Seq(Tasks) /\ AllSound(Append(tasks[p], k), nego[p].gen)
    BY <1>7, Rows, TaskAdded
  <2> QED BY <2>1, Rows
<1> HIDE DEF ts
<1>9. /\ nego' = [nego EXCEPT ![p] = nego[p]] /\ pc' = [pc EXCEPT ![p] = pc[p]]
      /\ orch' = [orch EXCEPT ![p] = orch[p]] /\ faults' \in 0..(MaxFaults + 1)
  BY <1>1, Rows, RowsKept
<1>10. /\ WiresHold(p, l.sock)
       /\ l.sock = "dialing" => ~nego[p].inFlight
       /\ orch[p] = "left" => l.sock = "none"
       /\ nego[p].inFlight => Dials(p)
  BY <1>2, <1>4, OthersRow DEF Dials
<1> QED BY <1>1, <1>2, <1>4, <1>8, <1>9, <1>10, Rows, RowQuiet

LEMMA DeliverAnswerInv ==
  ASSUME BridgesInv, NEW p \in Peer, DeliverAnswer(p) PROVE BridgesInv' /\ Silent
<1> DEFINE m == Head(wire[p])
           h == [client[p] EXCEPT !.present = TRUE]
           l == [h EXCEPT !.glare = FALSE]
           n == [nego[p] EXCEPT !.inFlight = FALSE]
           k == Task("applyAnswer", nego[p].gen, m.offer, m.answerer)
           ts == Append(tasks[p], k)
<1>1. /\ wire[p] # <<>> /\ m.kind = "answer" /\ Take(p)
      /\ client' = [client EXCEPT ![p] = l] /\ tasks' = [tasks EXCEPT ![p] = ts]
      /\ nego' = [nego EXCEPT ![p] = n]
      /\ orch' = orch /\ pc' = pc /\ faults' = faults
  BY DEF DeliverAnswer
<1>2. WiresHold(p, client[p].sock) /\ NoMoreJoins /\ Silent
  BY <1>1, WireTaken
<1>3. TRUE \in BOOLEAN /\ FALSE \in BOOLEAN
  OBVIOUS
<1>4. h \in Clients /\ h.sock = client[p].sock /\ h.eager = client[p].eager
  BY <1>3, Rows, ClientFlags
<1> HIDE DEF h
<1>5. l \in Clients /\ l.sock = h.sock /\ l.eager = h.eager
  BY <1>3, <1>4, ClientFlags
<1>6. m.offer \in Offers /\ m.answerer \in Nat
  BY <1>1, Delivering DEF Wired
<1>7. n \in Bridges /\ n.gen = nego[p].gen /\ n.inFlight = FALSE
  <2>1. FALSE \in BOOLEAN /\ nego[p] \in Bridges
    BY Rows
  <2> QED BY <2>1, BridgeFlight, ZenonT(60)
<1> HIDE DEF m, l, n
<1>8. k \in Tasks /\ Sound(k, nego[p].gen)
  BY <1>6, Rows, NewTask DEF Steps
<1> HIDE DEF k
<1>9. ts \in Seq(Tasks) /\ AllSound(ts, nego[p].gen)
  BY <1>8, Rows, TaskAdded
<1> HIDE DEF ts
<1>10. /\ pc' = [pc EXCEPT ![p] = pc[p]]
       /\ orch' = [orch EXCEPT ![p] = orch[p]] /\ faults' \in 0..(MaxFaults + 1)
  BY <1>1, Rows, RowsKept
<1>11. /\ WiresHold(p, l.sock) /\ l.eager = client[p].eager
       /\ l.sock = "dialing" => ~n.inFlight
       /\ orch[p] = "left" => l.sock = "none"
       /\ n.inFlight => Dials(p)
       /\ AllSound(ts, n.gen)
  BY <1>2, <1>4, <1>5, <1>7, <1>9, OthersRow
<1>12. pc[p] \in Connections /\ orch[p] \in Orchs
  BY Rows
<1> QED BY <1>1, <1>2, <1>5, <1>7, <1>9, <1>10, <1>11, <1>12, RowQuiet

-----------------------------------------------------------------------------
(* The operations of the peer connection that settle.                      *)

LEMMA TaskFacts ==
  ASSUME BridgesInv, NEW p \in Peer, NEW i \in DOMAIN tasks[p]
  PROVE  /\ tasks[p][i] \in Tasks /\ Sound(tasks[p][i], nego[p].gen)
         /\ Settled(p, tasks[p][i]) \in Connections
<1>1. tasks[p] \in Seq(Tasks) /\ AllSound(tasks[p], nego[p].gen) /\ pc[p] \in Connections
  BY Rows
<1>2. tasks[p][i] \in Tasks /\ Sound(tasks[p][i], nego[p].gen)
  BY <1>1 DEF AllSound
<1>3. Applied(pc[p], tasks[p][i]) \in Connections
  BY <1>1, <1>2, AppliedConnection
<1> QED BY <1>1, <1>2, <1>3 DEF Settled

LEMMA Faulted ==
  ASSUME BridgesInv, NEW p \in Peer, NEW k, Fault(p, k) \/ faults' = faults
  PROVE  faults' \in 0..(MaxFaults + 1)
<1>1. faults' = MaxFaults + 1 \/ faults' = faults
  BY DEF Fault
<1>2. faults \in 0..(MaxFaults + 1) /\ MaxFaults + 1 \in 0..(MaxFaults + 1)
  BY Rows, BoundAssumption
<1> QED BY <1>1, <1>2

(* A step that leaves the socket and the bridge's turn alone.              *)
LEMMA Settles ==
  ASSUME BridgesInv, NEW p \in Peer, NEW n \in Bridges, NEW l \in Clients, NEW x \in Connections,
         NEW o \in Orchs,
         nego' = [nego EXCEPT ![p] = n], client' = [client EXCEPT ![p] = l],
         pc' = [pc EXCEPT ![p] = x], orch' = [orch EXCEPT ![p] = o],
         \E ts \in Seq(Tasks) : /\ tasks' = [tasks EXCEPT ![p] = ts]
                                /\ AllSound(ts, nego[p].gen),
         faults' \in 0..(MaxFaults + 1), WiresHold(p, client[p].sock), NoMoreJoins,
         n.gen = nego[p].gen, n.inFlight => nego[p].inFlight,
         l.sock = client[p].sock, l.eager = client[p].eager, o = "left" => orch[p] = "left"
  PROVE  BridgesInv'
<1>1. PICK ts \in Seq(Tasks) : tasks' = [tasks EXCEPT ![p] = ts] /\ AllSound(ts, nego[p].gen)
  OBVIOUS
<1>2. AllSound(ts, n.gen) /\ WiresHold(p, l.sock)
  BY <1>1
<1>3. /\ l.sock = "dialing" => ~n.inFlight
      /\ o = "left" => l.sock = "none"
  BY OthersRow
<1>4. n.inFlight => Dials(p)
  BY DEF Dials
<1> QED BY <1>1, <1>2, <1>3, <1>4, RowQuiet

LEMMA OfferCreatedInv ==
  ASSUME BridgesInv, NEW p \in Peer, NEW i \in DOMAIN tasks[p], OfferCreated(p, i, tasks[p][i])
  PROVE  BridgesInv' /\ Silent
<1> DEFINE k == tasks[p][i]
<1>1. /\ k.at = "createOffer" /\ orch' = orch /\ nego' = nego /\ client' = client
      /\ wire' = wire /\ faults' = faults
  BY DEF OfferCreated
<1>2. WiresHold(p, client[p].sock) /\ NoMoreJoins /\ Silent
  BY <1>1, WireKept
<1>3. \E ts \in Seq(Tasks) : tasks' = [tasks EXCEPT ![p] = ts] /\ AllSound(ts, nego[p].gen)
  <2>1. CASE IsLiveOffer(p, k)
    <3>1. Continue(p, i, "setOffer")
      BY <2>1 DEF OfferCreated
    <3>2. "setOffer" \in Steps
      BY DEF Steps
    <3> QED BY <1>1, <3>1, <3>2, TaskGoesOn
  <2>2. CASE ~IsLiveOffer(p, k)
    <3>1. Done(p, i)
      BY <2>2 DEF OfferCreated
    <3> QED BY <3>1, TaskDone
  <2> QED BY <2>1, <2>2
<1>4. \E x \in Connections : pc' = [pc EXCEPT ![p] = x]
  <2>1. CASE IsLiveOffer(p, k)
    <3>1. pc' = pc
      BY <2>1 DEF OfferCreated
    <3> QED BY <3>1, Rows, RowsKept
  <2>2. CASE ~IsLiveOffer(p, k)
    <3>1. pc' = [pc EXCEPT ![p] = CloseLocal(pc[p], k.offer.chan)]
      BY <2>2 DEF OfferCreated
    <3> QED BY <3>1, Rows, ClosedConnection
  <2> QED BY <2>1, <2>2
<1>5. /\ orch' = [orch EXCEPT ![p] = orch[p]] /\ nego' = [nego EXCEPT ![p] = nego[p]]
      /\ client' = [client EXCEPT ![p] = client[p]] /\ faults' \in 0..(MaxFaults + 1)
  BY <1>1, Rows, RowsKept
<1> QED BY <1>2, <1>3, <1>4, <1>5, Rows, Settles

(* What the offers that go out look like.                                  *)
Stands(p) == LET o == Last(wire'[Other(p)]).offer IN
             /\ o = [chan |-> nego'[p].chan, gen |-> nego'[p].gen]
             /\ pc'[p].sig = "haveLocalOffer"
             /\ client'[p].glare
OffersStand == \A p \in Peer : OfferSent(p) => Stands(p)

LEMMA OfferSetInv ==
  ASSUME BridgesInv, NEW p \in Peer, NEW i \in DOMAIN tasks[p], OfferSet(p, i, tasks[p][i])
  PROVE  BridgesInv' /\ OffersStand
<1> DEFINE k == tasks[p][i]
           m == Message("offer", k.offer, 0)
<1>1. /\ k.at = "setOffer" /\ Done(p, i) /\ orch' = orch /\ nego' = nego /\ faults' = faults
  BY DEF OfferSet
<1>2. \E ts \in Seq(Tasks) : tasks' = [tasks EXCEPT ![p] = ts] /\ AllSound(ts, nego[p].gen)
  BY <1>1, TaskDone
<1>3. /\ orch' = [orch EXCEPT ![p] = orch[p]] /\ nego' = [nego EXCEPT ![p] = nego[p]]
      /\ faults' \in 0..(MaxFaults + 1)
  BY <1>1, Rows, RowsKept
<1>4. k \in Tasks /\ Sound(k, nego[p].gen) /\ Settled(p, k) \in Connections
  BY TaskFacts
<1>5. CASE IsLiveOffer(p, k)
  <2> DEFINE v == client[p].glare \/ Seated(p)
             l == [client[p] EXCEPT !.glare = v]
             x == Settled(p, k)
  <2>1. Relay(p, m) /\ client' = [client EXCEPT ![p] = l] /\ pc' = [pc EXCEPT ![p] = x]
    BY <1>5 DEF OfferSet
  <2>2. v \in BOOLEAN
    BY DEF Seated
  <2>3. l \in Clients /\ l.sock = client[p].sock /\ l.eager = client[p].eager /\ l.glare = v
    <3> HIDE DEF v
    <3>1. client[p] \in Clients
      BY Rows
    <3>2. l \in Clients /\ l.sock = client[p].sock /\ l.eager = client[p].eager
      BY <2>2, <3>1, ClientFlags
    <3>3. l.glare = v
      BY <2>2, <3>1, ClientGlare
    <3> QED BY <3>2, <3>3
  <2>4. m \in Wired /\ m.kind = "offer" /\ m.offer = k.offer /\ k.offer \in Offers
    BY <1>4 DEF Message, Wired, Tasks
  <2>5. /\ WiresHold(p, client[p].sock) /\ NoMoreJoins
        /\ \A q \in Peer : OfferSent(q) =>
             q = p /\ Seated(p) /\ m.kind = "offer" /\ Last(wire'[Other(q)]) = m
    BY <2>1, <2>4, WireRelayed
  <2>6. x.sig = "haveLocalOffer"
    <3>1. k.gen = nego[p].gen
      BY <1>5 DEF IsLiveOffer, Owns
    <3>2. k.gen \in Nat /\ k.on \in Nat
      BY <1>4 DEF Tasks
    <3>3. k.on = nego[p].gen
      BY <1>4, <3>1, <3>2, Rows DEF Sound
    <3>4. x = Applied(pc[p], k)
      BY <3>3 DEF Settled, Current
    <3> QED BY <1>1, <1>4, <3>4, Rows, AppliedConnection
  <2>7. k.offer = [chan |-> nego[p].chan, gen |-> nego[p].gen]
    <3>1. k.offer.chan = nego[p].chan /\ k.gen = nego[p].gen
      BY <1>5 DEF IsLiveOffer, Owns
    <3>2. k.offer.gen = k.gen
      BY <1>1, <1>4 DEF Sound
    <3> QED BY <2>4, <3>1, <3>2 DEF Offers
  <2> HIDE DEF l, x, v, m, k
  <2>8. client'[p] = l /\ pc'[p] = x /\ nego'[p] = nego[p]
    BY <1>1, <2>1, Rows
  <2>9. OffersStand
    <3> SUFFICES ASSUME NEW q \in Peer, OfferSent(q) PROVE Stands(q)
      BY DEF OffersStand
    <3>1. q = p /\ Seated(p) /\ Last(wire'[Other(q)]) = m
      BY <2>5
    <3>2. client'[p].glare
      <4>1. l.glare
        BY <2>3, <3>1 DEF v
      <4> QED BY <2>8, <4>1
    <3>3. pc'[p].sig = "haveLocalOffer"
      BY <2>6, <2>8
    <3>4. m.offer = [chan |-> nego'[p].chan, gen |-> nego'[p].gen]
      BY <2>4, <2>7, <2>8
    <3> QED BY <3>1, <3>2, <3>3, <3>4 DEF Stands
  <2> QED BY <1>2, <1>3, <1>4, <2>1, <2>3, <2>5, <2>9, Rows, Settles DEF x
<1>6. CASE ~IsLiveOffer(p, k)
  <2> DEFINE x == CloseLocal(Settled(p, k), k.offer.chan)
  <2>1. wire' = wire /\ client' = client /\ pc' = [pc EXCEPT ![p] = x]
    BY <1>6 DEF OfferSet
  <2>2. x \in Connections
    BY <1>4, ClosedConnection
  <2> HIDE DEF x
  <2>3. WiresHold(p, client[p].sock) /\ NoMoreJoins /\ Silent
    BY <2>1, WireKept
  <2>4. client' = [client EXCEPT ![p] = client[p]]
    BY <2>1, RowsKept
  <2>5. BridgesInv'
    BY <1>2, <1>3, <2>1, <2>2, <2>3, <2>4, Rows, Settles
  <2> QED BY <2>3, <2>5 DEF OffersStand, Silent
<1> QED BY <1>5, <1>6

LEMMA EndOfferClient ==
  ASSUME NEW l \in Clients
  PROVE  EndOffer(l) \in Clients /\ EndOffer(l).sock = l.sock /\ EndOffer(l).eager = l.eager
<1>1. FALSE \in BOOLEAN
  OBVIOUS
<1> QED BY <1>1, ClientFlags DEF EndOffer

(* An attempt that is over, its channel given up or not.                   *)
LEMMA Ended ==
  ASSUME NEW n \in Bridges, NEW d, d = [n EXCEPT !.inFlight = FALSE]
         \/ d = [DiscardChannel(n) EXCEPT !.inFlight = FALSE]
  PROVE  d \in Bridges /\ d.gen = n.gen /\ d.inFlight = FALSE
<1>1. FALSE \in BOOLEAN
  OBVIOUS
<1>2. DiscardChannel(n) \in Bridges /\ DiscardChannel(n).gen = n.gen
  BY Discarded
<1>3. CASE d = [n EXCEPT !.inFlight = FALSE]
  BY <1>1, <1>3, BridgeFlight
<1>4. CASE d = [DiscardChannel(n) EXCEPT !.inFlight = FALSE]
  BY <1>1, <1>2, <1>4, BridgeFlight
<1> QED BY <1>3, <1>4

LEMMA OfferFailsInv ==
  ASSUME BridgesInv, NEW p \in Peer, NEW i \in DOMAIN tasks[p], OfferFails(p, i, tasks[p][i])
  PROVE  BridgesInv' /\ Silent
<1> DEFINE k == tasks[p][i]
           x == CloseLocal(pc[p], k.offer.chan)
<1>1. /\ Done(p, i) /\ pc' = [pc EXCEPT ![p] = x] /\ Fault(p, k) /\ orch' = orch /\ wire' = wire
  BY DEF OfferFails
<1>2. \E ts \in Seq(Tasks) : tasks' = [tasks EXCEPT ![p] = ts] /\ AllSound(ts, nego[p].gen)
  BY <1>1, TaskDone
<1>3. x \in Connections
  BY Rows, ClosedConnection
<1> HIDE DEF x
<1>4. orch' = [orch EXCEPT ![p] = orch[p]] /\ faults' \in 0..(MaxFaults + 1)
  BY <1>1, Rows, RowsKept, Faulted
<1>5. WiresHold(p, client[p].sock) /\ NoMoreJoins /\ Silent
  BY <1>1, WireKept
<1>6. CASE Owns(p, k)
  <2> DEFINE n == IF nego[p].chan = k.offer.chan
                  THEN [DiscardChannel(nego[p]) EXCEPT !.inFlight = FALSE]
                  ELSE [nego[p] EXCEPT !.inFlight = FALSE]
             l == EndOffer(client[p])
  <2>1. nego' = [nego EXCEPT ![p] = n] /\ client' = [client EXCEPT ![p] = l]
    BY <1>6 DEF OfferFails
  <2>2. n \in Bridges /\ n.gen = nego[p].gen /\ n.inFlight = FALSE
    <3>1. \/ n = [nego[p] EXCEPT !.inFlight = FALSE]
          \/ n = [DiscardChannel(nego[p]) EXCEPT !.inFlight = FALSE]
      OBVIOUS
    <3> HIDE DEF n
    <3> QED BY <3>1, Rows, Ended
  <2>3. l \in Clients /\ l.sock = client[p].sock /\ l.eager = client[p].eager
    BY Rows, EndOfferClient
  <2> HIDE DEF n, l
  <2> QED BY <1>1, <1>2, <1>3, <1>4, <1>5, <2>1, <2>2, <2>3, Rows, Settles
<1>7. CASE ~Owns(p, k)
  <2>1. nego' = nego /\ client' = client
    BY <1>7 DEF OfferFails
  <2>2. nego' = [nego EXCEPT ![p] = nego[p]] /\ client' = [client EXCEPT ![p] = client[p]]
    BY <2>1, RowsKept
  <2> QED BY <1>1, <1>2, <1>3, <1>4, <1>5, <2>2, Rows, Settles
<1> QED BY <1>6, <1>7

LEMMA RolledBackInv ==
  ASSUME BridgesInv, NEW p \in Peer, NEW i \in DOMAIN tasks[p], RolledBack(p, i, tasks[p][i])
  PROVE  BridgesInv' /\ Silent
<1> DEFINE k == tasks[p][i]
<1>1. k.at = "rollback" /\ orch' = orch /\ wire' = wire /\ faults' = faults
  BY DEF RolledBack
<1>2. orch' = [orch EXCEPT ![p] = orch[p]] /\ faults' \in 0..(MaxFaults + 1)
  BY <1>1, Rows, RowsKept
<1>3. WiresHold(p, client[p].sock) /\ NoMoreJoins /\ Silent
  BY <1>1, WireKept
<1>4. CASE Owns(p, k)
  <2> DEFINE n == [DiscardChannel(nego[p]) EXCEPT !.inFlight = FALSE]
             l == EndOffer(client[p])
             x == CloseLocal(Settled(p, k), nego[p].chan)
  <2>1. /\ nego' = [nego EXCEPT ![p] = n] /\ client' = [client EXCEPT ![p] = l]
        /\ pc' = [pc EXCEPT ![p] = x] /\ Continue(p, i, "setRemote")
    BY <1>4 DEF RolledBack
  <2>2. n \in Bridges /\ n.gen = nego[p].gen /\ n.inFlight = FALSE
    BY Rows, Ended
  <2>3. l \in Clients /\ l.sock = client[p].sock /\ l.eager = client[p].eager
    BY Rows, EndOfferClient
  <2>4. x \in Connections
    BY TaskFacts, ClosedConnection
  <2>5. "setRemote" \in Steps
    BY DEF Steps
  <2>6. \E ts \in Seq(Tasks) : tasks' = [tasks EXCEPT ![p] = ts] /\ AllSound(ts, nego[p].gen)
    BY <2>1, <2>5, TaskGoesOn
  <2> HIDE DEF n, l, x
  <2> QED BY <1>2, <1>3, <2>1, <2>2, <2>3, <2>4, <2>6, Rows, Settles
<1>5. CASE ~Owns(p, k)
  <2>1. nego' = nego /\ client' = client /\ pc' = pc /\ Done(p, i)
    BY <1>5 DEF RolledBack
  <2>2. /\ nego' = [nego EXCEPT ![p] = nego[p]] /\ client' = [client EXCEPT ![p] = client[p]]
        /\ pc' = [pc EXCEPT ![p] = pc[p]]
    BY <2>1, RowsKept
  <2>3. \E ts \in Seq(Tasks) : tasks' = [tasks EXCEPT ![p] = ts] /\ AllSound(ts, nego[p].gen)
    BY <2>1, TaskDone
  <2> QED BY <1>2, <1>3, <2>2, <2>3, Rows, Settles
<1> QED BY <1>4, <1>5

LEMMA RollbackFailsInv ==
  ASSUME BridgesInv, NEW p \in Peer, NEW i \in DOMAIN tasks[p], RollbackFails(p, i, tasks[p][i])
  PROVE  BridgesInv' /\ Silent
<1> DEFINE k == tasks[p][i]
<1>1. Done(p, i) /\ Fault(p, k) /\ wire' = wire
  BY DEF RollbackFails
<1>2. faults' \in 0..(MaxFaults + 1)
  BY <1>1, Faulted
<1>3. WiresHold(p, client[p].sock) /\ NoMoreJoins /\ Silent
  BY <1>1, WireKept
<1>4. \E ts \in Seq(Tasks) : tasks' = [tasks EXCEPT ![p] = ts] /\ AllSound(ts, nego[p].gen)
  BY <1>1, TaskDone
<1>5. CASE Owns(p, k)
  <2> DEFINE n == [DiscardChannel(nego[p]) EXCEPT !.inFlight = FALSE]
             l == EndOffer(client[p])
             x == CloseLocal(pc[p], nego[p].chan)
             o == Dropped(orch[p])
  <2>1. /\ nego' = [nego EXCEPT ![p] = n] /\ client' = [client EXCEPT ![p] = l]
        /\ pc' = [pc EXCEPT ![p] = x] /\ orch' = [orch EXCEPT ![p] = o]
    BY <1>5 DEF RollbackFails
  <2>2. n \in Bridges /\ n.gen = nego[p].gen /\ n.inFlight = FALSE
    BY Rows, Ended
  <2>3. l \in Clients /\ l.sock = client[p].sock /\ l.eager = client[p].eager
    BY Rows, EndOfferClient
  <2>4. x \in Connections
    BY Rows, ClosedConnection
  <2>5. o \in Orchs /\ (o = "left" => orch[p] = "left")
    BY Rows, DroppedOrch
  <2> HIDE DEF n, l, x, o
  <2> QED BY <1>2, <1>3, <1>4, <2>1, <2>2, <2>3, <2>4, <2>5, Settles
<1>6. CASE ~Owns(p, k)
  <2>1. nego' = nego /\ client' = client /\ pc' = pc /\ orch' = orch
    BY <1>6 DEF RollbackFails
  <2>2. /\ nego' = [nego EXCEPT ![p] = nego[p]] /\ client' = [client EXCEPT ![p] = client[p]]
        /\ pc' = [pc EXCEPT ![p] = pc[p]] /\ orch' = [orch EXCEPT ![p] = orch[p]]
    BY <2>1, RowsKept
  <2> QED BY <1>2, <1>3, <1>4, <2>2, Rows, Settles
<1> QED BY <1>5, <1>6

LEMMA AnswerAdvancesInv ==
  ASSUME BridgesInv, NEW p \in Peer, NEW i \in DOMAIN tasks[p], AnswerAdvances(p, i, tasks[p][i])
  PROVE  BridgesInv' /\ Silent
<1> DEFINE k == tasks[p][i]
           at == IF k.at = "setRemote" THEN "createAnswer" ELSE "setAnswer"
           x == Settled(p, k)
<1>1. /\ pc' = [pc EXCEPT ![p] = x]
      /\ orch' = orch /\ nego' = nego /\ client' = client /\ wire' = wire /\ faults' = faults
  BY DEF AnswerAdvances
<1>2. x \in Connections
  BY TaskFacts
<1>3. \E ts \in Seq(Tasks) : tasks' = [tasks EXCEPT ![p] = ts] /\ AllSound(ts, nego[p].gen)
  <2>1. CASE Owns(p, k)
    <3>1. Continue(p, i, at)
      BY <2>1 DEF AnswerAdvances
    <3>2. at \in Steps /\ at # "setOffer" /\ at # "createOffer"
      BY DEF Steps
    <3> HIDE DEF at
    <3> QED BY <3>1, <3>2, TaskGoesOn
  <2>2. CASE ~Owns(p, k)
    <3>1. Done(p, i)
      BY <2>2 DEF AnswerAdvances
    <3> QED BY <3>1, TaskDone
  <2> QED BY <2>1, <2>2
<1> HIDE DEF x
<1>4. /\ orch' = [orch EXCEPT ![p] = orch[p]] /\ nego' = [nego EXCEPT ![p] = nego[p]]
      /\ client' = [client EXCEPT ![p] = client[p]] /\ faults' \in 0..(MaxFaults + 1)
  BY <1>1, Rows, RowsKept
<1>5. WiresHold(p, client[p].sock) /\ NoMoreJoins /\ Silent
  BY <1>1, WireKept
<1> QED BY <1>1, <1>2, <1>3, <1>4, <1>5, Rows, Settles

LEMMA AnswerSetInv ==
  ASSUME BridgesInv, NEW p \in Peer, NEW i \in DOMAIN tasks[p], AnswerSet(p, i, tasks[p][i])
  PROVE  BridgesInv' /\ Silent
<1> DEFINE k == tasks[p][i]
           x == Settled(p, k)
           m == Message("answer", k.offer, k.on)
<1>1. /\ pc' = [pc EXCEPT ![p] = x] /\ Done(p, i)
      /\ orch' = orch /\ nego' = nego /\ client' = client /\ faults' = faults
  BY DEF AnswerSet
<1>2. x \in Connections /\ k \in Tasks
  BY TaskFacts
<1>3. \E ts \in Seq(Tasks) : tasks' = [tasks EXCEPT ![p] = ts] /\ AllSound(ts, nego[p].gen)
  BY <1>1, TaskDone
<1>4. /\ orch' = [orch EXCEPT ![p] = orch[p]] /\ nego' = [nego EXCEPT ![p] = nego[p]]
      /\ client' = [client EXCEPT ![p] = client[p]] /\ faults' \in 0..(MaxFaults + 1)
  BY <1>1, Rows, RowsKept
<1>5. WiresHold(p, client[p].sock) /\ NoMoreJoins /\ Silent
  <2>1. CASE Owns(p, k)
    <3>1. Relay(p, m)
      BY <2>1 DEF AnswerSet
    <3>2. m \in Wired /\ m.kind = "answer" /\ m.offer \in Offers
      BY <1>2 DEF Message, Wired, Tasks
    <3> HIDE DEF m
    <3>3. /\ WiresHold(p, client[p].sock) /\ NoMoreJoins
          /\ \A q \in Peer : OfferSent(q) => m.kind = "offer"
      BY <3>1, <3>2, WireRelayed
    <3> QED BY <3>2, <3>3 DEF Silent
  <2>2. CASE ~Owns(p, k)
    <3>1. wire' = wire
      BY <2>2 DEF AnswerSet
    <3> QED BY <3>1, WireKept
  <2> QED BY <2>1, <2>2
<1> HIDE DEF x
<1> QED BY <1>1, <1>2, <1>3, <1>4, <1>5, Rows, Settles

LEMMA AnswerFailsInv ==
  ASSUME BridgesInv, NEW p \in Peer, NEW i \in DOMAIN tasks[p], AnswerFails(p, i, tasks[p][i])
  PROVE  BridgesInv' /\ Silent
<1> DEFINE k == tasks[p][i]
<1>1. /\ Done(p, i) /\ Fault(p, k) /\ orch' = orch /\ client' = client /\ wire' = wire
  BY DEF AnswerFails
<1>2. \E ts \in Seq(Tasks) : tasks' = [tasks EXCEPT ![p] = ts] /\ AllSound(ts, nego[p].gen)
  BY <1>1, TaskDone
<1>3. /\ orch' = [orch EXCEPT ![p] = orch[p]] /\ client' = [client EXCEPT ![p] = client[p]]
      /\ faults' \in 0..(MaxFaults + 1)
  BY <1>1, RowsKept, Faulted
<1>4. WiresHold(p, client[p].sock) /\ NoMoreJoins /\ Silent
  BY <1>1, WireKept
<1>5. CASE Owns(p, k) /\ ~nego[p].fired
  <2> DEFINE n == DiscardChannel(nego[p])
             x == CloseLocal(pc[p], nego[p].chan)
  <2>1. nego' = [nego EXCEPT ![p] = n] /\ pc' = [pc EXCEPT ![p] = x]
    BY <1>5 DEF AnswerFails
  <2>2. n \in Bridges /\ n.gen = nego[p].gen /\ n.inFlight = nego[p].inFlight
    BY Rows, Discarded
  <2>3. x \in Connections
    BY Rows, ClosedConnection
  <2> HIDE DEF n, x
  <2>4. n.inFlight => nego[p].inFlight
    BY <2>2
  <2> QED BY <1>2, <1>3, <1>4, <2>1, <2>2, <2>3, <2>4, Rows, Settles
<1>6. CASE ~(Owns(p, k) /\ ~nego[p].fired)
  <2>1. nego' = nego /\ pc' = pc
    BY <1>6 DEF AnswerFails
  <2>2. nego' = [nego EXCEPT ![p] = nego[p]] /\ pc' = [pc EXCEPT ![p] = pc[p]]
    BY <2>1, RowsKept
  <2> QED BY <1>2, <1>3, <1>4, <2>2, Rows, Settles
<1> QED BY <1>5, <1>6

LEMMA AnswerAppliedInv ==
  ASSUME BridgesInv, NEW p \in Peer, NEW i \in DOMAIN tasks[p],
         AnswerApplied(p, i, tasks[p][i]) \/ AnswerRefused(p, i, tasks[p][i])
  PROVE  BridgesInv' /\ Silent
<1> DEFINE k == tasks[p][i]
<1>1. /\ Done(p, i) /\ orch' = orch /\ nego' = nego /\ client' = client /\ wire' = wire
      /\ Fault(p, k) \/ faults' = faults
      /\ pc' = [pc EXCEPT ![p] = Settled(p, k)] \/ pc' = pc
  BY DEF AnswerApplied, AnswerRefused
<1>2. \E ts \in Seq(Tasks) : tasks' = [tasks EXCEPT ![p] = ts] /\ AllSound(ts, nego[p].gen)
  BY <1>1, TaskDone
<1>3. \E x \in Connections : pc' = [pc EXCEPT ![p] = x]
  BY <1>1, TaskFacts, Rows, RowsKept
<1>4. /\ orch' = [orch EXCEPT ![p] = orch[p]] /\ nego' = [nego EXCEPT ![p] = nego[p]]
      /\ client' = [client EXCEPT ![p] = client[p]] /\ faults' \in 0..(MaxFaults + 1)
  BY <1>1, RowsKept, Faulted
<1>5. WiresHold(p, client[p].sock) /\ NoMoreJoins /\ Silent
  BY <1>1, WireKept
<1> QED BY <1>2, <1>3, <1>4, <1>5, Rows, Settles

LEMMA SettleInv ==
  ASSUME BridgesInv, NEW p \in Peer, Settle(p)
  PROVE  BridgesInv' /\ OffersStand
<1>1. PICK i \in DOMAIN tasks[p] :
        \/ OfferCreated(p, i, tasks[p][i]) \/ OfferSet(p, i, tasks[p][i])
        \/ RolledBack(p, i, tasks[p][i]) \/ AnswerAdvances(p, i, tasks[p][i])
        \/ AnswerSet(p, i, tasks[p][i]) \/ AnswerApplied(p, i, tasks[p][i])
        \/ OfferFails(p, i, tasks[p][i]) \/ RollbackFails(p, i, tasks[p][i])
        \/ AnswerFails(p, i, tasks[p][i]) \/ AnswerRefused(p, i, tasks[p][i])
  BY DEF Settle
<1>2. CASE OfferSet(p, i, tasks[p][i])
  BY <1>2, OfferSetInv
<1>3. CASE ~OfferSet(p, i, tasks[p][i])
  <2>1. BridgesInv' /\ Silent
    BY <1>1, <1>3, OfferCreatedInv, RolledBackInv, AnswerAdvancesInv, AnswerSetInv,
       AnswerAppliedInv, OfferFailsInv, RollbackFailsInv, AnswerFailsInv
  <2> QED BY <2>1 DEF Silent, OffersStand
<1> QED BY <1>2, <1>3

-----------------------------------------------------------------------------
(* The events of the peer connection.                                      *)

LEMMA ChannelArrivesInv ==
  ASSUME BridgesInv, NEW p \in Peer, ChannelArrives(p) PROVE BridgesInv' /\ Silent
<1> DEFINE theirs == pc[Other(p)].live
           x == [pc[p] EXCEPT !.arrived = theirs]
           n == Recorded(nego[p], theirs)
<1>1. /\ pc' = [pc EXCEPT ![p] = x] /\ nego' = [nego EXCEPT ![p] = n]
      /\ orch' = orch /\ client' = client /\ tasks' = tasks /\ wire' = wire /\ faults' = faults
      /\ theirs # None
  BY DEF ChannelArrives
<1>2. theirs \in Channels
  <2>1. pc[Other(p)] \in Connections
    BY OthersRow, Rows
  <2> QED BY <1>1, <2>1 DEF Connections
<1> HIDE DEF theirs
<1>3. x \in Connections
  BY <1>2, Rows, ConnectionChan
<1>4. n \in Bridges /\ n.gen = nego[p].gen /\ n.inFlight = nego[p].inFlight
  BY <1>2, Rows, RecordedBridge
<1> HIDE DEF x, n
<1>5. /\ orch' = [orch EXCEPT ![p] = orch[p]] /\ client' = [client EXCEPT ![p] = client[p]]
      /\ tasks' = [tasks EXCEPT ![p] = tasks[p]] /\ faults' \in 0..(MaxFaults + 1)
      /\ tasks[p] \in Seq(Tasks) /\ AllSound(tasks[p], nego[p].gen)
  BY <1>1, Rows, RowsKept
<1>6. WiresHold(p, client[p].sock) /\ NoMoreJoins /\ Silent
  BY <1>1, WireKept
<1>7. n.inFlight => nego[p].inFlight
  BY <1>4
<1>8. \E ts \in Seq(Tasks) : tasks' = [tasks EXCEPT ![p] = ts] /\ AllSound(ts, nego[p].gen)
  BY <1>5
<1> QED BY <1>1, <1>3, <1>4, <1>5, <1>6, <1>7, <1>8, Rows, Settles

LEMMA ChannelOpensInv ==
  ASSUME BridgesInv, NEW p \in Peer, ChannelOpens(p) PROVE BridgesInv' /\ Silent
<1> DEFINE u == [nego[p] EXCEPT !.open = TRUE]
           a == [u EXCEPT !.fired = TRUE]
           b == [a EXCEPT !.suppress = TRUE]
           c == [b EXCEPT !.timer = TRUE]
           n == IF Ready(p, u) THEN c ELSE u
           o == IF Ready(p, u) THEN "attached" ELSE orch[p]
<1>1. /\ nego' = [nego EXCEPT ![p] = n] /\ orch' = [orch EXCEPT ![p] = o]
      /\ client' = client /\ pc' = pc /\ tasks' = tasks /\ wire' = wire /\ faults' = faults
  BY DEF ChannelOpens, MaybeFire
<1>2. TRUE \in BOOLEAN
  OBVIOUS
<1>3. o \in Orchs /\ (o = "left" => orch[p] = "left")
  BY Rows DEF Orchs
<1> HIDE DEF o
<1>4. u \in Bridges
  BY <1>2, Rows, BridgeFlag
<1>5. u.gen = nego[p].gen /\ u.inFlight = nego[p].inFlight
  BY <1>4, Rows, BridgeFlagKeeps
<1> HIDE DEF u
<1>6. a \in Bridges
  BY <1>2, <1>4, BridgeFlag
<1>7. a.gen = u.gen /\ a.inFlight = u.inFlight
  BY <1>4, <1>6, BridgeFlagKeeps
<1> HIDE DEF a
<1>8. b \in Bridges
  BY <1>2, <1>6, BridgeFlag
<1>9. b.gen = a.gen /\ b.inFlight = a.inFlight
  BY <1>6, <1>8, BridgeFlagKeeps
<1> HIDE DEF b
<1>10. c \in Bridges
  BY <1>2, <1>8, BridgeFlag
<1>11. c.gen = b.gen /\ c.inFlight = b.inFlight
  BY <1>8, <1>10, BridgeFlagKeeps
<1> HIDE DEF c
<1>12. n \in Bridges /\ n.gen = nego[p].gen /\ n.inFlight = nego[p].inFlight
  <2>1. c.gen = nego[p].gen /\ c.inFlight = nego[p].inFlight
    BY <1>5, <1>7, <1>9, <1>11
  <2>2. CASE Ready(p, u)
    BY <1>10, <2>1, <2>2
  <2>3. CASE ~Ready(p, u)
    BY <1>4, <1>5, <2>3
  <2> QED BY <2>2, <2>3
<1> HIDE DEF n
<1>13. /\ pc' = [pc EXCEPT ![p] = pc[p]] /\ client' = [client EXCEPT ![p] = client[p]]
       /\ tasks' = [tasks EXCEPT ![p] = tasks[p]] /\ faults' \in 0..(MaxFaults + 1)
       /\ tasks[p] \in Seq(Tasks) /\ AllSound(tasks[p], nego[p].gen)
  BY <1>1, Rows, RowsKept
<1>14. WiresHold(p, client[p].sock) /\ NoMoreJoins /\ Silent
  BY <1>1, WireKept
<1>15. n.inFlight => nego[p].inFlight
  BY <1>12
<1>16. \E ts \in Seq(Tasks) : tasks' = [tasks EXCEPT ![p] = ts] /\ AllSound(ts, nego[p].gen)
  BY <1>13
<1> QED BY <1>1, <1>3, <1>12, <1>13, <1>14, <1>15, <1>16, Rows, Settles

LEMMA ConnectionFailsInv ==
  ASSUME BridgesInv, NEW p \in Peer, ConnectionFails(p) PROVE BridgesInv' /\ Silent
<1> DEFINE n == Released(nego[p])
           l == EndOffer(client[p])
           y == CloseLocal(pc[p], nego[p].chan)
           x == [y EXCEPT !.exchange = None]
           o == Dropped(orch[p])
<1>1. /\ nego' = [nego EXCEPT ![p] = n] /\ client' = [client EXCEPT ![p] = l]
      /\ pc' = [pc EXCEPT ![p] = x] /\ orch' = [orch EXCEPT ![p] = o]
      /\ tasks' = tasks /\ wire' = wire
      /\ faults' = faults \/ (faults < MaxFaults /\ faults' = faults + 1)
  BY DEF ConnectionFails
<1>2. n \in Bridges /\ n.gen = nego[p].gen /\ n.inFlight = FALSE
  BY Rows, ReleasedBridge
<1>3. l \in Clients /\ l.sock = client[p].sock /\ l.eager = client[p].eager
  BY Rows, EndOfferClient
<1>4. y \in Connections
  BY Rows, ClosedConnection
<1> HIDE DEF y
<1>5. x \in Connections
  <2>1. None \in Exchanges \cup {None}
    OBVIOUS
  <2> QED BY <1>4, <2>1, ConnectionExchange
<1>6. o \in Orchs /\ (o = "left" => orch[p] = "left")
  BY Rows, DroppedOrch
<1> HIDE DEF n, l, x, o
<1>7. faults' \in 0..(MaxFaults + 1)
  BY <1>1, Rows, BoundAssumption
<1>8. /\ tasks' = [tasks EXCEPT ![p] = tasks[p]]
      /\ tasks[p] \in Seq(Tasks) /\ AllSound(tasks[p], nego[p].gen)
  BY <1>1, Rows, RowsKept
<1>9. WiresHold(p, client[p].sock) /\ NoMoreJoins /\ Silent
  BY <1>1, WireKept
<1>10. \E ts \in Seq(Tasks) : tasks' = [tasks EXCEPT ![p] = ts] /\ AllSound(ts, nego[p].gen)
  BY <1>8
<1> QED BY <1>1, <1>2, <1>3, <1>5, <1>6, <1>7, <1>9, <1>10, Settles

-----------------------------------------------------------------------------
LEMMA BridgesInit == Init => BridgesInv
<1> SUFFICES ASSUME Init PROVE BridgesInv
  OBVIOUS
<1>1. PICK legacy \in {{}, Eager} :
        client = [p \in Peer |-> [NoClient EXCEPT !.eager = p \in legacy]]
  BY DEF Init
<1>2. /\ orch = [p \in Peer |-> "left"] /\ nego = [p \in Peer |-> FreshNego(0, 0)]
      /\ pc = [p \in Peer |-> FreshPc] /\ tasks = [p \in Peer |-> <<>>]
      /\ wire = [p \in Peer |-> <<>>] /\ faults = 0
  BY DEF Init
<1>3. FreshNego(0, 0) \in Bridges /\ FreshNego(0, 0).inFlight = FALSE
  BY FreshBridge
<1>4. ASSUME NEW p \in Peer
      PROVE  /\ [NoClient EXCEPT !.eager = p \in legacy] \in Clients
             /\ [NoClient EXCEPT !.eager = p \in legacy].sock = "none"
  <2>1. (p \in legacy) \in BOOLEAN
    OBVIOUS
  <2> QED BY <2>1, NoClients
<1>5. TypeOK
  <2>1. nego \in [Peer -> Bridges] /\ client \in [Peer -> Clients]
    BY <1>1, <1>2, <1>3, <1>4
  <2>2. /\ orch \in [Peer -> Orchs] /\ pc \in [Peer -> Connections]
        /\ tasks \in [Peer -> Seq(Tasks)] /\ wire \in [Peer -> Seq(Wired)]
        /\ faults \in 0..(MaxFaults + 1)
    BY <1>2, FreshConnection, BoundAssumption DEF Orchs
  <2> QED BY <2>1, <2>2 DEF TypeOK, Orchs, Bridges, Clients, Connections, Tasks, Wired
<1>6. \A p \in Peer : /\ wire[p] = <<>> /\ tasks[p] = <<>>
                      /\ nego[p] = FreshNego(0, 0) /\ client[p].sock = "none"
  BY <1>1, <1>2, <1>4
<1>7. Carries /\ TasksAreSound
  BY <1>6 DEF Carries, TasksAreSound
<1>8. SocketsAreSound
  BY <1>6 DEF SocketsAreSound
<1>9. OneDials
  BY <1>3, <1>6 DEF OneDials, Dials, JoinComes
<1> QED BY <1>5, <1>7, <1>8, <1>9 DEF BridgesInv

LEMMA BridgesStep == BridgesInv /\ [Next]_vars => BridgesInv' /\ (OffersStand \/ UNCHANGED vars)
<1> SUFFICES ASSUME BridgesInv, [Next]_vars PROVE BridgesInv' /\ (OffersStand \/ UNCHANGED vars)
  OBVIOUS
<1>1. CASE UNCHANGED vars
  <2>1. /\ orch' = orch /\ nego' = nego /\ client' = client /\ pc' = pc
        /\ tasks' = tasks /\ wire' = wire /\ faults' = faults
    BY <1>1 DEF vars
  <2>2. TypeOK'
    BY <2>1 DEF BridgesInv, TypeOK
  <2>3. Carries' /\ TasksAreSound'
    BY <2>1 DEF BridgesInv, Carries, TasksAreSound
  <2>4. SocketsAreSound'
    BY <2>1 DEF BridgesInv, SocketsAreSound, Seated
  <2>5. OneDials'
    BY <2>1 DEF BridgesInv, OneDials, Dials, JoinComes
  <2> QED BY <1>1, <2>2, <2>3, <2>4, <2>5 DEF BridgesInv
<1>2. ASSUME NEW p \in Peer, Settle(p) PROVE BridgesInv' /\ OffersStand
  BY <1>2, SettleInv
<1>3. ASSUME NEW p \in Peer,
             \/ Start(p) \/ Reconnect(p) \/ Close(p) \/ SessionEnds(p)
             \/ SocketDrop(p) \/ ConnectionFails(p) \/ SocketOpen(p) \/ Deliver(p)
             \/ ChannelArrives(p) \/ ChannelOpens(p) \/ GraceExpires(p)
      PROVE  BridgesInv' /\ OffersStand
  <2>1. BridgesInv' /\ Silent
    BY <1>3, StartInv, ReconnectInv, CloseInv, SessionEndsInv, SocketDropInv,
       ConnectionFailsInv, SocketOpenInv, DeliverJoinInv, DeliverLeaveInv, DeliverAnswerInv,
       CounterOfferInv, DeliverOfferInv, ChannelArrivesInv, ChannelOpensInv,
       GraceExpiresInv DEF Deliver
  <2> QED BY <2>1 DEF Silent, OffersStand
<1> QED BY <1>1, <1>2, <1>3 DEF Next, Events

(* The types of the two bridges, their sockets and their tasks.            *)
THEOREM BridgesAreTyped == Spec => []TypeOK
<1>1. BridgesInv => TypeOK
  BY DEF BridgesInv
<1> QED BY <1>1, BridgesInit, BridgesStep, PTL DEF Spec

(* Of two bridges of this version only one offers at a time, for every     *)
(* schedule of drops, re-dials and parked coroutines: the join that makes  *)
(* an end offer is on its way to the end that was seated, and the one that *)
(* dialed has just been made.                                              *)
THEOREM TurnsAreTaken == Spec => []OffersNeverCross
<1>1. BridgesInv => OffersNeverCross
  <2> SUFFICES ASSUME BridgesInv, \A p \in Peer : nego[p].inFlight,
                      \A p \in Peer : ~client[p].eager
               PROVE  FALSE
    BY DEF OffersNeverCross
  <2>1. PICK a, b \in Peer : a # b
    BY PeerAssumption
  <2> QED BY <2>1 DEF BridgesInv, OneDials, Dials
<1> QED BY <1>1, BridgesInit, BridgesStep, PTL DEF Spec

(* An offer that reaches the wire is the one its bridge stands by, for any *)
(* number of re-dials, rollbacks and faults: the coroutine that sends is of *)
(* the generation of the live connection, so its operation was too.        *)
THEOREM OffersAreFresh == Spec => NoStaleOffer
<1>1. BridgesInv /\ [Next]_vars => [OffersStand]_vars
  BY BridgesStep
<1>2. [OffersStand]_vars => [\A p \in Peer : OfferSent(p) =>
       LET o == Last(wire'[Other(p)]).offer IN
       /\ o = [chan |-> nego'[p].chan, gen |-> nego'[p].gen]
       /\ pc'[p].sig = "haveLocalOffer"
       /\ client'[p].glare]_vars
  BY DEF OffersStand, Stands
<1> QED BY <1>1, <1>2, BridgesInit, BridgesStep, PTL DEF Spec, NoStaleOffer

-----------------------------------------------------------------------------
(* Whose turn it is, seen from one end p: what it knows of the other end's *)
(* connection h, whose socket is in state s.                               *)

Offering  == {"createOffer", "setOffer"}
Answering == {"rollback", "setRemote", "createAnswer", "setAnswer"}
OfOffer   == {"createOffer", "setOffer", "rollback"}

(* A message, a task or an exchange names the connection of the other end  *)
(* that made the offer or the answer it carries.                           *)
TellsOf(m, g) == \/ m.kind = "offer" /\ m.offer.gen = g
                 \/ m.kind = "answer" /\ m.answerer = g
Learns(k, g) == \/ k.at \in Answering /\ k.offer.gen = g
                \/ k.at = "applyAnswer" /\ k.answerer = g
Joined(p, e, g) == e # None /\ (IF e.offer.chan.by = p THEN e.answerer = g ELSE e.offer.gen = g)

(* An end answers the other's offers and applies the answers to its own;   *)
(* an operation is of its coroutine's connection.                          *)
TaskFits(p, k) == /\ k.on = k.gen
                  /\ k.at \in Offering \cup {"applyAnswer"} => k.offer.chan.by = p
                  /\ k.at \in Answering => k.offer.chan.by # p
MessageFits(p, m) == /\ m.kind = "offer" => m.offer.chan.by # p
                     /\ m.kind = "answer" => m.offer.chan.by = p
Fitting(p, ts, w) == /\ \A i \in DOMAIN ts : TaskFits(p, ts[i])
                     /\ \A i \in DOMAIN w : MessageFits(p, w[i])

(* Only connections that were are named, and the last one only once its    *)
(* socket has opened.                                                      *)
Told(g, h, s) == g <= h /\ (g = h => s # "dialing")
HearSay(p, ts, w, e, h, s) ==
  /\ \A i \in DOMAIN w : \A g \in Nat : TellsOf(w[i], g) => Told(g, h, s)
  /\ \A i \in DOMAIN ts : \A g \in Nat : Learns(ts[i], g) => Told(g, h, s)
  /\ \A g \in Nat : Joined(p, e, g) => Told(g, h, s)

(* The join of a connection is heard before anything that names it.        *)
JoinIn(w) == \E i \in DOMAIN w : w[i].kind = "join"
JoinsFirst(p, ts, w, e, h) ==
  /\ \A i, j \in DOMAIN w : TellsOf(w[i], h) /\ w[j].kind = "join" => j < i
  /\ \A i \in DOMAIN ts : Learns(ts[i], h) => ~JoinIn(w)
  /\ Joined(p, e, h) => ~JoinIn(w)

(* From task i on, no offer of this end is under way.                      *)
Free(n, ts, i) == /\ ~n.inFlight
                  /\ \A j \in DOMAIN ts : i <= j /\ ts[j].gen = n.gen => ts[j].at \notin OfOffer

(* An end that waits and negotiates takes the other one for present.       *)
Attends(n, l, ts, e, o) ==
  o = "waiting" => /\ e # None => l.present
                   /\ \A i \in DOMAIN ts : ts[i].gen = n.gen => l.present

(* An end that waits and hears of the other's connection has given up the  *)
(* offers it started before.                                               *)
Yields(p, n, ts, e, o, h) ==
  o = "waiting" =>
    /\ Joined(p, e, h) => Free(n, ts, 1)
    /\ \A i \in DOMAIN ts : ts[i].gen = n.gen /\ Learns(ts[i], h) /\ ts[i].at # "rollback"
         => Free(n, ts, i)

Latches(n, c, ts, o) ==
  /\ n.timer \/ n.suppress => n.fired
  /\ n.fired => n.chan # None /\ Free(n, ts, 1) /\ o # "waiting"
  /\ c \in {None, n.chan}

Side(p, n, l, x, ts, o, w, h, s) ==
  /\ Fitting(p, ts, w)
  /\ HearSay(p, ts, w, x.exchange, h, s)
  /\ JoinsFirst(p, ts, w, x.exchange, h)
  /\ Attends(n, l, ts, x.exchange, o)
  /\ Yields(p, n, ts, x.exchange, o, h)
  /\ Latches(n, x.live, ts, o)

SideOf(p, q) == Side(p, nego[p], client[p], pc[p], tasks[p], orch[p], wire[p],
                     nego[q].gen, client[q].sock)
Sides == \A p, q \in Peer : p # q => SideOf(p, q)

-----------------------------------------------------------------------------
(* What removing an element leaves.                                        *)
LEMMA Removed ==
  ASSUME NEW S, NEW ts \in Seq(S), NEW i \in DOMAIN ts
  PROVE  /\ RemoveAt(ts, i) \in Seq(S) /\ DOMAIN RemoveAt(ts, i) = 1..(Len(ts) - 1)
         /\ DOMAIN ts = 1..Len(ts) /\ Len(ts) \in Nat /\ i \in 1..Len(ts)
         /\ \A j \in 1..(Len(ts) - 1) : RemoveAt(ts, i)[j] = IF j < i THEN ts[j] ELSE ts[j + 1]
<1> DEFINE a == SubSeq(ts, 1, i - 1)
           b == SubSeq(ts, i + 1, Len(ts))
<1>1. i \in 1..Len(ts) /\ Len(ts) \in Nat
  OBVIOUS
<1>2. a \in Seq(S) /\ Len(a) = i - 1 /\ \A j \in 1..(i - 1) : a[j] = ts[j]
  BY <1>1
<1>3. b \in Seq(S) /\ Len(b) = Len(ts) - i /\ \A j \in 1..(Len(ts) - i) : b[j] = ts[j + i]
  BY <1>1
<1>4. RemoveAt(ts, i) = a \o b
  BY DEF RemoveAt
<1> HIDE DEF a, b
<1>5. /\ a \o b \in Seq(S) /\ Len(a \o b) = Len(a) + Len(b)
      /\ \A j \in 1..(Len(a) + Len(b)) :
           (a \o b)[j] = IF j <= Len(a) THEN a[j] ELSE b[j - Len(a)]
  BY <1>2, <1>3, ConcatProperties
<1>6. Len(a) + Len(b) = Len(ts) - 1
  BY <1>1, <1>2, <1>3
<1>7. ASSUME NEW j \in 1..(Len(ts) - 1)
      PROVE  (a \o b)[j] = IF j < i THEN ts[j] ELSE ts[j + 1]
  <2>1. (a \o b)[j] = IF j <= Len(a) THEN a[j] ELSE b[j - Len(a)]
    BY <1>5, <1>6
  <2>2. CASE j < i
    <3>1. j \in 1..(i - 1) /\ j <= Len(a)
      BY <1>1, <1>2, <2>2
    <3> QED BY <1>2, <2>1, <2>2, <3>1
  <2>3. CASE ~(j < i)
    <3> DEFINE d == j - Len(a)
    <3>1. d \in 1..(Len(ts) - i) /\ d + i = j + 1 /\ ~(j <= Len(a))
      BY <1>1, <1>2, <2>3
    <3> HIDE DEF d
    <3>2. b[d] = ts[j + 1]
      BY <1>3, <3>1
    <3> QED BY <2>1, <2>3, <3>1, <3>2 DEF d
  <2> QED BY <2>2, <2>3
<1> QED BY <1>1, <1>4, <1>5, <1>6, <1>7

(* Where a remaining element was.                                          *)
LEMMA WasAt ==
  ASSUME NEW S, NEW ts \in Seq(S), NEW i \in DOMAIN ts, NEW j \in DOMAIN RemoveAt(ts, i)
  PROVE  \E k \in DOMAIN ts :
           /\ RemoveAt(ts, i)[j] = ts[k] /\ j <= k
           /\ \A m \in DOMAIN RemoveAt(ts, i) : j <= m =>
                \E d \in DOMAIN ts : k <= d /\ RemoveAt(ts, i)[m] = ts[d]
<1>1. /\ DOMAIN RemoveAt(ts, i) = 1..(Len(ts) - 1) /\ DOMAIN ts = 1..Len(ts)
      /\ Len(ts) \in Nat /\ i \in 1..Len(ts)
      /\ \A m \in 1..(Len(ts) - 1) : RemoveAt(ts, i)[m] = IF m < i THEN ts[m] ELSE ts[m + 1]
  BY Removed
<1>2. CASE j < i
  <2>1. j \in DOMAIN ts /\ RemoveAt(ts, i)[j] = ts[j] /\ j <= j
    BY <1>1, <1>2
  <2>2. ASSUME NEW m \in DOMAIN RemoveAt(ts, i), j <= m
        PROVE  \E d \in DOMAIN ts : j <= d /\ RemoveAt(ts, i)[m] = ts[d]
    <3>1. m \in DOMAIN ts /\ m + 1 \in DOMAIN ts /\ j <= m + 1
      BY <1>1, <2>2
    <3> QED BY <1>1, <2>2, <3>1
  <2> QED BY <2>1, <2>2
<1>3. CASE ~(j < i)
  <2>1. j + 1 \in DOMAIN ts /\ RemoveAt(ts, i)[j] = ts[j + 1] /\ j <= j + 1
    BY <1>1, <1>3
  <2>2. ASSUME NEW m \in DOMAIN RemoveAt(ts, i), j <= m
        PROVE  \E d \in DOMAIN ts : j + 1 <= d /\ RemoveAt(ts, i)[m] = ts[d]
    <3>1. m + 1 \in DOMAIN ts /\ j + 1 <= m + 1 /\ ~(m < i)
      BY <1>1, <1>3, <2>2
    <3> QED BY <1>1, <3>1
  <2> QED BY <2>1, <2>2
<1> QED BY <1>2, <1>3

-----------------------------------------------------------------------------
(* The moves steps are made of: each leaves a side as the invariant wants  *)
(* it.                                                                     *)

LEMMA FreeLater ==
  ASSUME NEW n, NEW ts, NEW k, NEW us, NEW j, Free(n, ts, k),
         \A m \in DOMAIN us : j <= m => \E d \in DOMAIN ts : k <= d /\ us[m] = ts[d]
  PROVE  Free(n, us, j)
BY DEF Free

(* A task is done.                                                         *)
LEMMA TaskGone ==
  ASSUME NEW p, NEW n, NEW l, NEW x, NEW ts \in Seq(Tasks), NEW o, NEW w, NEW h, NEW s,
         NEW i \in DOMAIN ts, Side(p, n, l, x, ts, o, w, h, s)
  PROVE  Side(p, n, l, x, RemoveAt(ts, i), o, w, h, s)
<1> DEFINE us == RemoveAt(ts, i)
           e == x.exchange
<1>1. ASSUME NEW j \in DOMAIN us
      PROVE  \E k \in DOMAIN ts :
               /\ us[j] = ts[k] /\ j <= k
               /\ \A m \in DOMAIN us : j <= m => \E d \in DOMAIN ts : k <= d /\ us[m] = ts[d]
  BY WasAt
<1>2. \A m \in DOMAIN us : 1 <= m => \E d \in DOMAIN ts : 1 <= d /\ us[m] = ts[d]
  <2>1. DOMAIN ts = 1..Len(ts) /\ Len(ts) \in Nat
    OBVIOUS
  <2> HIDE DEF us
  <2> QED BY <1>1, <2>1
<1> HIDE DEF us
<1>3. Fitting(p, us, w)
  BY <1>1 DEF Side, Fitting
<1>4. HearSay(p, us, w, e, h, s)
  <2>1. HearSay(p, ts, w, e, h, s)
    BY DEF Side
  <2> HIDE DEF e
  <2> QED BY <1>1, <2>1 DEF HearSay
<1>5. JoinsFirst(p, us, w, e, h)
  <2>1. JoinsFirst(p, ts, w, e, h)
    BY DEF Side
  <2> HIDE DEF e
  <2> QED BY <1>1, <2>1 DEF JoinsFirst
<1>6. Attends(n, l, us, e, o)
  <2>1. Attends(n, l, ts, e, o)
    BY DEF Side
  <2> HIDE DEF e
  <2> QED BY <1>1, <2>1 DEF Attends
<1>7. Free(n, ts, 1) => Free(n, us, 1)
  BY <1>2, FreeLater
<1>8. Yields(p, n, us, e, o, h)
  <2>1. Yields(p, n, ts, e, o, h)
    BY DEF Side
  <2> HIDE DEF e
  <2>2. ASSUME o = "waiting", Joined(p, e, h) PROVE Free(n, us, 1)
    BY <1>7, <2>1, <2>2 DEF Yields
  <2>3. ASSUME o = "waiting", NEW j \in DOMAIN us, us[j].gen = n.gen, Learns(us[j], h),
               us[j].at # "rollback"
        PROVE  Free(n, us, j)
    <3>1. PICK k \in DOMAIN ts :
               /\ us[j] = ts[k] /\ j <= k
               /\ \A m \in DOMAIN us : j <= m => \E d \in DOMAIN ts : k <= d /\ us[m] = ts[d]
      BY <1>1
    <3>2. Free(n, ts, k)
      BY <2>1, <2>3, <3>1 DEF Yields
    <3> QED BY <3>1, <3>2, FreeLater
  <2> QED BY <2>2, <2>3 DEF Yields
<1>9. Latches(n, x.live, us, o)
  BY <1>7 DEF Side, Latches
<1> QED BY <1>3, <1>4, <1>5, <1>6, <1>8, <1>9 DEF Side, us

(* A task is called.                                                       *)
LEMMA FreeLonger ==
  ASSUME NEW n, NEW ts \in Seq(Tasks), NEW k \in Tasks, NEW j \in Nat,
         Free(n, ts, j), k.gen = n.gen => k.at \notin OfOffer
  PROVE  Free(n, Append(ts, k), j)
<1>1. /\ DOMAIN Append(ts, k) = 1..(Len(ts) + 1) /\ DOMAIN ts = 1..Len(ts) /\ Len(ts) \in Nat
      /\ Append(ts, k)[Len(ts) + 1] = k /\ \A i \in 1..Len(ts) : Append(ts, k)[i] = ts[i]
  BY SeqAppend
<1> HIDE DEF OfOffer
<1>2. ASSUME NEW m \in DOMAIN Append(ts, k), j <= m, Append(ts, k)[m].gen = n.gen
      PROVE  Append(ts, k)[m].at \notin OfOffer
  <2>1. CASE m = Len(ts) + 1
    BY <1>1, <1>2, <2>1
  <2>2. CASE m # Len(ts) + 1
    <3>1. m \in DOMAIN ts /\ Append(ts, k)[m] = ts[m]
      BY <1>1, <2>2
    <3> QED BY <1>2, <3>1 DEF Free
  <2> QED BY <2>1, <2>2
<1> QED BY <1>2 DEF Free

LEMMA TaskComes ==
  ASSUME NEW p, NEW n, NEW l, NEW x, NEW ts \in Seq(Tasks), NEW o, NEW w, NEW h, NEW s,
         NEW k \in Tasks, Side(p, n, l, x, ts, o, w, h, s), TaskFits(p, k),
         \A g \in Nat : Learns(k, g) => Told(g, h, s),
         Learns(k, h) => ~JoinIn(w),
         o = "waiting" /\ k.gen = n.gen => l.present,
         o = "waiting" /\ k.gen = n.gen /\ Learns(k, h) /\ k.at # "rollback" => ~n.inFlight,
         k.gen = n.gen /\ k.at \in OfOffer => n.inFlight
  PROVE  Side(p, n, l, x, Append(ts, k), o, w, h, s)
<1> DEFINE us == Append(ts, k)
           e == x.exchange
<1>1. /\ DOMAIN us = 1..(Len(ts) + 1) /\ DOMAIN ts = 1..Len(ts) /\ Len(ts) \in Nat
      /\ us[Len(ts) + 1] = k /\ \A i \in 1..Len(ts) : us[i] = ts[i]
  BY SeqAppend
<1>2. ASSUME NEW j \in DOMAIN us
      PROVE  us[j] = k \/ \E i \in DOMAIN ts : us[j] = ts[i]
  <2> HIDE DEF us
  <2> QED BY <1>1
<1>3. ASSUME NEW j \in Nat, Free(n, ts, j) PROVE Free(n, us, j)
  <2>1. k.gen = n.gen => k.at \notin OfOffer
    BY <1>3 DEF Free
  <2> QED BY <1>3, <2>1, FreeLonger
<1> HIDE DEF us
<1>4. Fitting(p, us, w)
  BY <1>2 DEF Side, Fitting
<1>5. HearSay(p, us, w, e, h, s)
  <2>1. HearSay(p, ts, w, e, h, s)
    BY DEF Side
  <2> HIDE DEF e
  <2> QED BY <1>2, <2>1 DEF HearSay
<1>6. JoinsFirst(p, us, w, e, h)
  <2>1. JoinsFirst(p, ts, w, e, h)
    BY DEF Side
  <2> HIDE DEF e
  <2> QED BY <1>2, <2>1 DEF JoinsFirst
<1>7. Attends(n, l, us, e, o)
  <2>1. Attends(n, l, ts, e, o)
    BY DEF Side
  <2> HIDE DEF e
  <2> QED BY <1>2, <2>1 DEF Attends
<1>8. Yields(p, n, us, e, o, h)
  <2>1. Yields(p, n, ts, e, o, h)
    BY DEF Side
  <2> HIDE DEF e
  <2>2. ASSUME o = "waiting", Joined(p, e, h) PROVE Free(n, us, 1)
    BY <1>3, <2>1, <2>2 DEF Yields
  <2>3. ASSUME o = "waiting", NEW j \in DOMAIN us, us[j].gen = n.gen, Learns(us[j], h),
               us[j].at # "rollback"
        PROVE  Free(n, us, j)
    <3>1. CASE j \in DOMAIN ts
      <4>1. us[j] = ts[j] /\ j \in Nat
        BY <1>1, <3>1
      <4>2. Free(n, ts, j)
        BY <2>1, <2>3, <3>1, <4>1 DEF Yields
      <4> QED BY <1>3, <4>1, <4>2
    <3>2. CASE j \notin DOMAIN ts
      <4>1. j = Len(ts) + 1 /\ us[j] = k
        BY <1>1, <3>2
      <4>2. ~n.inFlight
        BY <2>3, <4>1
      <4>3. \A m \in DOMAIN us : j <= m => us[m] = k
        BY <1>1, <4>1
      <4>4. k.at \notin OfOffer
        BY <2>3, <4>1, <4>2
      <4> QED BY <4>2, <4>3, <4>4 DEF Free
    <3> QED BY <3>1, <3>2
  <2> QED BY <2>2, <2>3 DEF Yields
<1>9. Latches(n, x.live, us, o)
  BY <1>3 DEF Side, Latches
<1> QED BY <1>4, <1>5, <1>6, <1>7, <1>8, <1>9 DEF Side, us

(* The bridge gives up flags, the connection its channel or its exchange.  *)
LEMMA RowGivesUp ==
  ASSUME NEW p, NEW n, NEW l, NEW x, NEW ts, NEW o, NEW w, NEW h, NEW s,
         NEW m, NEW k, NEW y, NEW d, Side(p, n, l, x, ts, o, w, h, s),
         m.gen = n.gen, y.exchange = x.exchange \/ y.exchange = None,
         d = "waiting" => o = "waiting" /\ (l.present => k.present),
         m.inFlight => n.inFlight,
         m.fired => n.fired /\ m.chan = n.chan,
         m.timer \/ m.suppress => m.fired,
         y.live \in {None, m.chan}
  PROVE  Side(p, m, k, y, ts, d, w, h, s)
<1> DEFINE e == x.exchange
           f == y.exchange
<1>1. \A g : Joined(p, f, g) => Joined(p, e, g)
  BY DEF Joined
<1>2. f # None => e # None
  OBVIOUS
<1> HIDE DEF e, f
<1>3. \A i : Free(n, ts, i) => Free(m, ts, i)
  BY DEF Free
<1>4. Fitting(p, ts, w)
  BY DEF Side
<1>5. HearSay(p, ts, w, f, h, s)
  <2>1. HearSay(p, ts, w, e, h, s)
    BY DEF Side, e
  <2> QED BY <1>1, <2>1 DEF HearSay
<1>6. JoinsFirst(p, ts, w, f, h)
  <2>1. JoinsFirst(p, ts, w, e, h)
    BY DEF Side, e
  <2> QED BY <1>1, <2>1 DEF JoinsFirst
<1>7. Attends(m, k, ts, f, d)
  <2>1. Attends(n, l, ts, e, o)
    BY DEF Side, e
  <2> QED BY <1>2, <2>1 DEF Attends
<1>8. Yields(p, m, ts, f, d, h)
  <2>1. Yields(p, n, ts, e, o, h)
    BY DEF Side, e
  <2> QED BY <1>1, <1>3, <2>1 DEF Yields
<1>9. Latches(m, y.live, ts, d)
  <2>1. Latches(n, x.live, ts, o)
    BY DEF Side
  <2>2. m.fired => n.chan # None /\ Free(n, ts, 1) /\ o # "waiting"
    BY <2>1 DEF Latches
  <2>3. m.fired => m.chan # None /\ Free(m, ts, 1) /\ d # "waiting"
    BY <1>3, <2>2
  <2> QED BY <2>3 DEF Latches
<1> QED BY <1>4, <1>5, <1>6, <1>7, <1>8, <1>9 DEF Side, f

(* The wire is read or closed.                                             *)
LEMMA WireShorter ==
  ASSUME NEW p, NEW n, NEW l, NEW x, NEW ts, NEW o, NEW w \in Seq(Wired), NEW h, NEW s, NEW v,
         Side(p, n, l, x, ts, o, w, h, s), v = <<>> \/ (w # <<>> /\ v = Tail(w))
  PROVE  Side(p, n, l, x, ts, o, v, h, s)
<1> DEFINE e == x.exchange
<1>1. ASSUME NEW i \in DOMAIN v
      PROVE  i \in Nat /\ i + 1 \in DOMAIN w /\ v[i] = w[i + 1]
  <2>1. CASE v = <<>>
    BY <1>1, <2>1
  <2>2. CASE w # <<>> /\ v = Tail(w)
    <3>1. DOMAIN Tail(w) = 1..(Len(w) - 1) /\ DOMAIN w = 1..Len(w) /\ Len(w) \in Nat
      BY <2>2
    <3>2. \A j \in 1..(Len(w) - 1) : Tail(w)[j] = w[j + 1]
      BY <2>2
    <3> QED BY <1>1, <2>2, <3>1, <3>2
  <2> QED BY <2>1, <2>2
<1>2. JoinIn(v) => JoinIn(w)
  BY <1>1 DEF JoinIn
<1>3. Fitting(p, ts, v)
  BY <1>1 DEF Side, Fitting
<1>4. HearSay(p, ts, v, e, h, s)
  <2>1. HearSay(p, ts, w, e, h, s)
    BY DEF Side
  <2> HIDE DEF e
  <2> QED BY <1>1, <2>1 DEF HearSay
<1>5. JoinsFirst(p, ts, v, e, h)
  <2>1. JoinsFirst(p, ts, w, e, h)
    BY DEF Side
  <2> HIDE DEF e
  <2>2. ASSUME NEW i \in DOMAIN v, NEW j \in DOMAIN v, TellsOf(v[i], h), v[j].kind = "join"
        PROVE  j < i
    <3>1. /\ i \in Nat /\ j \in Nat /\ i + 1 \in DOMAIN w /\ j + 1 \in DOMAIN w
          /\ v[i] = w[i + 1] /\ v[j] = w[j + 1]
      BY <1>1
    <3>2. j + 1 < i + 1
      BY <2>1, <2>2, <3>1 DEF JoinsFirst
    <3> QED BY <3>1, <3>2
  <2> QED BY <1>2, <2>1, <2>2 DEF JoinsFirst
<1> QED BY <1>3, <1>4, <1>5 DEF Side

(* A message arrives.                                                      *)
LEMMA WireLonger ==
  ASSUME NEW p, NEW n, NEW l, NEW x, NEW ts, NEW o, NEW w \in Seq(Wired), NEW h \in Nat, NEW s,
         NEW m \in Wired, Side(p, n, l, x, ts, o, w, h, s), MessageFits(p, m),
         \A g \in Nat : TellsOf(m, g) => Told(g, h, s),
         m.kind = "join" => s = "dialing"
  PROVE  Side(p, n, l, x, ts, o, Append(w, m), h, s)
<1> DEFINE e == x.exchange
           v == Append(w, m)
<1>1. /\ DOMAIN v = 1..(Len(w) + 1) /\ DOMAIN w = 1..Len(w) /\ Len(w) \in Nat
      /\ v[Len(w) + 1] = m /\ \A i \in 1..Len(w) : v[i] = w[i]
  BY SeqAppend
<1> HIDE DEF v
<1>2. ASSUME NEW j \in DOMAIN v
      PROVE  v[j] = m \/ \E i \in DOMAIN w : v[j] = w[i]
  BY <1>1
<1>3. HearSay(p, ts, w, e, h, s) /\ JoinsFirst(p, ts, w, e, h)
  BY DEF Side
<1>4. Fitting(p, ts, v)
  BY <1>2 DEF Side, Fitting
<1> HIDE DEF e
<1>5. HearSay(p, ts, v, e, h, s)
  BY <1>2, <1>3 DEF HearSay
<1>6. ASSUME m.kind = "join"
      PROVE  /\ \A i \in DOMAIN w : ~TellsOf(w[i], h)
             /\ \A i \in DOMAIN ts : ~Learns(ts[i], h)
             /\ ~Joined(p, e, h)
  <2>1. ~Told(h, h, s)
    BY <1>6 DEF Told
  <2> QED BY <1>3, <2>1 DEF HearSay
<1>7. JoinIn(v) => JoinIn(w) \/ m.kind = "join"
  BY <1>2 DEF JoinIn
<1>8. JoinsFirst(p, ts, v, e, h)
  <2>1. ASSUME NEW i \in DOMAIN v, NEW j \in DOMAIN v, TellsOf(v[i], h), v[j].kind = "join"
        PROVE  j < i
    <3>1. CASE m.kind = "join"
      <4>1. ~TellsOf(m, h)
        BY <3>1 DEF TellsOf
      <4> QED BY <1>2, <1>6, <2>1, <3>1, <4>1
    <3>2. CASE m.kind # "join"
      <4>1. j \in DOMAIN w /\ v[j] = w[j]
        BY <1>1, <2>1, <3>2
      <4>2. CASE i \in DOMAIN w
        BY <1>1, <1>3, <2>1, <4>1, <4>2 DEF JoinsFirst
      <4>3. CASE i \notin DOMAIN w
        BY <1>1, <4>1, <4>3
      <4> QED BY <4>2, <4>3
    <3> QED BY <3>1, <3>2
  <2>2. ASSUME NEW i \in DOMAIN ts, Learns(ts[i], h) PROVE ~JoinIn(v)
    BY <1>3, <1>6, <1>7, <2>2 DEF JoinsFirst
  <2>3. ASSUME Joined(p, e, h) PROVE ~JoinIn(v)
    BY <1>3, <1>6, <1>7, <2>3 DEF JoinsFirst
  <2> QED BY <2>1, <2>2, <2>3 DEF JoinsFirst
<1> QED BY <1>4, <1>5, <1>8 DEF Side, v, e

(* The other end's socket changes, or it dials anew.                       *)
LEMMA OtherMoves ==
  ASSUME NEW p, NEW n, NEW l, NEW x, NEW ts, NEW o, NEW w, NEW h \in Nat, NEW s,
         NEW k \in Nat, NEW t, Side(p, n, l, x, ts, o, w, h, s),
         (k = h /\ (t = "dialing" => s = "dialing")) \/ (k = h + 1 /\ t = "dialing")
  PROVE  Side(p, n, l, x, ts, o, w, k, t)
<1> DEFINE e == x.exchange
<1>1. \A g \in Nat : Told(g, h, s) => Told(g, k, t)
  BY DEF Told
<1>2. /\ HearSay(p, ts, w, e, h, s) /\ JoinsFirst(p, ts, w, e, h) /\ Yields(p, n, ts, e, o, h)
  BY DEF Side
<1> HIDE DEF e
<1>3. HearSay(p, ts, w, e, k, t)
  BY <1>1, <1>2 DEF HearSay
<1>4. CASE k = h
  BY <1>3, <1>4 DEF Side, e
<1>5. CASE k = h + 1
  <2>1. ~Told(k, h, s)
    BY <1>5 DEF Told
  <2>2. /\ \A i \in DOMAIN w : ~TellsOf(w[i], k)
        /\ \A i \in DOMAIN ts : ~Learns(ts[i], k)
        /\ ~Joined(p, e, k)
    BY <1>2, <2>1 DEF HearSay
  <2>3. JoinsFirst(p, ts, w, e, k)
    BY <2>2 DEF JoinsFirst
  <2>4. Yields(p, n, ts, e, o, k)
    BY <2>2 DEF Yields
  <2> QED BY <1>3, <2>3, <2>4 DEF Side, e
<1> QED BY <1>4, <1>5

(* An offer starts: nothing this end waits with names the other one.       *)
LEMMA OfferStarts ==
  ASSUME NEW p, NEW n, NEW l, NEW x, NEW ts, NEW o, NEW w, NEW h, NEW s,
         NEW m, NEW k, NEW y, Side(p, n, l, x, ts, o, w, h, s),
         m.gen = n.gen, y.exchange = x.exchange, y.live = m.chan, k.present,
         ~m.fired, ~m.timer, ~m.suppress,
         o = "waiting" => /\ ~Joined(p, x.exchange, h)
                          /\ \A i \in DOMAIN ts : ts[i].gen = n.gen => ~Learns(ts[i], h)
  PROVE  Side(p, m, k, y, ts, o, w, h, s)
<1> DEFINE e == x.exchange
<1>1. Fitting(p, ts, w) /\ HearSay(p, ts, w, y.exchange, h, s) /\ JoinsFirst(p, ts, w, y.exchange, h)
  BY DEF Side
<1>2. Attends(m, k, ts, y.exchange, o)
  BY DEF Attends
<1>3. Yields(p, m, ts, y.exchange, o, h)
  BY DEF Yields
<1>4. Latches(m, y.live, ts, o)
  BY DEF Latches
<1> QED BY <1>1, <1>2, <1>3, <1>4 DEF Side

(* The connection completes the exchange of the task at i, the first of    *)
(* its own.                                                                *)
LEMMA ExchangeDone ==
  ASSUME NEW p, NEW n, NEW l, NEW x, NEW ts \in Seq(Tasks), NEW o, NEW w, NEW h \in Nat, NEW s,
         NEW y, NEW i \in DOMAIN ts, Side(p, n, l, x, ts, o, w, h, s),
         ts[i].gen = n.gen, ts[i].at # "rollback", y.live = x.live,
         \A g \in Nat : Joined(p, y.exchange, g) => Learns(ts[i], g),
         \A j \in DOMAIN ts : j < i => ts[j].gen # n.gen
  PROVE  Side(p, n, l, y, ts, o, w, h, s)
<1> DEFINE e == x.exchange
           f == y.exchange
<1>1. /\ HearSay(p, ts, w, e, h, s) /\ JoinsFirst(p, ts, w, e, h) /\ Attends(n, l, ts, e, o)
      /\ Yields(p, n, ts, e, o, h) /\ Fitting(p, ts, w) /\ Latches(n, y.live, ts, o)
  BY DEF Side
<1>2. \A g \in Nat : Joined(p, f, g) => Learns(ts[i], g)
  OBVIOUS
<1>3. DOMAIN ts = 1..Len(ts) /\ Len(ts) \in Nat
  OBVIOUS
<1> HIDE DEF e, f
<1>4. HearSay(p, ts, w, f, h, s)
  BY <1>1, <1>2 DEF HearSay
<1>5. JoinsFirst(p, ts, w, f, h)
  BY <1>1, <1>2 DEF JoinsFirst
<1>6. Attends(n, l, ts, f, o)
  BY <1>1 DEF Attends
<1>7. Free(n, ts, i) => Free(n, ts, 1)
  <2>1. ASSUME NEW j \in DOMAIN ts, ts[j].gen = n.gen PROVE i <= j
    BY <1>3, <2>1
  <2> QED BY <2>1 DEF Free
<1>8. Yields(p, n, ts, f, o, h)
  BY <1>1, <1>2, <1>7 DEF Yields
<1> QED BY <1>1, <1>4, <1>5, <1>6, <1>8 DEF Side, f

(* The transport is ready.                                                 *)
LEMMA Fires ==
  ASSUME NEW p, NEW n, NEW l, NEW x, NEW ts, NEW w, NEW h, NEW s,
         NEW m, Side(p, n, l, x, ts, "waiting", w, h, s), Joined(p, x.exchange, h),
         m.gen = n.gen, m.chan = n.chan, m.chan # None, m.inFlight => n.inFlight, m.fired
  PROVE  Side(p, m, l, x, ts, "attached", w, h, s)
<1>1. Free(n, ts, 1)
  BY DEF Side, Yields
<1>2. Free(m, ts, 1)
  BY <1>1 DEF Free
<1>3. Latches(m, x.live, ts, "attached")
  BY <1>2 DEF Side, Latches
<1>4. Attends(m, l, ts, x.exchange, "attached") /\ Yields(p, m, ts, x.exchange, "attached", h)
  BY DEF Attends, Yields
<1> QED BY <1>3, <1>4 DEF Side

(* A bridge is made anew.                                                  *)
LEMMA RowFresh ==
  ASSUME NEW p, NEW n, NEW l, NEW x, NEW ts, NEW o, NEW w, NEW h, NEW s,
         NEW m, NEW k, NEW d, Side(p, n, l, x, ts, o, w, h, s),
         \A i \in DOMAIN ts : ts[i].gen # m.gen,
         ~m.fired, ~m.timer, ~m.suppress
  PROVE  Side(p, m, k, FreshPc, ts, d, w, h, s)
<1>1. FreshPc.exchange = None /\ FreshPc.live = None
  BY DEF FreshPc
<1>2. \A g : ~Joined(p, None, g)
  BY DEF Joined
<1> HIDE DEF FreshPc
<1>3. Fitting(p, ts, w) /\ HearSay(p, ts, w, None, h, s) /\ JoinsFirst(p, ts, w, None, h)
  BY <1>2 DEF Side, HearSay, JoinsFirst
<1>4. Attends(m, k, ts, None, d) /\ Yields(p, m, ts, None, d, h)
  BY <1>2 DEF Attends, Yields
<1>5. Latches(m, None, ts, d)
  BY DEF Latches
<1> QED BY <1>1, <1>3, <1>4, <1>5 DEF Side

(* A bridge without tasks.                                                 *)
LEMMA TasksDropped ==
  ASSUME NEW p, NEW n, NEW l, NEW x, NEW ts, NEW o, NEW w, NEW h, NEW s,
         Side(p, n, l, x, ts, o, w, h, s)
  PROVE  Side(p, n, l, x, <<>>, o, w, h, s)
<1> DEFINE e == x.exchange
           us == <<>>
<1>1. /\ HearSay(p, ts, w, e, h, s) /\ JoinsFirst(p, ts, w, e, h) /\ Attends(n, l, ts, e, o)
      /\ Yields(p, n, ts, e, o, h) /\ Fitting(p, ts, w) /\ Latches(n, x.live, ts, o)
  BY DEF Side
<1>2. \A i : i \notin DOMAIN us
  OBVIOUS
<1> HIDE DEF e, us
<1>3. Free(n, ts, 1) => Free(n, us, 1)
  BY <1>2 DEF Free
<1>4. Fitting(p, us, w) /\ HearSay(p, us, w, e, h, s) /\ JoinsFirst(p, us, w, e, h)
  BY <1>1, <1>2 DEF Fitting, HearSay, JoinsFirst
<1>5. Attends(n, l, us, e, o) /\ Yields(p, n, us, e, o, h)
  BY <1>1, <1>2, <1>3 DEF Attends, Yields
<1>6. Latches(n, x.live, us, o)
  BY <1>1, <1>3 DEF Latches
<1> QED BY <1>4, <1>5, <1>6 DEF Side, e, us

-----------------------------------------------------------------------------
(* The flags the helpers leave.                                            *)

LEMMA FreshFlags ==
  ASSUME NEW g, NEW m
  PROVE  /\ ~FreshNego(g, m).fired /\ ~FreshNego(g, m).timer /\ ~FreshNego(g, m).suppress
BY DEF FreshNego

LEMMA OpenFlags ==
  ASSUME NEW n \in Bridges, NEW v, NEW d, d = [n EXCEPT !.open = v]
  PROVE  d.fired = n.fired /\ d.timer = n.timer /\ d.suppress = n.suppress
BY DEF Bridges

LEMMA FiredFlags ==
  ASSUME NEW n \in Bridges, NEW v, NEW d, d = [n EXCEPT !.fired = v]
  PROVE  d.fired = v /\ d.timer = n.timer /\ d.suppress = n.suppress
BY DEF Bridges

LEMMA TimerFlags ==
  ASSUME NEW n \in Bridges, NEW v, NEW d, d = [n EXCEPT !.timer = v]
  PROVE  d.fired = n.fired /\ d.timer = v /\ d.suppress = n.suppress
BY DEF Bridges

LEMMA SuppressFlags ==
  ASSUME NEW n \in Bridges, NEW v, NEW d, d = [n EXCEPT !.suppress = v]
  PROVE  d.fired = n.fired /\ d.timer = n.timer /\ d.suppress = v
BY DEF Bridges

LEMMA FlightFlags ==
  ASSUME NEW n \in Bridges, NEW v, NEW d, d = [n EXCEPT !.inFlight = v]
  PROVE  d.fired = n.fired /\ d.timer = n.timer /\ d.suppress = n.suppress
BY DEF Bridges

LEMMA ChanFlags ==
  ASSUME NEW n \in Bridges, NEW v, NEW d, d = [n EXCEPT !.chan = v]
  PROVE  d.fired = n.fired /\ d.timer = n.timer /\ d.suppress = n.suppress
BY DEF Bridges

LEMMA MadeFlags ==
  ASSUME NEW n \in Bridges, NEW v, NEW d, d = [n EXCEPT !.made = v]
  PROVE  d.fired = n.fired /\ d.timer = n.timer /\ d.suppress = n.suppress
BY DEF Bridges

LEMMA DiscardedFlags ==
  ASSUME NEW n \in Bridges
  PROVE  /\ DiscardChannel(n).fired = n.fired /\ DiscardChannel(n).timer = n.timer
         /\ DiscardChannel(n).suppress = n.suppress
<1> DEFINE a == [n EXCEPT !.chan = None]
           b == [a EXCEPT !.open = FALSE]
<1>1. None \in Channels \cup {None}
  OBVIOUS
<1>2. a \in Bridges
  BY <1>1, BridgeChan
<1>3. a.fired = n.fired /\ a.timer = n.timer /\ a.suppress = n.suppress
  BY ChanFlags
<1>4. DiscardChannel(n) = b
  BY DEF DiscardChannel
<1> HIDE DEF a
<1>5. b.fired = a.fired /\ b.timer = a.timer /\ b.suppress = a.suppress
  BY <1>2, OpenFlags
<1> HIDE DEF b
<1> QED BY <1>3, <1>4, <1>5

LEMMA ReleasedFlags ==
  ASSUME NEW n \in Bridges
  PROVE  ~Released(n).fired /\ ~Released(n).timer /\ ~Released(n).suppress
<1> DEFINE d == DiscardChannel(n)
           a == [d EXCEPT !.inFlight = FALSE]
           b == [a EXCEPT !.fired = FALSE]
           c == [b EXCEPT !.timer = FALSE]
           e == [c EXCEPT !.suppress = FALSE]
<1>1. FALSE \in BOOLEAN
  OBVIOUS
<1>2. d \in Bridges
  BY Discarded
<1>3. Released(n) = e
  BY DEF Released
<1> HIDE DEF d
<1>4. a \in Bridges
  BY <1>1, <1>2, BridgeFlight
<1> HIDE DEF a
<1>5. b \in Bridges
  BY <1>1, <1>4, BridgeFlag
<1>6. b.fired = FALSE
  BY <1>4, FiredFlags
<1> HIDE DEF b
<1>7. c \in Bridges
  BY <1>1, <1>5, BridgeFlag
<1>8. c.fired = b.fired /\ c.timer = FALSE
  BY <1>5, TimerFlags
<1> HIDE DEF c
<1>9. e.fired = c.fired /\ e.timer = c.timer /\ e.suppress = FALSE
  BY <1>7, SuppressFlags
<1> HIDE DEF e
<1> QED BY <1>3, <1>6, <1>8, <1>9

LEMMA RecordedFlags ==
  ASSUME NEW n \in Bridges, NEW c
  PROVE  /\ Recorded(n, c).fired = n.fired /\ Recorded(n, c).timer = n.timer
         /\ Recorded(n, c).suppress = n.suppress
<1>1. CASE n.chan = None
  <2>1. Recorded(n, c) = [n EXCEPT !.chan = c]
    BY <1>1 DEF Recorded
  <2> QED BY <2>1, ChanFlags
<1>2. CASE n.chan # None
  <2>1. Recorded(n, c) = n
    BY <1>2 DEF Recorded
  <2> QED BY <2>1
<1> QED BY <1>1, <1>2

LEMMA ClosedLive ==
  ASSUME NEW x \in Connections, NEW c
  PROVE  /\ CloseLocal(x, c).exchange = x.exchange
         /\ CloseLocal(x, c).live = IF x.live = c THEN None ELSE x.live
BY DEF CloseLocal, Connections

LEMMA AppliedLive ==
  ASSUME NEW x \in Connections, NEW k
  PROVE  /\ Applied(x, k).live = x.live
         /\ Applied(x, k).exchange = IF k.at = "setAnswer" THEN [offer |-> k.offer, answerer |-> k.on]
                                     ELSE IF k.at = "applyAnswer"
                                     THEN [offer |-> k.offer, answerer |-> k.answerer]
                                     ELSE x.exchange
<1>1. CASE k.at = "setOffer"
  BY <1>1 DEF Applied, Connections
<1>2. CASE k.at = "rollback"
  BY <1>2 DEF Applied, Connections
<1>3. CASE k.at = "setRemote"
  BY <1>3 DEF Applied, Connections
<1>4. CASE k.at = "setAnswer"
  BY <1>4 DEF Applied, Connections
<1>5. CASE k.at = "applyAnswer"
  BY <1>5 DEF Applied, Connections
<1>6. CASE k.at \notin {"setOffer", "rollback", "setRemote", "setAnswer", "applyAnswer"}
  <2>1. Applied(x, k) = x
    BY <1>6 DEF Applied
  <2> QED BY <1>6, <2>1
<1> QED BY <1>1, <1>2, <1>3, <1>4, <1>5, <1>6

LEMMA GlarePresent ==
  ASSUME NEW l \in Clients, NEW v, NEW d, d = [l EXCEPT !.glare = v]
  PROVE  d.present = l.present
BY DEF Clients

LEMMA PresentSet ==
  ASSUME NEW l \in Clients, NEW v, NEW d, d = [l EXCEPT !.present = v]
  PROVE  d.present = v
BY DEF Clients

LEMMA SockPresent ==
  ASSUME NEW l \in Clients, NEW v, NEW d, d = [l EXCEPT !.sock = v]
  PROVE  d.present = l.present
BY DEF Clients

-----------------------------------------------------------------------------
(* A step of p, seen from both ends.                                       *)

(* What the other end gets of a step that leaves p with bridge n and       *)
(* client l: at most one message, about the connection p had.              *)
Reports(p, m) == /\ MessageFits(Other(p), m)
                 /\ \A g \in Nat : TellsOf(m, g) => Told(g, nego[p].gen, client[p].sock)
                 /\ m.kind = "join" => client[p].sock = "dialing"
WireTold(p) == \/ wire'[Other(p)] = wire[Other(p)]
               \/ \E m \in Wired : wire'[Other(p)] = Append(wire[Other(p)], m) /\ Reports(p, m)
Dialed(p, g, s) == \/ g = nego[p].gen /\ (s = "dialing" => client[p].sock = "dialing")
                   \/ g = nego[p].gen + 1 /\ s = "dialing"

(* The side of p as it stands.                                             *)
Here(p, n, l, x, ts, o, w) == Side(p, n, l, x, ts, o, w, nego[Other(p)].gen, client[Other(p)].sock)

LEMMA SidePrimed ==
  ASSUME NEW p, NEW q
  PROVE  SideOf(p, q)' <=> Side(p, nego'[p], client'[p], pc'[p], tasks'[p], orch'[p], wire'[p],
                                nego'[q].gen, client'[q].sock)
BY DEF SideOf, Side, Fitting, TaskFits, MessageFits, HearSay, TellsOf, Learns, Joined, Told,
       JoinsFirst, JoinIn, Attends, Yields, Free, Latches, Offering, Answering, OfOffer

LEMMA SideStep ==
  ASSUME BridgesInv, Sides, NEW p \in Peer, NEW n, NEW l, NEW x, NEW ts, NEW o, NEW v,
         nego' = [nego EXCEPT ![p] = n], client' = [client EXCEPT ![p] = l],
         pc' = [pc EXCEPT ![p] = x], tasks' = [tasks EXCEPT ![p] = ts],
         orch' = [orch EXCEPT ![p] = o], wire'[p] = v, n.gen \in Nat,
         Here(p, n, l, x, ts, o, v), WireTold(p), Dialed(p, n.gen, l.sock)
  PROVE  Sides'
<1> DEFINE q == Other(p)
<1>1. q \in Peer /\ q # p /\ \A r \in Peer : r # p => r = q
  BY TheOther
<1> HIDE DEF q
<1>2. /\ nego'[p] = n /\ client'[p] = l /\ pc'[p] = x /\ tasks'[p] = ts /\ orch'[p] = o
      /\ nego'[q] = nego[q] /\ client'[q] = client[q] /\ pc'[q] = pc[q] /\ tasks'[q] = tasks[q]
      /\ orch'[q] = orch[q]
  BY <1>1, Rows
<1>3. SideOf(p, q)'
  <2>1. Side(p, n, l, x, ts, o, v, nego[q].gen, client[q].sock)
    BY DEF Here, q
  <2> QED BY <1>2, <2>1, SidePrimed
<1>4. SideOf(q, p)'
  <2> DEFINE g == nego[p].gen
             s == client[p].sock
  <2>1. Side(q, nego[q], client[q], pc[q], tasks[q], orch[q], wire[q], g, s)
    BY <1>1 DEF Sides, SideOf
  <2>2. g \in Nat /\ wire[q] \in Seq(Wired)
    BY <1>1, Rows
  <2>3. Side(q, nego[q], client[q], pc[q], tasks[q], orch[q], wire'[q], g, s)
    <3>1. CASE wire'[q] = wire[q]
      BY <2>1, <3>1
    <3>2. CASE \E m \in Wired : wire'[q] = Append(wire[q], m) /\ Reports(p, m)
      <4>1. PICK m \in Wired : wire'[q] = Append(wire[q], m) /\ Reports(p, m)
        BY <3>2
      <4>2. /\ MessageFits(q, m) /\ \A k \in Nat : TellsOf(m, k) => Told(k, g, s)
            /\ m.kind = "join" => s = "dialing"
        BY <4>1 DEF Reports, q
      <4> HIDE DEF g, s
      <4> QED BY <2>1, <2>2, <4>1, <4>2, WireLonger
    <3> QED BY <3>1, <3>2 DEF WireTold, q
  <2>4. \/ n.gen = g /\ (l.sock = "dialing" => s = "dialing")
        \/ n.gen = g + 1 /\ l.sock = "dialing"
    BY DEF Dialed
  <2> HIDE DEF g, s
  <2>5. Side(q, nego[q], client[q], pc[q], tasks[q], orch[q], wire'[q], n.gen, l.sock)
    BY <2>2, <2>3, <2>4, OtherMoves
  <2> QED BY <1>2, <2>5, SidePrimed
<1>5. \A a, b \in Peer : a # b => (a = p /\ b = q) \/ (a = q /\ b = p)
  BY <1>1
<1>6. \A a, b \in Peer : a # b => SideOf(a, b)'
  BY <1>3, <1>4, <1>5
<1> QED BY <1>6 DEF Sides

(* The side of p before the step.                                          *)
LEMMA HereNow ==
  ASSUME BridgesInv, Sides, NEW p \in Peer
  PROVE  /\ Here(p, nego[p], client[p], pc[p], tasks[p], orch[p], wire[p])
         /\ nego[Other(p)].gen \in Nat /\ Other(p) \in Peer /\ Other(p) # p
<1>1. Other(p) \in Peer /\ Other(p) # p
  BY TheOther
<1> QED BY <1>1, Rows DEF Sides, SideOf, Here

(* What the wires report.                                                  *)
LEMMA KeptTold == ASSUME NEW p, wire' = wire PROVE WireTold(p)
BY DEF WireTold

LEMMA TakenTold ==
  ASSUME BridgesInv, NEW p \in Peer, Take(p) PROVE WireTold(p) /\ wire'[p] = Tail(wire[p])
<1>1. wire' = [wire EXCEPT ![p] = Tail(wire[p])]
  BY DEF Take
<1> QED BY <1>1, OthersRow, Rows DEF WireTold

LEMMA ClosedTold ==
  ASSUME BridgesInv, NEW p \in Peer, NEW told, CloseSocket(p, told)
  PROVE  WireTold(p) /\ wire'[p] = <<>>
<1> DEFINE m == Message("leave", None, 0)
           q == Other(p)
           w == IF told /\ Seated(p) /\ Seated(q) THEN Append(wire[q], m) ELSE wire[q]
<1>1. q \in Peer /\ q # p
  BY TheOther
<1>2. m \in Wired /\ m.kind = "leave"
  BY DEF Message, Wired
<1>3. wire' = [wire EXCEPT ![p] = <<>>, ![q] = w]
  BY DEF CloseSocket
<1>4. wire'[p] = <<>> /\ wire'[q] = w
  <2> HIDE DEF w, q
  <2> QED BY <1>1, <1>3, Rows
<1>5. Reports(p, m)
  BY <1>2 DEF Reports, MessageFits, TellsOf
<1>6. w = wire[q] \/ w = Append(wire[q], m)
  OBVIOUS
<1> HIDE DEF w, m
<1> QED BY <1>2, <1>4, <1>5, <1>6 DEF WireTold

LEMMA RelayedTold ==
  ASSUME BridgesInv, NEW p \in Peer, NEW m \in Wired, Relay(p, m),
         m.kind # "join", MessageFits(Other(p), m),
         \A g \in Nat : TellsOf(m, g) => g = nego[p].gen
  PROVE  WireTold(p) /\ wire'[p] = wire[p]
<1>1. CASE Seated(p) /\ Seated(Other(p))
  <2>1. wire' = [wire EXCEPT ![Other(p)] = Append(wire[Other(p)], m)]
    BY <1>1 DEF Relay
  <2>2. wire'[Other(p)] = Append(wire[Other(p)], m) /\ wire'[p] = wire[p]
    BY <2>1, TheOther, Rows
  <2>3. Reports(p, m)
    BY <1>1, Rows DEF Reports, Told, Seated
  <2> QED BY <2>2, <2>3 DEF WireTold
<1>2. CASE ~(Seated(p) /\ Seated(Other(p)))
  <2>1. wire' = wire
    BY <1>2 DEF Relay
  <2> QED BY <2>1, KeptTold
<1> QED BY <1>1, <1>2

LEMMA SameConnection ==
  ASSUME NEW p, NEW n, NEW l, n.gen = nego[p].gen,
         l.sock = client[p].sock \/ l.sock = "none" \/ l.sock = "open"
  PROVE  Dialed(p, n.gen, l.sock)
BY DEF Dialed

-----------------------------------------------------------------------------
(* The calls of the controller and the events of the socket, once more.    *)

(* A bridge of the next generation owns none of the tasks in flight.       *)
LEMMA NoneOwned ==
  ASSUME BridgesInv, NEW p \in Peer, NEW g, g = nego[p].gen + 1
  PROVE  \A i \in DOMAIN tasks[p] : tasks[p][i].gen # g
<1> SUFFICES ASSUME NEW i \in DOMAIN tasks[p] PROVE tasks[p][i].gen # g
  OBVIOUS
<1>1. tasks[p][i] \in Tasks /\ Sound(tasks[p][i], nego[p].gen) /\ nego[p].gen \in Nat
  BY TaskFacts, Rows
<1>2. tasks[p][i].gen \in Nat /\ tasks[p][i].on \in Nat
  BY <1>1 DEF Tasks
<1> QED BY <1>1, <1>2 DEF Sound

LEMMA StartSides == ASSUME BridgesInv, Sides, NEW p \in Peer, Start(p) PROVE Sides'
<1> DEFINE n == FreshNego(nego[p].gen + 1, nego[p].made)
           l == [NoClient EXCEPT !.sock = "dialing", !.eager = client[p].eager]
<1>1. nego[p].gen + 1 \in Nat /\ nego[p].made \in Nat
  BY Rows DEF Bridges
<1>2. n.gen = nego[p].gen + 1
  BY <1>1, FreshBridge
<1>3. ~n.fired /\ ~n.timer /\ ~n.suppress
  BY FreshFlags
<1>4. l.sock = "dialing"
  <2>1. client[p].eager \in BOOLEAN
    BY Rows DEF Clients
  <2> QED BY <2>1, NoClients
<1>5. /\ nego' = [nego EXCEPT ![p] = n] /\ client' = [client EXCEPT ![p] = l]
      /\ pc' = [pc EXCEPT ![p] = FreshPc] /\ orch' = [orch EXCEPT ![p] = "waiting"]
      /\ tasks' = tasks /\ wire' = wire
  BY DEF Start
<1> HIDE DEF n, l
<1>6. \A i \in DOMAIN tasks[p] : tasks[p][i].gen # n.gen
  BY <1>2, NoneOwned
<1>7. Here(p, nego[p], client[p], pc[p], tasks[p], orch[p], wire[p])
  BY HereNow
<1>8. Here(p, n, l, FreshPc, tasks[p], "waiting", wire[p])
  BY <1>3, <1>6, <1>7, RowFresh DEF Here
<1>9. WireTold(p) /\ wire'[p] = wire[p] /\ tasks' = [tasks EXCEPT ![p] = tasks[p]]
  BY <1>5, KeptTold, RowsKept
<1>10. Dialed(p, n.gen, l.sock) /\ n.gen \in Nat
  BY <1>1, <1>2, <1>4 DEF Dialed
<1> QED BY <1>5, <1>8, <1>9, <1>10, SideStep

LEMMA ReconnectSides == ASSUME BridgesInv, Sides, NEW p \in Peer, Reconnect(p) PROVE Sides'
<1> DEFINE n == FreshNego(nego[p].gen + 1, nego[p].made)
           l == [NoClient EXCEPT !.sock = "dialing", !.eager = client[p].eager]
<1>1. nego[p].gen + 1 \in Nat /\ nego[p].made \in Nat
  BY Rows DEF Bridges
<1>2. n.gen = nego[p].gen + 1
  BY <1>1, FreshBridge
<1>3. ~n.fired /\ ~n.timer /\ ~n.suppress
  BY FreshFlags
<1>4. l.sock = "dialing"
  <2>1. client[p].eager \in BOOLEAN
    BY Rows DEF Clients
  <2> QED BY <2>1, NoClients
<1>5. /\ nego' = [nego EXCEPT ![p] = n] /\ client' = [client EXCEPT ![p] = l]
      /\ pc' = [pc EXCEPT ![p] = FreshPc] /\ orch' = [orch EXCEPT ![p] = "waiting"]
      /\ tasks' = tasks /\ CloseSocket(p, FALSE)
  BY DEF Reconnect
<1> HIDE DEF n, l
<1>6. \A i \in DOMAIN tasks[p] : tasks[p][i].gen # n.gen
  BY <1>2, NoneOwned
<1>7. Here(p, nego[p], client[p], pc[p], tasks[p], orch[p], wire[p]) /\ wire[p] \in Seq(Wired)
  BY HereNow, Rows
<1>8. Here(p, nego[p], client[p], pc[p], tasks[p], orch[p], <<>>)
  BY <1>7, WireShorter DEF Here
<1>9. Here(p, n, l, FreshPc, tasks[p], "waiting", <<>>)
  BY <1>3, <1>6, <1>8, RowFresh DEF Here
<1>10. WireTold(p) /\ wire'[p] = <<>> /\ tasks' = [tasks EXCEPT ![p] = tasks[p]]
  BY <1>5, ClosedTold, RowsKept
<1>11. Dialed(p, n.gen, l.sock) /\ n.gen \in Nat
  BY <1>1, <1>2, <1>4 DEF Dialed
<1> QED BY <1>5, <1>9, <1>10, <1>11, SideStep

LEMMA CloseSides == ASSUME BridgesInv, Sides, NEW p \in Peer, Close(p) PROVE Sides'
<1> DEFINE n == FreshNego(nego[p].gen, nego[p].made)
           l == [NoClient EXCEPT !.eager = client[p].eager]
<1>1. nego[p].gen \in Nat /\ nego[p].made \in Nat
  BY Rows DEF Bridges
<1>2. n.gen = nego[p].gen
  BY <1>1, FreshBridge
<1>3. ~n.fired /\ ~n.timer /\ ~n.suppress
  BY FreshFlags
<1>4. l.sock = "none"
  <2>1. client[p].eager \in BOOLEAN
    BY Rows DEF Clients
  <2> QED BY <2>1, NoClients
<1>5. /\ nego' = [nego EXCEPT ![p] = n] /\ client' = [client EXCEPT ![p] = l]
      /\ pc' = [pc EXCEPT ![p] = FreshPc] /\ orch' = [orch EXCEPT ![p] = "left"]
      /\ tasks' = [tasks EXCEPT ![p] = <<>>] /\ CloseSocket(p, TRUE)
  BY DEF Close
<1> HIDE DEF n, l
<1>6. \A i \in DOMAIN <<>> : <<>>[i].gen # n.gen
  OBVIOUS
<1>7. Here(p, nego[p], client[p], pc[p], tasks[p], orch[p], wire[p]) /\ wire[p] \in Seq(Wired)
  BY HereNow, Rows
<1>8. Here(p, nego[p], client[p], pc[p], <<>>, orch[p], wire[p])
  BY <1>7, TasksDropped DEF Here
<1>9. Here(p, nego[p], client[p], pc[p], <<>>, orch[p], <<>>)
  BY <1>7, <1>8, WireShorter DEF Here
<1>10. Here(p, n, l, FreshPc, <<>>, "left", <<>>)
  BY <1>3, <1>6, <1>9, RowFresh DEF Here
<1>11. WireTold(p) /\ wire'[p] = <<>>
  BY <1>5, ClosedTold
<1>12. Dialed(p, n.gen, l.sock) /\ n.gen \in Nat
  BY <1>1, <1>2, <1>4 DEF Dialed
<1> QED BY <1>5, <1>10, <1>11, <1>12, SideStep

(* The flags and the channel of a bridge and its connection.               *)
LEMMA HereLatches ==
  ASSUME BridgesInv, Sides, NEW p \in Peer
  PROVE  /\ nego[p].timer \/ nego[p].suppress => nego[p].fired
         /\ nego[p].fired => nego[p].chan # None /\ Free(nego[p], tasks[p], 1) /\ orch[p] # "waiting"
         /\ pc[p].live \in {None, nego[p].chan}
BY HereNow DEF Here, Side, Latches

LEMMA LiveClosed ==
  ASSUME BridgesInv, Sides, NEW p \in Peer
  PROVE  /\ CloseLocal(pc[p], nego[p].chan).live = None
         /\ CloseLocal(pc[p], nego[p].chan).exchange = pc[p].exchange
<1>1. pc[p] \in Connections
  BY Rows
<1> QED BY <1>1, HereLatches, ClosedLive

LEMMA SessionEndsSides ==
  ASSUME BridgesInv, Sides, NEW p \in Peer, SessionEnds(p) PROVE Sides'
<1> DEFINE n == [nego[p] EXCEPT !.open = FALSE]
           x == CloseLocal(pc[p], nego[p].chan)
<1>1. FALSE \in BOOLEAN /\ nego[p] \in Bridges /\ nego[p].gen \in Nat
  BY Rows
<1>2. n \in Bridges
  BY <1>1, BridgeFlag
<1>3. n.gen = nego[p].gen /\ n.inFlight = nego[p].inFlight /\ n.chan = nego[p].chan
  BY <1>1, <1>2, BridgeFlagKeeps
<1>4. n.fired = nego[p].fired /\ n.timer = nego[p].timer /\ n.suppress = nego[p].suppress
  BY <1>1, OpenFlags
<1>5. x.live = None /\ x.exchange = pc[p].exchange
  BY LiveClosed
<1>6. /\ nego' = [nego EXCEPT ![p] = n] /\ pc' = [pc EXCEPT ![p] = x]
      /\ orch' = [orch EXCEPT ![p] = "disconnected"]
      /\ client' = client /\ tasks' = tasks /\ wire' = wire
  BY DEF SessionEnds
<1> HIDE DEF n, x
<1>7. /\ client' = [client EXCEPT ![p] = client[p]] /\ tasks' = [tasks EXCEPT ![p] = tasks[p]]
  BY <1>6, RowsKept
<1>8. Here(p, nego[p], client[p], pc[p], tasks[p], orch[p], wire[p])
  BY HereNow
<1>9. n.timer \/ n.suppress => n.fired
  BY <1>4, HereLatches
<1>10. Here(p, n, client[p], x, tasks[p], "disconnected", wire[p])
  BY <1>3, <1>4, <1>5, <1>8, <1>9, RowGivesUp DEF Here
<1>11. WireTold(p) /\ wire'[p] = wire[p]
  BY <1>6, KeptTold
<1>12. Dialed(p, n.gen, client[p].sock) /\ n.gen \in Nat
  BY <1>1, <1>3, SameConnection
<1> QED BY <1>6, <1>7, <1>10, <1>11, <1>12, SideStep

LEMMA SocketOpenSides ==
  ASSUME BridgesInv, Sides, NEW p \in Peer, SocketOpen(p) PROVE Sides'
<1> DEFINE l == [client[p] EXCEPT !.sock = "open"]
           m == Message("join", None, 0)
<1>1. client[p] \in Clients /\ nego[p].gen \in Nat
  BY Rows
<1>2. l.sock = "open" /\ l.present = client[p].present
  BY <1>1, ClientSock, SockPresent
<1>3. /\ client' = [client EXCEPT ![p] = l] /\ client[p].sock = "dialing"
      /\ orch' = orch /\ nego' = nego /\ pc' = pc /\ tasks' = tasks
  BY DEF SocketOpen
<1> HIDE DEF l
<1>4. m \in Wired /\ m.kind = "join"
  BY DEF Message, Wired
<1>5. Reports(p, m)
  BY <1>3, <1>4 DEF Reports, MessageFits, TellsOf
<1>6. WireTold(p) /\ wire'[p] = wire[p]
  <2>1. CASE Seated(Other(p))
    <3>1. wire' = [wire EXCEPT ![Other(p)] = Append(wire[Other(p)], m)]
      BY <2>1 DEF SocketOpen
    <3>2. wire'[Other(p)] = Append(wire[Other(p)], m) /\ wire'[p] = wire[p]
      BY <3>1, TheOther, Rows
    <3> QED BY <1>4, <1>5, <3>2 DEF WireTold
  <2>2. CASE ~Seated(Other(p))
    <3>1. wire' = wire
      BY <2>2 DEF SocketOpen
    <3> QED BY <3>1, KeptTold
  <2> QED BY <2>1, <2>2
<1>7. /\ nego' = [nego EXCEPT ![p] = nego[p]] /\ pc' = [pc EXCEPT ![p] = pc[p]]
      /\ orch' = [orch EXCEPT ![p] = orch[p]] /\ tasks' = [tasks EXCEPT ![p] = tasks[p]]
  BY <1>3, RowsKept
<1>8. Here(p, nego[p], client[p], pc[p], tasks[p], orch[p], wire[p])
  BY HereNow
<1>9. nego[p].timer \/ nego[p].suppress => nego[p].fired
  BY HereLatches
<1>10. pc[p].live \in {None, nego[p].chan}
  BY HereLatches
<1>11. Here(p, nego[p], l, pc[p], tasks[p], orch[p], wire[p])
  BY <1>2, <1>8, <1>9, <1>10, RowGivesUp DEF Here
<1>12. Dialed(p, nego[p].gen, l.sock)
  BY <1>2, SameConnection
<1> QED BY <1>1, <1>3, <1>6, <1>7, <1>11, <1>12, SideStep

(* An end that is told of its peer's drop no longer waits.                 *)
LEMMA DroppedWaits == ASSUME NEW o PROVE Dropped(o) # "waiting"
BY DEF Dropped

(* The peer is gone.                                                       *)
LEMMA GoneHere ==
  ASSUME BridgesInv, Sides, NEW p \in Peer, NEW l, NEW w, NEW d, d # "waiting",
         Here(p, nego[p], client[p], pc[p], tasks[p], orch[p], w)
  PROVE  Here(p, Released(nego[p]), l, CloseLocal(pc[p], nego[p].chan), tasks[p], d, w)
<1> DEFINE n == Released(nego[p])
           x == CloseLocal(pc[p], nego[p].chan)
<1>1. nego[p] \in Bridges
  BY Rows
<1>2. n.gen = nego[p].gen /\ n.inFlight = FALSE
  BY <1>1, ReleasedBridge
<1>3. ~n.fired /\ ~n.timer /\ ~n.suppress
  BY <1>1, ReleasedFlags
<1>4. x.live = None /\ x.exchange = pc[p].exchange
  BY LiveClosed
<1> HIDE DEF n, x
<1>5. ~n.inFlight
  BY <1>2
<1> QED BY <1>2, <1>3, <1>4, <1>5, RowGivesUp DEF Here, n, x

LEMMA SocketDropSides ==
  ASSUME BridgesInv, Sides, NEW p \in Peer, SocketDrop(p) PROVE Sides'
<1> DEFINE l == [NoClient EXCEPT !.eager = client[p].eager]
<1>1. client[p].eager \in BOOLEAN /\ nego[p].gen \in Nat /\ wire[p] \in Seq(Wired) /\ nego[p] \in Bridges
  BY Rows DEF Clients
<1>2. l.sock = "none"
  BY <1>1, NoClients
<1>3. client' = [client EXCEPT ![p] = l] /\ CloseSocket(p, TRUE) /\ tasks' = tasks
  BY DEF SocketDrop
<1> HIDE DEF l
<1>4. WireTold(p) /\ wire'[p] = <<>> /\ tasks' = [tasks EXCEPT ![p] = tasks[p]]
  BY <1>3, ClosedTold, RowsKept
<1>5. Here(p, nego[p], client[p], pc[p], tasks[p], orch[p], <<>>)
  BY <1>1, HereNow, WireShorter DEF Here
<1>6. CASE client[p].present
  <2> DEFINE n == Released(nego[p])
             x == CloseLocal(pc[p], nego[p].chan)
             o == Dropped(orch[p])
  <2>1. PeerGone(p)
    BY <1>6 DEF SocketDrop
  <2>2. /\ nego' = [nego EXCEPT ![p] = n] /\ pc' = [pc EXCEPT ![p] = x]
        /\ orch' = [orch EXCEPT ![p] = o]
    BY <2>1 DEF PeerGone
  <2>3. o # "waiting"
    BY DroppedWaits
  <2>4. Here(p, n, l, x, tasks[p], o, <<>>)
    BY <1>5, <2>3, GoneHere
  <2>5. n.gen = nego[p].gen
    BY <1>1, ReleasedBridge
  <2> HIDE DEF n, x, o
  <2>6. Dialed(p, n.gen, l.sock) /\ n.gen \in Nat
    BY <1>1, <1>2, <2>5, SameConnection
  <2> QED BY <1>3, <1>4, <2>2, <2>4, <2>6, SideStep
<1>7. CASE ~client[p].present
  <2> DEFINE o == IF nego[p].suppress THEN orch[p] ELSE Dropped(orch[p])
  <2>1. o # "waiting"
    <3>1. nego[p].suppress => orch[p] # "waiting"
      BY HereLatches
    <3> QED BY <3>1, DroppedWaits
  <2>2. orch' = [orch EXCEPT ![p] = o] /\ nego' = nego /\ pc' = pc
    BY <1>7 DEF SocketDrop
  <2> HIDE DEF o
  <2>3. nego' = [nego EXCEPT ![p] = nego[p]] /\ pc' = [pc EXCEPT ![p] = pc[p]]
    BY <2>2, RowsKept
  <2>4. /\ nego[p].timer \/ nego[p].suppress => nego[p].fired
        /\ pc[p].live \in {None, nego[p].chan}
    BY HereLatches
  <2>5. Here(p, nego[p], l, pc[p], tasks[p], o, <<>>)
    BY <1>5, <2>1, <2>4, RowGivesUp DEF Here
  <2>6. Dialed(p, nego[p].gen, l.sock)
    BY <1>2, SameConnection
  <2> QED BY <1>1, <1>3, <1>4, <2>2, <2>3, <2>5, <2>6, SideStep
<1> QED BY <1>6, <1>7

LEMMA GraceExpiresSides ==
  ASSUME BridgesInv, Sides, NEW p \in Peer, GraceExpires(p) PROVE Sides'
<1> DEFINE n == [nego[p] EXCEPT !.timer = FALSE]
           l == [NoClient EXCEPT !.eager = client[p].eager]
<1>1. /\ FALSE \in BOOLEAN /\ client[p].eager \in BOOLEAN /\ nego[p] \in Bridges
      /\ nego[p].gen \in Nat /\ wire[p] \in Seq(Wired)
  BY Rows DEF Clients
<1>2. n \in Bridges
  BY <1>1, BridgeFlag
<1>3. n.gen = nego[p].gen /\ n.inFlight = nego[p].inFlight /\ n.chan = nego[p].chan
  BY <1>1, <1>2, BridgeFlagKeeps
<1>4. n.fired = nego[p].fired /\ n.timer = FALSE /\ n.suppress = nego[p].suppress
  BY <1>1, TimerFlags
<1>5. l.sock = "none"
  BY <1>1, NoClients
<1>6. /\ nego[p].timer
      /\ nego' = [nego EXCEPT ![p] = n] /\ client' = [client EXCEPT ![p] = l]
      /\ CloseSocket(p, FALSE)
      /\ orch' = orch /\ pc' = pc /\ tasks' = tasks
  BY DEF GraceExpires
<1> HIDE DEF n, l
<1>7. /\ orch' = [orch EXCEPT ![p] = orch[p]] /\ pc' = [pc EXCEPT ![p] = pc[p]]
      /\ tasks' = [tasks EXCEPT ![p] = tasks[p]]
  BY <1>6, RowsKept
<1>8. orch[p] # "waiting" /\ (nego[p].suppress => nego[p].fired)
  BY <1>6, HereLatches
<1>9. pc[p].live \in {None, n.chan}
  BY <1>3, HereLatches
<1>10. WireTold(p) /\ wire'[p] = <<>>
  BY <1>6, ClosedTold
<1>11. Here(p, nego[p], client[p], pc[p], tasks[p], orch[p], <<>>)
  BY <1>1, HereNow, WireShorter DEF Here
<1>12. n.timer \/ n.suppress => n.fired
  BY <1>4, <1>8
<1>13. (n.inFlight => nego[p].inFlight) /\ (n.fired => nego[p].fired)
  BY <1>3, <1>4
<1>14. Here(p, n, l, pc[p], tasks[p], orch[p], <<>>)
  BY <1>3, <1>8, <1>9, <1>11, <1>12, <1>13, RowGivesUp DEF Here
<1>15. Dialed(p, n.gen, l.sock) /\ n.gen \in Nat
  BY <1>1, <1>3, <1>5, SameConnection
<1> QED BY <1>6, <1>7, <1>10, <1>14, <1>15, SideStep

-----------------------------------------------------------------------------
(* The messages of the broker, once more.                                  *)

(* What the end that originates has afterwards.                            *)
LEMMA OriginatesRows ==
  ASSUME BridgesInv, Sides, NEW p \in Peer, Originates(p)
  PROVE  \E n, l, x, k :
           /\ nego' = [nego EXCEPT ![p] = n] /\ client' = [client EXCEPT ![p] = l]
           /\ pc' = [pc EXCEPT ![p] = x] /\ tasks' = [tasks EXCEPT ![p] = Append(tasks[p], k)]
           /\ orch' = [orch EXCEPT ![p] = orch[p]]
           /\ n.gen = nego[p].gen /\ n.inFlight /\ ~n.fired /\ ~n.timer /\ ~n.suppress
           /\ n.chan \in Channels /\ n.chan.by = p
           /\ l.sock = client[p].sock /\ l.present /\ l.eager = client[p].eager
           /\ x.live = n.chan /\ x.exchange = pc[p].exchange
           /\ k \in Tasks /\ TaskFits(p, k) /\ k.at = "createOffer" /\ \A g : ~Learns(k, g)
<1> DEFINE stale == nego[p].chan # None \/ nego[p].inFlight
           n == IF stale THEN Released(nego[p]) ELSE nego[p]
           c == [by |-> p, n |-> n.made + 1]
           d == Recorded(n, c)
           e == [d EXCEPT !.inFlight = TRUE]
           f == [e EXCEPT !.made = d.made + 1]
           b == [client[p] EXCEPT !.present = TRUE]
           l == [b EXCEPT !.glare = TRUE]
           y == IF stale THEN CloseLocal(pc[p], nego[p].chan) ELSE pc[p]
           x == [y EXCEPT !.live = c]
           o == [chan |-> c, gen |-> n.gen]
           k == Task("createOffer", n.gen, o, 0)
<1>1. /\ nego' = [nego EXCEPT ![p] = f] /\ client' = [client EXCEPT ![p] = l]
      /\ pc' = [pc EXCEPT ![p] = x] /\ tasks' = [tasks EXCEPT ![p] = Append(tasks[p], k)]
      /\ orch' = orch
  BY DEF Originates
<1>2. /\ nego[p] \in Bridges /\ pc[p] \in Connections /\ client[p] \in Clients
      /\ tasks[p] \in Seq(Tasks) /\ nego[p].gen \in Nat /\ orch' = [orch EXCEPT ![p] = orch[p]]
  BY <1>1, Rows, RowsKept
<1>3. /\ n \in Bridges /\ n.gen = nego[p].gen /\ n.chan = None
      /\ ~n.fired /\ ~n.timer /\ ~n.suppress
  <2>1. CASE stale
    BY <1>2, <2>1, ReleasedBridge, ReleasedFlags
  <2>2. CASE ~stale
    <3>1. n = nego[p] /\ nego[p].chan = None
      BY <2>2
    <3>2. ~nego[p].fired
      BY <3>1, HereLatches
    <3>3. ~nego[p].timer /\ ~nego[p].suppress
      BY <3>2, HereLatches
    <3> QED BY <1>2, <3>1, <3>2, <3>3
  <2> QED BY <2>1, <2>2
<1>4. y \in Connections /\ y.exchange = pc[p].exchange
  <2>1. CASE stale
    BY <1>2, <2>1, ClosedConnection, ClosedLive
  <2>2. CASE ~stale
    BY <1>2, <2>2
  <2> QED BY <2>1, <2>2
<1>5. TRUE \in BOOLEAN
  OBVIOUS
<1>6. b \in Clients /\ b.sock = client[p].sock /\ b.present = TRUE
  BY <1>2, <1>5, ClientFlags, PresentSet
<1>b. b.eager = client[p].eager
  BY <1>2, <1>5, ClientFlags
<1> HIDE DEF b
<1>7. l.sock = b.sock /\ l.present = b.present
  BY <1>5, <1>6, ClientFlags, GlarePresent
<1>a. l.eager = b.eager
  BY <1>5, <1>6, ClientFlags
<1> HIDE DEF l, n, y
<1>8. c \in Channels /\ n.gen \in Nat /\ c.by = p
  BY <1>3 DEF Bridges, Channels
<1> HIDE DEF c
<1>9. x.live = c /\ x.exchange = y.exchange
  BY <1>4, <1>8 DEF Connections
<1> HIDE DEF x
<1>10. d \in Bridges /\ d.gen = n.gen /\ d.chan = c
  BY <1>3, <1>8, RecordedBridge
<1>11. ~d.fired /\ ~d.timer /\ ~d.suppress
  BY <1>3, RecordedFlags
<1> HIDE DEF d
<1>12. e \in Bridges /\ e.gen = d.gen /\ e.chan = d.chan /\ e.inFlight = TRUE
  BY <1>5, <1>10, BridgeFlight
<1>13. ~e.fired /\ ~e.timer /\ ~e.suppress
  BY <1>10, <1>11, FlightFlags
<1> HIDE DEF e
<1>14. f.gen = e.gen /\ f.chan = e.chan /\ f.inFlight = e.inFlight
  <2>1. d.made + 1 \in Nat
    BY <1>10 DEF Bridges
  <2> QED BY <1>12, <2>1, BridgeMade
<1>15. ~f.fired /\ ~f.timer /\ ~f.suppress
  BY <1>12, <1>13, MadeFlags
<1> HIDE DEF f
<1>16. o \in Offers /\ o.chan = c
  BY <1>8 DEF Offers
<1> HIDE DEF o
<1>17. k \in Tasks
  <2>1. "createOffer" \in Steps
    BY DEF Steps
  <2> QED BY <1>8, <1>16, <2>1 DEF Task, Tasks
<1>18. k.at = "createOffer" /\ k.gen = n.gen /\ k.on = n.gen /\ k.offer = o
  BY DEF Task
<1> HIDE DEF k
<1>19. TaskFits(p, k) /\ \A g : ~Learns(k, g)
  BY <1>8, <1>16, <1>18 DEF TaskFits, Learns, Answering
<1>20. f.gen = nego[p].gen /\ x.exchange = pc[p].exchange /\ x.live = f.chan /\ l.present /\ f.inFlight
  BY <1>3, <1>4, <1>6, <1>7, <1>9, <1>10, <1>12, <1>14
<1>21. /\ f.chan \in Channels /\ f.chan.by = p /\ l.sock = client[p].sock /\ l.eager = client[p].eager
  BY <1>6, <1>7, <1>8, <1>10, <1>12, <1>14, <1>a, <1>b
<1>22. /\ nego' = [nego EXCEPT ![p] = f] /\ client' = [client EXCEPT ![p] = l]
       /\ pc' = [pc EXCEPT ![p] = x] /\ tasks' = [tasks EXCEPT ![p] = Append(tasks[p], k)]
       /\ orch' = [orch EXCEPT ![p] = orch[p]]
  BY <1>1, <1>2
<1> QED BY <1>15, <1>17, <1>18, <1>19, <1>20, <1>21, <1>22

(* The end that originates: a join it hears or, with an older client, an   *)
(* offer, and in either case nothing it waits with names the other end.    *)
LEMMA OriginatesSides ==
  ASSUME BridgesInv, Sides, NEW p \in Peer, Originates(p), WireTold(p),
         Here(p, nego[p], client[p], pc[p], tasks[p], orch[p], wire'[p]),
         orch[p] = "waiting" =>
           /\ ~Joined(p, pc[p].exchange, nego[Other(p)].gen)
           /\ \A i \in DOMAIN tasks[p] :
                tasks[p][i].gen = nego[p].gen => ~Learns(tasks[p][i], nego[Other(p)].gen)
  PROVE  Sides'
<1>1. PICK n, l, x, k :
        /\ nego' = [nego EXCEPT ![p] = n] /\ client' = [client EXCEPT ![p] = l]
        /\ pc' = [pc EXCEPT ![p] = x] /\ tasks' = [tasks EXCEPT ![p] = Append(tasks[p], k)]
        /\ orch' = [orch EXCEPT ![p] = orch[p]]
        /\ n.gen = nego[p].gen /\ n.inFlight /\ ~n.fired /\ ~n.timer /\ ~n.suppress
        /\ n.chan \in Channels /\ n.chan.by = p
        /\ l.sock = client[p].sock /\ l.present /\ l.eager = client[p].eager
        /\ x.live = n.chan /\ x.exchange = pc[p].exchange
        /\ k \in Tasks /\ TaskFits(p, k) /\ k.at = "createOffer" /\ \A g : ~Learns(k, g)
  BY OriginatesRows
<1>2. tasks[p] \in Seq(Tasks) /\ nego[p].gen \in Nat
  BY Rows
<1>3. Here(p, n, l, x, tasks[p], orch[p], wire'[p])
  BY <1>1, OfferStarts DEF Here
<1>4. Here(p, n, l, x, Append(tasks[p], k), orch[p], wire'[p])
  BY <1>1, <1>2, <1>3, TaskComes DEF Here
<1>5. Dialed(p, n.gen, l.sock) /\ n.gen \in Nat
  BY <1>1, <1>2, SameConnection
<1> QED BY <1>1, <1>4, <1>5, SideStep

LEMMA DeliverJoinSides ==
  ASSUME BridgesInv, Sides, NEW p \in Peer, DeliverJoin(p) PROVE Sides'
<1> DEFINE h == nego[Other(p)].gen
<1>1. wire[p] # <<>> /\ Head(wire[p]).kind = "join" /\ Take(p) /\ Originates(p)
  BY DEF DeliverJoin
<1>2. WireTold(p) /\ wire'[p] = Tail(wire[p])
  BY <1>1, TakenTold
<1>3. wire[p] \in Seq(Wired) /\ Here(p, nego[p], client[p], pc[p], tasks[p], orch[p], wire[p])
  BY Rows, HereNow
<1>4. Here(p, nego[p], client[p], pc[p], tasks[p], orch[p], wire'[p])
  BY <1>1, <1>2, <1>3, WireShorter DEF Here
<1>5. JoinIn(wire[p])
  BY <1>1, Delivering DEF JoinIn
<1>6. /\ ~Joined(p, pc[p].exchange, h)
      /\ \A i \in DOMAIN tasks[p] : ~Learns(tasks[p][i], h)
  BY <1>3, <1>5 DEF Here, Side, JoinsFirst
<1> QED BY <1>1, <1>2, <1>4, <1>6, OriginatesSides

LEMMA CounterOfferSides ==
  ASSUME BridgesInv, Sides, NEW p \in Peer, CounterOffer(p) PROVE Sides'
<1>1. ~client[p].present /\ Originates(p) /\ wire' = wire
  BY DEF CounterOffer, Promotes
<1>2. WireTold(p) /\ Here(p, nego[p], client[p], pc[p], tasks[p], orch[p], wire'[p])
  BY <1>1, KeptTold, HereNow
<1>3. orch[p] = "waiting" => /\ pc[p].exchange = None
                             /\ \A i \in DOMAIN tasks[p] : tasks[p][i].gen # nego[p].gen
  BY <1>1, <1>2 DEF Here, Side, Attends
<1> QED BY <1>1, <1>2, <1>3, OriginatesSides DEF Joined

LEMMA DeliverLeaveSides ==
  ASSUME BridgesInv, Sides, NEW p \in Peer, DeliverLeave(p) PROVE Sides'
<1>1. wire[p] # <<>> /\ Take(p) /\ tasks' = tasks
  BY DEF DeliverLeave
<1>2. WireTold(p) /\ wire'[p] = Tail(wire[p]) /\ tasks' = [tasks EXCEPT ![p] = tasks[p]]
  BY <1>1, TakenTold, RowsKept
<1>3. wire[p] \in Seq(Wired) /\ nego[p].gen \in Nat /\ client[p] \in Clients /\ nego[p] \in Bridges
  BY Rows
<1>4. Here(p, nego[p], client[p], pc[p], tasks[p], orch[p], wire'[p])
  BY <1>1, <1>2, <1>3, HereNow, WireShorter DEF Here
<1>5. CASE client[p].present
  <2> DEFINE b == [client[p] EXCEPT !.present = FALSE]
             l == [b EXCEPT !.glare = FALSE]
             n == Released(nego[p])
             x == CloseLocal(pc[p], nego[p].chan)
             o == Dropped(orch[p])
  <2>1. client' = [client EXCEPT ![p] = l] /\ PeerGone(p)
    BY <1>5 DEF DeliverLeave
  <2>2. /\ nego' = [nego EXCEPT ![p] = n] /\ pc' = [pc EXCEPT ![p] = x]
        /\ orch' = [orch EXCEPT ![p] = o]
    BY <2>1 DEF PeerGone
  <2>3. FALSE \in BOOLEAN
    OBVIOUS
  <2>4. b \in Clients /\ b.sock = client[p].sock
    BY <1>3, <2>3, ClientFlags
  <2> HIDE DEF b
  <2>5. l.sock = b.sock
    BY <2>3, <2>4, ClientFlags
  <2> HIDE DEF l
  <2>6. o # "waiting"
    BY DroppedWaits
  <2>7. Here(p, n, l, x, tasks[p], o, wire'[p])
    BY <1>4, <2>6, GoneHere
  <2>8. n.gen = nego[p].gen
    BY <1>3, ReleasedBridge
  <2> HIDE DEF n, x, o
  <2>9. Dialed(p, n.gen, l.sock) /\ n.gen \in Nat
    BY <1>3, <2>4, <2>5, <2>8, SameConnection
  <2> QED BY <1>2, <2>1, <2>2, <2>7, <2>9, SideStep
<1>6. CASE ~client[p].present
  <2>1. client' = client /\ nego' = nego /\ pc' = pc /\ orch' = orch
    BY <1>6 DEF DeliverLeave
  <2>2. /\ client' = [client EXCEPT ![p] = client[p]] /\ nego' = [nego EXCEPT ![p] = nego[p]]
        /\ pc' = [pc EXCEPT ![p] = pc[p]] /\ orch' = [orch EXCEPT ![p] = orch[p]]
    BY <2>1, RowsKept
  <2>3. Dialed(p, nego[p].gen, client[p].sock)
    BY SameConnection
  <2> QED BY <1>2, <1>3, <1>4, <2>2, <2>3, SideStep
<1> QED BY <1>5, <1>6

(* What the message at the head says.                                      *)
LEMMA HeadSays ==
  ASSUME BridgesInv, Sides, NEW p \in Peer, wire[p] # <<>>, NEW m, m = Head(wire[p])
  PROVE  /\ MessageFits(p, m)
         /\ \A g \in Nat : TellsOf(m, g) => Told(g, nego[Other(p)].gen, client[Other(p)].sock)
         /\ TellsOf(m, nego[Other(p)].gen) => ~JoinIn(Tail(wire[p]))
<1> DEFINE h == nego[Other(p)].gen
           w == wire[p]
<1>1. w \in Seq(Wired) /\ 1 \in DOMAIN w /\ m = w[1]
  BY Rows, Delivering
<1>2. Here(p, nego[p], client[p], pc[p], tasks[p], orch[p], wire[p])
  BY HereNow
<1>3. MessageFits(p, m)
  BY <1>1, <1>2 DEF Here, Side, Fitting
<1>4. \A g \in Nat : TellsOf(m, g) => Told(g, h, client[Other(p)].sock)
  BY <1>1, <1>2 DEF Here, Side, HearSay
<1>5. ASSUME TellsOf(m, h), NEW j \in DOMAIN Tail(w), Tail(w)[j].kind = "join" PROVE FALSE
  <2>1. j \in Nat /\ j >= 1 /\ j + 1 \in DOMAIN w /\ Tail(w)[j] = w[j + 1]
    <3>1. DOMAIN Tail(w) = 1..(Len(w) - 1) /\ DOMAIN w = 1..Len(w) /\ Len(w) \in Nat
      BY <1>1
    <3>2. \A i \in 1..(Len(w) - 1) : Tail(w)[i] = w[i + 1]
      BY <1>1
    <3> QED BY <1>5, <3>1, <3>2
  <2>2. JoinsFirst(p, tasks[p], w, pc[p].exchange, h)
    BY <1>2 DEF Here, Side
  <2>3. j + 1 < 1
    BY <1>1, <1>5, <2>1, <2>2 DEF JoinsFirst
  <2> QED BY <2>1, <2>3
<1>6. TellsOf(m, h) => ~JoinIn(Tail(w))
  BY <1>5 DEF JoinIn
<1> QED BY <1>3, <1>4, <1>6

LEMMA DeliverOfferSides ==
  ASSUME BridgesInv, Sides, NEW p \in Peer, DeliverOffer(p) PROVE Sides'
<1> DEFINE m == Head(wire[p])
           l == [client[p] EXCEPT !.present = TRUE]
           at == IF nego[p].inFlight THEN "rollback" ELSE "setRemote"
           k == Task(at, nego[p].gen, m.offer, 0)
           ts == IF Ignores(p) THEN tasks[p] ELSE Append(tasks[p], k)
           h == nego[Other(p)].gen
<1>1. /\ wire[p] # <<>> /\ m.kind = "offer" /\ Take(p)
      /\ client' = [client EXCEPT ![p] = l] /\ tasks' = [tasks EXCEPT ![p] = ts]
      /\ orch' = orch /\ nego' = nego /\ pc' = pc
  BY DEF DeliverOffer
<1>2. WireTold(p) /\ wire'[p] = Tail(wire[p])
  BY <1>1, TakenTold
<1>3. /\ client[p] \in Clients /\ nego[p].gen \in Nat /\ tasks[p] \in Seq(Tasks)
      /\ wire[p] \in Seq(Wired) /\ TRUE \in BOOLEAN
  BY Rows
<1>4. l.sock = client[p].sock /\ l.present = TRUE
  BY <1>3, ClientFlags, PresentSet
<1>5. m.offer \in Offers
  BY <1>1, Delivering
<1>6. /\ MessageFits(p, m)
      /\ \A g \in Nat : TellsOf(m, g) => Told(g, h, client[Other(p)].sock)
      /\ TellsOf(m, h) => ~JoinIn(wire'[p])
  BY <1>1, <1>2, HeadSays
<1> HIDE DEF l, m
<1>7. k \in Tasks /\ k.at = at /\ k.gen = nego[p].gen /\ k.on = nego[p].gen /\ k.offer = m.offer
  <2>1. at \in Steps
    BY DEF Steps
  <2> HIDE DEF at
  <2> QED BY <1>3, <1>5, <2>1 DEF Task, Tasks
<1>8. /\ at = "rollback" => nego[p].inFlight
      /\ at # "rollback" => at = "setRemote" /\ ~nego[p].inFlight
  OBVIOUS
<1> HIDE DEF at, k
<1>9. \A g : Learns(k, g) => TellsOf(m, g)
  BY <1>1, <1>7, <1>8 DEF Learns, TellsOf
<1>10. TaskFits(p, k)
  <2>1. m.offer.chan.by # p
    BY <1>1, <1>6 DEF MessageFits
  <2>2. at \notin Offering \cup {"applyAnswer"}
    BY <1>8 DEF Offering
  <2> QED BY <1>7, <2>1, <2>2 DEF TaskFits
<1>11. Here(p, nego[p], client[p], pc[p], tasks[p], orch[p], wire'[p])
  BY <1>1, <1>2, <1>3, HereNow, WireShorter DEF Here
<1>12. Here(p, nego[p], l, pc[p], tasks[p], orch[p], wire'[p])
  <2>1. /\ nego[p].timer \/ nego[p].suppress => nego[p].fired
        /\ pc[p].live \in {None, nego[p].chan}
    BY HereLatches
  <2> QED BY <1>4, <1>11, <2>1, RowGivesUp DEF Here
<1>13. Here(p, nego[p], l, pc[p], Append(tasks[p], k), orch[p], wire'[p])
  <2>1. \A g \in Nat : Learns(k, g) => Told(g, h, client[Other(p)].sock)
    BY <1>6, <1>9
  <2>2. Learns(k, h) => ~JoinIn(wire'[p])
    BY <1>6, <1>9
  <2>3. k.at # "rollback" => ~nego[p].inFlight
    BY <1>7, <1>8
  <2>4. k.at \in OfOffer => nego[p].inFlight
    BY <1>7, <1>8 DEF OfOffer
  <2>5. l.present
    BY <1>4
  <2> QED BY <1>3, <1>7, <1>10, <1>12, <2>1, <2>2, <2>3, <2>4, <2>5, TaskComes DEF Here
<1>14. Here(p, nego[p], l, pc[p], ts, orch[p], wire'[p])
  BY <1>12, <1>13
<1> HIDE DEF ts
<1>15. /\ nego' = [nego EXCEPT ![p] = nego[p]] /\ pc' = [pc EXCEPT ![p] = pc[p]]
       /\ orch' = [orch EXCEPT ![p] = orch[p]]
  BY <1>1, RowsKept
<1>16. Dialed(p, nego[p].gen, l.sock)
  BY <1>4, SameConnection
<1> QED BY <1>1, <1>2, <1>3, <1>14, <1>15, <1>16, SideStep

LEMMA DeliverAnswerSides ==
  ASSUME BridgesInv, Sides, NEW p \in Peer, DeliverAnswer(p) PROVE Sides'
<1> DEFINE m == Head(wire[p])
           b == [client[p] EXCEPT !.present = TRUE]
           l == [b EXCEPT !.glare = FALSE]
           n == [nego[p] EXCEPT !.inFlight = FALSE]
           k == Task("applyAnswer", nego[p].gen, m.offer, m.answerer)
           ts == Append(tasks[p], k)
           h == nego[Other(p)].gen
<1>1. /\ wire[p] # <<>> /\ m.kind = "answer" /\ Take(p)
      /\ client' = [client EXCEPT ![p] = l] /\ tasks' = [tasks EXCEPT ![p] = ts]
      /\ nego' = [nego EXCEPT ![p] = n]
      /\ orch' = orch /\ pc' = pc
  BY DEF DeliverAnswer
<1>2. WireTold(p) /\ wire'[p] = Tail(wire[p])
  BY <1>1, TakenTold
<1>3. /\ client[p] \in Clients /\ nego[p].gen \in Nat /\ tasks[p] \in Seq(Tasks)
      /\ wire[p] \in Seq(Wired) /\ TRUE \in BOOLEAN /\ FALSE \in BOOLEAN /\ nego[p] \in Bridges
  BY Rows
<1>4. b \in Clients /\ b.sock = client[p].sock /\ b.present = TRUE
  BY <1>3, ClientFlags, PresentSet
<1> HIDE DEF b
<1>5. l.sock = b.sock /\ l.present = b.present
  BY <1>3, <1>4, ClientFlags, GlarePresent
<1>6. m.offer \in Offers /\ m.answerer \in Nat
  BY <1>1, Delivering DEF Wired
<1>7. n.gen = nego[p].gen /\ n.chan = nego[p].chan /\ n.inFlight = FALSE
  BY <1>3, BridgeFlight, ZenonT(60)
<1>8. n.fired = nego[p].fired /\ n.timer = nego[p].timer /\ n.suppress = nego[p].suppress
  BY <1>3, FlightFlags
<1>9. /\ MessageFits(p, m)
      /\ \A g \in Nat : TellsOf(m, g) => Told(g, h, client[Other(p)].sock)
      /\ TellsOf(m, h) => ~JoinIn(wire'[p])
  BY <1>1, <1>2, HeadSays
<1> HIDE DEF m, l, n
<1>10. k \in Tasks /\ k.at = "applyAnswer" /\ k.gen = nego[p].gen /\ k.on = nego[p].gen
       /\ k.offer = m.offer /\ k.answerer = m.answerer
  BY <1>3, <1>6 DEF Task, Tasks, Steps
<1> HIDE DEF k
<1>11. \A g : Learns(k, g) => TellsOf(m, g)
  BY <1>1, <1>10 DEF Learns, TellsOf, Answering
<1>12. TaskFits(p, k)
  <2>1. m.offer.chan.by = p
    BY <1>1, <1>9 DEF MessageFits
  <2> QED BY <1>10, <2>1 DEF TaskFits, Answering
<1>13. Here(p, nego[p], client[p], pc[p], tasks[p], orch[p], wire'[p])
  BY <1>1, <1>2, <1>3, HereNow, WireShorter DEF Here
<1>14. ~n.inFlight /\ l.present
  BY <1>4, <1>5, <1>7
<1>15. Here(p, n, l, pc[p], tasks[p], orch[p], wire'[p])
  <2>1. /\ n.timer \/ n.suppress => n.fired
        /\ pc[p].live \in {None, n.chan}
    BY <1>7, <1>8, HereLatches
  <2>2. n.fired => nego[p].fired /\ n.chan = nego[p].chan
    BY <1>7, <1>8
  <2> QED BY <1>7, <1>13, <1>14, <2>1, <2>2, RowGivesUp DEF Here
<1>16. Here(p, n, l, pc[p], ts, orch[p], wire'[p])
  <2>1. \A g \in Nat : Learns(k, g) => Told(g, h, client[Other(p)].sock)
    BY <1>9, <1>11
  <2>2. Learns(k, h) => ~JoinIn(wire'[p])
    BY <1>9, <1>11
  <2>3. k.at \notin OfOffer
    BY <1>10 DEF OfOffer
  <2> QED BY <1>3, <1>10, <1>12, <1>14, <1>15, <2>1, <2>2, <2>3, TaskComes DEF Here
<1> HIDE DEF ts
<1>17. /\ pc' = [pc EXCEPT ![p] = pc[p]] /\ orch' = [orch EXCEPT ![p] = orch[p]]
  BY <1>1, RowsKept
<1>18. Dialed(p, n.gen, l.sock) /\ n.gen \in Nat
  BY <1>3, <1>4, <1>5, <1>7, SameConnection
<1> QED BY <1>1, <1>2, <1>16, <1>17, <1>18, SideStep

-----------------------------------------------------------------------------
(* The operations of the peer connection that settle, once more.           *)

LEMMA TaskHere ==
  ASSUME BridgesInv, Sides, NEW p \in Peer, NEW i \in DOMAIN tasks[p], NEW k, k = tasks[p][i]
  PROVE  /\ k \in Tasks /\ TaskFits(p, k) /\ (Current(p, k) <=> Owns(p, k))
         /\ \A g \in Nat : Learns(k, g) => Told(g, nego[Other(p)].gen, client[Other(p)].sock)
         /\ Learns(k, nego[Other(p)].gen) => ~JoinIn(wire[p])
         /\ orch[p] = "waiting" /\ Owns(p, k) => client[p].present
         /\ orch[p] = "waiting" /\ Owns(p, k) /\ Learns(k, nego[Other(p)].gen) /\ k.at # "rollback"
              => ~nego[p].inFlight
         /\ k.at \in OfOffer /\ Owns(p, k) => ~nego[p].fired
         /\ k.at \in Offering => k.offer.gen = k.gen
<1> DEFINE h == nego[Other(p)].gen
<1>1. k \in Tasks /\ Sound(k, nego[p].gen)
  BY TaskFacts
<1>2. Here(p, nego[p], client[p], pc[p], tasks[p], orch[p], wire[p])
  BY HereNow
<1>3. TaskFits(p, k)
  BY <1>2 DEF Here, Side, Fitting
<1>4. Current(p, k) <=> Owns(p, k)
  BY <1>3 DEF Current, Owns, TaskFits
<1>5. \A g \in Nat : Learns(k, g) => Told(g, h, client[Other(p)].sock)
  BY <1>2 DEF Here, Side, HearSay
<1>6. Learns(k, h) => ~JoinIn(wire[p])
  BY <1>2 DEF Here, Side, JoinsFirst
<1>7. orch[p] = "waiting" /\ Owns(p, k) => client[p].present
  BY <1>2 DEF Here, Side, Attends, Owns
<1>8. orch[p] = "waiting" /\ Owns(p, k) /\ Learns(k, h) /\ k.at # "rollback" => ~nego[p].inFlight
  BY <1>2 DEF Here, Side, Yields, Owns, Free
<1>9. k.at \in OfOffer /\ Owns(p, k) => ~nego[p].fired
  <2>1. nego[p].fired => Free(nego[p], tasks[p], 1)
    BY HereLatches
  <2>2. i \in Nat /\ 1 <= i
    <3>1. tasks[p] \in Seq(Tasks)
      BY Rows
    <3> QED BY <3>1
  <2> QED BY <2>1, <2>2 DEF Free, Owns
<1>10. k.at \in Offering => k.offer.gen = k.gen
  BY <1>1 DEF Sound, Offering
<1> QED BY <1>1, <1>3, <1>4, <1>5, <1>6, <1>7, <1>8, <1>9, <1>10

LEMMA DoneHere ==
  ASSUME BridgesInv, Sides, NEW p \in Peer, NEW i \in DOMAIN tasks[p]
  PROVE  Here(p, nego[p], client[p], pc[p], RemoveAt(tasks[p], i), orch[p], wire[p])
BY Rows, HereNow, TaskGone DEF Here

(* The next operation of a coroutine that still owns the bridge.           *)
LEMMA NextHere ==
  ASSUME BridgesInv, Sides, NEW p \in Peer, NEW i \in DOMAIN tasks[p],
         NEW k, k = tasks[p][i], Owns(p, k),
         NEW at, NEW n, NEW l, NEW x, NEW ts, ts = RemoveAt(tasks[p], i),
         Here(p, n, l, x, ts, orch[p], wire[p]),
         n.gen = nego[p].gen, client[p].present => l.present,
         \/ k.at = "createOffer" /\ at = "setOffer" /\ n.inFlight
         \/ k.at = "rollback" /\ at = "setRemote" /\ ~n.inFlight
         \/ k.at = "setRemote" /\ at = "createAnswer" /\ (n.inFlight => nego[p].inFlight)
         \/ k.at = "createAnswer" /\ at = "setAnswer" /\ (n.inFlight => nego[p].inFlight)
  PROVE  Here(p, n, l, x, Append(ts, [k EXCEPT !.at = at, !.on = nego[p].gen]), orch[p], wire[p])
<1> DEFINE d == [k EXCEPT !.at = at, !.on = nego[p].gen]
           h == nego[Other(p)].gen
<1>1. /\ k \in Tasks /\ TaskFits(p, k)
      /\ \A g \in Nat : Learns(k, g) => Told(g, h, client[Other(p)].sock)
      /\ Learns(k, h) => ~JoinIn(wire[p])
      /\ orch[p] = "waiting" => client[p].present
      /\ orch[p] = "waiting" /\ Learns(k, h) /\ k.at # "rollback" => ~nego[p].inFlight
  BY TaskHere
<1>2. at \in Steps
  BY DEF Steps
<1>3. ts \in Seq(Tasks) /\ nego[p].gen \in Nat
  BY Rows, Removed
<1>4. d \in Tasks /\ d.gen = k.gen /\ d.on = nego[p].gen /\ d.at = at /\ d.offer = k.offer
  BY <1>1, <1>2, <1>3 DEF Tasks
<1> HIDE DEF d
<1>5. k.gen = nego[p].gen
  BY DEF Owns
<1>6. TaskFits(p, d)
  BY <1>1, <1>4, <1>5 DEF TaskFits, Offering, Answering
<1>7. \A g : Learns(d, g) => Learns(k, g)
  BY <1>4 DEF Learns, Answering
<1>8. orch[p] = "waiting" => l.present
  BY <1>1
<1>9. orch[p] = "waiting" /\ Learns(d, h) => ~n.inFlight
  <2>1. CASE k.at = "createOffer"
    BY <1>7, <2>1 DEF Learns, Answering
  <2>2. CASE k.at = "rollback"
    BY <2>2
  <2>3. CASE k.at \in {"setRemote", "createAnswer"}
    <3>1. n.inFlight => nego[p].inFlight
      BY <2>3
    <3>2. orch[p] = "waiting" /\ Learns(d, h) => ~nego[p].inFlight
      BY <1>1, <1>7, <2>3
    <3> QED BY <3>1, <3>2
  <2> QED BY <2>1, <2>2, <2>3
<1>10. d.at \in OfOffer => n.inFlight
  BY <1>4 DEF OfOffer
<1>11. Here(p, n, l, x, Append(ts, d), orch[p], wire[p])
  BY <1>1, <1>3, <1>4, <1>6, <1>7, <1>8, <1>9, <1>10, TaskComes DEF Here
<1> QED BY <1>11 DEF d

LEMMA SettledLive ==
  ASSUME BridgesInv, NEW p \in Peer, NEW k
  PROVE  /\ Settled(p, k).live = pc[p].live
         /\ k.at \notin {"setAnswer", "applyAnswer"} \/ ~Current(p, k) =>
              Settled(p, k).exchange = pc[p].exchange
<1>1. pc[p] \in Connections
  BY Rows
<1> QED BY <1>1, AppliedLive DEF Settled

(* A local channel that is closed with its offer.                          *)
LEMMA GivenUp ==
  ASSUME BridgesInv, Sides, NEW p \in Peer, NEW ts, NEW l, NEW y \in Connections, NEW c,
         NEW w, Here(p, nego[p], client[p], pc[p], ts, orch[p], w),
         client[p].present => l.present,
         y.exchange = pc[p].exchange, y.live = pc[p].live
  PROVE  /\ Here(p, nego[p], l, y, ts, orch[p], w)
         /\ Here(p, nego[p], l, CloseLocal(y, c), ts, orch[p], w)
<1>1. /\ CloseLocal(y, c).exchange = pc[p].exchange
      /\ CloseLocal(y, c).live \in {None, pc[p].live}
  BY ClosedLive
<1>2. /\ nego[p].timer \/ nego[p].suppress => nego[p].fired
      /\ pc[p].live \in {None, nego[p].chan}
  BY HereLatches
<1>3. CloseLocal(y, c).live \in {None, nego[p].chan} /\ y.live \in {None, nego[p].chan}
  BY <1>1, <1>2
<1>4. Here(p, nego[p], l, y, ts, orch[p], w)
  BY <1>2, <1>3, RowGivesUp DEF Here
<1>5. Here(p, nego[p], l, CloseLocal(y, c), ts, orch[p], w)
  BY <1>1, <1>2, <1>3, RowGivesUp DEF Here
<1> QED BY <1>4, <1>5

LEMMA OfferCreatedSides ==
  ASSUME BridgesInv, Sides, NEW p \in Peer, NEW i \in DOMAIN tasks[p],
         OfferCreated(p, i, tasks[p][i])
  PROVE  Sides'
<1> DEFINE k == tasks[p][i]
           us == RemoveAt(tasks[p], i)
<1>1. k.at = "createOffer" /\ orch' = orch /\ nego' = nego /\ client' = client /\ wire' = wire
  BY DEF OfferCreated
<1>2. /\ orch' = [orch EXCEPT ![p] = orch[p]] /\ nego' = [nego EXCEPT ![p] = nego[p]]
      /\ client' = [client EXCEPT ![p] = client[p]] /\ nego[p].gen \in Nat /\ pc[p] \in Connections
  BY <1>1, Rows, RowsKept
<1>3. WireTold(p) /\ wire'[p] = wire[p] /\ Dialed(p, nego[p].gen, client[p].sock)
  BY <1>1, KeptTold, SameConnection
<1>4. Here(p, nego[p], client[p], pc[p], us, orch[p], wire[p])
  BY DoneHere
<1> HIDE DEF us
<1>5. CASE IsLiveOffer(p, k)
  <2> DEFINE ts == Append(us, [k EXCEPT !.at = "setOffer", !.on = nego[p].gen])
  <2>1. Owns(p, k) /\ nego[p].inFlight
    BY <1>5 DEF IsLiveOffer
  <2>2. tasks' = [tasks EXCEPT ![p] = ts] /\ pc' = pc
    BY <1>5 DEF OfferCreated, Continue, us
  <2>3. Here(p, nego[p], client[p], pc[p], ts, orch[p], wire[p])
    BY <1>1, <1>4, <2>1, NextHere DEF us
  <2> HIDE DEF ts
  <2>4. pc' = [pc EXCEPT ![p] = pc[p]]
    BY <2>2, RowsKept
  <2> QED BY <1>2, <1>3, <2>2, <2>3, <2>4, SideStep
<1>6. CASE ~IsLiveOffer(p, k)
  <2> DEFINE x == CloseLocal(pc[p], k.offer.chan)
  <2>1. tasks' = [tasks EXCEPT ![p] = us] /\ pc' = [pc EXCEPT ![p] = x]
    BY <1>6 DEF OfferCreated, Done, us
  <2>2. Here(p, nego[p], client[p], x, us, orch[p], wire[p])
    BY <1>2, <1>4, GivenUp
  <2> HIDE DEF x
  <2> QED BY <1>2, <1>3, <2>1, <2>2, SideStep
<1> QED BY <1>5, <1>6

LEMMA OfferSetSides ==
  ASSUME BridgesInv, Sides, NEW p \in Peer, NEW i \in DOMAIN tasks[p], OfferSet(p, i, tasks[p][i])
  PROVE  Sides'
<1> DEFINE k == tasks[p][i]
           m == Message("offer", k.offer, 0)
           us == RemoveAt(tasks[p], i)
           y == Settled(p, k)
<1>1. k.at = "setOffer" /\ tasks' = [tasks EXCEPT ![p] = us] /\ orch' = orch /\ nego' = nego
  BY DEF OfferSet, Done
<1>2. /\ orch' = [orch EXCEPT ![p] = orch[p]] /\ nego' = [nego EXCEPT ![p] = nego[p]]
      /\ nego[p].gen \in Nat /\ client[p] \in Clients
  BY <1>1, Rows, RowsKept
<1>3. Here(p, nego[p], client[p], pc[p], us, orch[p], wire[p])
  BY DoneHere
<1>4. k \in Tasks /\ TaskFits(p, k) /\ k.offer.gen = k.gen
  BY <1>1, TaskHere DEF Offering
<1>5. y \in Connections /\ y.live = pc[p].live /\ y.exchange = pc[p].exchange
  BY <1>1, TaskFacts, SettledLive
<1> HIDE DEF us, y
<1>6. CASE IsLiveOffer(p, k)
  <2> DEFINE v == client[p].glare \/ Seated(p)
             l == [client[p] EXCEPT !.glare = v]
  <2>1. Relay(p, m) /\ client' = [client EXCEPT ![p] = l] /\ pc' = [pc EXCEPT ![p] = y]
    BY <1>6 DEF OfferSet, y
  <2>2. v \in BOOLEAN
    BY DEF Seated
  <2> HIDE DEF v
  <2>3. l.sock = client[p].sock /\ l.present = client[p].present
    BY <1>2, <2>2, ClientFlags, GlarePresent
  <2> HIDE DEF l
  <2>4. m \in Wired /\ m.kind = "offer" /\ m.offer = k.offer
    BY <1>4 DEF Message, Wired, Tasks
  <2>5. MessageFits(Other(p), m)
    <3>1. k.offer.chan.by = p
      BY <1>1, <1>4 DEF TaskFits, Offering
    <3> QED BY <2>4, <3>1, TheOther DEF MessageFits
  <2>6. \A g \in Nat : TellsOf(m, g) => g = nego[p].gen
    BY <1>4, <1>6, <2>4 DEF TellsOf, IsLiveOffer, Owns
  <2> HIDE DEF m
  <2>7. WireTold(p) /\ wire'[p] = wire[p]
    BY <2>1, <2>4, <2>5, <2>6, RelayedTold
  <2>8. Here(p, nego[p], l, y, us, orch[p], wire[p])
    BY <1>3, <1>5, <2>3, GivenUp
  <2>9. Dialed(p, nego[p].gen, l.sock)
    BY <2>3, SameConnection
  <2> QED BY <1>1, <1>2, <2>1, <2>7, <2>8, <2>9, SideStep
<1>7. CASE ~IsLiveOffer(p, k)
  <2> DEFINE x == CloseLocal(y, k.offer.chan)
  <2>1. wire' = wire /\ client' = client /\ pc' = [pc EXCEPT ![p] = x]
    BY <1>7 DEF OfferSet, y
  <2>2. Here(p, nego[p], client[p], x, us, orch[p], wire[p])
    BY <1>3, <1>5, GivenUp
  <2> HIDE DEF x
  <2>3. WireTold(p) /\ wire'[p] = wire[p] /\ Dialed(p, nego[p].gen, client[p].sock)
    BY <2>1, KeptTold, SameConnection
  <2>4. client' = [client EXCEPT ![p] = client[p]]
    BY <2>1, RowsKept
  <2> QED BY <1>1, <1>2, <2>1, <2>2, <2>3, <2>4, SideStep
<1> QED BY <1>6, <1>7

LEMMA EndOfferPresent ==
  ASSUME NEW l \in Clients PROVE EndOffer(l).sock = l.sock /\ EndOffer(l).present = l.present
<1>1. FALSE \in BOOLEAN /\ EndOffer(l) = [l EXCEPT !.glare = FALSE]
  BY DEF EndOffer
<1> QED BY <1>1, ClientFlags, GlarePresent

(* A bridge without a session gives up its offer, and its channel or not.  *)
LEMMA OfferGivenUp ==
  ASSUME BridgesInv, Sides, NEW p \in Peer, ~nego[p].fired, NEW ts, NEW l, NEW y \in Connections,
         NEW d, d = "waiting" => orch[p] = "waiting", client[p].present => l.present,
         Here(p, nego[p], client[p], pc[p], ts, orch[p], wire[p]),
         y.exchange = pc[p].exchange, y.live = pc[p].live,
         NEW n, n.gen = nego[p].gen, n.inFlight => nego[p].inFlight,
         n.fired = nego[p].fired, n.timer = nego[p].timer, n.suppress = nego[p].suppress,
         NEW c, n.chan = nego[p].chan \/ (n.chan = None /\ c = nego[p].chan)
  PROVE  Here(p, n, l, CloseLocal(y, c), ts, d, wire[p])
<1>1. /\ CloseLocal(y, c).exchange = pc[p].exchange
      /\ CloseLocal(y, c).live = IF pc[p].live = c THEN None ELSE pc[p].live
  BY ClosedLive
<1>2. /\ nego[p].timer \/ nego[p].suppress => nego[p].fired
      /\ pc[p].live \in {None, nego[p].chan}
  BY HereLatches
<1>3. CloseLocal(y, c).live \in {None, n.chan}
  BY <1>1, <1>2
<1>4. ~n.fired /\ ~n.timer /\ ~n.suppress
  BY <1>2
<1> QED BY <1>1, <1>3, <1>4, RowGivesUp DEF Here

LEMMA OfferFailsSides ==
  ASSUME BridgesInv, Sides, NEW p \in Peer, NEW i \in DOMAIN tasks[p], OfferFails(p, i, tasks[p][i])
  PROVE  Sides'
<1> DEFINE k == tasks[p][i]
           us == RemoveAt(tasks[p], i)
           x == CloseLocal(pc[p], k.offer.chan)
<1>1. /\ k.at \in {"createOffer", "setOffer"} /\ tasks' = [tasks EXCEPT ![p] = us]
      /\ pc' = [pc EXCEPT ![p] = x] /\ orch' = orch /\ wire' = wire
  BY DEF OfferFails, Done
<1>2. /\ orch' = [orch EXCEPT ![p] = orch[p]] /\ nego[p] \in Bridges
      /\ nego[p].gen \in Nat /\ client[p] \in Clients /\ pc[p] \in Connections
  BY <1>1, Rows, RowsKept
<1>3. Here(p, nego[p], client[p], pc[p], us, orch[p], wire[p])
  BY DoneHere
<1>4. WireTold(p) /\ wire'[p] = wire[p]
  BY <1>1, KeptTold
<1> HIDE DEF us
<1>5. CASE Owns(p, k)
  <2> DEFINE b == DiscardChannel(nego[p])
             same == nego[p].chan = k.offer.chan
             n == IF same THEN [b EXCEPT !.inFlight = FALSE] ELSE [nego[p] EXCEPT !.inFlight = FALSE]
             l == EndOffer(client[p])
  <2>1. nego' = [nego EXCEPT ![p] = n] /\ client' = [client EXCEPT ![p] = l]
    BY <1>5 DEF OfferFails
  <2>2. b \in Bridges /\ b.gen = nego[p].gen /\ b.chan = None
        /\ b.fired = nego[p].fired /\ b.timer = nego[p].timer /\ b.suppress = nego[p].suppress
    BY <1>2, Discarded, DiscardedFlags
  <2>3. FALSE \in BOOLEAN
    OBVIOUS
  <2>4. l.sock = client[p].sock /\ l.present = client[p].present
    BY <1>2, EndOfferPresent
  <2> HIDE DEF b, l
  <2>5. n.gen = nego[p].gen /\ n.inFlight = FALSE
    <3>1. CASE same
      BY <2>2, <2>3, <3>1, BridgeFlight
    <3>2. CASE ~same
      BY <1>2, <2>3, <3>2, BridgeFlight
    <3> QED BY <3>1, <3>2
  <2>6. n.fired = nego[p].fired /\ n.timer = nego[p].timer /\ n.suppress = nego[p].suppress
    <3>1. CASE same
      BY <2>2, <3>1, FlightFlags
    <3>2. CASE ~same
      BY <1>2, <3>2, FlightFlags
    <3> QED BY <3>1, <3>2
  <2>7. n.chan = nego[p].chan \/ (n.chan = None /\ k.offer.chan = nego[p].chan)
    <3>1. CASE same
      BY <2>2, <2>3, <3>1, BridgeFlight
    <3>2. CASE ~same
      BY <1>2, <2>3, <3>2, BridgeFlight
    <3> QED BY <3>1, <3>2
  <2> HIDE DEF n
  <2>8. ~nego[p].fired
    <3>1. k.at \in OfOffer
      BY <1>1 DEF OfOffer
    <3> QED BY <1>5, <3>1, TaskHere
  <2>9. Here(p, n, l, x, us, orch[p], wire[p])
    BY <1>2, <1>3, <2>4, <2>5, <2>6, <2>7, <2>8, OfferGivenUp
  <2> HIDE DEF x
  <2>10. Dialed(p, n.gen, l.sock) /\ n.gen \in Nat
    BY <1>2, <2>4, <2>5, SameConnection
  <2> QED BY <1>1, <1>2, <1>4, <2>1, <2>9, <2>10, SideStep
<1>6. CASE ~Owns(p, k)
  <2>1. nego' = nego /\ client' = client
    BY <1>6 DEF OfferFails
  <2>2. nego' = [nego EXCEPT ![p] = nego[p]] /\ client' = [client EXCEPT ![p] = client[p]]
    BY <2>1, RowsKept
  <2>3. Here(p, nego[p], client[p], x, us, orch[p], wire[p])
    BY <1>2, <1>3, GivenUp
  <2> HIDE DEF x
  <2>4. Dialed(p, nego[p].gen, client[p].sock)
    BY SameConnection
  <2> QED BY <1>1, <1>2, <1>4, <2>2, <2>3, <2>4, SideStep
<1> QED BY <1>5, <1>6

LEMMA RolledBackSides ==
  ASSUME BridgesInv, Sides, NEW p \in Peer, NEW i \in DOMAIN tasks[p],
         RolledBack(p, i, tasks[p][i]) \/ RollbackFails(p, i, tasks[p][i])
  PROVE  Sides'
<1> DEFINE k == tasks[p][i]
           us == RemoveAt(tasks[p], i)
<1>1. k.at = "rollback" /\ wire' = wire
  BY DEF RolledBack, RollbackFails
<1>2. /\ nego[p] \in Bridges /\ nego[p].gen \in Nat /\ client[p] \in Clients /\ pc[p] \in Connections
  BY Rows
<1>3. Here(p, nego[p], client[p], pc[p], us, orch[p], wire[p])
  BY DoneHere
<1>4. WireTold(p) /\ wire'[p] = wire[p]
  BY <1>1, KeptTold
<1>5. CASE Owns(p, k)
  <2> DEFINE b == DiscardChannel(nego[p])
             n == [b EXCEPT !.inFlight = FALSE]
             l == EndOffer(client[p])
             o == Dropped(orch[p])
             y == Settled(p, k)
  <2>1. /\ nego' = [nego EXCEPT ![p] = n] /\ client' = [client EXCEPT ![p] = l]
    BY <1>5 DEF RolledBack, RollbackFails
  <2>2. b \in Bridges /\ b.gen = nego[p].gen /\ b.chan = None
        /\ b.fired = nego[p].fired /\ b.timer = nego[p].timer /\ b.suppress = nego[p].suppress
    BY <1>2, Discarded, DiscardedFlags
  <2>3. FALSE \in BOOLEAN
    OBVIOUS
  <2>4. l.sock = client[p].sock /\ l.present = client[p].present
    BY <1>2, EndOfferPresent
  <2> HIDE DEF b, l
  <2>5. n.gen = nego[p].gen /\ n.inFlight = FALSE /\ n.chan = None
    BY <2>2, <2>3, BridgeFlight
  <2>6. n.fired = nego[p].fired /\ n.timer = nego[p].timer /\ n.suppress = nego[p].suppress
    BY <2>2, FlightFlags
  <2> HIDE DEF n
  <2>7. ~nego[p].fired
    <3>1. k.at \in OfOffer
      BY <1>1 DEF OfOffer
    <3> QED BY <1>5, <3>1, TaskHere
  <2>8. o # "waiting"
    BY DroppedWaits
  <2>9. y \in Connections /\ y.live = pc[p].live /\ y.exchange = pc[p].exchange
    BY <1>1, TaskFacts, SettledLive
  <2> HIDE DEF o, y
  <2>10. Dialed(p, n.gen, l.sock) /\ n.gen \in Nat
    BY <1>2, <2>4, <2>5, SameConnection
  <2>11. CASE RolledBack(p, i, k)
    <3> DEFINE x == CloseLocal(y, nego[p].chan)
               ts == Append(us, [k EXCEPT !.at = "setRemote", !.on = nego[p].gen])
    <3>1. /\ pc' = [pc EXCEPT ![p] = x] /\ tasks' = [tasks EXCEPT ![p] = ts] /\ orch' = orch
      BY <1>5, <2>11 DEF RolledBack, Continue, y
    <3>2. Here(p, n, l, x, us, orch[p], wire[p])
      BY <1>3, <2>4, <2>5, <2>6, <2>7, <2>9, OfferGivenUp
    <3> HIDE DEF x
    <3>3. Here(p, n, l, x, ts, orch[p], wire[p])
      BY <1>1, <1>5, <2>4, <2>5, <3>2, NextHere
    <3> HIDE DEF ts
    <3>4. orch' = [orch EXCEPT ![p] = orch[p]]
      BY <3>1, RowsKept
    <3> QED BY <1>4, <2>1, <2>10, <3>1, <3>3, <3>4, SideStep
  <2>12. CASE RollbackFails(p, i, k)
    <3> DEFINE x == CloseLocal(pc[p], nego[p].chan)
    <3>1. /\ pc' = [pc EXCEPT ![p] = x] /\ tasks' = [tasks EXCEPT ![p] = us]
          /\ orch' = [orch EXCEPT ![p] = o]
      BY <1>5, <2>12 DEF RollbackFails, Done, o
    <3>2. Here(p, n, l, x, us, o, wire[p])
      BY <1>2, <1>3, <2>4, <2>5, <2>6, <2>7, <2>8, OfferGivenUp
    <3> HIDE DEF x
    <3> QED BY <1>4, <2>1, <2>10, <3>1, <3>2, SideStep
  <2> QED BY <2>11, <2>12
<1>6. CASE ~Owns(p, k)
  <2>1. /\ nego' = nego /\ client' = client /\ pc' = pc /\ orch' = orch
        /\ tasks' = [tasks EXCEPT ![p] = us]
    BY <1>6 DEF RolledBack, RollbackFails, Done
  <2>2. /\ nego' = [nego EXCEPT ![p] = nego[p]] /\ client' = [client EXCEPT ![p] = client[p]]
        /\ pc' = [pc EXCEPT ![p] = pc[p]] /\ orch' = [orch EXCEPT ![p] = orch[p]]
    BY <2>1, RowsKept
  <2>3. Dialed(p, nego[p].gen, client[p].sock)
    BY SameConnection
  <2> HIDE DEF us
  <2> QED BY <1>2, <1>3, <1>4, <2>1, <2>2, <2>3, SideStep
<1> QED BY <1>5, <1>6

LEMMA AnswerAdvancesSides ==
  ASSUME BridgesInv, Sides, NEW p \in Peer, NEW i \in DOMAIN tasks[p],
         AnswerAdvances(p, i, tasks[p][i])
  PROVE  Sides'
<1> DEFINE k == tasks[p][i]
           us == RemoveAt(tasks[p], i)
           y == Settled(p, k)
           at == IF k.at = "setRemote" THEN "createAnswer" ELSE "setAnswer"
           ts == Append(us, [k EXCEPT !.at = at, !.on = nego[p].gen])
<1>1. /\ k.at \in {"setRemote", "createAnswer"} /\ pc' = [pc EXCEPT ![p] = y]
      /\ orch' = orch /\ nego' = nego /\ client' = client /\ wire' = wire
  BY DEF AnswerAdvances
<1>2. /\ orch' = [orch EXCEPT ![p] = orch[p]] /\ nego' = [nego EXCEPT ![p] = nego[p]]
      /\ client' = [client EXCEPT ![p] = client[p]] /\ nego[p].gen \in Nat
  BY <1>1, Rows, RowsKept
<1>3. WireTold(p) /\ wire'[p] = wire[p] /\ Dialed(p, nego[p].gen, client[p].sock)
  BY <1>1, KeptTold, SameConnection
<1>4. Here(p, nego[p], client[p], pc[p], us, orch[p], wire[p])
  BY DoneHere
<1>5. y \in Connections /\ y.live = pc[p].live /\ y.exchange = pc[p].exchange
  BY <1>1, TaskFacts, SettledLive
<1> HIDE DEF y
<1>6. Here(p, nego[p], client[p], y, us, orch[p], wire[p])
  BY <1>4, <1>5, GivenUp
<1>7. CASE Owns(p, k)
  <2>1. tasks' = [tasks EXCEPT ![p] = ts]
    BY <1>7 DEF AnswerAdvances, Continue
  <2>2. (k.at = "setRemote" /\ at = "createAnswer") \/ (k.at = "createAnswer" /\ at = "setAnswer")
    BY <1>1
  <2> HIDE DEF at
  <2>3. Here(p, nego[p], client[p], y, ts, orch[p], wire[p])
    BY <1>6, <1>7, <2>2, NextHere
  <2> HIDE DEF ts
  <2> QED BY <1>1, <1>2, <1>3, <2>1, <2>3, SideStep
<1>8. CASE ~Owns(p, k)
  <2>1. tasks' = [tasks EXCEPT ![p] = us]
    BY <1>8 DEF AnswerAdvances, Done
  <2> HIDE DEF us
  <2> QED BY <1>1, <1>2, <1>3, <1>6, <2>1, SideStep
<1> QED BY <1>7, <1>8

(* The first operation of the live connection's chain settles: no offer of *)
(* this end was called before it.                                          *)
LEMMA SettledHere ==
  ASSUME BridgesInv, Sides, NEW p \in Peer, NEW i \in DOMAIN tasks[p], IsNext(p, i),
         NEW k, k = tasks[p][i], k.at \in {"setAnswer", "applyAnswer"}
  PROVE  Here(p, nego[p], client[p], Settled(p, k), RemoveAt(tasks[p], i), orch[p], wire[p])
<1> DEFINE y == Settled(p, k)
           us == RemoveAt(tasks[p], i)
<1>1. tasks[p] \in Seq(Tasks) /\ pc[p] \in Connections
  BY Rows
<1>2. y.live = pc[p].live
  BY SettledLive
<1>3. k \in Tasks /\ TaskFits(p, k) /\ (Current(p, k) <=> Owns(p, k))
  BY TaskHere
<1>4. CASE Owns(p, k)
  <2>1. y = Applied(pc[p], k) /\ k.gen = nego[p].gen /\ k.on = k.gen
    BY <1>3, <1>4 DEF Settled, Owns, TaskFits
  <2>2. y.exchange = IF k.at = "setAnswer" THEN [offer |-> k.offer, answerer |-> k.on]
                     ELSE [offer |-> k.offer, answerer |-> k.answerer]
    BY <1>1, <2>1, AppliedLive
  <2>3. ASSUME NEW g \in Nat, Joined(p, y.exchange, g) PROVE Learns(k, g)
    <3>1. CASE k.at = "setAnswer"
      <4>1. k.offer.chan.by # p
        BY <1>3, <3>1 DEF TaskFits, Answering
      <4> QED BY <2>2, <2>3, <3>1, <4>1 DEF Joined, Learns, Answering
    <3>2. CASE k.at = "applyAnswer"
      <4>1. k.offer.chan.by = p
        BY <1>3, <3>2 DEF TaskFits
      <4> QED BY <2>2, <2>3, <3>2, <4>1 DEF Joined, Learns
    <3> QED BY <3>1, <3>2
  <2>4. ASSUME NEW j \in DOMAIN tasks[p], j < i PROVE tasks[p][j].gen # nego[p].gen
    <3>1. j \in 1..(i - 1)
      BY <1>1, <2>4
    <3>2. tasks[p][j].on # k.on
      BY <3>1 DEF IsNext
    <3>3. tasks[p][j].on = tasks[p][j].gen
      BY TaskHere DEF TaskFits
    <3> QED BY <2>1, <3>2, <3>3
  <2> HIDE DEF y
  <2>5. Here(p, nego[p], client[p], y, tasks[p], orch[p], wire[p])
    <3>1. /\ Here(p, nego[p], client[p], pc[p], tasks[p], orch[p], wire[p])
          /\ nego[Other(p)].gen \in Nat
      BY HereNow
    <3>2. tasks[p][i].gen = nego[p].gen /\ tasks[p][i].at # "rollback"
      BY <2>1
    <3>3. \A g \in Nat : Joined(p, y.exchange, g) => Learns(tasks[p][i], g)
      BY <2>3
    <3> QED BY <1>1, <1>2, <2>4, <3>1, <3>2, <3>3, ExchangeDone DEF Here
  <2>6. Here(p, nego[p], client[p], y, us, orch[p], wire[p])
    BY <1>1, <2>5, TaskGone DEF Here
  <2> QED BY <2>6 DEF y
<1>5. CASE ~Owns(p, k)
  <2>1. y = pc[p]
    BY <1>3, <1>5 DEF Settled
  <2> QED BY <2>1, DoneHere
<1> QED BY <1>4, <1>5

LEMMA AnswerSetSides ==
  ASSUME BridgesInv, Sides, NEW p \in Peer, NEW i \in DOMAIN tasks[p], IsNext(p, i),
         AnswerSet(p, i, tasks[p][i])
  PROVE  Sides'
<1> DEFINE k == tasks[p][i]
           us == RemoveAt(tasks[p], i)
           y == Settled(p, k)
           m == Message("answer", k.offer, k.on)
<1>1. /\ k.at = "setAnswer" /\ pc' = [pc EXCEPT ![p] = y] /\ tasks' = [tasks EXCEPT ![p] = us]
      /\ orch' = orch /\ nego' = nego /\ client' = client
  BY DEF AnswerSet, Done
<1>2. /\ orch' = [orch EXCEPT ![p] = orch[p]] /\ nego' = [nego EXCEPT ![p] = nego[p]]
      /\ client' = [client EXCEPT ![p] = client[p]] /\ nego[p].gen \in Nat
  BY <1>1, Rows, RowsKept
<1>3. Here(p, nego[p], client[p], y, us, orch[p], wire[p])
  BY <1>1, SettledHere
<1>4. Dialed(p, nego[p].gen, client[p].sock)
  BY SameConnection
<1>5. k \in Tasks /\ TaskFits(p, k) /\ (Current(p, k) <=> Owns(p, k))
  BY TaskHere
<1>6. WireTold(p) /\ wire'[p] = wire[p]
  <2>1. CASE Owns(p, k)
    <3>1. Relay(p, m)
      BY <2>1 DEF AnswerSet
    <3>2. m \in Wired /\ m.kind = "answer" /\ m.offer = k.offer /\ m.answerer = k.on
      BY <1>5 DEF Message, Wired, Tasks
    <3>3. k.offer.chan.by = Other(p)
      <4>1. k.offer.chan.by # p
        BY <1>1, <1>5 DEF TaskFits, Answering
      <4>2. k.offer.chan.by \in Peer
        BY <1>5 DEF Tasks, Offers, Channels
      <4> QED BY <4>1, <4>2, TheOther
    <3>4. k.on = nego[p].gen
      BY <1>5, <2>1 DEF Current
    <3> HIDE DEF m, k
    <3>5. MessageFits(Other(p), m) /\ \A g \in Nat : TellsOf(m, g) => g = nego[p].gen
      BY <3>2, <3>3, <3>4 DEF MessageFits, TellsOf
    <3> QED BY <3>1, <3>2, <3>5, RelayedTold
  <2>2. CASE ~Owns(p, k)
    <3>1. wire' = wire
      BY <2>2 DEF AnswerSet
    <3> QED BY <3>1, KeptTold
  <2> QED BY <2>1, <2>2
<1> HIDE DEF y, us
<1> QED BY <1>1, <1>2, <1>3, <1>4, <1>6, SideStep

LEMMA AnswerAppliedSides ==
  ASSUME BridgesInv, Sides, NEW p \in Peer, NEW i \in DOMAIN tasks[p], IsNext(p, i),
         AnswerApplied(p, i, tasks[p][i]) \/ AnswerRefused(p, i, tasks[p][i])
  PROVE  Sides'
<1> DEFINE k == tasks[p][i]
           us == RemoveAt(tasks[p], i)
<1>1. /\ k.at = "applyAnswer" /\ tasks' = [tasks EXCEPT ![p] = us]
      /\ orch' = orch /\ nego' = nego /\ client' = client /\ wire' = wire
      /\ pc' = [pc EXCEPT ![p] = Settled(p, k)] \/ pc' = pc
  BY DEF AnswerApplied, AnswerRefused, Done
<1>2. /\ orch' = [orch EXCEPT ![p] = orch[p]] /\ nego' = [nego EXCEPT ![p] = nego[p]]
      /\ client' = [client EXCEPT ![p] = client[p]] /\ nego[p].gen \in Nat
  BY <1>1, Rows, RowsKept
<1>3. PICK y : /\ pc' = [pc EXCEPT ![p] = y]
               /\ Here(p, nego[p], client[p], y, us, orch[p], wire[p])
  <2>1. CASE pc' = [pc EXCEPT ![p] = Settled(p, k)]
    BY <1>1, <2>1, SettledHere
  <2>2. CASE pc' = pc
    <3>1. pc' = [pc EXCEPT ![p] = pc[p]]
      BY <2>2, RowsKept
    <3> QED BY <3>1, DoneHere
  <2> QED BY <1>1, <2>1, <2>2
<1> HIDE DEF us
<1>4. WireTold(p) /\ wire'[p] = wire[p] /\ Dialed(p, nego[p].gen, client[p].sock)
  BY <1>1, KeptTold, SameConnection
<1> QED BY <1>1, <1>2, <1>3, <1>4, SideStep

LEMMA AnswerFailsSides ==
  ASSUME BridgesInv, Sides, NEW p \in Peer, NEW i \in DOMAIN tasks[p], AnswerFails(p, i, tasks[p][i])
  PROVE  Sides'
<1> DEFINE k == tasks[p][i]
           us == RemoveAt(tasks[p], i)
<1>1. tasks' = [tasks EXCEPT ![p] = us] /\ orch' = orch /\ client' = client /\ wire' = wire
  BY DEF AnswerFails, Done
<1>2. /\ orch' = [orch EXCEPT ![p] = orch[p]] /\ client' = [client EXCEPT ![p] = client[p]]
      /\ nego[p] \in Bridges /\ nego[p].gen \in Nat /\ pc[p] \in Connections
  BY <1>1, Rows, RowsKept
<1>3. Here(p, nego[p], client[p], pc[p], us, orch[p], wire[p])
  BY DoneHere
<1>4. WireTold(p) /\ wire'[p] = wire[p]
  BY <1>1, KeptTold
<1> HIDE DEF us
<1>5. CASE Owns(p, k) /\ ~nego[p].fired
  <2> DEFINE n == DiscardChannel(nego[p])
             x == CloseLocal(pc[p], nego[p].chan)
  <2>1. nego' = [nego EXCEPT ![p] = n] /\ pc' = [pc EXCEPT ![p] = x]
    BY <1>5 DEF AnswerFails
  <2>2. /\ n.gen = nego[p].gen /\ n.inFlight = nego[p].inFlight /\ n.chan = None
        /\ n.fired = nego[p].fired /\ n.timer = nego[p].timer /\ n.suppress = nego[p].suppress
    BY <1>2, Discarded, DiscardedFlags
  <2> HIDE DEF n
  <2>3. Here(p, n, client[p], x, us, orch[p], wire[p])
    BY <1>2, <1>3, <1>5, <2>2, OfferGivenUp
  <2> HIDE DEF x
  <2>4. Dialed(p, n.gen, client[p].sock) /\ n.gen \in Nat
    BY <1>2, <2>2, SameConnection
  <2> QED BY <1>1, <1>2, <1>4, <2>1, <2>3, <2>4, SideStep
<1>6. CASE ~(Owns(p, k) /\ ~nego[p].fired)
  <2>1. nego' = nego /\ pc' = pc
    BY <1>6 DEF AnswerFails
  <2>2. nego' = [nego EXCEPT ![p] = nego[p]] /\ pc' = [pc EXCEPT ![p] = pc[p]]
    BY <2>1, RowsKept
  <2>3. Dialed(p, nego[p].gen, client[p].sock)
    BY SameConnection
  <2> QED BY <1>1, <1>2, <1>3, <1>4, <2>2, <2>3, SideStep
<1> QED BY <1>5, <1>6

LEMMA SettleSides == ASSUME BridgesInv, Sides, NEW p \in Peer, Settle(p) PROVE Sides'
<1>1. PICK i \in DOMAIN tasks[p] :
        /\ IsNext(p, i)
        /\ \/ OfferCreated(p, i, tasks[p][i]) \/ OfferSet(p, i, tasks[p][i])
           \/ RolledBack(p, i, tasks[p][i]) \/ AnswerAdvances(p, i, tasks[p][i])
           \/ AnswerSet(p, i, tasks[p][i]) \/ AnswerApplied(p, i, tasks[p][i])
           \/ OfferFails(p, i, tasks[p][i]) \/ RollbackFails(p, i, tasks[p][i])
           \/ AnswerFails(p, i, tasks[p][i]) \/ AnswerRefused(p, i, tasks[p][i])
  BY DEF Settle
<1> QED
  BY <1>1, OfferCreatedSides, OfferSetSides, RolledBackSides, AnswerAdvancesSides,
     AnswerSetSides, AnswerAppliedSides, OfferFailsSides, AnswerFailsSides

-----------------------------------------------------------------------------
(* The events of the peer connection, once more.                           *)

LEMMA ChannelArrivesSides ==
  ASSUME BridgesInv, Sides, NEW p \in Peer, ChannelArrives(p) PROVE Sides'
<1> DEFINE theirs == pc[Other(p)].live
           x == [pc[p] EXCEPT !.arrived = theirs]
           n == Recorded(nego[p], theirs)
<1>1. /\ pc' = [pc EXCEPT ![p] = x] /\ nego' = [nego EXCEPT ![p] = n]
      /\ orch' = orch /\ client' = client /\ tasks' = tasks /\ wire' = wire
      /\ theirs # None
  BY DEF ChannelArrives
<1>2. theirs \in Channels
  <2>1. pc[Other(p)] \in Connections
    BY OthersRow, Rows
  <2> QED BY <1>1, <2>1 DEF Connections
<1> HIDE DEF theirs
<1>3. nego[p] \in Bridges /\ pc[p] \in Connections /\ nego[p].gen \in Nat
  BY Rows
<1>4. x.live = pc[p].live /\ x.exchange = pc[p].exchange
  BY <1>3 DEF Connections
<1>5. /\ n.gen = nego[p].gen /\ n.inFlight = nego[p].inFlight
      /\ n.chan = IF nego[p].chan = None THEN theirs ELSE nego[p].chan
      /\ n.fired = nego[p].fired /\ n.timer = nego[p].timer /\ n.suppress = nego[p].suppress
  BY <1>2, <1>3, RecordedBridge, RecordedFlags
<1> HIDE DEF x, n
<1>6. /\ orch' = [orch EXCEPT ![p] = orch[p]] /\ client' = [client EXCEPT ![p] = client[p]]
      /\ tasks' = [tasks EXCEPT ![p] = tasks[p]]
  BY <1>1, RowsKept
<1>7. Here(p, nego[p], client[p], pc[p], tasks[p], orch[p], wire[p])
  BY HereNow
<1>8. x.live \in {None, n.chan}
  BY <1>4, <1>5, HereLatches
<1>9. nego[p].fired => n.chan = nego[p].chan
  <2>1. nego[p].fired => nego[p].chan # None
    BY HereLatches
  <2> QED BY <1>5, <2>1
<1>10. /\ n.timer \/ n.suppress => n.fired
       /\ n.fired => nego[p].fired /\ n.chan = nego[p].chan
       /\ n.inFlight => nego[p].inFlight
  BY <1>5, <1>9, HereLatches
<1>11. Here(p, n, client[p], x, tasks[p], orch[p], wire[p])
  BY <1>4, <1>5, <1>7, <1>8, <1>10, RowGivesUp DEF Here
<1>12. WireTold(p) /\ wire'[p] = wire[p]
  BY <1>1, KeptTold
<1>13. Dialed(p, n.gen, client[p].sock) /\ n.gen \in Nat
  BY <1>3, <1>5, SameConnection
<1> QED BY <1>1, <1>6, <1>11, <1>12, <1>13, SideStep

(* Two ends that are linked: each joined the other's connection.           *)
LEMMA LinkedJoined ==
  ASSUME BridgesInv, Linked, NEW p \in Peer
  PROVE  Joined(p, pc[p].exchange, nego[Other(p)].gen)
<1> DEFINE q == Other(p)
           e == pc[p].exchange
<1>1. q \in Peer /\ q # p /\ \A r \in Peer : r # p => r = q
  BY TheOther
<1>2. pc[q].exchange = e /\ OwnExchange(p) /\ OwnExchange(q)
  BY <1>1 DEF Linked
<1>3. e # None /\ (IF e.offer.chan.by = q THEN e.offer.gen = nego[q].gen ELSE e.answerer = nego[q].gen)
  BY <1>2 DEF OwnExchange
<1>4. e.offer.chan.by \in Peer
  <2>1. pc[p] \in Connections
    BY Rows
  <2> QED BY <1>3, <2>1 DEF Connections, Exchanges, Offers, Channels
<1> HIDE DEF e
<1>5. Joined(p, e, nego[q].gen)
  BY <1>1, <1>3, <1>4 DEF Joined
<1> QED BY <1>5 DEF e, q

LEMMA ChannelOpensSides ==
  ASSUME BridgesInv, Sides, NEW p \in Peer, ChannelOpens(p) PROVE Sides'
<1> DEFINE u == [nego[p] EXCEPT !.open = TRUE]
           a == [u EXCEPT !.fired = TRUE]
           b == [a EXCEPT !.suppress = TRUE]
           c == [b EXCEPT !.timer = TRUE]
           n == IF Ready(p, u) THEN c ELSE u
           o == IF Ready(p, u) THEN "attached" ELSE orch[p]
<1>1. /\ Linked /\ nego' = [nego EXCEPT ![p] = n] /\ orch' = [orch EXCEPT ![p] = o]
      /\ client' = client /\ pc' = pc /\ tasks' = tasks /\ wire' = wire
  BY DEF ChannelOpens, MaybeFire
<1>2. TRUE \in BOOLEAN /\ nego[p] \in Bridges /\ nego[p].gen \in Nat
  BY Rows
<1>3. u \in Bridges
  BY <1>2, BridgeFlag
<1>4. u.gen = nego[p].gen /\ u.inFlight = nego[p].inFlight /\ u.chan = nego[p].chan
  BY <1>2, <1>3, BridgeFlagKeeps
<1>5. u.fired = nego[p].fired /\ u.timer = nego[p].timer /\ u.suppress = nego[p].suppress
  BY <1>2, OpenFlags
<1> HIDE DEF u
<1>6. a \in Bridges
  BY <1>2, <1>3, BridgeFlag
<1>7. a.gen = u.gen /\ a.inFlight = u.inFlight /\ a.chan = u.chan
  BY <1>3, <1>6, BridgeFlagKeeps
<1>8. a.fired = TRUE
  BY <1>3, FiredFlags
<1> HIDE DEF a
<1>9. b \in Bridges
  BY <1>2, <1>6, BridgeFlag
<1>10. b.gen = a.gen /\ b.inFlight = a.inFlight /\ b.chan = a.chan
  BY <1>6, <1>9, BridgeFlagKeeps
<1>11. b.fired = a.fired
  BY <1>6, SuppressFlags
<1> HIDE DEF b
<1>12. c \in Bridges
  BY <1>2, <1>9, BridgeFlag
<1>13. c.gen = b.gen /\ c.inFlight = b.inFlight /\ c.chan = b.chan
  BY <1>9, <1>12, BridgeFlagKeeps
<1>14. c.fired = b.fired
  BY <1>9, TimerFlags
<1> HIDE DEF c
<1>15. Here(p, nego[p], client[p], pc[p], tasks[p], orch[p], wire[p])
  BY HereNow
<1>16. n.gen = nego[p].gen /\ Here(p, n, client[p], pc[p], tasks[p], o, wire[p])
  <2>1. CASE Ready(p, u)
    <3>1. orch[p] = "waiting" /\ u.chan # None /\ n = c /\ o = "attached"
      BY <2>1 DEF Ready
    <3>2. Joined(p, pc[p].exchange, nego[Other(p)].gen)
      BY <1>1, LinkedJoined
    <3>3. /\ c.gen = nego[p].gen /\ c.chan = nego[p].chan /\ c.chan # None
          /\ c.inFlight = nego[p].inFlight /\ c.fired = TRUE
      BY <1>4, <1>7, <1>8, <1>10, <1>11, <1>13, <1>14, <3>1
    <3>4. (c.inFlight => nego[p].inFlight) /\ c.fired
      BY <3>3
    <3>5. Here(p, nego[p], client[p], pc[p], tasks[p], "waiting", wire[p])
      BY <1>15, <3>1
    <3>6. Here(p, c, client[p], pc[p], tasks[p], "attached", wire[p])
      BY <3>2, <3>3, <3>4, <3>5, Fires DEF Here
    <3> QED BY <3>1, <3>3, <3>6
  <2>2. CASE ~Ready(p, u)
    <3>1. n = u /\ o = orch[p]
      BY <2>2
    <3>2. /\ u.timer \/ u.suppress => u.fired
          /\ u.fired => nego[p].fired /\ u.chan = nego[p].chan
          /\ u.inFlight => nego[p].inFlight
          /\ pc[p].live \in {None, u.chan}
      BY <1>4, <1>5, HereLatches
    <3>3. Here(p, u, client[p], pc[p], tasks[p], orch[p], wire[p])
      BY <1>4, <1>15, <3>2, RowGivesUp DEF Here
    <3> QED BY <1>4, <3>1, <3>3
  <2> QED BY <2>1, <2>2
<1> HIDE DEF n, o
<1>17. /\ client' = [client EXCEPT ![p] = client[p]] /\ pc' = [pc EXCEPT ![p] = pc[p]]
       /\ tasks' = [tasks EXCEPT ![p] = tasks[p]]
  BY <1>1, RowsKept
<1>18. WireTold(p) /\ wire'[p] = wire[p]
  BY <1>1, KeptTold
<1>19. Dialed(p, n.gen, client[p].sock) /\ n.gen \in Nat
  BY <1>2, <1>16, SameConnection
<1> QED BY <1>1, <1>16, <1>17, <1>18, <1>19, SideStep

LEMMA ConnectionFailsSides ==
  ASSUME BridgesInv, Sides, NEW p \in Peer, ConnectionFails(p) PROVE Sides'
<1> DEFINE n == Released(nego[p])
           l == EndOffer(client[p])
           y == CloseLocal(pc[p], nego[p].chan)
           x == [y EXCEPT !.exchange = None]
           o == Dropped(orch[p])
<1>1. /\ nego' = [nego EXCEPT ![p] = n] /\ client' = [client EXCEPT ![p] = l]
      /\ pc' = [pc EXCEPT ![p] = x] /\ orch' = [orch EXCEPT ![p] = o]
      /\ tasks' = tasks /\ wire' = wire
  BY DEF ConnectionFails
<1>2. /\ nego[p] \in Bridges /\ nego[p].gen \in Nat /\ client[p] \in Clients
      /\ pc[p] \in Connections
  BY Rows
<1>3. n.gen = nego[p].gen /\ n.inFlight = FALSE
  BY <1>2, ReleasedBridge
<1>4. ~n.fired /\ ~n.timer /\ ~n.suppress
  BY <1>2, ReleasedFlags
<1>5. l.sock = client[p].sock
  BY <1>2, EndOfferPresent
<1>6. y \in Connections /\ y.live = None
  BY <1>2, ClosedConnection, LiveClosed
<1> HIDE DEF y
<1>7. x.live = None /\ x.exchange = None
  BY <1>6 DEF Connections
<1>8. o # "waiting"
  BY DroppedWaits
<1> HIDE DEF n, l, x, o
<1>9. Here(p, nego[p], client[p], pc[p], tasks[p], orch[p], wire[p])
  BY HereNow
<1>10. ~n.inFlight
  BY <1>3
<1>11. Here(p, n, l, x, tasks[p], o, wire[p])
  BY <1>3, <1>4, <1>7, <1>8, <1>9, <1>10, RowGivesUp DEF Here
<1>12. tasks' = [tasks EXCEPT ![p] = tasks[p]] /\ WireTold(p) /\ wire'[p] = wire[p]
  BY <1>1, RowsKept, KeptTold
<1>13. Dialed(p, n.gen, l.sock) /\ n.gen \in Nat
  BY <1>2, <1>3, <1>5, SameConnection
<1> QED BY <1>1, <1>11, <1>12, <1>13, SideStep

-----------------------------------------------------------------------------
LEMMA SidesInit == Init => Sides
<1> SUFFICES ASSUME Init, NEW p \in Peer, NEW q \in Peer, p # q PROVE SideOf(p, q)
  BY DEF Sides
<1>1. /\ orch[p] = "left" /\ nego[p] = FreshNego(0, 0) /\ pc[p] = FreshPc
      /\ tasks[p] = <<>> /\ wire[p] = <<>>
  BY DEF Init
<1>2. \A i : i \notin DOMAIN tasks[p] /\ i \notin DOMAIN wire[p]
  BY <1>1
<1>3. pc[p].exchange = None /\ pc[p].live = None
  BY <1>1 DEF FreshPc
<1>4. ~nego[p].fired /\ ~nego[p].timer /\ ~nego[p].suppress
  BY <1>1, FreshFlags
<1>5. \A g : ~Joined(p, pc[p].exchange, g)
  BY <1>3 DEF Joined
<1>6. Fitting(p, tasks[p], wire[p])
  BY <1>2 DEF Fitting
<1>7. /\ HearSay(p, tasks[p], wire[p], pc[p].exchange, nego[q].gen, client[q].sock)
      /\ JoinsFirst(p, tasks[p], wire[p], pc[p].exchange, nego[q].gen)
  BY <1>2, <1>5 DEF HearSay, JoinsFirst
<1>8. /\ Attends(nego[p], client[p], tasks[p], pc[p].exchange, orch[p])
      /\ Yields(p, nego[p], tasks[p], pc[p].exchange, orch[p], nego[q].gen)
  BY <1>1 DEF Attends, Yields
<1>9. Latches(nego[p], pc[p].live, tasks[p], orch[p])
  BY <1>3, <1>4 DEF Latches
<1> QED BY <1>6, <1>7, <1>8, <1>9 DEF SideOf, Side

LEMMA SidesStep == BridgesInv /\ Sides /\ [Next]_vars => Sides'
<1> SUFFICES ASSUME BridgesInv, Sides, [Next]_vars PROVE Sides'
  OBVIOUS
<1>1. CASE UNCHANGED vars
  <2>1. ASSUME NEW p \in Peer, NEW q \in Peer, p # q PROVE SideOf(p, q)'
    <3>1. SideOf(p, q)
      BY <2>1 DEF Sides
    <3>2. /\ orch' = orch /\ nego' = nego /\ client' = client /\ pc' = pc
          /\ tasks' = tasks /\ wire' = wire
      BY <1>1 DEF vars
    <3> QED BY <3>1, <3>2, SidePrimed DEF SideOf
  <2> QED BY <2>1 DEF Sides
<1>2. CASE Next
  <2>1. PICK p \in Peer :
             \/ Start(p) \/ Reconnect(p) \/ Close(p) \/ SessionEnds(p)
             \/ SocketDrop(p) \/ ConnectionFails(p) \/ SocketOpen(p) \/ Deliver(p)
             \/ Settle(p) \/ ChannelArrives(p) \/ ChannelOpens(p) \/ GraceExpires(p)
    BY <1>2 DEF Next, Events
  <2> QED
    BY <2>1, StartSides, ReconnectSides, CloseSides, SessionEndsSides, SocketDropSides,
       ConnectionFailsSides, SocketOpenSides, DeliverJoinSides, DeliverLeaveSides,
       DeliverAnswerSides, CounterOfferSides, DeliverOfferSides, SettleSides,
       ChannelArrivesSides, ChannelOpensSides, GraceExpiresSides DEF Deliver
<1> QED BY <1>1, <1>2

(* Bridges take their turns, for any number of bridges, drops and parked   *)
(* coroutines: one that waits has no latch of an earlier session, since a  *)
(* join is heard before anything that names its connection, and whoever    *)
(* hears of a connection has no offer left that could still be live.       *)
THEOREM BridgesTakeTurns == Spec => []InTurn
<1>1. Sides => WaitingIsUnlatched
  <2> SUFFICES ASSUME Sides, NEW p \in Peer
               PROVE  /\ nego[p].timer \/ nego[p].suppress => nego[p].fired
                      /\ nego[p].fired => orch[p] # "waiting" /\ nego[p].chan # None
                      /\ pc[p].live \in {None, nego[p].chan}
    BY DEF WaitingIsUnlatched
  <2>1. Other(p) \in Peer /\ Other(p) # p
    BY TheOther
  <2>2. Latches(nego[p], pc[p].live, tasks[p], orch[p])
    BY <2>1 DEF Sides, SideOf, Side
  <2> QED BY <2>2 DEF Latches
<1>2. BridgesInv /\ [Next]_vars => BridgesInv'
  BY BridgesStep
<1> QED BY <1>1, <1>2, BridgesInit, SidesInit, SidesStep, TurnsAreTaken, PTL DEF Spec, InTurn

-----------------------------------------------------------------------------
(* Whose channel an end holds, and that the end it is of holds no other.   *)

(* The local channel is the end's own; a bridge that dials holds nothing;  *)
(* one that fired keeps its exchange, and the other end present while it   *)
(* has a socket.                                                           *)
Anchored(p, n, l, x, ts) ==
  /\ x.live # None => x.live.by = p
  /\ l.sock = "dialing" => /\ n.chan = None /\ x.exchange = None
                           /\ \A i \in DOMAIN ts : ts[i].gen # n.gen
  /\ n.fired => x.exchange # None /\ (l.present \/ l.sock = "none")
AnchoredEnd(p) == Anchored(p, nego[p], client[p], pc[p], tasks[p])

(* An end has heard of the other's connection h when something it has      *)
(* names it, or both are seated and no join is left to be heard.           *)
Says(p, ts, w, e, h) == \/ \E i \in DOMAIN w : TellsOf(w[i], h)
                        \/ \E i \in DOMAIN ts : Learns(ts[i], h)
                        \/ Joined(p, e, h)
Hears(p, ts, w, e, h, s, t) == /\ ~JoinIn(w)
                               /\ (s = "open" /\ t = "open") \/ Says(p, ts, w, e, h)
HearsOf(p, q) == Hears(p, tasks[p], wire[p], pc[p].exchange, nego[q].gen,
                       client[p].sock, client[q].sock)

(* An end that waits or has fired still counts: one that neither waits nor *)
(* fired does not again before its next connection.                        *)
Counts(o, n) == o = "waiting" \/ n.fired

(* The end whose channel c another one holds has that channel or none, and *)
(* will not make a new one.                                                *)
Stays(o, n, x, w, c) == Counts(o, n) => /\ x.exchange # None /\ ~JoinIn(w)
                                        /\ n.chan \in {None, c}
Follows(p, q) == HearsOf(p, q) /\ nego[p].chan # None /\ nego[p].chan.by = q
                   => Stays(orch[q], nego[q], pc[q], wire[q], nego[p].chan)

(* Who makes a channel, or will when it hears that the other one joined.   *)
Making(p, n, w) == JoinIn(w) \/ (n.chan # None /\ n.chan.by = p)
Makes(p) == Making(p, nego[p], wire[p])
OneMakes == (\A p \in Peer : ~client[p].eager) => \A p, q \in Peer : p # q => ~(Makes(p) /\ Makes(q))

Bonds == /\ \A p \in Peer : AnchoredEnd(p)
         /\ \A p, q \in Peer : p # q => Follows(p, q)
         /\ OneMakes

-----------------------------------------------------------------------------
(* What a step of p leaves to hear of the connection h.                    *)

LEMMA HearsKept ==
  ASSUME NEW p, NEW ts, NEW us, NEW w \in Seq(Wired), NEW v, NEW e, NEW d, NEW h,
         NEW s, NEW r, NEW t, JoinsFirst(p, ts, w, e, h),
         \/ v = w \/ (v = <<>> /\ r # "open")
         \/ (w # <<>> /\ v = Tail(w) /\ Head(w).kind # "join"),
         r = "open" => s = "open",
         \A i \in DOMAIN us : Learns(us[i], h) =>
            \/ \E j \in DOMAIN ts : Learns(ts[j], h)
            \/ w # <<>> /\ TellsOf(Head(w), h),
         Joined(p, d, h) => Joined(p, e, h) \/ \E j \in DOMAIN ts : Learns(ts[j], h),
         Hears(p, us, v, d, h, r, t)
  PROVE  Hears(p, ts, w, e, h, s, t)
<1> DEFINE U == \E i \in DOMAIN us : Learns(us[i], h)
           T == \E i \in DOMAIN ts : Learns(ts[i], h)
           W == \E i \in DOMAIN w : TellsOf(w[i], h)
           F == w # <<>> /\ TellsOf(Head(w), h)
<1>1. w # <<>> => 1 \in DOMAIN w /\ Head(w) = w[1]
  OBVIOUS
<1>2. F => W
  BY <1>1
<1>3. F => ~JoinIn(w)
  <2> SUFFICES ASSUME F, NEW j \in DOMAIN w, w[j].kind = "join" PROVE FALSE
    BY DEF JoinIn
  <2>1. j < 1
    BY <1>1 DEF JoinsFirst
  <2> QED BY <2>1
<1>4. /\ T => ~JoinIn(w)
      /\ Joined(p, e, h) => ~JoinIn(w)
  BY DEF JoinsFirst
<1>5. /\ U => T \/ F
      /\ Joined(p, d, h) => Joined(p, e, h) \/ T
  OBVIOUS
<1>6. ~JoinIn(v) /\ ((r = "open" /\ t = "open") \/ (\E i \in DOMAIN v : TellsOf(v[i], h)) \/ U \/ Joined(p, d, h))
  BY DEF Hears, Says
<1> HIDE DEF U, T
<1>7. CASE v = w
  <2>1. (s = "open" /\ t = "open") \/ W \/ T \/ Joined(p, e, h)
    BY <1>2, <1>5, <1>6, <1>7
  <2> QED BY <1>6, <1>7, <2>1 DEF Hears, Says, T
<1>8. CASE v = <<>> /\ r # "open"
  <2>1. ~(\E i \in DOMAIN v : TellsOf(v[i], h))
    BY <1>8
  <2>2. W \/ T \/ Joined(p, e, h)
    BY <1>2, <1>5, <1>6, <1>8, <2>1
  <2>3. ~JoinIn(w)
    BY <1>3, <1>4, <1>5, <1>6, <1>8, <2>1
  <2> QED BY <2>2, <2>3 DEF Hears, Says, T
<1>9. CASE w # <<>> /\ v = Tail(w) /\ Head(w).kind # "join"
  <2>1. \A j \in DOMAIN w : j = 1 \/ (j - 1 \in DOMAIN v /\ v[j - 1] = w[j])
    BY <1>9
  <2>2. \A j \in DOMAIN v : j + 1 \in DOMAIN w /\ v[j] = w[j + 1]
    BY <1>9
  <2>3. ~JoinIn(w)
    <3> SUFFICES ASSUME NEW j \in DOMAIN w, w[j].kind = "join" PROVE FALSE
      BY DEF JoinIn
    <3>1. j # 1
      BY <1>1, <1>9
    <3>2. JoinIn(v)
      BY <2>1, <3>1 DEF JoinIn
    <3> QED BY <1>6, <3>2
  <2>4. (\E i \in DOMAIN v : TellsOf(v[i], h)) => W
    BY <2>2
  <2>5. (s = "open" /\ t = "open") \/ W \/ T \/ Joined(p, e, h)
    BY <1>2, <1>5, <1>6, <2>4
  <2> QED BY <2>3, <2>5 DEF Hears, Says, T
<1> QED BY <1>7, <1>8, <1>9

(* What the other end hears of p grows only by what p says when both are   *)
(* seated.                                                                 *)
LEMMA HeardKept ==
  ASSUME NEW q, NEW ts, NEW w \in Seq(Wired), NEW v, NEW e, NEW h, NEW s, NEW t, NEW r,
         v = w \/ (s = "open" /\ t = "open" /\ \E m \in Wired : m.kind # "join" /\ v = Append(w, m)),
         r = "open" => t = "open", Hears(q, ts, v, e, h, s, r)
  PROVE  Hears(q, ts, w, e, h, s, t)
<1>1. CASE v = w
  BY <1>1 DEF Hears
<1>2. CASE s = "open" /\ t = "open" /\ \E m \in Wired : m.kind # "join" /\ v = Append(w, m)
  <2>1. PICK m \in Wired : v = Append(w, m)
    BY <1>2
  <2>2. \A i \in DOMAIN w : i \in DOMAIN v /\ v[i] = w[i]
    BY <2>1
  <2>3. ~JoinIn(w)
    BY <2>2 DEF Hears, JoinIn
  <2> QED BY <1>2, <2>3 DEF Hears
<1> QED BY <1>1, <1>2

LEMMA JoinsKept ==
  ASSUME NEW w \in Seq(Wired), NEW v, JoinIn(v),
         \/ v = w \/ v = <<>> \/ (w # <<>> /\ v = Tail(w))
         \/ \E m \in Wired : m.kind # "join" /\ v = Append(w, m)
  PROVE  JoinIn(w)
<1>1. CASE v = w \/ v = <<>>
  BY <1>1 DEF JoinIn
<1>2. CASE w # <<>> /\ v = Tail(w)
  <2>1. \A j \in DOMAIN v : j + 1 \in DOMAIN w /\ v[j] = w[j + 1]
    BY <1>2
  <2> QED BY <2>1 DEF JoinIn
<1>3. CASE \E m \in Wired : m.kind # "join" /\ v = Append(w, m)
  <2>1. PICK m \in Wired : m.kind # "join" /\ v = Append(w, m)
    BY <1>3
  <2>2. \A j \in DOMAIN v : v[j] = m \/ (j \in DOMAIN w /\ v[j] = w[j])
    BY <2>1
  <2> QED BY <2>1, <2>2 DEF JoinIn
<1> QED BY <1>1, <1>2, <1>3

(* The primed parts, from the rows.                                        *)
LEMMA BondsPrimed ==
  ASSUME NEW p, NEW q
  PROVE  /\ AnchoredEnd(p)' <=> Anchored(p, nego'[p], client'[p], pc'[p], tasks'[p])
         /\ Makes(p)' <=> Making(p, nego'[p], wire'[p])
         /\ Follows(p, q)' <=>
              (/\ Hears(p, tasks'[p], wire'[p], pc'[p].exchange, nego'[q].gen,
                        client'[p].sock, client'[q].sock)
               /\ nego'[p].chan # None /\ nego'[p].chan.by = q
               => Stays(orch'[q], nego'[q], pc'[q], wire'[q], nego'[p].chan))
<1>1. AnchoredEnd(p)' <=> Anchored(p, nego'[p], client'[p], pc'[p], tasks'[p])
  BY DEF AnchoredEnd, Anchored
<1>2. Makes(p)' <=> Making(p, nego'[p], wire'[p])
  BY DEF Makes, Making, JoinIn
<1>3. HearsOf(p, q)' <=> Hears(p, tasks'[p], wire'[p], pc'[p].exchange, nego'[q].gen,
                               client'[p].sock, client'[q].sock)
  BY DEF HearsOf, Hears, Says, JoinIn, TellsOf, Learns, Joined, Answering
<1>4. Stays(orch[q], nego[q], pc[q], wire[q], nego[p].chan)'
        <=> Stays(orch'[q], nego'[q], pc'[q], wire'[q], nego'[p].chan)
  BY DEF Stays, Counts, JoinIn
<1>5. Follows(p, q)' <=> (HearsOf(p, q)' /\ nego'[p].chan # None /\ nego'[p].chan.by = q
                            => Stays(orch[q], nego[q], pc[q], wire[q], nego[p].chan)')
  BY DEF Follows
<1> QED BY <1>1, <1>2, <1>3, <1>4, <1>5

(* A step of p is one for both ends.                                       *)
LEMMA BondsStep ==
  ASSUME BridgesInv, Bonds, NEW p \in Peer, NEW n, NEW l, NEW x, NEW ts, NEW o, NEW v, NEW q, q = Other(p),
         NEW u, u = wire'[q],
         nego' = [nego EXCEPT ![p] = n], client' = [client EXCEPT ![p] = l],
         pc' = [pc EXCEPT ![p] = x], tasks' = [tasks EXCEPT ![p] = ts],
         orch' = [orch EXCEPT ![p] = o], wire'[p] = v,
         Anchored(p, n, l, x, ts), l.eager = client[p].eager,
         Hears(p, ts, v, x.exchange, nego[q].gen, l.sock, client[q].sock)
           /\ n.chan # None /\ n.chan.by = q => Stays(orch[q], nego[q], pc[q], u, n.chan),
         Hears(q, tasks[q], u, pc[q].exchange, n.gen, client[q].sock, l.sock)
           /\ nego[q].chan # None /\ nego[q].chan.by = p => Stays(o, n, x, v, nego[q].chan),
         ~client[p].eager /\ ~client[q].eager => ~(Making(p, n, v) /\ Making(q, nego[q], u))
  PROVE  Bonds'
<1>1. q \in Peer /\ q # p /\ \A r \in Peer : r # p => r = q
  BY TheOther
<1>2. /\ nego'[p] = n /\ client'[p] = l /\ pc'[p] = x /\ tasks'[p] = ts /\ orch'[p] = o
      /\ nego'[q] = nego[q] /\ client'[q] = client[q] /\ pc'[q] = pc[q] /\ tasks'[q] = tasks[q]
      /\ orch'[q] = orch[q]
  BY <1>1, Rows
<1>3. AnchoredEnd(p)'
  BY <1>2, BondsPrimed
<1>4. AnchoredEnd(q)'
  <2>1. Anchored(q, nego[q], client[q], pc[q], tasks[q])
    BY <1>1 DEF Bonds, AnchoredEnd
  <2> QED BY <1>2, <2>1, BondsPrimed
<1>5. Follows(p, q)'
  BY <1>2, BondsPrimed
<1>6. Follows(q, p)'
  BY <1>2, BondsPrimed
<1>7. ~client'[p].eager /\ ~client'[q].eager => ~(Makes(p)' /\ Makes(q)')
  <2>1. /\ Makes(p)' <=> Making(p, n, v)
        /\ Makes(q)' <=> Making(q, nego[q], u)
    BY <1>2, BondsPrimed
  <2> QED BY <1>2, <2>1
<1>8. \A r \in Peer : r = p \/ r = q
  BY <1>1
<1>9. OneMakes'
  BY <1>1, <1>7, <1>8 DEF OneMakes
<1> QED BY <1>3, <1>4, <1>5, <1>6, <1>8, <1>9 DEF Bonds

LEMMA BondsNow ==
  ASSUME BridgesInv, Sides, Bonds, NEW p \in Peer, NEW q, q = Other(p)
  PROVE  /\ q \in Peer /\ q # p /\ AnchoredEnd(p) /\ AnchoredEnd(q) /\ Follows(p, q) /\ Follows(q, p)
         /\ ~client[p].eager /\ ~client[q].eager => ~(Makes(p) /\ Makes(q))
         /\ JoinsFirst(p, tasks[p], wire[p], pc[p].exchange, nego[q].gen)
         /\ JoinsFirst(q, tasks[q], wire[q], pc[q].exchange, nego[p].gen)
         /\ wire[p] \in Seq(Wired) /\ wire[q] \in Seq(Wired)
<1>1. q \in Peer /\ q # p /\ \A r \in Peer : r # p => r = q
  BY TheOther
<1>2. \A r \in Peer : r = p \/ r = q
  BY <1>1
<1>3. SideOf(p, q) /\ SideOf(q, p)
  BY <1>1 DEF Sides
<1>4. ~client[p].eager /\ ~client[q].eager => ~(Makes(p) /\ Makes(q))
  BY <1>1, <1>2 DEF Bonds, OneMakes
<1>5. wire[p] \in Seq(Wired) /\ wire[q] \in Seq(Wired)
  BY <1>1, Rows
<1> QED BY <1>1, <1>3, <1>4, <1>5 DEF Bonds, SideOf, Side

(* A step that makes no channel, no socket and no connection: what the     *)
(* bridge has afterwards it had before, and it says something only to an   *)
(* end that is seated, as it is itself.                                    *)
Quiet(p) == LET q == Other(p) IN
            \/ wire'[q] = wire[q]
            \/ /\ Seated(p) /\ Seated(q)
               /\ \E m \in Wired : m.kind # "join" /\ wire'[q] = Append(wire[q], m)

LEMMA BondsKept ==
  ASSUME BridgesInv, Sides, Bonds, NEW p \in Peer, NEW n, NEW l, NEW x, NEW ts, NEW o, NEW v,
         nego' = [nego EXCEPT ![p] = n], client' = [client EXCEPT ![p] = l],
         pc' = [pc EXCEPT ![p] = x], tasks' = [tasks EXCEPT ![p] = ts],
         orch' = [orch EXCEPT ![p] = o], wire'[p] = v, Quiet(p),
         n.gen = nego[p].gen, l.eager = client[p].eager, l.sock \in {client[p].sock, "none"},
         n.chan \in {None, nego[p].chan}, Anchored(p, n, l, x, ts),
         Counts(o, n) => Counts(orch[p], nego[p]) /\ (pc[p].exchange # None => x.exchange # None),
         \/ v = wire[p] \/ (v = <<>> /\ l.sock # "open")
         \/ (wire[p] # <<>> /\ v = Tail(wire[p]) /\ Head(wire[p]).kind # "join"),
         \A h : \A i \in DOMAIN ts : Learns(ts[i], h) =>
            \/ \E j \in DOMAIN tasks[p] : Learns(tasks[p][j], h)
            \/ wire[p] # <<>> /\ TellsOf(Head(wire[p]), h),
         \A h : Joined(p, x.exchange, h) => \/ Joined(p, pc[p].exchange, h)
                                            \/ \E j \in DOMAIN tasks[p] : Learns(tasks[p][j], h)
  PROVE  Bonds'
<1> DEFINE q == Other(p)
           u == wire'[q]
           h == nego[q].gen
<1>1. /\ q \in Peer /\ q # p /\ Follows(p, q) /\ Follows(q, p)
      /\ ~client[p].eager /\ ~client[q].eager => ~(Makes(p) /\ Makes(q))
      /\ JoinsFirst(p, tasks[p], wire[p], pc[p].exchange, h)
      /\ wire[p] \in Seq(Wired) /\ wire[q] \in Seq(Wired)
  BY BondsNow
<1>2. \/ u = wire[q]
      \/ /\ client[p].sock = "open" /\ client[q].sock = "open"
         /\ \E m \in Wired : m.kind # "join" /\ u = Append(wire[q], m)
  BY DEF Quiet, Seated
<1>3. l.sock = "open" => client[p].sock = "open"
  OBVIOUS
<1>4. JoinIn(v) => JoinIn(wire[p])
  BY <1>1, JoinsKept
<1>5. JoinIn(u) => JoinIn(wire[q])
  <2>1. \/ u = wire[q]
        \/ \E m \in Wired : m.kind # "join" /\ u = Append(wire[q], m)
    BY <1>2
  <2> HIDE DEF u, q
  <2> QED BY <1>1, <2>1, JoinsKept
<1> HIDE DEF u, h
<1>6. ASSUME Hears(p, ts, v, x.exchange, h, l.sock, client[q].sock), n.chan # None, n.chan.by = q
      PROVE  Stays(orch[q], nego[q], pc[q], u, n.chan)
  <2>1. Hears(p, tasks[p], wire[p], pc[p].exchange, h, client[p].sock, client[q].sock)
    <3> DEFINE w == wire[p]
               us == tasks[p]
               e == pc[p].exchange
               d == x.exchange
               s == client[p].sock
               r == l.sock
               t == client[q].sock
    <3>1. \A i \in DOMAIN ts : Learns(ts[i], h) =>
            (\E j \in DOMAIN us : Learns(us[j], h)) \/ (w # <<>> /\ TellsOf(Head(w), h))
      OBVIOUS
    <3>2. Joined(p, d, h) => Joined(p, e, h) \/ \E j \in DOMAIN us : Learns(us[j], h)
      OBVIOUS
    <3>3. /\ JoinsFirst(p, us, w, e, h) /\ (r = "open" => s = "open") /\ w \in Seq(Wired)
          /\ Hears(p, ts, v, d, h, r, t)
          /\ \/ v = w \/ (v = <<>> /\ r # "open")
             \/ (w # <<>> /\ v = Tail(w) /\ Head(w).kind # "join")
      BY <1>1, <1>3, <1>6
    <3> HIDE DEF w, us, e, d, s, r, t
    <3>4. Hears(p, us, w, e, h, s, t)
      BY <3>1, <3>2, <3>3, HearsKept
    <3> QED BY <3>4 DEF w, us, e, s, t
  <2>2. n.chan = nego[p].chan
    BY <1>6
  <2>3. Stays(orch[q], nego[q], pc[q], wire[q], n.chan)
    BY <1>1, <1>6, <2>1, <2>2 DEF Follows, HearsOf, h
  <2> QED BY <1>5, <2>3 DEF Stays
<1>7. ASSUME Hears(q, tasks[q], u, pc[q].exchange, n.gen, client[q].sock, l.sock),
             nego[q].chan # None, nego[q].chan.by = p
      PROVE  Stays(o, n, x, v, nego[q].chan)
  <2>1. Hears(q, tasks[q], wire[q], pc[q].exchange, nego[p].gen, client[q].sock, client[p].sock)
    BY <1>1, <1>2, <1>3, <1>7, HeardKept
  <2>2. Stays(orch[p], nego[p], pc[p], wire[p], nego[q].chan)
    BY <1>1, <1>7, <2>1 DEF Follows, HearsOf
  <2> QED BY <1>4, <2>2 DEF Stays
<1>8. /\ Making(p, n, v) => Makes(p)
      /\ Making(q, nego[q], u) => Makes(q)
  BY <1>4, <1>5 DEF Making, Makes
<1>9. ~client[p].eager /\ ~client[q].eager => ~(Making(p, n, v) /\ Making(q, nego[q], u))
  BY <1>1, <1>8
<1> QED BY <1>6, <1>7, <1>9, BondsStep DEF u, h

LEMMA AnchorKept ==
  ASSUME NEW p, NEW n, NEW l, NEW x, NEW ts, NEW m, NEW k, NEW y, NEW us,
         Anchored(p, n, l, x, ts), m.gen = n.gen, m.chan \in {None, n.chan},
         y.live \in {None, x.live}, k.sock \in {l.sock, "none"},
         m.fired => n.fired /\ (l.present => k.present \/ k.sock = "none"),
         \/ y.exchange = x.exchange
         \/ y.exchange = None /\ ~m.fired
         \/ y.exchange # None /\ l.sock # "dialing",
         \/ l.sock # "dialing"
         \/ \A i \in DOMAIN us : us[i].gen = n.gen => \E j \in DOMAIN ts : ts[j].gen = n.gen
  PROVE  Anchored(p, m, k, y, us)
<1>1. y.live # None => y.live.by = p
  BY DEF Anchored
<1>2. k.sock = "dialing" => /\ m.chan = None /\ y.exchange = None
                            /\ \A i \in DOMAIN us : us[i].gen # m.gen
  BY DEF Anchored
<1>3. m.fired => y.exchange # None /\ (k.present \/ k.sock = "none")
  BY DEF Anchored
<1> QED BY <1>1, <1>2, <1>3 DEF Anchored

(* What comes of the tasks of an end: each is one it had, or one that the  *)
(* head of its wire began.                                                 *)
Comes(p, k) == \/ \E j \in DOMAIN tasks[p] : /\ tasks[p][j].gen = k.gen
                                             /\ \A h : Learns(k, h) => Learns(tasks[p][j], h)
               \/ /\ wire[p] # <<>> /\ \A h : Learns(k, h) => TellsOf(Head(wire[p]), h)

LEMMA BondsGoOn ==
  ASSUME BridgesInv, Sides, Bonds, NEW p \in Peer, NEW n, NEW l, NEW x, NEW ts, NEW o, NEW v,
         nego' = [nego EXCEPT ![p] = n], client' = [client EXCEPT ![p] = l],
         pc' = [pc EXCEPT ![p] = x], tasks' = [tasks EXCEPT ![p] = ts],
         orch' = [orch EXCEPT ![p] = o], wire'[p] = v, Quiet(p),
         n.gen = nego[p].gen, l.eager = client[p].eager, l.sock \in {client[p].sock, "none"},
         n.chan \in {None, nego[p].chan}, x.live \in {None, pc[p].live},
         n.fired => nego[p].fired /\ (client[p].present => l.present \/ l.sock = "none"),
         o = "waiting" => orch[p] = "waiting",
         \/ x.exchange = pc[p].exchange
         \/ x.exchange = None /\ ~n.fired /\ o # "waiting"
         \/ /\ x.exchange # None /\ client[p].sock # "dialing"
            /\ \A h : Joined(p, x.exchange, h) => \E j \in DOMAIN tasks[p] : Learns(tasks[p][j], h),
         \/ v = wire[p] \/ (v = <<>> /\ l.sock # "open")
         \/ (wire[p] # <<>> /\ v = Tail(wire[p]) /\ Head(wire[p]).kind # "join"),
         \A i \in DOMAIN ts : Comes(p, ts[i])
  PROVE  Bonds'
<1>1. Anchored(p, nego[p], client[p], pc[p], tasks[p])
  BY BondsNow DEF AnchoredEnd
<1>2. wire[p] # <<>> => client[p].sock # "dialing"
  BY OthersRow
<1>3. \/ client[p].sock # "dialing"
      \/ \A i \in DOMAIN ts : ts[i].gen = nego[p].gen => \E j \in DOMAIN tasks[p] : tasks[p][j].gen = nego[p].gen
  BY <1>2 DEF Comes
<1>4. \/ x.exchange = pc[p].exchange \/ (x.exchange = None /\ ~n.fired)
      \/ (x.exchange # None /\ client[p].sock # "dialing")
  OBVIOUS
<1>5. Anchored(p, n, l, x, ts)
  BY <1>1, <1>3, <1>4, AnchorKept
<1>6. Counts(o, n) => Counts(orch[p], nego[p]) /\ (pc[p].exchange # None => x.exchange # None)
  BY DEF Counts
<1>7. \A h : \A i \in DOMAIN ts : Learns(ts[i], h) =>
            \/ \E j \in DOMAIN tasks[p] : Learns(tasks[p][j], h)
            \/ wire[p] # <<>> /\ TellsOf(Head(wire[p]), h)
  BY DEF Comes
<1>8. \A h : Joined(p, x.exchange, h) => \/ Joined(p, pc[p].exchange, h)
                                         \/ \E j \in DOMAIN tasks[p] : Learns(tasks[p][j], h)
  BY DEF Joined
<1> QED BY <1>5, <1>6, <1>7, <1>8, BondsKept

LEMMA ComesOld == ASSUME NEW p, NEW i \in DOMAIN tasks[p] PROVE Comes(p, tasks[p][i])
BY DEF Comes

LEMMA ComesRemoved ==
  ASSUME BridgesInv, NEW p \in Peer, NEW i \in DOMAIN tasks[p]
  PROVE  \A j \in DOMAIN RemoveAt(tasks[p], i) : Comes(p, RemoveAt(tasks[p], i)[j])
<1> SUFFICES ASSUME NEW j \in DOMAIN RemoveAt(tasks[p], i)
             PROVE  Comes(p, RemoveAt(tasks[p], i)[j])
  OBVIOUS
<1>1. tasks[p] \in Seq(Tasks)
  BY Rows
<1>2. PICK k \in DOMAIN tasks[p] : RemoveAt(tasks[p], i)[j] = tasks[p][k]
  BY <1>1, WasAt
<1> QED BY <1>2, ComesOld

LEMMA ComesLast ==
  ASSUME NEW p, NEW us \in Seq(Tasks), NEW k \in Tasks, Comes(p, k),
         \A j \in DOMAIN us : Comes(p, us[j])
  PROVE  \A j \in DOMAIN Append(us, k) : Comes(p, Append(us, k)[j])
<1> SUFFICES ASSUME NEW j \in DOMAIN Append(us, k) PROVE Comes(p, Append(us, k)[j])
  OBVIOUS
<1>1. Append(us, k)[j] = k \/ (j \in DOMAIN us /\ Append(us, k)[j] = us[j])
  OBVIOUS
<1> QED BY <1>1

LEMMA ComesOn ==
  ASSUME BridgesInv, NEW p \in Peer, NEW i \in DOMAIN tasks[p], NEW at \in Steps, NEW k,
         k = [tasks[p][i] EXCEPT !.at = at, !.on = nego[p].gen],
         at \in Answering => tasks[p][i].at \in Answering, at # "applyAnswer"
  PROVE  \A j \in DOMAIN Append(RemoveAt(tasks[p], i), k) : Comes(p, Append(RemoveAt(tasks[p], i), k)[j])
<1>1. tasks[p][i] \in Tasks /\ tasks[p] \in Seq(Tasks) /\ nego[p].gen \in Nat
  BY Rows, TaskFacts
<1>2. k \in Tasks /\ k.at = at /\ k.gen = tasks[p][i].gen /\ k.offer = tasks[p][i].offer
  BY <1>1 DEF Tasks
<1>3. \A h : Learns(k, h) => Learns(tasks[p][i], h)
  BY <1>2 DEF Learns
<1>4. Comes(p, k)
  BY <1>2, <1>3 DEF Comes
<1>5. RemoveAt(tasks[p], i) \in Seq(Tasks)
  BY <1>1, Removed
<1> QED BY <1>2, <1>4, <1>5, ComesRemoved, ComesLast

LEMMA QuietKept == ASSUME NEW p, wire' = wire PROVE Quiet(p)
BY DEF Quiet

LEMMA QuietTaken == ASSUME BridgesInv, NEW p \in Peer, Take(p) PROVE Quiet(p) /\ wire'[p] = Tail(wire[p])
BY TheOther, Rows DEF Quiet, Take

LEMMA QuietClosed ==
  ASSUME BridgesInv, NEW p \in Peer, NEW told, CloseSocket(p, told)
  PROVE  Quiet(p) /\ wire'[p] = <<>>
<1> DEFINE q == Other(p)
           m == Message("leave", None, 0)
<1>1. q \in Peer /\ q # p /\ wire \in [Peer -> Seq(Wired)]
  BY TheOther, Rows
<1>2. m \in Wired /\ m.kind # "join"
  BY DEF Message, Wired
<1> HIDE DEF m, q
<1>3. /\ wire'[p] = <<>>
      /\ wire'[q] = IF told /\ Seated(p) /\ Seated(q) THEN Append(wire[q], m) ELSE wire[q]
  BY <1>1 DEF CloseSocket, m, q
<1> QED BY <1>1, <1>2, <1>3 DEF Quiet, q

LEMMA QuietRelayed ==
  ASSUME BridgesInv, NEW p \in Peer, NEW m \in Wired, Relay(p, m), m.kind # "join"
  PROVE  Quiet(p) /\ wire'[p] = wire[p]
<1> DEFINE q == Other(p)
<1>1. q \in Peer /\ q # p /\ wire \in [Peer -> Seq(Wired)]
  BY TheOther, Rows
<1> HIDE DEF q
<1>2. /\ wire'[p] = wire[p]
      /\ wire'[q] = IF Seated(p) /\ Seated(q) THEN Append(wire[q], m) ELSE wire[q]
  BY <1>1 DEF Relay, q
<1> QED BY <1>2 DEF Quiet, q

LEMMA FreshChannels ==
  ASSUME NEW g, NEW m
  PROVE  FreshNego(g, m).chan = None /\ FreshPc.live = None /\ FreshPc.exchange = None
BY DEF FreshNego, FreshPc

LEMMA FreshHolds == FreshPc.live = None /\ FreshPc.exchange = None
BY DEF FreshPc

LEMMA FreshFacts ==
  ASSUME NEW g \in Nat, NEW m \in Nat, NEW n, n = FreshNego(g, m)
  PROVE  n.gen = g /\ n.chan = None /\ ~n.fired
<1>1. n.gen = g
  BY FreshBridge
<1>2. n.chan = None
  BY FreshChannels
<1>3. ~n.fired
  BY FreshFlags
<1> QED BY <1>1, <1>2, <1>3

LEMMA NewClients ==
  ASSUME BridgesInv, NEW p \in Peer
  PROVE  /\ [NoClient EXCEPT !.eager = client[p].eager].sock = "none"
         /\ [NoClient EXCEPT !.eager = client[p].eager].eager = client[p].eager
         /\ [NoClient EXCEPT !.sock = "dialing", !.eager = client[p].eager].sock = "dialing"
         /\ [NoClient EXCEPT !.sock = "dialing", !.eager = client[p].eager].eager = client[p].eager
<1> DEFINE v == client[p].eager
<1>1. v \in BOOLEAN
  BY Rows DEF Clients
<1> HIDE DEF v
<1>2. /\ [NoClient EXCEPT !.eager = v].sock = "none" /\ [NoClient EXCEPT !.eager = v].eager = v
      /\ [NoClient EXCEPT !.sock = "dialing", !.eager = v].sock = "dialing"
      /\ [NoClient EXCEPT !.sock = "dialing", !.eager = v].eager = v
  BY <1>1, NoClients
<1> QED BY <1>2 DEF v

NextGen(n, g) == n.gen = g + 1

(* A next connection: nothing names it yet, and it holds nothing.          *)
LEMMA BondsRenewed ==
  ASSUME BridgesInv, Sides, Bonds, NEW p \in Peer, NEW n, NEW l, NEW x, NEW ts, NEW o,
         nego' = [nego EXCEPT ![p] = n], client' = [client EXCEPT ![p] = l],
         pc' = [pc EXCEPT ![p] = x], tasks' = [tasks EXCEPT ![p] = ts],
         orch' = [orch EXCEPT ![p] = o], wire'[p] = <<>>, wire'[Other(p)] = wire[Other(p)],
         NextGen(n, nego[p].gen), n.chan = None, ~n.fired, l.sock = "dialing",
         l.eager = client[p].eager, x.live = None, x.exchange = None,
         \A i \in DOMAIN ts : ts[i].gen # n.gen
  PROVE  Bonds'
<1> DEFINE q == Other(p)
           u == wire'[q]
<1>1. q \in Peer /\ q # p /\ wire[q] \in Seq(Wired) /\ nego[p].gen \in Nat
  BY BondsNow, Rows
<1>2. Anchored(p, n, l, x, ts)
  BY DEF Anchored
<1>3. ~Hears(q, tasks[q], u, pc[q].exchange, n.gen, client[q].sock, l.sock)
  <2> DEFINE g == nego[p].gen
             s == client[p].sock
             h == n.gen
  <2>1. Side(q, nego[q], client[q], pc[q], tasks[q], orch[q], wire[q], g, s)
    BY <1>1 DEF Sides, SideOf
  <2>2. h \in Nat /\ ~Told(h, g, s)
    BY <1>1 DEF Told, NextGen
  <2> HIDE DEF g, s, h
  <2>3. ~Says(q, tasks[q], wire[q], pc[q].exchange, h)
    BY <2>1, <2>2 DEF Says, Side, HearSay
  <2> QED BY <2>3 DEF Hears, h
<1>4. ~Making(p, n, <<>>)
  BY DEF Making, JoinIn
<1> HIDE DEF u
<1> QED BY <1>2, <1>3, <1>4, BondsStep DEF u

LEMMA StartBonds == ASSUME BridgesInv, Sides, Bonds, NEW p \in Peer, Start(p) PROVE Bonds'
<1> DEFINE n == FreshNego(nego[p].gen + 1, nego[p].made)
           l == [NoClient EXCEPT !.sock = "dialing", !.eager = client[p].eager]
<1>1. nego[p].gen + 1 \in Nat /\ nego[p].made \in Nat
  BY Rows DEF Bridges
<1>2. n.gen = nego[p].gen + 1 /\ n.chan = None /\ ~n.fired
  BY <1>1, FreshFacts
<1>3. l.sock = "dialing" /\ l.eager = client[p].eager
  BY NewClients
<1>4. /\ nego' = [nego EXCEPT ![p] = n] /\ client' = [client EXCEPT ![p] = l]
      /\ pc' = [pc EXCEPT ![p] = FreshPc] /\ orch' = [orch EXCEPT ![p] = "waiting"]
      /\ tasks' = tasks /\ wire' = wire /\ orch[p] = "left"
  BY DEF Start
<1> HIDE DEF n, l
<1>5. \A i \in DOMAIN tasks[p] : tasks[p][i].gen # n.gen
  BY <1>2, NoneOwned
<1>6. wire'[p] = <<>>
  BY <1>4, OthersRow
<1>7. tasks' = [tasks EXCEPT ![p] = tasks[p]]
  BY <1>4, RowsKept
<1> DEFINE ts == tasks[p]
           o == "waiting"
           x == FreshPc
<1>8. /\ nego' = [nego EXCEPT ![p] = n] /\ client' = [client EXCEPT ![p] = l]
      /\ pc' = [pc EXCEPT ![p] = x] /\ tasks' = [tasks EXCEPT ![p] = ts]
      /\ orch' = [orch EXCEPT ![p] = o] /\ wire'[p] = <<>> /\ wire'[Other(p)] = wire[Other(p)]
      /\ x.live = None /\ x.exchange = None
      /\ \A i \in DOMAIN ts : ts[i].gen # n.gen
  BY <1>4, <1>5, <1>6, <1>7, FreshHolds
<1>9. NextGen(n, nego[p].gen) /\ n.chan = None /\ ~n.fired
  BY <1>2 DEF NextGen
<1> HIDE DEF ts, o, x
<1> QED BY <1>3, <1>8, <1>9, BondsRenewed

LEMMA ReconnectBonds == ASSUME BridgesInv, Sides, Bonds, NEW p \in Peer, Reconnect(p) PROVE Bonds'
<1> DEFINE n == FreshNego(nego[p].gen + 1, nego[p].made)
           l == [NoClient EXCEPT !.sock = "dialing", !.eager = client[p].eager]
<1>1. nego[p].gen + 1 \in Nat /\ nego[p].made \in Nat
  BY Rows DEF Bridges
<1>2. n.gen = nego[p].gen + 1 /\ n.chan = None /\ ~n.fired
  BY <1>1, FreshFacts
<1>3. l.sock = "dialing" /\ l.eager = client[p].eager
  BY NewClients
<1>4. /\ nego' = [nego EXCEPT ![p] = n] /\ client' = [client EXCEPT ![p] = l]
      /\ pc' = [pc EXCEPT ![p] = FreshPc] /\ orch' = [orch EXCEPT ![p] = "waiting"]
      /\ tasks' = tasks /\ CloseSocket(p, FALSE)
  BY DEF Reconnect
<1> HIDE DEF n, l
<1>5. \A i \in DOMAIN tasks[p] : tasks[p][i].gen # n.gen
  BY <1>2, NoneOwned
<1>6. wire'[p] = <<>> /\ wire'[Other(p)] = wire[Other(p)]
  BY <1>4, TheOther, Rows DEF CloseSocket
<1>7. tasks' = [tasks EXCEPT ![p] = tasks[p]]
  BY <1>4, RowsKept
<1> DEFINE ts == tasks[p]
           o == "waiting"
           x == FreshPc
<1>8. /\ nego' = [nego EXCEPT ![p] = n] /\ client' = [client EXCEPT ![p] = l]
      /\ pc' = [pc EXCEPT ![p] = x] /\ tasks' = [tasks EXCEPT ![p] = ts]
      /\ orch' = [orch EXCEPT ![p] = o] /\ wire'[p] = <<>> /\ wire'[Other(p)] = wire[Other(p)]
      /\ x.live = None /\ x.exchange = None
      /\ \A i \in DOMAIN ts : ts[i].gen # n.gen
  BY <1>4, <1>5, <1>6, <1>7, FreshHolds
<1>9. NextGen(n, nego[p].gen) /\ n.chan = None /\ ~n.fired
  BY <1>2 DEF NextGen
<1> HIDE DEF ts, o, x
<1> QED BY <1>3, <1>8, <1>9, BondsRenewed

LEMMA CloseBonds == ASSUME BridgesInv, Sides, Bonds, NEW p \in Peer, Close(p) PROVE Bonds'
<1> DEFINE n == FreshNego(nego[p].gen, nego[p].made)
           l == [NoClient EXCEPT !.eager = client[p].eager]
<1>1. nego[p].gen \in Nat /\ nego[p].made \in Nat
  BY Rows DEF Bridges
<1>2. n.gen = nego[p].gen /\ n.chan = None /\ ~n.fired
  BY <1>1, FreshFacts
<1>3. l.sock = "none" /\ l.eager = client[p].eager
  BY NewClients
<1>4. /\ nego' = [nego EXCEPT ![p] = n] /\ client' = [client EXCEPT ![p] = l]
      /\ pc' = [pc EXCEPT ![p] = FreshPc] /\ orch' = [orch EXCEPT ![p] = "left"]
      /\ tasks' = [tasks EXCEPT ![p] = <<>>] /\ CloseSocket(p, TRUE)
  BY DEF Close
<1> HIDE DEF n, l
<1>5. Quiet(p) /\ wire'[p] = <<>>
  BY <1>4, QuietClosed
<1>6. \A i \in DOMAIN <<>> : Comes(p, <<>>[i])
  OBVIOUS
<1> QED BY <1>2, <1>3, <1>4, <1>5, <1>6, FreshHolds, BondsGoOn

LEMMA SessionEndsBonds ==
  ASSUME BridgesInv, Sides, Bonds, NEW p \in Peer, SessionEnds(p) PROVE Bonds'
<1> DEFINE n == [nego[p] EXCEPT !.open = FALSE]
           x == CloseLocal(pc[p], nego[p].chan)
<1>1. FALSE \in BOOLEAN /\ nego[p] \in Bridges /\ nego[p].gen \in Nat
  BY Rows
<1>2. n \in Bridges
  BY <1>1, BridgeFlag
<1>3. n.gen = nego[p].gen /\ n.chan = nego[p].chan /\ n.fired = nego[p].fired
  BY <1>1, <1>2, BridgeFlagKeeps, OpenFlags
<1>4. x.live = None /\ x.exchange = pc[p].exchange
  BY LiveClosed
<1>5. /\ nego' = [nego EXCEPT ![p] = n] /\ pc' = [pc EXCEPT ![p] = x]
      /\ orch' = [orch EXCEPT ![p] = "disconnected"]
  BY DEF SessionEnds
<1>a. client' = client /\ tasks' = tasks /\ wire' = wire
  BY DEF SessionEnds
<1> HIDE DEF n, x
<1>6. /\ client' = [client EXCEPT ![p] = client[p]] /\ tasks' = [tasks EXCEPT ![p] = tasks[p]]
  BY <1>a, RowsKept
<1>7. Quiet(p) /\ wire'[p] = wire[p]
  BY <1>a, QuietKept
<1> DEFINE l == client[p]
<1>8. /\ l.eager = client[p].eager /\ l.sock \in {client[p].sock, "none"}
      /\ n.fired => nego[p].fired /\ (client[p].present => l.present \/ l.sock = "none")
  BY <1>3
<1>9. client' = [client EXCEPT ![p] = l]
  BY <1>6
<1> HIDE DEF l
<1> QED BY <1>3, <1>4, <1>5, <1>6, <1>7, <1>8, <1>9, ComesOld, BondsGoOn

(* The peer is gone.                                                       *)
LEMMA GoneBonds ==
  ASSUME BridgesInv, Sides, Bonds, NEW p \in Peer, PeerGone(p), NEW l,
         client' = [client EXCEPT ![p] = l], l.eager = client[p].eager,
         l.sock \in {client[p].sock, "none"}, tasks' = tasks, Quiet(p),
         \/ wire'[p] = <<>> /\ l.sock # "open"
         \/ wire[p] # <<>> /\ wire'[p] = Tail(wire[p]) /\ Head(wire[p]).kind # "join"
  PROVE  Bonds'
<1> DEFINE n == Released(nego[p])
           x == CloseLocal(pc[p], nego[p].chan)
           o == Dropped(orch[p])
<1>1. /\ nego' = [nego EXCEPT ![p] = n] /\ pc' = [pc EXCEPT ![p] = x]
      /\ orch' = [orch EXCEPT ![p] = o] /\ tasks' = [tasks EXCEPT ![p] = tasks[p]]
  BY RowsKept DEF PeerGone
<1>2. n.gen = nego[p].gen /\ n.chan = None /\ ~n.fired
  BY Rows, ReleasedBridge, ReleasedFlags
<1>3. x.live = None /\ x.exchange = pc[p].exchange
  BY LiveClosed
<1>4. o # "waiting"
  BY DroppedWaits
<1> HIDE DEF n, x, o
<1> QED BY <1>1, <1>2, <1>3, <1>4, ComesOld, BondsGoOn

LEMMA SocketDropBonds ==
  ASSUME BridgesInv, Sides, Bonds, NEW p \in Peer, SocketDrop(p) PROVE Bonds'
<1> DEFINE l == [NoClient EXCEPT !.eager = client[p].eager]
<1>1. l.sock = "none" /\ l.eager = client[p].eager
  BY NewClients
<1>2. client' = [client EXCEPT ![p] = l]
  BY DEF SocketDrop
<1>a. tasks' = tasks /\ CloseSocket(p, TRUE)
  BY DEF SocketDrop
<1> HIDE DEF l
<1>3. Quiet(p) /\ wire'[p] = <<>>
  BY <1>a, QuietClosed
<1>4. CASE client[p].present
  <2>1. PeerGone(p)
    BY <1>4 DEF SocketDrop
  <2> QED BY <1>1, <1>2, <1>3, <1>a, <2>1, GoneBonds
<1>5. CASE ~client[p].present
  <2> DEFINE o == IF nego[p].suppress THEN orch[p] ELSE Dropped(orch[p])
  <2>1. o = "waiting" => orch[p] = "waiting"
    BY DroppedWaits
  <2>2. orch' = [orch EXCEPT ![p] = o]
    BY <1>5 DEF SocketDrop
  <2>a. nego' = nego /\ pc' = pc
    BY <1>5 DEF SocketDrop
  <2> HIDE DEF o
  <2>3. /\ nego' = [nego EXCEPT ![p] = nego[p]] /\ pc' = [pc EXCEPT ![p] = pc[p]]
        /\ tasks' = [tasks EXCEPT ![p] = tasks[p]]
    BY <1>a, <2>a, RowsKept
  <2>4. pc[p].live \in {None, pc[p].live} /\ nego[p].chan \in {None, nego[p].chan}
    OBVIOUS
  <2> QED BY <1>1, <1>2, <1>3, <1>5, <2>1, <2>2, <2>3, <2>4, ComesOld, BondsGoOn
<1> QED BY <1>4, <1>5

LEMMA GraceExpiresBonds ==
  ASSUME BridgesInv, Sides, Bonds, NEW p \in Peer, GraceExpires(p) PROVE Bonds'
<1> DEFINE l == [NoClient EXCEPT !.eager = client[p].eager]
           n == [nego[p] EXCEPT !.timer = FALSE]
<1>1. l.sock = "none" /\ l.eager = client[p].eager
  BY NewClients
<1>2. FALSE \in BOOLEAN /\ nego[p] \in Bridges
  BY Rows
<1>3. n \in Bridges
  BY <1>2, BridgeFlag
<1>4. n.gen = nego[p].gen /\ n.chan = nego[p].chan /\ n.fired = nego[p].fired
  BY <1>2, <1>3, BridgeFlagKeeps, TimerFlags
<1>5. client' = [client EXCEPT ![p] = l] /\ nego' = [nego EXCEPT ![p] = n]
  BY DEF GraceExpires
<1>a. CloseSocket(p, FALSE) /\ tasks' = tasks /\ pc' = pc /\ orch' = orch
  BY DEF GraceExpires
<1> HIDE DEF l, n
<1>6. Quiet(p) /\ wire'[p] = <<>>
  BY <1>a, QuietClosed
<1>7. /\ pc' = [pc EXCEPT ![p] = pc[p]] /\ orch' = [orch EXCEPT ![p] = orch[p]]
      /\ tasks' = [tasks EXCEPT ![p] = tasks[p]]
  BY <1>a, RowsKept
<1> QED BY <1>1, <1>4, <1>5, <1>6, <1>7, ComesOld, BondsGoOn

(* A socket opens: its bridge holds nothing, and the other end hears of it *)
(* when it hears the join.                                                 *)
LEMMA SocketOpenBonds ==
  ASSUME BridgesInv, Sides, Bonds, NEW p \in Peer, SocketOpen(p) PROVE Bonds'
<1> DEFINE l == [client[p] EXCEPT !.sock = "open"]
           m == Message("join", None, 0)
           q == Other(p)
           u == wire'[q]
           n == nego[p]
           x == pc[p]
<1>1. client[p] \in Clients /\ nego[p].gen \in Nat
  BY Rows
<1>2. l.sock = "open" /\ l.present = client[p].present
  BY <1>1, ClientSock, SockPresent
<1>e. l.eager = client[p].eager
  BY <1>1, ClientSock
<1>3. /\ client' = [client EXCEPT ![p] = l] /\ client[p].sock = "dialing"
      /\ orch' = orch /\ nego' = nego /\ pc' = pc /\ tasks' = tasks
  BY DEF SocketOpen
<1> HIDE DEF l
<1>4. m \in Wired /\ m.kind = "join"
  BY DEF Message, Wired
<1>5. q \in Peer /\ q # p /\ AnchoredEnd(p) /\ wire[q] \in Seq(Wired)
  BY BondsNow
<1>6. n.chan = None /\ x.exchange = None /\ \A i \in DOMAIN tasks[p] : tasks[p][i].gen # n.gen
  BY <1>3, <1>5 DEF AnchoredEnd, Anchored
<1>7. wire[p] = <<>>
  BY <1>3, OthersRow
<1> HIDE DEF m, q
<1>8. /\ wire'[p] = <<>>
      /\ u = IF client[q].sock = "open" THEN Append(wire[q], m) ELSE wire[q]
  BY <1>5, <1>7, Rows DEF SocketOpen, Seated, m, q
<1>9. Anchored(p, n, l, x, tasks[p])
  BY <1>2, <1>3, <1>5, <1>6 DEF AnchoredEnd, Anchored
<1> HIDE DEF u
<1>10. client[q].sock = "open" => JoinIn(u)
  <2> SUFFICES ASSUME client[q].sock = "open" PROVE JoinIn(u)
    OBVIOUS
  <2>1. u = Append(wire[q], m)
    BY <1>8
  <2>2. Len(wire[q]) + 1 \in DOMAIN u /\ u[Len(wire[q]) + 1] = m
    BY <1>4, <1>5, <2>1, SeqAppend
  <2> QED BY <1>4, <2>2 DEF JoinIn
<1>11. ~Hears(q, tasks[q], u, pc[q].exchange, n.gen, client[q].sock, l.sock)
  <2>1. CASE client[q].sock = "open"
    BY <1>10, <2>1 DEF Hears
  <2>2. CASE client[q].sock # "open"
    <3> DEFINE g == nego[p].gen
               s == client[p].sock
    <3>1. Side(q, nego[q], client[q], pc[q], tasks[q], orch[q], wire[q], g, s)
      BY <1>5 DEF Sides, SideOf
    <3>2. g \in Nat /\ ~Told(g, g, s)
      BY <1>1, <1>3 DEF Told
    <3> HIDE DEF g, s
    <3>3. ~Says(q, tasks[q], wire[q], pc[q].exchange, g)
      BY <3>1, <3>2 DEF Says, Side, HearSay
    <3>4. u = wire[q]
      BY <1>8, <2>2
    <3> QED BY <2>2, <3>3, <3>4 DEF Hears, g
  <2> QED BY <2>1, <2>2
<1>12. ~Making(p, n, <<>>)
  BY <1>6 DEF Making, JoinIn
<1>13. /\ nego' = [nego EXCEPT ![p] = n] /\ pc' = [pc EXCEPT ![p] = x]
       /\ orch' = [orch EXCEPT ![p] = orch[p]] /\ tasks' = [tasks EXCEPT ![p] = tasks[p]]
  BY <1>3, RowsKept
<1>14. client' = [client EXCEPT ![p] = l] /\ wire'[p] = <<>>
  BY <1>3, <1>8
<1>15. n.chan = None /\ l.eager = client[p].eager
  BY <1>6, <1>e
<1> HIDE DEF n, x
<1>16. u = wire'[q] /\ q = Other(p)
  BY DEF u, q
<1> QED BY <1>9, <1>11, <1>12, <1>13, <1>14, <1>15, <1>16, BondsStep

-----------------------------------------------------------------------------
(* The operations that settle.                                             *)

LEMMA SettledBonds ==
  ASSUME BridgesInv, Sides, Bonds, NEW p \in Peer, NEW n, NEW l, NEW x, NEW ts, NEW o,
         nego' = [nego EXCEPT ![p] = n], client' = [client EXCEPT ![p] = l],
         pc' = [pc EXCEPT ![p] = x], tasks' = [tasks EXCEPT ![p] = ts],
         orch' = [orch EXCEPT ![p] = o], Quiet(p) /\ wire'[p] = wire[p],
         n.gen = nego[p].gen /\ n.chan \in {None, nego[p].chan} /\ (n.fired => nego[p].fired),
         l.eager = client[p].eager /\ l.sock = client[p].sock /\ (client[p].present => l.present),
         x.live \in {None, pc[p].live}, o = "waiting" => orch[p] = "waiting",
         \/ x.exchange = pc[p].exchange
         \/ /\ x.exchange # None /\ client[p].sock # "dialing"
            /\ \A h : Joined(p, x.exchange, h) => \E j \in DOMAIN tasks[p] : Learns(tasks[p][j], h),
         \A i \in DOMAIN ts : Comes(p, ts[i])
  PROVE  Bonds'
<1> DEFINE v == wire[p]
<1>1. wire'[p] = v /\ v = wire[p]
  OBVIOUS
<1>2. l.sock \in {client[p].sock, "none"}
  OBVIOUS
<1>3. n.fired => nego[p].fired /\ (client[p].present => l.present \/ l.sock = "none")
  OBVIOUS
<1> HIDE DEF v
<1> QED BY <1>1, <1>2, <1>3, BondsGoOn

LEMMA NothingElse ==
  ASSUME BridgesInv, NEW p \in Peer
  PROVE  /\ nego' = nego => nego' = [nego EXCEPT ![p] = nego[p]]
         /\ client' = client => client' = [client EXCEPT ![p] = client[p]]
         /\ pc' = pc => pc' = [pc EXCEPT ![p] = pc[p]]
         /\ tasks' = tasks => tasks' = [tasks EXCEPT ![p] = tasks[p]]
         /\ orch' = orch => orch' = [orch EXCEPT ![p] = orch[p]]
BY RowsKept

LEMMA OfferCreatedBonds ==
  ASSUME BridgesInv, Sides, Bonds, NEW p \in Peer, NEW i \in DOMAIN tasks[p],
         OfferCreated(p, i, tasks[p][i])
  PROVE  Bonds'
<1> DEFINE k == tasks[p][i]
           n == nego[p]
           l == client[p]
           o == orch[p]
<1>1. Quiet(p) /\ wire'[p] = wire[p]
  BY QuietKept DEF OfferCreated
<1>2. nego' = [nego EXCEPT ![p] = n] /\ client' = [client EXCEPT ![p] = l] /\ orch' = [orch EXCEPT ![p] = o]
  BY NothingElse DEF OfferCreated
<1>3. PICK x, ts : /\ pc' = [pc EXCEPT ![p] = x] /\ tasks' = [tasks EXCEPT ![p] = ts]
                   /\ x.live \in {None, pc[p].live} /\ x.exchange = pc[p].exchange
                   /\ \A j \in DOMAIN ts : Comes(p, ts[j])
  <2>1. CASE IsLiveOffer(p, k)
    <3> DEFINE ts == Append(RemoveAt(tasks[p], i), [k EXCEPT !.at = "setOffer", !.on = nego[p].gen])
    <3>1. tasks' = [tasks EXCEPT ![p] = ts]
      BY <2>1 DEF OfferCreated, Continue
    <3>2. pc' = [pc EXCEPT ![p] = pc[p]]
      BY <2>1, NothingElse DEF OfferCreated
    <3>3. "setOffer" \in Steps /\ "setOffer" \notin Answering /\ "setOffer" # "applyAnswer"
      BY DEF Steps, Answering
    <3>4. \A j \in DOMAIN ts : Comes(p, ts[j])
      BY <3>3, ComesOn
    <3> HIDE DEF ts
    <3> QED BY <3>1, <3>2, <3>4
  <2>2. CASE ~IsLiveOffer(p, k)
    <3> DEFINE x == CloseLocal(pc[p], k.offer.chan)
               ts == RemoveAt(tasks[p], i)
    <3>1. tasks' = [tasks EXCEPT ![p] = ts] /\ pc' = [pc EXCEPT ![p] = x]
      BY <2>2 DEF OfferCreated, Done
    <3>2. x.live \in {None, pc[p].live} /\ x.exchange = pc[p].exchange
      BY Rows, ClosedLive
    <3>3. \A j \in DOMAIN ts : Comes(p, ts[j])
      BY ComesRemoved
    <3> HIDE DEF x, ts
    <3> QED BY <3>1, <3>2, <3>3
  <2> QED BY <2>1, <2>2
<1>4. /\ n.gen = nego[p].gen /\ n.chan \in {None, nego[p].chan} /\ (n.fired => nego[p].fired)
      /\ l.eager = client[p].eager /\ l.sock = client[p].sock /\ (client[p].present => l.present)
      /\ o = "waiting" => orch[p] = "waiting"
  OBVIOUS
<1> HIDE DEF n, l, o
<1> QED BY <1>1, <1>2, <1>3, <1>4, SettledBonds

LEMMA OfferSetBonds ==
  ASSUME BridgesInv, Sides, Bonds, NEW p \in Peer, NEW i \in DOMAIN tasks[p], OfferSet(p, i, tasks[p][i])
  PROVE  Bonds'
<1> DEFINE k == tasks[p][i]
           ts == RemoveAt(tasks[p], i)
           n == nego[p]
           o == orch[p]
           y == Settled(p, k)
<1>1. k.at = "setOffer" /\ tasks' = [tasks EXCEPT ![p] = ts]
  BY DEF OfferSet, Done
<1>2. nego' = [nego EXCEPT ![p] = n] /\ orch' = [orch EXCEPT ![p] = o]
  BY NothingElse DEF OfferSet
<1>3. y \in Connections /\ y.live = pc[p].live /\ y.exchange = pc[p].exchange
  BY <1>1, TaskFacts, SettledLive
<1>4. k \in Tasks
  BY TaskHere
<1>5. client[p] \in Clients
  BY Rows
<1>6. PICK l, x : /\ client' = [client EXCEPT ![p] = l] /\ pc' = [pc EXCEPT ![p] = x]
                  /\ l.eager = client[p].eager /\ l.sock = client[p].sock /\ l.present = client[p].present
                  /\ x.live \in {None, pc[p].live} /\ x.exchange = pc[p].exchange
                  /\ Quiet(p) /\ wire'[p] = wire[p]
  <2>1. CASE IsLiveOffer(p, k)
    <3> DEFINE v == client[p].glare \/ Seated(p)
               l == [client[p] EXCEPT !.glare = v]
               m == Message("offer", k.offer, 0)
    <3>1. Relay(p, m) /\ client' = [client EXCEPT ![p] = l] /\ pc' = [pc EXCEPT ![p] = y]
      BY <2>1 DEF OfferSet
    <3>2. v \in BOOLEAN
      BY DEF Seated
    <3> HIDE DEF v
    <3>3. l.sock = client[p].sock /\ l.eager = client[p].eager
      BY <1>5, <3>2, ClientFlags
    <3>4. l.present = client[p].present
      BY <1>5, GlarePresent
    <3>5. m \in Wired /\ m.kind # "join"
      BY <1>4 DEF Message, Wired, Tasks
    <3> HIDE DEF m, l, y
    <3>6. Quiet(p) /\ wire'[p] = wire[p]
      BY <3>1, <3>5, QuietRelayed
    <3> QED BY <1>3, <3>1, <3>3, <3>4, <3>6
  <2>2. CASE ~IsLiveOffer(p, k)
    <3> DEFINE x == CloseLocal(y, k.offer.chan)
    <3>1. pc' = [pc EXCEPT ![p] = x]
      BY <2>2 DEF OfferSet
    <3>2. client' = [client EXCEPT ![p] = client[p]]
      BY <2>2, NothingElse DEF OfferSet
    <3>3. Quiet(p) /\ wire'[p] = wire[p]
      BY <2>2, QuietKept DEF OfferSet
    <3> HIDE DEF y
    <3>4. x.live \in {None, pc[p].live} /\ x.exchange = pc[p].exchange
      BY <1>3, ClosedLive
    <3> HIDE DEF x
    <3> QED BY <3>1, <3>2, <3>3, <3>4
  <2> QED BY <2>1, <2>2
<1>7. \A j \in DOMAIN ts : Comes(p, ts[j])
  BY ComesRemoved
<1>8. /\ n.gen = nego[p].gen /\ n.chan \in {None, nego[p].chan} /\ (n.fired => nego[p].fired)
      /\ o = "waiting" => orch[p] = "waiting"
  OBVIOUS
<1>9. client[p].present => l.present
  BY <1>6
<1> HIDE DEF n, o, ts
<1> QED BY <1>1, <1>2, <1>6, <1>7, <1>8, <1>9, SettledBonds

LEMMA EndOfferEager == ASSUME NEW l \in Clients PROVE EndOffer(l).eager = l.eager
<1>1. FALSE \in BOOLEAN /\ EndOffer(l) = [l EXCEPT !.glare = FALSE]
  BY DEF EndOffer
<1> QED BY <1>1, ClientFlags

LEMMA OfferFailsBonds ==
  ASSUME BridgesInv, Sides, Bonds, NEW p \in Peer, NEW i \in DOMAIN tasks[p], OfferFails(p, i, tasks[p][i])
  PROVE  Bonds'
<1> DEFINE k == tasks[p][i]
           ts == RemoveAt(tasks[p], i)
           x == CloseLocal(pc[p], k.offer.chan)
           o == orch[p]
<1>1. tasks' = [tasks EXCEPT ![p] = ts] /\ pc' = [pc EXCEPT ![p] = x]
  BY DEF OfferFails, Done
<1>2. orch' = [orch EXCEPT ![p] = o]
  BY NothingElse DEF OfferFails
<1>3. x.live \in {None, pc[p].live} /\ x.exchange = pc[p].exchange
  BY Rows, ClosedLive
<1>4. Quiet(p) /\ wire'[p] = wire[p]
  BY QuietKept DEF OfferFails
<1>5. \A j \in DOMAIN ts : Comes(p, ts[j])
  BY ComesRemoved
<1>6. nego[p] \in Bridges /\ client[p] \in Clients /\ FALSE \in BOOLEAN
  BY Rows
<1>7. PICK n, l : /\ nego' = [nego EXCEPT ![p] = n] /\ client' = [client EXCEPT ![p] = l]
                  /\ n.gen = nego[p].gen /\ n.chan \in {None, nego[p].chan} /\ n.fired = nego[p].fired
                  /\ l.eager = client[p].eager /\ l.sock = client[p].sock /\ l.present = client[p].present
  <2>1. CASE Owns(p, k)
    <3> DEFINE b == DiscardChannel(nego[p])
               same == nego[p].chan = k.offer.chan
               n == IF same THEN [b EXCEPT !.inFlight = FALSE] ELSE [nego[p] EXCEPT !.inFlight = FALSE]
               l == EndOffer(client[p])
    <3>1. nego' = [nego EXCEPT ![p] = n] /\ client' = [client EXCEPT ![p] = l]
      BY <2>1 DEF OfferFails
    <3>2. b \in Bridges /\ b.gen = nego[p].gen /\ b.chan = None /\ b.fired = nego[p].fired
      BY <1>6, Discarded, DiscardedFlags
    <3>3. l.sock = client[p].sock /\ l.present = client[p].present
      BY <1>6, EndOfferPresent
    <3>4. l.eager = client[p].eager
      BY <1>6, EndOfferEager
    <3> HIDE DEF b, l
    <3>5. CASE same
      <4> DEFINE d == [b EXCEPT !.inFlight = FALSE]
      <4>1. d.gen = b.gen /\ d.chan = b.chan
        BY <1>6, <3>2, BridgeFlight
      <4>2. d.fired = b.fired
        BY <3>2, FlightFlags
      <4>3. nego' = [nego EXCEPT ![p] = d] /\ client' = [client EXCEPT ![p] = l]
        BY <3>1, <3>5
      <4> HIDE DEF d, n
      <4> QED BY <3>2, <3>3, <3>4, <4>1, <4>2, <4>3
    <3>6. CASE ~same
      <4> DEFINE d == [nego[p] EXCEPT !.inFlight = FALSE]
      <4>1. d.gen = nego[p].gen /\ d.chan = nego[p].chan
        BY <1>6, BridgeFlight
      <4>2. d.fired = nego[p].fired
        BY <1>6, FlightFlags
      <4>3. nego' = [nego EXCEPT ![p] = d] /\ client' = [client EXCEPT ![p] = l]
        BY <3>1, <3>6
      <4> HIDE DEF d, n
      <4> QED BY <3>3, <3>4, <4>1, <4>2, <4>3
    <3> QED BY <3>5, <3>6
  <2>2. CASE ~Owns(p, k)
    <3>1. nego' = [nego EXCEPT ![p] = nego[p]] /\ client' = [client EXCEPT ![p] = client[p]]
      BY <2>2, NothingElse DEF OfferFails
    <3> QED BY <3>1
  <2> QED BY <2>1, <2>2
<1>8. (n.fired => nego[p].fired) /\ (client[p].present => l.present) /\ (o = "waiting" => orch[p] = "waiting")
  BY <1>7
<1> HIDE DEF ts, x, o
<1> QED BY <1>1, <1>2, <1>3, <1>4, <1>5, <1>7, <1>8, SettledBonds

LEMMA RolledBackBonds ==
  ASSUME BridgesInv, Sides, Bonds, NEW p \in Peer, NEW i \in DOMAIN tasks[p],
         RolledBack(p, i, tasks[p][i]) \/ RollbackFails(p, i, tasks[p][i])
  PROVE  Bonds'
<1> DEFINE k == tasks[p][i]
           us == RemoveAt(tasks[p], i)
<1>1. k.at = "rollback" /\ wire' = wire
  BY DEF RolledBack, RollbackFails
<1>2. nego[p] \in Bridges /\ client[p] \in Clients /\ pc[p] \in Connections /\ FALSE \in BOOLEAN
  BY Rows
<1>3. Quiet(p) /\ wire'[p] = wire[p]
  BY <1>1, QuietKept
<1>4. \A j \in DOMAIN us : Comes(p, us[j])
  BY ComesRemoved
<1>5. PICK n, l, x, ts, o :
        /\ nego' = [nego EXCEPT ![p] = n] /\ client' = [client EXCEPT ![p] = l]
        /\ pc' = [pc EXCEPT ![p] = x] /\ tasks' = [tasks EXCEPT ![p] = ts]
        /\ orch' = [orch EXCEPT ![p] = o]
        /\ n.gen = nego[p].gen /\ n.chan \in {None, nego[p].chan} /\ n.fired = nego[p].fired
        /\ l.eager = client[p].eager /\ l.sock = client[p].sock /\ l.present = client[p].present
        /\ x.live \in {None, pc[p].live} /\ x.exchange = pc[p].exchange
        /\ o = "waiting" => orch[p] = "waiting"
        /\ \A j \in DOMAIN ts : Comes(p, ts[j])
  <2>1. CASE Owns(p, k)
    <3> DEFINE b == DiscardChannel(nego[p])
               n == [b EXCEPT !.inFlight = FALSE]
               l == EndOffer(client[p])
               y == Settled(p, k)
    <3>1. nego' = [nego EXCEPT ![p] = n] /\ client' = [client EXCEPT ![p] = l]
      BY <2>1 DEF RolledBack, RollbackFails
    <3>2. b \in Bridges /\ b.gen = nego[p].gen /\ b.chan = None /\ b.fired = nego[p].fired
      BY <1>2, Discarded, DiscardedFlags
    <3>3. l.sock = client[p].sock /\ l.present = client[p].present
      BY <1>2, EndOfferPresent
    <3>4. l.eager = client[p].eager
      BY <1>2, EndOfferEager
    <3> HIDE DEF b, l
    <3>5. n.gen = nego[p].gen /\ n.chan \in {None, nego[p].chan}
      BY <1>2, <3>2, BridgeFlight
    <3>6. n.fired = nego[p].fired
      BY <3>2, FlightFlags
    <3>7. y \in Connections /\ y.live = pc[p].live /\ y.exchange = pc[p].exchange
      BY <1>1, TaskFacts, SettledLive
    <3> HIDE DEF n, y
    <3>8. CASE RolledBack(p, i, k)
      <4> DEFINE x == CloseLocal(y, nego[p].chan)
                 ts == Append(us, [k EXCEPT !.at = "setRemote", !.on = nego[p].gen])
      <4>1. pc' = [pc EXCEPT ![p] = x] /\ tasks' = [tasks EXCEPT ![p] = ts]
        BY <2>1, <3>8 DEF RolledBack, Continue, y
      <4>2. orch' = [orch EXCEPT ![p] = orch[p]]
        BY <3>8, NothingElse DEF RolledBack
      <4>3. x.live \in {None, pc[p].live} /\ x.exchange = pc[p].exchange
        BY <3>7, ClosedLive
      <4>4. "setRemote" \in Steps /\ "setRemote" # "applyAnswer" /\ k.at \in Answering
        BY <1>1 DEF Steps, Answering
      <4>5. \A j \in DOMAIN ts : Comes(p, ts[j])
        BY <4>4, ComesOn
      <4> HIDE DEF x, ts
      <4> QED BY <3>1, <3>3, <3>4, <3>5, <3>6, <4>1, <4>2, <4>3, <4>5
    <3>9. CASE RollbackFails(p, i, k)
      <4> DEFINE x == CloseLocal(pc[p], nego[p].chan)
                 o == Dropped(orch[p])
      <4>1. /\ pc' = [pc EXCEPT ![p] = x] /\ tasks' = [tasks EXCEPT ![p] = us]
            /\ orch' = [orch EXCEPT ![p] = o]
        BY <2>1, <3>9 DEF RollbackFails, Done
      <4>2. x.live \in {None, pc[p].live} /\ x.exchange = pc[p].exchange
        BY <1>2, ClosedLive
      <4>3. o # "waiting"
        BY DroppedWaits
      <4> HIDE DEF x, o, us
      <4> QED BY <1>4, <3>1, <3>3, <3>4, <3>5, <3>6, <4>1, <4>2, <4>3
    <3> QED BY <3>8, <3>9
  <2>2. CASE ~Owns(p, k)
    <3>1. tasks' = [tasks EXCEPT ![p] = us]
      BY <2>2 DEF RolledBack, RollbackFails, Done
    <3>2. /\ nego' = [nego EXCEPT ![p] = nego[p]] /\ client' = [client EXCEPT ![p] = client[p]]
          /\ pc' = [pc EXCEPT ![p] = pc[p]] /\ orch' = [orch EXCEPT ![p] = orch[p]]
      BY <2>2, NothingElse DEF RolledBack, RollbackFails
    <3> HIDE DEF us
    <3> QED BY <1>4, <3>1, <3>2
  <2> QED BY <2>1, <2>2
<1>6. (n.fired => nego[p].fired) /\ (client[p].present => l.present)
  BY <1>5
<1> QED BY <1>3, <1>5, <1>6, SettledBonds

LEMMA AnswerAdvancesBonds ==
  ASSUME BridgesInv, Sides, Bonds, NEW p \in Peer, NEW i \in DOMAIN tasks[p],
         AnswerAdvances(p, i, tasks[p][i])
  PROVE  Bonds'
<1> DEFINE k == tasks[p][i]
           n == nego[p]
           l == client[p]
           o == orch[p]
           x == Settled(p, k)
<1>1. k.at \in {"setRemote", "createAnswer"} /\ pc' = [pc EXCEPT ![p] = x]
  BY DEF AnswerAdvances
<1>2. nego' = [nego EXCEPT ![p] = n] /\ client' = [client EXCEPT ![p] = l] /\ orch' = [orch EXCEPT ![p] = o]
  BY NothingElse DEF AnswerAdvances
<1>3. Quiet(p) /\ wire'[p] = wire[p]
  BY QuietKept DEF AnswerAdvances
<1>4. x.live \in {None, pc[p].live} /\ x.exchange = pc[p].exchange
  BY <1>1, SettledLive
<1>5. PICK ts : tasks' = [tasks EXCEPT ![p] = ts] /\ \A j \in DOMAIN ts : Comes(p, ts[j])
  <2>1. CASE Owns(p, k)
    <3> DEFINE at == IF k.at = "setRemote" THEN "createAnswer" ELSE "setAnswer"
               ts == Append(RemoveAt(tasks[p], i), [k EXCEPT !.at = at, !.on = nego[p].gen])
    <3>1. tasks' = [tasks EXCEPT ![p] = ts]
      BY <2>1 DEF AnswerAdvances, Continue
    <3>2. at \in Steps /\ at # "applyAnswer" /\ k.at \in Answering
      BY <1>1 DEF Steps, Answering
    <3> HIDE DEF at
    <3>3. \A j \in DOMAIN ts : Comes(p, ts[j])
      BY <3>2, ComesOn
    <3> HIDE DEF ts
    <3> QED BY <3>1, <3>3
  <2>2. CASE ~Owns(p, k)
    <3> DEFINE ts == RemoveAt(tasks[p], i)
    <3>1. tasks' = [tasks EXCEPT ![p] = ts]
      BY <2>2 DEF AnswerAdvances, Done
    <3>2. \A j \in DOMAIN ts : Comes(p, ts[j])
      BY ComesRemoved
    <3> HIDE DEF ts
    <3> QED BY <3>1, <3>2
  <2> QED BY <2>1, <2>2
<1>6. /\ n.gen = nego[p].gen /\ n.chan \in {None, nego[p].chan} /\ (n.fired => nego[p].fired)
      /\ l.eager = client[p].eager /\ l.sock = client[p].sock /\ (client[p].present => l.present)
      /\ o = "waiting" => orch[p] = "waiting"
  OBVIOUS
<1> HIDE DEF n, l, o, x
<1> QED BY <1>1, <1>2, <1>3, <1>4, <1>5, <1>6, SettledBonds

(* An exchange that is completed names what its task named.                *)
LEMMA ExchangeSettles ==
  ASSUME BridgesInv, Sides, Bonds, NEW p \in Peer, NEW i \in DOMAIN tasks[p],
         NEW k, k = tasks[p][i], k.at \in {"setAnswer", "applyAnswer"}, NEW y, y = Settled(p, k)
  PROVE  /\ y.live = pc[p].live
         /\ \/ y.exchange = pc[p].exchange
            \/ /\ y.exchange # None /\ client[p].sock # "dialing"
               /\ \A h : Joined(p, y.exchange, h) => \E j \in DOMAIN tasks[p] : Learns(tasks[p][j], h)
<1>1. y.live = pc[p].live
  BY SettledLive
<1>2. k \in Tasks /\ TaskFits(p, k) /\ (Current(p, k) <=> Owns(p, k)) /\ pc[p] \in Connections
  BY TaskHere, Rows
<1>3. CASE ~Current(p, k)
  BY <1>1, <1>3, SettledLive
<1>4. CASE Current(p, k)
  <2> DEFINE g == IF k.at = "setAnswer" THEN k.on ELSE k.answerer
             e == [offer |-> k.offer, answerer |-> g]
  <2>1. y = Applied(pc[p], k)
    BY <1>4 DEF Settled
  <2>2. y.exchange = e
    BY <1>2, <2>1, AppliedLive
  <2>3. k.offer \in Offers /\ g \in Nat
    BY <1>2 DEF Tasks
  <2>4. e \in Exchanges /\ e.offer = k.offer /\ e.answerer = g
    BY <2>3 DEF Exchanges
  <2>5. e # None
    BY <2>4, NoneAssumption
  <2>6. client[p].sock # "dialing"
    <3>1. Anchored(p, nego[p], client[p], pc[p], tasks[p])
      BY BondsNow DEF AnchoredEnd
    <3>2. tasks[p][i].gen = nego[p].gen
      BY <1>2, <1>4 DEF Owns
    <3> QED BY <3>1, <3>2 DEF Anchored
  <2>7. ASSUME NEW h, Joined(p, e, h) PROVE Learns(k, h)
    <3>1. CASE k.at = "setAnswer"
      <4>1. k.offer.chan.by # p /\ k.at \in Answering
        BY <1>2, <3>1 DEF TaskFits, Answering
      <4> HIDE DEF e
      <4> QED BY <2>4, <2>7, <4>1 DEF Joined, Learns
    <3>2. CASE k.at = "applyAnswer"
      <4>1. k.offer.chan.by = p /\ g = k.answerer
        BY <1>2, <3>2 DEF TaskFits
      <4> HIDE DEF e
      <4> QED BY <2>4, <2>7, <3>2, <4>1 DEF Joined, Learns
    <3> QED BY <3>1, <3>2
  <2> HIDE DEF e
  <2> QED BY <1>1, <2>2, <2>5, <2>6, <2>7
<1> QED BY <1>3, <1>4

LEMMA AnswerSetBonds ==
  ASSUME BridgesInv, Sides, Bonds, NEW p \in Peer, NEW i \in DOMAIN tasks[p], AnswerSet(p, i, tasks[p][i])
  PROVE  Bonds'
<1> DEFINE k == tasks[p][i]
           n == nego[p]
           l == client[p]
           o == orch[p]
           x == Settled(p, k)
           ts == RemoveAt(tasks[p], i)
           m == Message("answer", k.offer, k.on)
<1>1. k.at = "setAnswer" /\ pc' = [pc EXCEPT ![p] = x] /\ tasks' = [tasks EXCEPT ![p] = ts]
  BY DEF AnswerSet, Done
<1>2. nego' = [nego EXCEPT ![p] = n] /\ client' = [client EXCEPT ![p] = l] /\ orch' = [orch EXCEPT ![p] = o]
  BY NothingElse DEF AnswerSet
<1>3. Quiet(p) /\ wire'[p] = wire[p]
  <2>1. CASE Owns(p, k)
    <3>1. k \in Tasks
      BY TaskHere
    <3>2. m \in Wired /\ m.kind # "join"
      BY <3>1 DEF Message, Wired, Tasks
    <3>3. Relay(p, m)
      BY <2>1 DEF AnswerSet
    <3> HIDE DEF m
    <3> QED BY <3>2, <3>3, QuietRelayed
  <2>2. CASE ~Owns(p, k)
    BY <2>2, QuietKept DEF AnswerSet
  <2> QED BY <2>1, <2>2
<1>4. /\ x.live = pc[p].live
      /\ \/ x.exchange = pc[p].exchange
         \/ /\ x.exchange # None /\ client[p].sock # "dialing"
            /\ \A h : Joined(p, x.exchange, h) => \E j \in DOMAIN tasks[p] : Learns(tasks[p][j], h)
  BY <1>1, ExchangeSettles
<1>5. \A j \in DOMAIN ts : Comes(p, ts[j])
  BY ComesRemoved
<1>6. /\ n.gen = nego[p].gen /\ n.chan \in {None, nego[p].chan} /\ (n.fired => nego[p].fired)
      /\ l.eager = client[p].eager /\ l.sock = client[p].sock /\ (client[p].present => l.present)
      /\ o = "waiting" => orch[p] = "waiting"
  OBVIOUS
<1>7. x.live \in {None, pc[p].live}
  BY <1>4
<1> HIDE DEF n, l, o, x, ts
<1> QED BY <1>1, <1>2, <1>3, <1>4, <1>5, <1>6, <1>7, SettledBonds

LEMMA AnswerAppliedBonds ==
  ASSUME BridgesInv, Sides, Bonds, NEW p \in Peer, NEW i \in DOMAIN tasks[p],
         AnswerApplied(p, i, tasks[p][i]) \/ AnswerRefused(p, i, tasks[p][i])
  PROVE  Bonds'
<1> DEFINE k == tasks[p][i]
           n == nego[p]
           l == client[p]
           o == orch[p]
           ts == RemoveAt(tasks[p], i)
<1>1. k.at = "applyAnswer" /\ tasks' = [tasks EXCEPT ![p] = ts]
  BY DEF AnswerApplied, AnswerRefused, Done
<1>2. nego' = [nego EXCEPT ![p] = n] /\ client' = [client EXCEPT ![p] = l] /\ orch' = [orch EXCEPT ![p] = o]
  BY NothingElse DEF AnswerApplied, AnswerRefused
<1>3. Quiet(p) /\ wire'[p] = wire[p]
  BY QuietKept DEF AnswerApplied, AnswerRefused
<1>4. PICK x : /\ pc' = [pc EXCEPT ![p] = x] /\ x.live = pc[p].live
               /\ \/ x.exchange = pc[p].exchange
                  \/ /\ x.exchange # None /\ client[p].sock # "dialing"
                     /\ \A h : Joined(p, x.exchange, h) => \E j \in DOMAIN tasks[p] : Learns(tasks[p][j], h)
  <2>1. CASE AnswerApplied(p, i, k)
    <3> DEFINE x == Settled(p, k)
    <3>1. pc' = [pc EXCEPT ![p] = x]
      BY <2>1 DEF AnswerApplied
    <3>2. /\ x.live = pc[p].live
          /\ \/ x.exchange = pc[p].exchange
             \/ /\ x.exchange # None /\ client[p].sock # "dialing"
                /\ \A h : Joined(p, x.exchange, h) => \E j \in DOMAIN tasks[p] : Learns(tasks[p][j], h)
      BY <1>1, ExchangeSettles
    <3> HIDE DEF x
    <3> QED BY <3>1, <3>2
  <2>2. CASE AnswerRefused(p, i, k)
    <3>1. pc' = [pc EXCEPT ![p] = pc[p]]
      BY <2>2, NothingElse DEF AnswerRefused
    <3> QED BY <3>1
  <2> QED BY <2>1, <2>2
<1>5. \A j \in DOMAIN ts : Comes(p, ts[j])
  BY ComesRemoved
<1>6. /\ n.gen = nego[p].gen /\ n.chan \in {None, nego[p].chan} /\ (n.fired => nego[p].fired)
      /\ l.eager = client[p].eager /\ l.sock = client[p].sock /\ (client[p].present => l.present)
      /\ o = "waiting" => orch[p] = "waiting"
  OBVIOUS
<1>7. x.live \in {None, pc[p].live}
  BY <1>4
<1> HIDE DEF n, l, o, ts
<1> QED BY <1>1, <1>2, <1>3, <1>4, <1>5, <1>6, <1>7, SettledBonds

LEMMA AnswerFailsBonds ==
  ASSUME BridgesInv, Sides, Bonds, NEW p \in Peer, NEW i \in DOMAIN tasks[p], AnswerFails(p, i, tasks[p][i])
  PROVE  Bonds'
<1> DEFINE k == tasks[p][i]
           l == client[p]
           o == orch[p]
           ts == RemoveAt(tasks[p], i)
<1>1. tasks' = [tasks EXCEPT ![p] = ts]
  BY DEF AnswerFails, Done
<1>2. client' = [client EXCEPT ![p] = l] /\ orch' = [orch EXCEPT ![p] = o]
  BY NothingElse DEF AnswerFails
<1>3. Quiet(p) /\ wire'[p] = wire[p]
  BY QuietKept DEF AnswerFails
<1>4. PICK n, x : /\ nego' = [nego EXCEPT ![p] = n] /\ pc' = [pc EXCEPT ![p] = x]
                  /\ n.gen = nego[p].gen /\ n.chan \in {None, nego[p].chan} /\ n.fired = nego[p].fired
                  /\ x.live \in {None, pc[p].live} /\ x.exchange = pc[p].exchange
  <2>1. CASE Owns(p, k) /\ ~nego[p].fired
    <3> DEFINE n == DiscardChannel(nego[p])
               x == CloseLocal(pc[p], nego[p].chan)
    <3>1. nego' = [nego EXCEPT ![p] = n] /\ pc' = [pc EXCEPT ![p] = x]
      BY <2>1 DEF AnswerFails
    <3>2. n.gen = nego[p].gen /\ n.chan = None
      BY Rows, Discarded
    <3>3. n.fired = nego[p].fired
      BY Rows, DiscardedFlags
    <3>4. x.live \in {None, pc[p].live} /\ x.exchange = pc[p].exchange
      BY Rows, ClosedLive
    <3> HIDE DEF n, x
    <3> QED BY <3>1, <3>2, <3>3, <3>4
  <2>2. CASE ~(Owns(p, k) /\ ~nego[p].fired)
    <3>1. nego' = [nego EXCEPT ![p] = nego[p]] /\ pc' = [pc EXCEPT ![p] = pc[p]]
      BY <2>2, NothingElse DEF AnswerFails
    <3> QED BY <3>1
  <2> QED BY <2>1, <2>2
<1>5. \A j \in DOMAIN ts : Comes(p, ts[j])
  BY ComesRemoved
<1>6. /\ l.eager = client[p].eager /\ l.sock = client[p].sock /\ (client[p].present => l.present)
      /\ o = "waiting" => orch[p] = "waiting"
  OBVIOUS
<1>7. n.fired => nego[p].fired
  BY <1>4
<1> HIDE DEF l, o, ts
<1> QED BY <1>1, <1>2, <1>3, <1>4, <1>5, <1>6, <1>7, SettledBonds

LEMMA SettleBonds == ASSUME BridgesInv, Sides, Bonds, NEW p \in Peer, Settle(p) PROVE Bonds'
<1>1. PICK i \in DOMAIN tasks[p] :
        \/ OfferCreated(p, i, tasks[p][i]) \/ OfferSet(p, i, tasks[p][i])
        \/ RolledBack(p, i, tasks[p][i]) \/ AnswerAdvances(p, i, tasks[p][i])
        \/ AnswerSet(p, i, tasks[p][i]) \/ AnswerApplied(p, i, tasks[p][i])
        \/ OfferFails(p, i, tasks[p][i]) \/ RollbackFails(p, i, tasks[p][i])
        \/ AnswerFails(p, i, tasks[p][i]) \/ AnswerRefused(p, i, tasks[p][i])
  BY DEF Settle
<1> QED
  BY <1>1, OfferCreatedBonds, OfferSetBonds, RolledBackBonds, AnswerAdvancesBonds,
     AnswerSetBonds, AnswerAppliedBonds, OfferFailsBonds, AnswerFailsBonds

-----------------------------------------------------------------------------
(* The messages of the broker.                                             *)

(* A channel is made: by an end that hears a join, which the other end has *)
(* not heard anything of yet, or by an older client to which the other one *)
(* was not present.                                                        *)
LEMMA OriginatesBonds ==
  ASSUME BridgesInv, Sides, Bonds, NEW p \in Peer, Originates(p), wire[p] # <<>>,
         wire'[Other(p)] = wire[Other(p)],
         JoinIn(wire[p]) \/ (client[p].eager /\ ~client[p].present)
  PROVE  Bonds'
<1> DEFINE q == Other(p)
           v == wire'[p]
           u == wire'[q]
           o == orch[p]
<1>1. PICK n, l, x, k :
        /\ nego' = [nego EXCEPT ![p] = n] /\ client' = [client EXCEPT ![p] = l]
        /\ pc' = [pc EXCEPT ![p] = x] /\ tasks' = [tasks EXCEPT ![p] = Append(tasks[p], k)]
        /\ orch' = [orch EXCEPT ![p] = orch[p]]
        /\ n.gen = nego[p].gen /\ n.inFlight /\ ~n.fired /\ ~n.timer /\ ~n.suppress
        /\ n.chan \in Channels /\ n.chan.by = p
        /\ l.sock = client[p].sock /\ l.present /\ l.eager = client[p].eager
        /\ x.live = n.chan /\ x.exchange = pc[p].exchange
        /\ k \in Tasks /\ TaskFits(p, k) /\ k.at = "createOffer" /\ \A g : ~Learns(k, g)
  BY OriginatesRows
<1> DEFINE ts == Append(tasks[p], k)
<1>2. /\ q \in Peer /\ q # p /\ Follows(q, p)
      /\ ~client[p].eager /\ ~client[q].eager => ~(Makes(p) /\ Makes(q))
  BY BondsNow
<1>3. u = wire[q] /\ u = wire'[q] /\ q = Other(p) /\ wire'[p] = v
  OBVIOUS
<1>4. /\ nego' = [nego EXCEPT ![p] = n] /\ client' = [client EXCEPT ![p] = l]
      /\ pc' = [pc EXCEPT ![p] = x] /\ tasks' = [tasks EXCEPT ![p] = ts]
      /\ orch' = [orch EXCEPT ![p] = o]
  BY <1>1
<1>5. client[p].sock = "open"
  BY OthersRow
<1>6. Anchored(p, n, l, x, ts)
  BY <1>1, <1>5 DEF Anchored
<1>7. orch[p] = "waiting" /\ pc[p].exchange # None => client[p].present
  BY HereNow DEF Here, Side, Attends
<1> HIDE DEF q, u, v, ts
<1>8. ASSUME Hears(q, tasks[q], u, pc[q].exchange, n.gen, client[q].sock, l.sock),
             nego[q].chan # None, nego[q].chan.by = p
      PROVE  Stays(o, n, x, v, nego[q].chan)
  <2>1. Hears(q, tasks[q], wire[q], pc[q].exchange, nego[p].gen, client[q].sock, client[p].sock)
    BY <1>1, <1>3, <1>8
  <2>2. Stays(orch[p], nego[p], pc[p], wire[p], nego[q].chan)
    BY <1>2, <1>8, <2>1 DEF Follows, HearsOf
  <2>3. orch[p] # "waiting"
    <3> SUFFICES ASSUME orch[p] = "waiting" PROVE FALSE
      OBVIOUS
    <3>1. pc[p].exchange # None /\ ~JoinIn(wire[p])
      BY <2>2 DEF Stays, Counts
    <3> QED BY <1>7, <3>1
  <2> QED BY <1>1, <2>3 DEF Stays, Counts
<1>9. ~client[p].eager /\ ~client[q].eager => ~(Making(p, n, v) /\ Making(q, nego[q], u))
  <2> SUFFICES ASSUME ~client[p].eager, ~client[q].eager, Making(q, nego[q], u) PROVE FALSE
    OBVIOUS
  <2>1. Makes(p)
    BY DEF Makes, Making
  <2>2. Makes(q)
    BY <1>3 DEF Makes
  <2> QED BY <1>2, <2>1, <2>2
<1>10. n.chan.by # q /\ l.eager = client[p].eager
  BY <1>1, <1>2
<1> HIDE DEF o
<1>11. Hears(p, ts, v, x.exchange, nego[q].gen, l.sock, client[q].sock)
         /\ n.chan # None /\ n.chan.by = q => Stays(orch[q], nego[q], pc[q], u, n.chan)
  BY <1>10
<1>12. Hears(q, tasks[q], u, pc[q].exchange, n.gen, client[q].sock, l.sock)
         /\ nego[q].chan # None /\ nego[q].chan.by = p => Stays(o, n, x, v, nego[q].chan)
  BY <1>8
<1> QED BY <1>3, <1>4, <1>6, <1>9, <1>10, <1>11, <1>12, BondsStep

LEMMA DeliverJoinBonds ==
  ASSUME BridgesInv, Sides, Bonds, NEW p \in Peer, DeliverJoin(p) PROVE Bonds'
<1>1. wire[p] # <<>> /\ Head(wire[p]).kind = "join" /\ Take(p) /\ Originates(p)
  BY DEF DeliverJoin
<1>2. wire'[Other(p)] = wire[Other(p)]
  BY <1>1, TheOther, Rows DEF Take
<1>3. JoinIn(wire[p])
  BY <1>1, Delivering DEF JoinIn
<1> QED BY <1>1, <1>2, <1>3, OriginatesBonds

LEMMA CounterOfferBonds ==
  ASSUME BridgesInv, Sides, Bonds, NEW p \in Peer, CounterOffer(p) PROVE Bonds'
<1>1. wire[p] # <<>> /\ client[p].eager /\ ~client[p].present /\ Originates(p)
  BY DEF CounterOffer, Promotes
<1>2. wire'[Other(p)] = wire[Other(p)]
  BY DEF CounterOffer
<1> QED BY <1>1, <1>2, OriginatesBonds

(* A message that is taken from the wire and is no join.                   *)
LEMMA TakenBonds ==
  ASSUME BridgesInv, Sides, Bonds, NEW p \in Peer, NEW n, NEW l, NEW x, NEW ts, NEW o,
         nego' = [nego EXCEPT ![p] = n], client' = [client EXCEPT ![p] = l],
         pc' = [pc EXCEPT ![p] = x], tasks' = [tasks EXCEPT ![p] = ts],
         orch' = [orch EXCEPT ![p] = o],
         Take(p) /\ wire[p] # <<>> /\ Head(wire[p]).kind # "join",
         n.gen = nego[p].gen /\ n.chan = nego[p].chan /\ (n.fired => nego[p].fired),
         l.eager = client[p].eager /\ l.sock = client[p].sock /\ (client[p].present => l.present),
         x.live = pc[p].live /\ x.exchange = pc[p].exchange /\ (o = "waiting" => orch[p] = "waiting"),
         \A i \in DOMAIN ts : Comes(p, ts[i])
  PROVE  Bonds'
<1> DEFINE v == wire'[p]
<1>1. Quiet(p) /\ wire'[p] = v
  BY QuietTaken
<1>2. wire[p] # <<>> /\ v = Tail(wire[p]) /\ Head(wire[p]).kind # "join"
  BY QuietTaken
<1>3. x.live \in {None, pc[p].live} /\ l.sock \in {client[p].sock, "none"} /\ n.chan \in {None, nego[p].chan}
  OBVIOUS
<1>4. n.fired => nego[p].fired /\ (client[p].present => l.present \/ l.sock = "none")
  OBVIOUS
<1> HIDE DEF v
<1> QED BY <1>1, <1>2, <1>3, <1>4, BondsGoOn

LEMMA DeliverLeaveBonds ==
  ASSUME BridgesInv, Sides, Bonds, NEW p \in Peer, DeliverLeave(p) PROVE Bonds'
<1>1. Take(p) /\ wire[p] # <<>> /\ Head(wire[p]).kind # "join"
  BY DEF DeliverLeave
<1>2. Quiet(p) /\ wire'[p] = Tail(wire[p])
  BY <1>1, QuietTaken
<1>3. CASE client[p].present
  <2> DEFINE b == [client[p] EXCEPT !.present = FALSE]
             l == [b EXCEPT !.glare = FALSE]
  <2>1. client' = [client EXCEPT ![p] = l] /\ PeerGone(p) /\ tasks' = tasks
    BY <1>3 DEF DeliverLeave
  <2>2. client[p] \in Clients /\ FALSE \in BOOLEAN
    BY Rows
  <2>3. b \in Clients /\ b.sock = client[p].sock /\ b.eager = client[p].eager
    BY <2>2, ClientFlags
  <2> HIDE DEF b
  <2>4. l.sock = b.sock /\ l.eager = b.eager
    BY <2>2, <2>3, ClientFlags
  <2> HIDE DEF l
  <2> QED BY <1>1, <1>2, <2>1, <2>3, <2>4, GoneBonds
<1>4. CASE ~client[p].present
  <2>1. /\ nego' = [nego EXCEPT ![p] = nego[p]] /\ client' = [client EXCEPT ![p] = client[p]]
        /\ pc' = [pc EXCEPT ![p] = pc[p]] /\ orch' = [orch EXCEPT ![p] = orch[p]]
        /\ tasks' = [tasks EXCEPT ![p] = tasks[p]]
    BY <1>4, NothingElse DEF DeliverLeave
  <2>2. \A i \in DOMAIN tasks[p] : Comes(p, tasks[p][i])
    BY ComesOld
  <2> DEFINE n == nego[p]
             l == client[p]
             x == pc[p]
             ts == tasks[p]
             o == orch[p]
  <2>3. /\ nego' = [nego EXCEPT ![p] = n] /\ client' = [client EXCEPT ![p] = l]
        /\ pc' = [pc EXCEPT ![p] = x] /\ orch' = [orch EXCEPT ![p] = o]
        /\ tasks' = [tasks EXCEPT ![p] = ts] /\ \A i \in DOMAIN ts : Comes(p, ts[i])
    BY <2>1, <2>2
  <2>4. /\ n.gen = nego[p].gen /\ n.chan = nego[p].chan /\ (n.fired => nego[p].fired)
        /\ l.eager = client[p].eager /\ l.sock = client[p].sock /\ (client[p].present => l.present)
        /\ x.live = pc[p].live /\ x.exchange = pc[p].exchange /\ (o = "waiting" => orch[p] = "waiting")
    OBVIOUS
  <2> HIDE DEF n, l, x, ts, o
  <2> QED BY <1>1, <2>3, <2>4, TakenBonds
<1> QED BY <1>3, <1>4

LEMMA DeliverOfferBonds ==
  ASSUME BridgesInv, Sides, Bonds, NEW p \in Peer, DeliverOffer(p) PROVE Bonds'
<1> DEFINE m == Head(wire[p])
           l == [client[p] EXCEPT !.present = TRUE]
           at == IF nego[p].inFlight THEN "rollback" ELSE "setRemote"
           k == Task(at, nego[p].gen, m.offer, 0)
           ts == IF Ignores(p) THEN tasks[p] ELSE Append(tasks[p], k)
           n == nego[p]
           x == pc[p]
           o == orch[p]
<1>1. /\ wire[p] # <<>> /\ m.kind = "offer" /\ Take(p)
      /\ client' = [client EXCEPT ![p] = l] /\ tasks' = [tasks EXCEPT ![p] = ts]
  BY DEF DeliverOffer
<1>2. /\ nego' = [nego EXCEPT ![p] = n] /\ pc' = [pc EXCEPT ![p] = x]
      /\ orch' = [orch EXCEPT ![p] = o]
  BY NothingElse DEF DeliverOffer
<1>3. /\ client[p] \in Clients /\ nego[p].gen \in Nat /\ tasks[p] \in Seq(Tasks) /\ TRUE \in BOOLEAN
  BY Rows
<1>4. l.sock = client[p].sock /\ l.eager = client[p].eager
  BY <1>3, ClientFlags
<1>5. l.present
  BY <1>3, PresentSet
<1>6. m.offer \in Offers
  BY <1>1, Delivering
<1>7. k \in Tasks /\ k.at = at /\ k.offer = m.offer
  <2>1. at \in Steps
    BY DEF Steps
  <2> HIDE DEF at, m
  <2> QED BY <1>3, <1>6, <2>1 DEF Task, Tasks
<1>8. at # "applyAnswer"
  OBVIOUS
<1> HIDE DEF at, k, l
<1>9. \A h : Learns(k, h) => TellsOf(m, h)
  BY <1>1, <1>7, <1>8 DEF Learns, TellsOf
<1>10. Comes(p, k)
  BY <1>1, <1>9 DEF Comes
<1>11. \A i \in DOMAIN ts : Comes(p, ts[i])
  <2>1. \A i \in DOMAIN tasks[p] : Comes(p, tasks[p][i])
    BY ComesOld
  <2>2. \A i \in DOMAIN Append(tasks[p], k) : Comes(p, Append(tasks[p], k)[i])
    BY <1>3, <1>7, <1>10, <2>1, ComesLast
  <2> QED BY <2>1, <2>2
<1>12. /\ Take(p) /\ wire[p] # <<>> /\ Head(wire[p]).kind # "join"
       /\ n.gen = nego[p].gen /\ n.chan = nego[p].chan /\ (n.fired => nego[p].fired)
       /\ l.eager = client[p].eager /\ l.sock = client[p].sock /\ (client[p].present => l.present)
       /\ x.live = pc[p].live /\ x.exchange = pc[p].exchange /\ (o = "waiting" => orch[p] = "waiting")
  BY <1>1, <1>4, <1>5
<1> HIDE DEF ts, n, m, x, o
<1> QED BY <1>1, <1>2, <1>11, <1>12, TakenBonds

LEMMA DeliverAnswerBonds ==
  ASSUME BridgesInv, Sides, Bonds, NEW p \in Peer, DeliverAnswer(p) PROVE Bonds'
<1> DEFINE m == Head(wire[p])
           b == [client[p] EXCEPT !.present = TRUE]
           l == [b EXCEPT !.glare = FALSE]
           n == [nego[p] EXCEPT !.inFlight = FALSE]
           k == Task("applyAnswer", nego[p].gen, m.offer, m.answerer)
           ts == Append(tasks[p], k)
           x == pc[p]
           o == orch[p]
<1>1. /\ wire[p] # <<>> /\ m.kind = "answer" /\ Take(p)
      /\ client' = [client EXCEPT ![p] = l] /\ tasks' = [tasks EXCEPT ![p] = ts]
      /\ nego' = [nego EXCEPT ![p] = n]
  BY DEF DeliverAnswer
<1>2. pc' = [pc EXCEPT ![p] = x] /\ orch' = [orch EXCEPT ![p] = o]
  BY NothingElse DEF DeliverAnswer
<1>3. /\ client[p] \in Clients /\ nego[p].gen \in Nat /\ tasks[p] \in Seq(Tasks)
      /\ TRUE \in BOOLEAN /\ FALSE \in BOOLEAN /\ nego[p] \in Bridges
  BY Rows
<1>4. b \in Clients /\ b.sock = client[p].sock /\ b.eager = client[p].eager
  BY <1>3, ClientFlags
<1>5. b.present
  BY <1>3, PresentSet
<1> HIDE DEF b
<1>6. l.sock = b.sock /\ l.eager = b.eager
  BY <1>3, <1>4, ClientFlags
<1>7. l.present = b.present
  BY <1>4, GlarePresent
<1>8. m.offer \in Offers /\ m.answerer \in Nat
  BY <1>1, Delivering DEF Wired
<1>9. n.gen = nego[p].gen /\ n.chan = nego[p].chan
  BY <1>3, BridgeFlight, ZenonT(60)
<1>10. n.fired = nego[p].fired
  BY <1>3, FlightFlags
<1> HIDE DEF m, l, n
<1>11. k \in Tasks /\ k.at = "applyAnswer" /\ k.answerer = m.answerer
  BY <1>3, <1>8 DEF Task, Tasks, Steps
<1> HIDE DEF k
<1>12. \A h : Learns(k, h) => TellsOf(m, h)
  BY <1>1, <1>11 DEF Learns, TellsOf, Answering
<1>13. Comes(p, k)
  BY <1>1, <1>12 DEF Comes, m
<1>14. \A i \in DOMAIN ts : Comes(p, ts[i])
  BY <1>3, <1>11, <1>13, ComesOld, ComesLast
<1>15. /\ Take(p) /\ wire[p] # <<>> /\ Head(wire[p]).kind # "join"
       /\ n.gen = nego[p].gen /\ n.chan = nego[p].chan /\ (n.fired => nego[p].fired)
       /\ l.eager = client[p].eager /\ l.sock = client[p].sock /\ (client[p].present => l.present)
       /\ x.live = pc[p].live /\ x.exchange = pc[p].exchange /\ (o = "waiting" => orch[p] = "waiting")
  BY <1>1, <1>4, <1>5, <1>6, <1>7, <1>9, <1>10 DEF m
<1> HIDE DEF ts, x, o
<1> QED BY <1>1, <1>2, <1>14, <1>15, TakenBonds

-----------------------------------------------------------------------------
(* The events of the peer connection.                                      *)

(* The other end's channel arrives: that end holds it, has completed the   *)
(* exchange, and has no join left to hear.                                 *)
LEMMA ChannelArrivesBonds ==
  ASSUME BridgesInv, Sides, Bonds, NEW p \in Peer, ChannelArrives(p) PROVE Bonds'
<1> DEFINE q == Other(p)
           u == wire'[q]
           v == wire'[p]
           theirs == pc[q].live
           x == [pc[p] EXCEPT !.arrived = theirs]
           n == Recorded(nego[p], theirs)
           l == client[p]
           ts == tasks[p]
           o == orch[p]
<1>1. /\ Linked /\ pc' = [pc EXCEPT ![p] = x] /\ nego' = [nego EXCEPT ![p] = n]
      /\ theirs # None
  BY DEF ChannelArrives
<1>2. /\ client' = [client EXCEPT ![p] = l] /\ tasks' = [tasks EXCEPT ![p] = ts]
      /\ orch' = [orch EXCEPT ![p] = o]
  BY NothingElse DEF ChannelArrives
<1>3. v = wire[p] /\ u = wire[q]
  BY DEF ChannelArrives
<1>4. /\ q \in Peer /\ q # p /\ Follows(p, q) /\ AnchoredEnd(p) /\ AnchoredEnd(q)
      /\ ~client[p].eager /\ ~client[q].eager => ~(Makes(p) /\ Makes(q))
      /\ JoinsFirst(q, tasks[q], wire[q], pc[q].exchange, nego[p].gen)
  BY BondsNow
<1>5. Other(q) = p
  BY <1>4, TheOther
<1>6. theirs = nego[q].chan /\ theirs.by = q
  <2>1. theirs \in {None, nego[q].chan}
    BY <1>4, HereLatches
  <2>2. theirs.by = q
    BY <1>1, <1>4 DEF AnchoredEnd, Anchored
  <2> QED BY <1>1, <2>1, <2>2
<1>7. theirs \in Channels
  <2>1. pc[q] \in Connections
    BY <1>4, Rows
  <2> QED BY <1>1, <2>1 DEF Connections
<1>8. pc[p].exchange # None
  BY <1>1, LinkedJoined DEF Joined
<1>9. pc[q].exchange # None /\ ~JoinIn(wire[q])
  <2>1. Joined(q, pc[q].exchange, nego[p].gen)
    BY <1>1, <1>4, <1>5, LinkedJoined
  <2> QED BY <1>4, <2>1 DEF Joined, JoinsFirst
<1>10. x.live = pc[p].live /\ x.exchange = pc[p].exchange
  BY Rows DEF Connections
<1> HIDE DEF theirs
<1>11. /\ n.gen = nego[p].gen /\ n.fired = nego[p].fired
       /\ n.chan = IF nego[p].chan = None THEN theirs ELSE nego[p].chan
  BY <1>7, Rows, RecordedBridge, RecordedFlags
<1> HIDE DEF x, n, u, v, q
<1>12. Anchored(p, n, l, x, ts)
  <2>1. Anchored(p, nego[p], l, pc[p], ts)
    BY <1>4 DEF AnchoredEnd
  <2>2. l.sock # "dialing"
    BY <1>8, <2>1 DEF Anchored
  <2>3. x.live # None => x.live.by = p
    BY <1>10, <2>1 DEF Anchored
  <2>4. n.fired => x.exchange # None /\ (l.present \/ l.sock = "none")
    BY <1>10, <1>11, <2>1 DEF Anchored
  <2> QED BY <2>2, <2>3, <2>4 DEF Anchored
<1>13. ASSUME Hears(p, ts, v, x.exchange, nego[q].gen, l.sock, client[q].sock),
              n.chan # None, n.chan.by = q
       PROVE  Stays(orch[q], nego[q], pc[q], u, n.chan)
  <2>1. CASE nego[p].chan = None
    <3>1. n.chan = nego[q].chan
      BY <1>6, <1>11, <2>1
    <3> QED BY <1>3, <1>9, <3>1 DEF Stays
  <2>2. CASE nego[p].chan # None
    <3>1. n.chan = nego[p].chan
      BY <1>11, <2>2
    <3>2. HearsOf(p, q)
      BY <1>3, <1>10, <1>13 DEF HearsOf
    <3> QED BY <1>3, <1>4, <1>13, <3>1, <3>2 DEF Follows
  <2> QED BY <2>1, <2>2
<1>14. nego[q].chan.by # p
  BY <1>4, <1>6
<1>15. ~client[p].eager /\ ~client[q].eager => ~(Making(p, n, v) /\ Making(q, nego[q], u))
  <2>1. Making(p, n, v) => Makes(p)
    <3>1. n.chan # None /\ n.chan.by = p => nego[p].chan # None /\ nego[p].chan.by = p
      BY <1>4, <1>6, <1>11
    <3> QED BY <1>3, <3>1 DEF Making, Makes
  <2>2. Making(q, nego[q], u) => Makes(q)
    BY <1>3 DEF Makes
  <2> QED BY <1>4, <2>1, <2>2
<1>16. u = wire'[q] /\ q = Other(p) /\ wire'[p] = v /\ l.eager = client[p].eager
  BY DEF u, v, q
<1>17. pc' = [pc EXCEPT ![p] = x] /\ nego' = [nego EXCEPT ![p] = n]
  BY <1>1
<1>18. Hears(p, ts, v, x.exchange, nego[q].gen, l.sock, client[q].sock)
         /\ n.chan # None /\ n.chan.by = q => Stays(orch[q], nego[q], pc[q], u, n.chan)
  BY <1>13
<1>19. Hears(q, tasks[q], u, pc[q].exchange, n.gen, client[q].sock, l.sock)
         /\ nego[q].chan # None /\ nego[q].chan.by = p => Stays(o, n, x, v, nego[q].chan)
  BY <1>14
<1> HIDE DEF l, ts, o
<1> QED BY <1>2, <1>12, <1>15, <1>16, <1>17, <1>18, <1>19, BondsStep

LEMMA ChannelOpensBonds ==
  ASSUME BridgesInv, Sides, Bonds, NEW p \in Peer, ChannelOpens(p) PROVE Bonds'
<1> DEFINE u == [nego[p] EXCEPT !.open = TRUE]
           a == [u EXCEPT !.fired = TRUE]
           b == [a EXCEPT !.suppress = TRUE]
           c == [b EXCEPT !.timer = TRUE]
           n == IF Ready(p, u) THEN c ELSE u
           o == IF Ready(p, u) THEN "attached" ELSE orch[p]
           l == client[p]
           x == pc[p]
           ts == tasks[p]
           v == wire[p]
<1>1. /\ Linked /\ nego' = [nego EXCEPT ![p] = n] /\ orch' = [orch EXCEPT ![p] = o]
  BY DEF ChannelOpens, MaybeFire
<1>2. TRUE \in BOOLEAN /\ nego[p] \in Bridges
  BY Rows
<1>3. u \in Bridges
  BY <1>2, BridgeFlag
<1>4. u.gen = nego[p].gen /\ u.chan = nego[p].chan
  BY <1>2, <1>3, BridgeFlagKeeps
<1>5. u.fired = nego[p].fired
  BY <1>2, OpenFlags
<1> HIDE DEF u
<1>6. a \in Bridges
  BY <1>2, <1>3, BridgeFlag
<1>7. a.gen = u.gen /\ a.chan = u.chan
  BY <1>3, <1>6, BridgeFlagKeeps
<1> HIDE DEF a
<1>8. b \in Bridges
  BY <1>2, <1>6, BridgeFlag
<1>9. b.gen = a.gen /\ b.chan = a.chan
  BY <1>6, <1>8, BridgeFlagKeeps
<1> HIDE DEF b
<1>10. c \in Bridges
  BY <1>2, <1>8, BridgeFlag
<1>11. c.gen = b.gen /\ c.chan = b.chan
  BY <1>8, <1>10, BridgeFlagKeeps
<1> HIDE DEF c
<1>12. n.gen = nego[p].gen /\ n.chan = nego[p].chan
  BY <1>4, <1>7, <1>9, <1>11
<1>13. Ready(p, u) => orch[p] = "waiting"
  BY DEF Ready
<1>14. ~Ready(p, u) => (n.fired => nego[p].fired) /\ o = orch[p]
  BY <1>5
<1>15. Ready(p, u) => o # "waiting"
  OBVIOUS
<1> HIDE DEF n, o
<1>16. pc[p].exchange # None
  BY <1>1, LinkedJoined DEF Joined
<1>17. orch[p] = "waiting" => client[p].present
  BY <1>16, HereNow DEF Here, Side, Attends
<1>18. Anchored(p, n, l, x, ts)
  <2>1. Anchored(p, nego[p], client[p], pc[p], tasks[p])
    BY BondsNow DEF AnchoredEnd
  <2>2. l.sock # "dialing"
    BY <1>16, <2>1 DEF Anchored
  <2>3. n.fired => l.present \/ l.sock = "none"
    BY <1>13, <1>14, <1>17, <2>1 DEF Anchored
  <2>4. x.live # None => x.live.by = p
    BY <2>1 DEF Anchored
  <2> QED BY <1>16, <2>2, <2>3, <2>4 DEF Anchored
<1>19. Counts(o, n) => Counts(orch[p], nego[p])
  BY <1>13, <1>14 DEF Counts
<1>20. /\ client' = [client EXCEPT ![p] = l] /\ pc' = [pc EXCEPT ![p] = x]
       /\ tasks' = [tasks EXCEPT ![p] = ts]
  BY NothingElse DEF ChannelOpens
<1>21. Quiet(p) /\ wire'[p] = v
  BY QuietKept DEF ChannelOpens
<1>22. /\ v = wire[p] /\ l.eager = client[p].eager /\ l.sock \in {client[p].sock, "none"}
       /\ n.gen = nego[p].gen /\ n.chan \in {None, nego[p].chan}
       /\ Counts(o, n) => Counts(orch[p], nego[p]) /\ (pc[p].exchange # None => x.exchange # None)
  BY <1>12, <1>19
<1>23. \A h : \A i \in DOMAIN ts : Learns(ts[i], h) =>
            \/ \E j \in DOMAIN tasks[p] : Learns(tasks[p][j], h)
            \/ wire[p] # <<>> /\ TellsOf(Head(wire[p]), h)
  OBVIOUS
<1>24. \A h : Joined(p, x.exchange, h) => \/ Joined(p, pc[p].exchange, h)
                                          \/ \E j \in DOMAIN tasks[p] : Learns(tasks[p][j], h)
  OBVIOUS
<1>25. nego' = [nego EXCEPT ![p] = n] /\ orch' = [orch EXCEPT ![p] = o]
  BY <1>1
<1> HIDE DEF l, x, ts, v
<1> QED BY <1>18, <1>20, <1>21, <1>22, <1>23, <1>24, <1>25, BondsKept

LEMMA ConnectionFailsBonds ==
  ASSUME BridgesInv, Sides, Bonds, NEW p \in Peer, ConnectionFails(p) PROVE Bonds'
<1> DEFINE n == Released(nego[p])
           l == EndOffer(client[p])
           y == CloseLocal(pc[p], nego[p].chan)
           x == [y EXCEPT !.exchange = None]
           o == Dropped(orch[p])
           ts == tasks[p]
           v == wire[p]
<1>1. /\ nego' = [nego EXCEPT ![p] = n] /\ client' = [client EXCEPT ![p] = l]
      /\ pc' = [pc EXCEPT ![p] = x] /\ orch' = [orch EXCEPT ![p] = o]
  BY DEF ConnectionFails
<1>2. /\ nego[p] \in Bridges /\ client[p] \in Clients /\ pc[p] \in Connections
  BY Rows
<1>3. n.gen = nego[p].gen /\ n.chan = None
  BY <1>2, ReleasedBridge
<1>4. ~n.fired
  BY <1>2, ReleasedFlags
<1>5. l.sock = client[p].sock
  BY <1>2, EndOfferPresent
<1>6. l.eager = client[p].eager
  BY <1>2, EndOfferEager
<1>7. y \in Connections /\ y.live = None
  BY <1>2, ClosedConnection, LiveClosed
<1> HIDE DEF y
<1>8. x.live = None /\ x.exchange = None
  BY <1>7 DEF Connections
<1>9. o # "waiting"
  BY DroppedWaits
<1>10. tasks' = [tasks EXCEPT ![p] = ts]
  BY NothingElse DEF ConnectionFails
<1>11. Quiet(p) /\ wire'[p] = v
  BY QuietKept DEF ConnectionFails
<1>12. v = wire[p] /\ \A i \in DOMAIN ts : Comes(p, ts[i])
  BY ComesOld
<1> HIDE DEF n, l, x, o, ts, v
<1> QED BY <1>1, <1>3, <1>4, <1>5, <1>6, <1>8, <1>9, <1>10, <1>11, <1>12, BondsGoOn

-----------------------------------------------------------------------------
LEMMA BondsInit == Init => Bonds
<1> SUFFICES ASSUME Init PROVE Bonds
  OBVIOUS
<1>1. ASSUME NEW p \in Peer
      PROVE  /\ orch[p] = "left" /\ nego[p] = FreshNego(0, 0) /\ pc[p] = FreshPc
             /\ tasks[p] = <<>> /\ wire[p] = <<>> /\ client[p].sock = "none"
  BY DEF Init, NoClient
<1>2. ASSUME NEW p \in Peer
      PROVE  nego[p].chan = None /\ ~nego[p].fired /\ pc[p].live = None /\ pc[p].exchange = None
             /\ ~JoinIn(wire[p])
  <2>1. nego[p].chan = None /\ ~nego[p].fired
    <3>1. 0 \in Nat
      OBVIOUS
    <3> QED BY <1>1, <3>1, FreshFacts
  <2>2. pc[p].live = None /\ pc[p].exchange = None
    BY <1>1, FreshHolds
  <2>3. ~JoinIn(wire[p])
    BY <1>1 DEF JoinIn
  <2> QED BY <2>1, <2>2, <2>3
<1>3. \A p \in Peer : AnchoredEnd(p)
  BY <1>1, <1>2 DEF AnchoredEnd, Anchored
<1>4. \A p, q \in Peer : p # q => Follows(p, q)
  BY <1>2 DEF Follows
<1>5. OneMakes
  BY <1>2 DEF OneMakes, Makes, Making
<1> QED BY <1>3, <1>4, <1>5 DEF Bonds

LEMMA BondsStepAll == BridgesInv /\ Sides /\ Bonds /\ [Next]_vars => Bonds'
<1> SUFFICES ASSUME BridgesInv, Sides, Bonds, [Next]_vars PROVE Bonds'
  OBVIOUS
<1>1. CASE UNCHANGED vars
  <2>1. /\ orch' = orch /\ nego' = nego /\ client' = client /\ pc' = pc
        /\ tasks' = tasks /\ wire' = wire
    BY <1>1 DEF vars
  <2>2. \A p \in Peer : AnchoredEnd(p)'
    BY <2>1, BondsPrimed DEF Bonds, AnchoredEnd
  <2>3. \A p, q \in Peer : p # q => Follows(p, q)'
    <3> SUFFICES ASSUME NEW p \in Peer, NEW q \in Peer, p # q PROVE Follows(p, q)'
      OBVIOUS
    <3>1. Follows(p, q)
      BY DEF Bonds
    <3> QED BY <2>1, <3>1, BondsPrimed DEF Follows, HearsOf
  <2>4. \A p \in Peer : Makes(p)' <=> Makes(p)
    BY <2>1, BondsPrimed DEF Makes
  <2>5. OneMakes'
    BY <2>1, <2>4 DEF OneMakes, Bonds
  <2> QED BY <2>2, <2>3, <2>5 DEF Bonds
<1>2. CASE Next
  <2>1. PICK p \in Peer :
             \/ Start(p) \/ Reconnect(p) \/ Close(p) \/ SessionEnds(p)
             \/ SocketDrop(p) \/ ConnectionFails(p) \/ SocketOpen(p) \/ Deliver(p)
             \/ Settle(p) \/ ChannelArrives(p) \/ ChannelOpens(p) \/ GraceExpires(p)
    BY <1>2 DEF Next, Events
  <2> QED
    BY <2>1, StartBonds, ReconnectBonds, CloseBonds, SessionEndsBonds, SocketDropBonds,
       ConnectionFailsBonds, SocketOpenBonds, DeliverJoinBonds, DeliverLeaveBonds,
       DeliverAnswerBonds, CounterOfferBonds, DeliverOfferBonds, SettleBonds,
       ChannelArrivesBonds, ChannelOpensBonds, GraceExpiresBonds DEF Deliver
<1> QED BY <1>1, <1>2

-----------------------------------------------------------------------------
(* Each end fired on a channel of its own: an end from before the rollback *)
(* rules offered too, and neither offer was withdrawn.                     *)
EachItsOwn == /\ \E p \in Peer : client[p].eager
              /\ \A p \in Peer : nego[p].chan # None /\ nego[p].chan.by = p

(* An end that adopted the other one's channel holds what the other holds. *)
LEMMA FiredFollows ==
  ASSUME BridgesInv, Sides, Bonds, Linked, \A p \in Peer : nego[p].fired,
         NEW p \in Peer, NEW q, q = Other(p)
  PROVE  /\ q \in Peer /\ p = Other(q) /\ nego[p].chan \in Channels
         /\ nego[p].chan.by = q => nego[p].chan = nego[q].chan
<1>1. q \in Peer /\ q # p /\ \A r \in Peer : r # p => r = q
  BY TheOther
<1>2. p = Other(q)
  <2>1. Other(q) \in Peer /\ Other(q) # q
    BY <1>1, TheOther
  <2> QED BY <1>1, <2>1
<1>3. nego[p].chan # None /\ nego[q].chan # None
  BY <1>1, HereLatches
<1>4. nego[p].chan \in Channels
  <2>1. nego[p] \in Bridges
    BY Rows
  <2> QED BY <1>3, <2>1 DEF Bridges
<1>5. Joined(p, pc[p].exchange, nego[q].gen)
  BY LinkedJoined
<1>6. ~JoinIn(wire[p])
  BY <1>5, BondsNow DEF JoinsFirst
<1>7. HearsOf(p, q)
  BY <1>5, <1>6 DEF HearsOf, Hears, Says
<1>8. Follows(p, q)
  BY BondsNow
<1>9. Counts(orch[q], nego[q])
  BY <1>1 DEF Counts
<1>10. nego[p].chan.by = q => nego[q].chan \in {None, nego[p].chan}
  BY <1>3, <1>7, <1>8, <1>9 DEF Follows, Stays
<1> QED BY <1>1, <1>2, <1>3, <1>4, <1>10

LEMMA BondsAgree == BridgesInv /\ Sides /\ Bonds => SameChannel \/ EachItsOwn
<1> SUFFICES ASSUME BridgesInv, Sides, Bonds, Linked, \A p \in Peer : nego[p].fired, ~EachItsOwn,
                    NEW p \in Peer
             PROVE  nego[p].chan = nego[Other(p)].chan
  BY DEF SameChannel
<1> DEFINE q == Other(p)
<1>1. q \in Peer /\ q # p /\ \A r \in Peer : r = p \/ r = q
  BY TheOther
<1>2. /\ p = Other(q) /\ nego[p].chan \in Channels
      /\ nego[p].chan.by = q => nego[p].chan = nego[q].chan
  BY FiredFollows
<1>3. /\ nego[q].chan \in Channels
      /\ nego[q].chan.by = p => nego[q].chan = nego[p].chan
  BY <1>1, <1>2, FiredFollows
<1>4. nego[p].chan.by \in {p, q} /\ nego[q].chan.by \in {p, q}
  BY <1>1, <1>2, <1>3 DEF Channels
<1>5. ~(nego[p].chan.by = p /\ nego[q].chan.by = q)
  <2> SUFFICES ASSUME nego[p].chan.by = p, nego[q].chan.by = q PROVE FALSE
    OBVIOUS
  <2>1. nego[p].chan # None /\ nego[q].chan # None
    BY <1>1, HereLatches
  <2>2. Makes(p) /\ Makes(q)
    BY <2>1 DEF Makes, Making
  <2>3. \E r \in Peer : client[r].eager
    BY <1>1, <2>2 DEF Bonds, OneMakes
  <2> QED BY <1>1, <2>1, <2>3 DEF EachItsOwn
<1> QED BY <1>2, <1>3, <1>4, <1>5

(* Two linked bridges that both fired hold one channel, for any number of  *)
(* re-dials, faults and parked coroutines: an end that hears of the other  *)
(* one's connection first hears its join and lets go of what it held, so   *)
(* whoever made the channel an end adopts has that one or none.  Only if   *)
(* one end runs a client from before offers followed presence is a second  *)
(* outcome left, each with its own.                                        *)
THEOREM ChannelsAgree == Spec => [](SameChannel \/ EachItsOwn)
<1>1. BridgesInv /\ [Next]_vars => BridgesInv'
  BY BridgesStep
<1> QED BY <1>1, BridgesInit, SidesInit, SidesStep, BondsInit, BondsStepAll, BondsAgree, PTL DEF Spec

(* Which version an end runs never changes.                                *)
LEMMA VersionsKept ==
  ASSUME BridgesInv, [Next]_vars, NEW p \in Peer PROVE client'[p].eager = client[p].eager
<1>1. \A r \in Peer : client[r] \in Clients
  BY Rows
<1>2. client \in [Peer -> Clients]
  BY Rows
<1>3. ASSUME NEW r \in Peer, NEW l, client' = [client EXCEPT ![r] = l], l.eager = client[r].eager
      PROVE  client'[p].eager = client[p].eager
  BY <1>2, <1>3
<1>4. CASE UNCHANGED vars
  BY <1>4 DEF vars
<1>5. CASE Next
  <2>1. PICK r \in Peer :
             \/ Start(r) \/ Reconnect(r) \/ Close(r) \/ SessionEnds(r)
             \/ SocketDrop(r) \/ ConnectionFails(r) \/ SocketOpen(r) \/ Deliver(r)
             \/ Settle(r) \/ ChannelArrives(r) \/ ChannelOpens(r) \/ GraceExpires(r)
    BY <1>5 DEF Next, Events
  <2>2. client[r] \in Clients
    BY <1>1
  <2>3. CASE \/ Start(r) \/ Reconnect(r) \/ Close(r) \/ SocketDrop(r) \/ GraceExpires(r) \/ SocketOpen(r)
    <3> DEFINE l == [NoClient EXCEPT !.sock = "dialing", !.eager = client[r].eager]
               m == [NoClient EXCEPT !.eager = client[r].eager]
               n == [client[r] EXCEPT !.sock = "open"]
    <3>1. l.eager = client[r].eager /\ m.eager = client[r].eager
      BY DEF NoClient
    <3>2. n.eager = client[r].eager
      BY <2>2 DEF Clients
    <3>3. \/ client' = [client EXCEPT ![r] = l] \/ client' = [client EXCEPT ![r] = m]
          \/ client' = [client EXCEPT ![r] = n]
      BY <2>3 DEF Start, Reconnect, Close, SocketDrop, GraceExpires, SocketOpen
    <3> HIDE DEF l, m, n
    <3> QED BY <1>3, <3>1, <3>2, <3>3
  <2>4. CASE SessionEnds(r) \/ ChannelArrives(r) \/ ChannelOpens(r)
    BY <2>4 DEF SessionEnds, ChannelArrives, ChannelOpens
  <2>5. CASE ConnectionFails(r)
    <3>1. client' = [client EXCEPT ![r] = EndOffer(client[r])]
      BY <2>5 DEF ConnectionFails
    <3> QED BY <1>3, <2>2, <3>1, EndOfferEager
  <2>6. CASE Deliver(r)
    <3> DEFINE l == [[client[r] EXCEPT !.present = TRUE] EXCEPT !.glare = TRUE]
               m == [[client[r] EXCEPT !.present = FALSE] EXCEPT !.glare = FALSE]
               n == [[client[r] EXCEPT !.present = TRUE] EXCEPT !.glare = FALSE]
               k == [client[r] EXCEPT !.present = TRUE]
    <3>1. /\ l.eager = client[r].eager /\ m.eager = client[r].eager
          /\ n.eager = client[r].eager /\ k.eager = client[r].eager
      BY <2>2 DEF Clients
    <3>2. \/ client' = client \/ client' = [client EXCEPT ![r] = l]
          \/ client' = [client EXCEPT ![r] = m] \/ client' = [client EXCEPT ![r] = n]
          \/ client' = [client EXCEPT ![r] = k]
      <4>1. CASE DeliverJoin(r) \/ CounterOffer(r)
        BY <1>2, <4>1 DEF DeliverJoin, CounterOffer, Originates
      <4>2. CASE DeliverLeave(r)
        BY <1>2, <4>2 DEF DeliverLeave
      <4>3. CASE DeliverAnswer(r)
        BY <1>2, <4>3 DEF DeliverAnswer
      <4>4. CASE DeliverOffer(r)
        BY <1>2, <4>4 DEF DeliverOffer
      <4> QED BY <2>6, <4>1, <4>2, <4>3, <4>4 DEF Deliver
    <3> HIDE DEF l, m, n, k
    <3> QED BY <1>3, <3>1, <3>2
  <2>7. CASE Settle(r)
    <3>1. client' = client \/ client' = [client EXCEPT ![r] = EndOffer(client[r])]
            \/ client' = [client EXCEPT ![r].glare = client[r].glare \/ Seated(r)]
      BY <2>7 DEF Settle, OfferCreated, OfferSet, RolledBack, AnswerAdvances, AnswerSet,
             AnswerApplied, OfferFails, RollbackFails, AnswerFails, AnswerRefused
    <3>2. CASE client' = [client EXCEPT ![r] = EndOffer(client[r])]
      BY <1>3, <2>2, <3>2, EndOfferEager
    <3>3. CASE client' = [client EXCEPT ![r].glare = client[r].glare \/ Seated(r)]
      BY <1>2, <3>3 DEF Clients
    <3> QED BY <3>1, <3>2, <3>3
  <2> QED BY <2>1, <2>3, <2>4, <2>5, <2>6, <2>7
<1> QED BY <1>4, <1>5

(* Both ends run this version.                                             *)
OneVersion == \A p \in Peer : ~client[p].eager

(* Between bridges of this version both ends hold the same channel, always: *)
(* no frame goes into a channel the other end does not listen to.          *)
THEOREM SameVersionAgrees == ASSUME Eager = {} PROVE Spec => []SameChannel
<1>1. BridgesInv /\ [Next]_vars => BridgesInv'
  BY BridgesStep
<1>2. Init => OneVersion
  <2> SUFFICES ASSUME Init, NEW p \in Peer PROVE ~client[p].eager
    BY DEF OneVersion
  <2> DEFINE v == p \in {}
  <2>1. ~v /\ v \in BOOLEAN
    OBVIOUS
  <2>2. client[p] = [NoClient EXCEPT !.eager = v]
    BY DEF Init
  <2> HIDE DEF v
  <2>3. client[p].eager = v
    BY <2>1, <2>2, NoClients
  <2> QED BY <2>1, <2>3
<1>3. BridgesInv /\ OneVersion /\ [Next]_vars => OneVersion'
  BY VersionsKept DEF OneVersion
<1>4. OneVersion /\ (SameChannel \/ EachItsOwn) => SameChannel
  BY DEF OneVersion, EachItsOwn
<1> QED BY <1>1, <1>2, <1>3, <1>4, BridgesInit, ChannelsAgree, PTL DEF Spec
=============================================================================
