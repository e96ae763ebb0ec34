---------------------------- MODULE BrokerProofs ----------------------------
(***************************************************************************)
(* The broker's seating, its limits and its notifications are consistent,  *)
(* for any number of sockets, rooms and labels and any limits.             *)
(*                                                                         *)
(* The properties are inductive together with two facts: a socket that is  *)
(* not open or not seated has been told nothing, and three sockets never   *)
(* share a pair room.                                                      *)
(***************************************************************************)
EXTENDS Broker, FiniteSetTheorems, TLAPS

SilentUnlessSeated ==
  \A s \in Sockets : s \notin alive \/ conn[s].room = NoRoom => view[s] = {}

NoThirdInPair ==
  \A r \in Rooms : mode[r] = "pair" =>
    \A a, b, c \in Seated(r) : a = b \/ b = c \/ a = c

BrokerInv ==
  /\ TypeOK
  /\ SeatsMatchConnections
  /\ NoThirdInPair
  /\ SilentUnlessSeated
  /\ OneOfTwoIsTold
  /\ NoGhostMembers

-----------------------------------------------------------------------------
(* Lemmas on sets.                                                         *)

LEMMA SeatedFinite ==
  \A r : IsFiniteSet(Seated(r)) /\ Cardinality(Seated(r)) \in Nat
  <1> TAKE r
  <1>1. Seated(r) \in SUBSET Sockets
    BY DEF Seated
  <1> QED BY <1>1, FiniteAssumption, FS_Subset, FS_CardinalityType

LEMMA AtMostOne ==
  ASSUME NEW S, IsFiniteSet(S), Cardinality(S) < 2, NEW a \in S, NEW b \in S
  PROVE  a = b
  <1> SUFFICES ASSUME a # b PROVE FALSE
    OBVIOUS
  <1>1. IsFiniteSet({a}) /\ Cardinality({a}) = 1
    BY FS_Singleton
  <1>2. Cardinality({a} \cup {b}) = 2
    BY <1>1, FS_AddElement
  <1>3. Cardinality({a} \cup {b}) <= Cardinality(S)
    BY FS_Subset
  <1> QED BY <1>2, <1>3, FS_CardinalityType

LEMMA OneMore ==
  ASSUME NEW S, NEW x, IsFiniteSet(S)
  PROVE  /\ Cardinality(S \cup {x}) \in Nat
         /\ Cardinality(S \cup {x}) <= Cardinality(S) + 1
  <1>1. IsFiniteSet(S \cup {x})
    BY FS_AddElement
  <1>2. Cardinality(S \cup {x}) = IF x \in S THEN Cardinality(S) ELSE Cardinality(S) + 1
    BY FS_AddElement
  <1>3. Cardinality(S) \in Nat
    BY FS_CardinalityType
  <1>4. Cardinality(S \cup {x}) \in Nat
    BY <1>1, FS_CardinalityType
  <1> QED BY <1>2, <1>3, <1>4

(* A socket sits in a room exactly when its connection says so.            *)
LEMMA SeatedIsRoom ==
  ASSUME TypeOK, SeatsMatchConnections, NEW r \in Rooms, NEW s \in Sockets
  PROVE  s \in Seated(r) <=> conn[s].room = r
  <1>1. ASSUME s \in Seated(r) PROVE conn[s].room = r
    <2>1. PICK x \in seats : x.room = r /\ x.socket = s
      BY <1>1 DEF Seated
    <2>2. conn[s] = [room |-> x.room, peer |-> x.peer]
      BY <2>1 DEF SeatsMatchConnections
    <2> QED BY <2>1, <2>2
  <1>2. ASSUME conn[s].room = r PROVE s \in Seated(r)
    <2> DEFINE x == [room |-> conn[s].room, peer |-> conn[s].peer, socket |-> s]
    <2>1. x \in seats
      BY <1>2, NamesAssumption DEF SeatsMatchConnections
    <2>2. x.room = r /\ x.socket = s
      BY <1>2
    <2> QED BY <2>1, <2>2 DEF Seated
  <1> QED BY <1>1, <1>2

(* The mode of a room tells whether its seats carry labels.                *)
LEMMA LabelIsMode ==
  ASSUME TypeOK, SeatsMatchConnections, NEW s \in Sockets, conn[s].room # NoRoom
  PROVE  /\ conn[s].room \in Rooms
         /\ mode[conn[s].room] = IF conn[s].peer = NoPeer THEN "pair" ELSE "group"
  <1> DEFINE x == [room |-> conn[s].room, peer |-> conn[s].peer, socket |-> s]
  <1>1. x \in seats
    BY DEF SeatsMatchConnections
  <1>2. x.room = conn[s].room /\ x.peer = conn[s].peer
    OBVIOUS
  <1>3. x.room \in Rooms
    BY <1>1 DEF TypeOK
  <1> HIDE DEF x
  <1> QED BY <1>1, <1>2, <1>3 DEF SeatsMatchConnections

(* In a group, equal labels are one socket.                                *)
LEMMA LabelIsSocket ==
  ASSUME TypeOK, SeatsMatchConnections, NEW s \in Sockets, NEW t \in Sockets,
         conn[s].room # NoRoom, conn[s].room = conn[t].room,
         conn[s].peer # NoPeer, conn[s].peer = conn[t].peer
  PROVE  s = t
  <1> DEFINE Seat(u) == [room |-> conn[u].room, peer |-> conn[u].peer, socket |-> u]
  <1>1. Seat(s) \in seats /\ Seat(t) \in seats
    BY DEF SeatsMatchConnections
  <1>2. Seat(s) = Seat(t)
    BY <1>1 DEF SeatsMatchConnections
  <1> QED BY <1>2

-----------------------------------------------------------------------------
(* The kinds of step.                                                      *)

LEMMA CloseStep ==
  ASSUME BrokerInv, NEW s \in Sockets, CloseSocket(s), UNCHANGED <<tracked, registry>>
  PROVE  BrokerInv'
  <1> USE DEF BrokerInv, registry
  <1>1. TypeOK'
    BY LimitsAssumption DEF TypeOK, CloseSocket
  <1>2. SeatsMatchConnections' /\ NoThirdInPair'
    BY DEF SeatsMatchConnections, NoThirdInPair, Seated
  <1>3. \A t \in Sockets : view'[t] = IF t = s THEN {} ELSE view[t]
    BY DEF TypeOK, CloseSocket
  <1>4. SilentUnlessSeated'
    BY <1>3 DEF SilentUnlessSeated, CloseSocket
  <1>5. OneOfTwoIsTold'
    BY <1>3 DEF OneOfTwoIsTold, CloseSocket, TypeOK
  <1>6. NoGhostMembers'
    BY <1>3 DEF NoGhostMembers, CloseSocket, TypeOK, Seated
  <1> QED BY <1>1, <1>2, <1>4, <1>5, <1>6

LEMMA QuietStep ==
  ASSUME BrokerInv, UNCHANGED <<tracked, alive, registry, view>>,
         backlog' \in [Sockets -> 0 .. MaxBuffered + 1]
  PROVE  BrokerInv'
  BY DEF BrokerInv, registry, TypeOK, SeatsMatchConnections, NoThirdInPair, Seated,
         SilentUnlessSeated, OneOfTwoIsTold, NoGhostMembers

LEMMA OpenStep ==
  ASSUME BrokerInv, NEW s \in Sockets, Open(s)
  PROVE  BrokerInv'
  <1> USE DEF BrokerInv, registry, Open
  <1>1. TypeOK'
    BY DEF TypeOK
  <1>2. SeatsMatchConnections' /\ NoThirdInPair'
    BY DEF SeatsMatchConnections, NoThirdInPair, Seated
  <1>3. conn[s].room = NoRoom
    BY DEF SeatsMatchConnections
  <1>4. view[s] = {}
    BY <1>3 DEF SilentUnlessSeated
  <1>5. SilentUnlessSeated'
    BY <1>3, <1>4 DEF SilentUnlessSeated
  <1>6. OneOfTwoIsTold'
    BY <1>3, <1>4 DEF OneOfTwoIsTold, TypeOK
  <1>7. NoGhostMembers'
    BY <1>4 DEF NoGhostMembers, Seated
  <1> QED BY <1>1, <1>2, <1>5, <1>6, <1>7

(* What a join that is let through finds and changes.                      *)
JoinChanges(s, r, p) ==
  /\ s \in Sockets /\ conn[s].room = NoRoom /\ view[s] = {} /\ r # NoRoom
  /\ s \notin Seated(r)
  /\ mode[r] \in {"none", ModeOf(p)}
  /\ ModeOf(p) = "group" => \A x \in seats : x.room = r => x.peer # p
  /\ ModeOf(p) = "pair" => \A a, b \in Seated(r) : a = b
  /\ \A t \in Sockets : conn'[t] = IF t = s THEN [room |-> r, peer |-> p] ELSE conn[t]
  /\ \A q \in Rooms : mode'[q] = IF q = r THEN ModeOf(p) ELSE mode[q]
  /\ seats' = seats \cup {[room |-> r, peer |-> p, socket |-> s]}
  /\ tracked' = tracked /\ alive' = alive
  /\ \A t \in Sockets : view'[t] = IF t \in Seated(r) \cap alive
                                 THEN view[t] \cup {p} ELSE view[t]
  /\ \A q \in Rooms : Seated(q)' = IF q = r THEN Seated(r) \cup {s} ELSE Seated(q)

LEMMA JoinShape ==
  ASSUME BrokerInv, NEW s \in tracked, NEW r \in Rooms, NEW p \in Labels,
         JoinSeated(s, r, ModeOf(p), p)
  PROVE  JoinChanges(s, r, p)
  <1> DEFINE seat == [room |-> r, peer |-> p, socket |-> s]
  <1>0. TypeOK /\ SeatsMatchConnections /\ NoThirdInPair /\ SilentUnlessSeated
        /\ OneOfTwoIsTold /\ NoGhostMembers
    BY DEF BrokerInv
  <1>1. s \in Sockets /\ conn[s].room = NoRoom /\ view[s] = {} /\ r # NoRoom
    BY <1>0, NamesAssumption DEF JoinSeated, MaySit, SilentUnlessSeated, TypeOK
  <1>2. s \notin Seated(r)
    BY <1>0, <1>1, SeatedIsRoom
  <1>3. /\ mode[r] \in {"none", ModeOf(p)}
        /\ ModeOf(p) = "group" => \A x \in seats : x.room = r => x.peer # p
        /\ ModeOf(p) = "pair" => \A a, b \in Seated(r) : a = b
    <2>1. /\ mode[r] \in {"none", ModeOf(p)}
          /\ ModeOf(p) = "group" => \A x \in seats : x.room = r => x.peer # p
      BY DEF JoinSeated, MaySit, Rejected
    <2>2. ModeOf(p) = "pair" => Cardinality(Seated(r)) < 2
      BY SeatedFinite DEF JoinSeated, MaySit, Rejected, Full, MaxPeersPerRoom
    <2> QED BY <2>1, <2>2, SeatedFinite, AtMostOne
  <1>4. /\ \A t \in Sockets : conn'[t] = IF t = s THEN [room |-> r, peer |-> p] ELSE conn[t]
        /\ \A q \in Rooms : mode'[q] = IF q = r THEN ModeOf(p) ELSE mode[q]
        /\ seats' = seats \cup {seat}
        /\ seat.room = r /\ seat.peer = p /\ seat.socket = s
        /\ tracked' = tracked /\ alive' = alive
    BY <1>0 DEF JoinSeated, TypeOK
  <1> HIDE DEF seat
  <1>5. \A t \in Sockets : view'[t] = IF t \in Seated(r) \cap alive
                                      THEN view[t] \cup {p} ELSE view[t]
    BY <1>2 DEF JoinSeated, Announced
  <1>6. \A q \in Rooms : Seated(q)' = IF q = r THEN Seated(r) \cup {s} ELSE Seated(q)
    <2> TAKE q \in Rooms
    <2>1. ASSUME NEW t \in Sockets
          PROVE  t \in Seated(q)' <=> t \in Seated(q) \/ (q = r /\ t = s)
      <3>1. (\E x \in seats' : x.room = q /\ x.socket = t)
              <=> (\E x \in seats : x.room = q /\ x.socket = t) \/ (q = r /\ t = s)
        BY <1>4
      <3> QED BY <3>1 DEF Seated
    <2>2. Seated(q)' \subseteq Sockets /\ Seated(q) \subseteq Sockets
      BY DEF Seated
    <2> QED BY <1>1, <2>1, <2>2
  <1> QED BY <1>1, <1>2, <1>3, <1>4, <1>5, <1>6 DEF seat, JoinChanges

LEMMA JoinStep ==
  ASSUME BrokerInv, NEW s \in tracked, NEW r \in Rooms, NEW p \in Labels,
         JoinSeated(s, r, ModeOf(p), p)
  PROVE  BrokerInv'
  <1> DEFINE seat == [room |-> r, peer |-> p, socket |-> s]
  <1>0. TypeOK /\ SeatsMatchConnections /\ NoThirdInPair /\ SilentUnlessSeated
        /\ OneOfTwoIsTold /\ NoGhostMembers
    BY DEF BrokerInv
  <1>b. JoinChanges(s, r, p)
    BY JoinShape
  <1>1. s \in Sockets /\ conn[s].room = NoRoom /\ view[s] = {} /\ r # NoRoom
    BY <1>b DEF JoinChanges
  <1>2. s \notin Seated(r)
    BY <1>b DEF JoinChanges
  <1>3. /\ mode[r] \in {"none", ModeOf(p)}
        /\ ModeOf(p) = "group" => \A x \in seats : x.room = r => x.peer # p
        /\ ModeOf(p) = "pair" => \A a, b \in Seated(r) : a = b
    BY <1>b DEF JoinChanges
  <1>4. /\ \A t \in Sockets : conn'[t] = IF t = s THEN [room |-> r, peer |-> p] ELSE conn[t]
        /\ \A q \in Rooms : mode'[q] = IF q = r THEN ModeOf(p) ELSE mode[q]
        /\ seats' = seats \cup {seat}
        /\ seat.room = r /\ seat.peer = p /\ seat.socket = s
        /\ tracked' = tracked /\ alive' = alive
    BY <1>b DEF JoinChanges, seat
  <1>5. \A t \in Sockets : view'[t] = IF t \in Seated(r) \cap alive
                                      THEN view[t] \cup {p} ELSE view[t]
    BY <1>b DEF JoinChanges
  <1> HIDE DEF seat
  <1>6. TypeOK'
    <2>1. backlog' \in [Sockets -> 0 .. MaxBuffered + 1]
      <3>1. \A b \in 0 .. MaxBuffered + 1 : Backlogged(b, 1) \in 0 .. MaxBuffered + 1
        BY LimitsAssumption DEF Backlogged
      <3> QED BY <1>0, <3>1 DEF JoinSeated, TypeOK
    <2>2. view' \in [Sockets -> SUBSET Labels]
      BY <1>0 DEF JoinSeated, TypeOK, Announced
    <2> QED BY <1>0, <1>1, <2>1, <2>2 DEF JoinSeated, TypeOK, ModeOf
  <1>7. \A q \in Rooms : Seated(q)' = IF q = r THEN Seated(r) \cup {s} ELSE Seated(q)
    BY <1>b DEF JoinChanges
  <1>a. ModeOf(p) = IF p = NoPeer THEN "pair" ELSE "group"
    BY DEF ModeOf
  <1>8. SeatsMatchConnections'
    <2>1. \A x \in seats' : /\ x.socket \in tracked'
                            /\ conn'[x.socket] = [room |-> x.room, peer |-> x.peer]
                            /\ mode'[x.room] = IF x.peer = NoPeer THEN "pair" ELSE "group"
      <3> TAKE x \in seats'
      <3>1. CASE x = seat
        BY <1>1, <1>4, <1>a, <3>1
      <3>2. CASE x \in seats
        <4>0. x.socket \in Sockets /\ x.room \in Rooms
          BY <1>0, <3>2 DEF TypeOK
        <4>a. conn[x.socket] = [room |-> x.room, peer |-> x.peer]
          BY <1>0, <3>2 DEF SeatsMatchConnections
        <4>b. conn[x.socket].room = x.room
          BY <4>a
        <4>1. x.socket \in Sockets /\ x.socket # s /\ x.room \in Rooms
          BY <1>1, <4>0, <4>b, NamesAssumption
        <4>2. mode[x.room] = IF x.peer = NoPeer THEN "pair" ELSE "group"
          BY <1>0, <3>2 DEF SeatsMatchConnections
        <4>3. x.room = r => mode[r] = ModeOf(p)
          BY <1>3, <1>a, <4>2
        <4> QED BY <1>0, <1>4, <3>2, <4>1, <4>2, <4>3 DEF SeatsMatchConnections
      <3> QED BY <1>4, <3>1, <3>2
    <2>2. \A t \in Sockets : conn'[t].room # NoRoom =>
            [room |-> conn'[t].room, peer |-> conn'[t].peer, socket |-> t] \in seats'
      <3> TAKE t \in Sockets
      <3>1. CASE t = s
        <4>1. conn'[s].room = r /\ conn'[s].peer = p
          BY <1>1, <1>4
        <4> QED BY <1>4, <3>1, <4>1 DEF seat
      <3>2. CASE t # s
        BY <1>0, <1>4, <3>2 DEF SeatsMatchConnections
      <3> QED BY <3>1, <3>2
    <2>3. \A x, y \in seats' : x.room = y.room /\ x.peer = y.peer /\ x.peer # NoPeer => x = y
      BY <1>0, <1>3, <1>4, <1>a DEF SeatsMatchConnections
    <2>4. \A q \in Rooms : mode'[q] # "none" => Seated(q)' # {}
      BY <1>0, <1>4, <1>7 DEF SeatsMatchConnections
    <2> QED BY <2>1, <2>2, <2>3, <2>4 DEF SeatsMatchConnections
  <1>9. NoThirdInPair'
    BY <1>0, <1>a, <1>3, <1>4, <1>7 DEF NoThirdInPair
  <1>10. SilentUnlessSeated'
    <2> SUFFICES ASSUME NEW t \in Sockets, t \notin alive \/ conn'[t].room = NoRoom
                 PROVE  view'[t] = {}
      BY <1>4 DEF SilentUnlessSeated
    <2>1. t # s => t \notin alive \/ conn[t].room = NoRoom
      BY <1>4
    <2>2. view[t] = {}
      BY <1>0, <1>1, <2>1 DEF SilentUnlessSeated
    <2>3. t \notin Seated(r) \cap alive
      BY <1>0, <1>1, <1>2, <2>1, SeatedIsRoom
    <2> QED BY <1>5, <2>2, <2>3
  <1>11. OneOfTwoIsTold'
    <2> SUFFICES ASSUME NEW u \in alive, NEW v \in alive, u # v,
                        conn'[u].room # NoRoom, conn'[u].room = conn'[v].room
                 PROVE  conn'[u].peer \in view'[v] <=> conn'[v].peer \notin view'[u]
      BY <1>4 DEF OneOfTwoIsTold
    <2>1. u \in Sockets /\ v \in Sockets
      BY <1>0 DEF TypeOK
    <2>2. CASE u = s
      <3>1. v \in Seated(r)
        BY <1>0, <1>4, <2>1, <2>2, SeatedIsRoom
      <3>2. conn'[u].peer = p
        BY <1>1, <1>4, <2>2
      <3>3. p \in view'[v]
        BY <1>5, <2>1, <3>1
      <3>4. view'[u] = {}
        BY <1>1, <1>2, <1>5, <2>2
      <3> QED BY <3>2, <3>3, <3>4
    <2>3. CASE v = s
      <3>1. u \in Seated(r)
        BY <1>0, <1>4, <2>1, <2>3, SeatedIsRoom
      <3>2. conn'[v].peer = p
        BY <1>1, <1>4, <2>3
      <3>3. p \in view'[u]
        BY <1>5, <2>1, <3>1
      <3>4. view'[v] = {}
        BY <1>1, <1>2, <1>5, <2>3
      <3> QED BY <3>2, <3>3, <3>4
    <2>4. CASE u # s /\ v # s
      <3>1. /\ conn[u].room # NoRoom /\ conn[u].room = conn[v].room
            /\ conn'[u] = conn[u] /\ conn'[v] = conn[v]
        BY <1>4, <2>1, <2>4
      <3>2. conn[u].peer \in view[v] <=> conn[v].peer \notin view[u]
        BY <1>0, <3>1 DEF OneOfTwoIsTold
      <3>3. conn[u].room = r => conn[u].peer # p /\ conn[v].peer # p
        <4> SUFFICES ASSUME conn[u].room = r PROVE conn[u].peer # p /\ conn[v].peer # p
          OBVIOUS
        <4>1. u \in Seated(r) /\ v \in Seated(r)
          BY <1>0, <2>1, <3>1, SeatedIsRoom
        <4>2. ModeOf(p) = "group"
          BY <1>3, <1>a, <4>1
        <4>3. /\ [room |-> r, peer |-> conn[u].peer, socket |-> u] \in seats
              /\ [room |-> r, peer |-> conn[v].peer, socket |-> v] \in seats
          BY <1>0, <2>1, <3>1 DEF SeatsMatchConnections
        <4> QED BY <1>3, <4>2, <4>3
      <3>4. /\ u \in Seated(r) => conn[u].room = r
            /\ v \in Seated(r) => conn[u].room = r
        BY <1>0, <2>1, <3>1, SeatedIsRoom
      <3>5. /\ conn[u].peer \in view'[v] <=> conn[u].peer \in view[v]
            /\ conn[v].peer \in view'[u] <=> conn[v].peer \in view[u]
        BY <1>5, <2>1, <3>3, <3>4
      <3> QED BY <3>1, <3>2, <3>5
    <2> QED BY <2>2, <2>3, <2>4
  <1>12. NoGhostMembers'
    <2> SUFFICES ASSUME NEW u \in alive, NEW q \in view'[u], q # NoPeer
                 PROVE  \E t \in Seated(conn[u].room)' \ {u} : conn'[t].peer = q
                        /\ conn'[u].room = conn[u].room
      BY <1>4 DEF NoGhostMembers, Seated
    <2>a. u \in Sockets
      BY <1>0 DEF TypeOK
    <2>b. u # s
      BY <1>1, <1>2, <1>5, <2>a
    <2>c. conn[u].room # NoRoom
      <3>1. CASE u \in Seated(r)
        BY <1>0, <1>1, <2>a, <3>1, SeatedIsRoom
      <3>2. CASE u \notin Seated(r)
        <4>1. view[u] # {}
          BY <1>5, <2>a, <3>2
        <4> QED BY <1>0, <2>a, <4>1 DEF SilentUnlessSeated
      <3> QED BY <3>1, <3>2
    <2>1. u \in Sockets /\ conn[u].room \in Rooms /\ u # s
      BY <1>0, <2>a, <2>b, <2>c, LabelIsMode
    <2>2. conn'[u].room = conn[u].room
      BY <1>4, <2>1
    <2>3. CASE q \in view[u]
      <3>1. PICK t \in Seated(conn[u].room) \ {u} : conn[t].peer = q
        BY <1>0, <2>3 DEF NoGhostMembers
      <3>2. t \in Sockets /\ t # s
        BY <1>0, <1>1, <2>1, <3>1, SeatedIsRoom, NamesAssumption DEF Seated
      <3> QED BY <1>4, <1>7, <2>1, <2>2, <3>1, <3>2
    <2>4. CASE q \notin view[u]
      <3>1. u \in Seated(r) /\ q = p
        BY <1>5, <2>1, <2>4
      <3>2. conn[u].room = r
        BY <1>0, <2>1, <3>1, SeatedIsRoom
      <3> QED BY <1>1, <1>4, <1>7, <2>1, <2>2, <3>1, <3>2
    <2> QED BY <2>3, <2>4
  <1> QED BY <1>6, <1>8, <1>9, <1>10, <1>11, <1>12 DEF BrokerInv

(* What happens when the sockets of D give up their seats.                 *)
LEMMA DepartShape ==
  ASSUME NEW D, NEW A, Depart(D, A)
  PROVE  /\ \A t \in Sockets : conn'[t] = IF t \in D THEN Unseated ELSE conn[t]
         /\ seats' = {x \in seats : x.socket \notin D}
         /\ \A r \in Rooms : Seated(r)' = Seated(r) \ D
         /\ \A r \in Rooms : mode'[r] = IF Seated(r) \subseteq D THEN "none" ELSE mode[r]
  <1>1. \A t \in Sockets : conn'[t] = IF t \in D THEN Unseated ELSE conn[t]
    BY DEF Depart
  <1>2. seats' = {x \in seats : x.socket \notin D}
    BY DEF Depart, Without
  <1>3. \A r \in Rooms : Seated(r)' = Seated(r) \ D
    BY <1>2 DEF Seated
  <1>4. \A r \in Rooms : mode'[r] = IF Seated(r) \subseteq D THEN "none" ELSE mode[r]
    BY DEF Depart, Without
  <1> QED BY <1>1, <1>2, <1>3, <1>4

(* Leave and cleanup: only a pair seat may be given up silently.           *)
LEMMA DepartStep ==
  ASSUME BrokerInv, NEW D \in SUBSET tracked, NEW A \in SUBSET D, Depart(D, A),
         \A d \in D \ A : conn[d].peer = NoPeer,
         tracked' \subseteq tracked, tracked \ D \subseteq tracked',
         alive' \subseteq alive, alive' \subseteq tracked'
  PROVE  BrokerInv'
  <1>0. TypeOK /\ SeatsMatchConnections /\ NoThirdInPair /\ SilentUnlessSeated
        /\ OneOfTwoIsTold /\ NoGhostMembers
    BY DEF BrokerInv
  <1>1. /\ \A t \in Sockets : conn'[t] = IF t \in D THEN Unseated ELSE conn[t]
        /\ seats' = {x \in seats : x.socket \notin D}
        /\ \A r \in Rooms : Seated(r)' = Seated(r) \ D
        /\ \A r \in Rooms : mode'[r] = IF Seated(r) \subseteq D THEN "none" ELSE mode[r]
    BY DepartShape
  <1>2. \A t \in Sockets : view'[t] = IF t \in alive' \ D
                                      THEN view[t] \ {conn[d].peer : d \in Departed(t, A)}
                                      ELSE {}
    BY DEF Depart
  <1>3. \A t \in D : conn'[t].room = NoRoom /\ t \in Sockets
    BY <1>0, <1>1 DEF Unseated, TypeOK
  <1>4. \A u \in Sockets : conn'[u].room # NoRoom => u \notin D /\ conn'[u] = conn[u]
    BY <1>1, <1>3
  <1>5. TypeOK'
    <2>1. backlog' \in [Sockets -> 0 .. MaxBuffered + 1]
      <3>1. ASSUME NEW t \in Sockets
            PROVE  Backlogged(backlog[t], Cardinality(Departed(t, A))) \in 0 .. MaxBuffered + 1
        <4>1. Departed(t, A) \in SUBSET Sockets
          BY <1>0 DEF Departed, TypeOK
        <4>2. Cardinality(Departed(t, A)) \in Nat
          BY <4>1, FiniteAssumption, FS_Subset, FS_CardinalityType
        <4>3. backlog[t] \in 0 .. MaxBuffered + 1
          BY <1>0 DEF TypeOK
        <4> HIDE DEF Departed
        <4> QED BY <4>2, <4>3, LimitsAssumption DEF Backlogged
      <3> QED BY <3>1, LimitsAssumption DEF Depart
    <2>2. view' \in [Sockets -> SUBSET Labels]
      BY <1>0 DEF Depart, TypeOK
    <2>3. /\ conn' \in [Sockets -> [room : Rooms \cup {NoRoom}, peer : Labels]]
          /\ mode' \in [Rooms -> {"none", "pair", "group"}]
          /\ seats' \subseteq [room : Rooms, peer : Labels, socket : Sockets]
      BY <1>0, <1>1 DEF Depart, Without, TypeOK, Unseated, Labels
    <2> QED BY <1>0, <2>1, <2>2, <2>3 DEF TypeOK
  <1>6. SeatsMatchConnections'
    <2>1. \A x \in seats' : /\ x.socket \in tracked'
                            /\ conn'[x.socket] = [room |-> x.room, peer |-> x.peer]
                            /\ mode'[x.room] = IF x.peer = NoPeer THEN "pair" ELSE "group"
      <3> TAKE x \in seats'
      <3>1. x \in seats /\ x.socket \notin D /\ x.socket \in Sockets /\ x.room \in Rooms
        BY <1>0, <1>1 DEF TypeOK
      <3>2. x.socket \in Seated(x.room)
        BY <3>1 DEF Seated
      <3>3. /\ x.socket \in tracked
            /\ conn[x.socket] = [room |-> x.room, peer |-> x.peer]
            /\ mode[x.room] = IF x.peer = NoPeer THEN "pair" ELSE "group"
        BY <1>0, <3>1 DEF SeatsMatchConnections
      <3>4. mode'[x.room] = mode[x.room]
        BY <1>1, <3>1, <3>2
      <3> QED BY <1>1, <3>1, <3>3, <3>4
    <2>2. \A t \in Sockets : conn'[t].room # NoRoom =>
            [room |-> conn'[t].room, peer |-> conn'[t].peer, socket |-> t] \in seats'
      BY <1>0, <1>1, <1>4 DEF SeatsMatchConnections
    <2>3. \A x, y \in seats' : x.room = y.room /\ x.peer = y.peer /\ x.peer # NoPeer => x = y
      BY <1>0, <1>1 DEF SeatsMatchConnections
    <2>4. \A q \in Rooms : mode'[q] # "none" => Seated(q)' # {}
      BY <1>1
    <2> QED BY <2>1, <2>2, <2>3, <2>4 DEF SeatsMatchConnections
  <1>7. NoThirdInPair'
    BY <1>0, <1>1 DEF NoThirdInPair
  <1>8. SilentUnlessSeated'
    <2> SUFFICES ASSUME NEW t \in Sockets, t \notin alive' \/ conn'[t].room = NoRoom
                 PROVE  view'[t] = {}
      BY DEF SilentUnlessSeated
    <2>1. CASE t \in alive' \ D
      <3>1. conn[t].room = NoRoom
        BY <1>1, <2>1
      <3>2. view[t] = {}
        BY <1>0, <3>1 DEF SilentUnlessSeated
      <3> QED BY <1>2, <3>2
    <2> QED BY <1>2, <2>1
  <1>9. OneOfTwoIsTold'
    <2> SUFFICES ASSUME NEW u \in alive', NEW v \in alive', u # v,
                        conn'[u].room # NoRoom, conn'[u].room = conn'[v].room
                 PROVE  conn'[u].peer \in view'[v] <=> conn'[v].peer \notin view'[u]
      BY DEF OneOfTwoIsTold
    <2>1. u \in Sockets /\ v \in Sockets /\ u \in alive /\ v \in alive
      BY <1>0 DEF TypeOK
    <2>2. /\ u \notin D /\ v \notin D
          /\ conn'[u] = conn[u] /\ conn'[v] = conn[v]
          /\ conn[u].room # NoRoom /\ conn[u].room = conn[v].room
      BY <1>4, <2>1
    <2>3. conn[u].peer \in view[v] <=> conn[v].peer \notin view[u]
      BY <1>0, <2>1, <2>2 DEF OneOfTwoIsTold
    <2>4. ASSUME NEW d \in D, conn[d].room = conn[u].room
          PROVE  conn[d].peer # conn[u].peer /\ conn[d].peer # conn[v].peer
      <3>1. d \in Sockets /\ d # u /\ d # v
        BY <1>3, <2>2
      <3>2. CASE mode[conn[u].room] = "pair"
        <4>1. conn[u].room \in Rooms
          BY <1>0, <2>1, <2>2, LabelIsMode
        <4>2. /\ u \in Seated(conn[u].room) /\ v \in Seated(conn[u].room)
              /\ d \in Seated(conn[u].room)
          BY <1>0, <2>1, <2>2, <2>4, <3>1, <4>1, SeatedIsRoom
        <4> QED BY <1>0, <2>1, <3>1, <3>2, <4>1, <4>2 DEF NoThirdInPair
      <3>3. CASE mode[conn[u].room] # "pair"
        <4>1. conn[u].peer # NoPeer /\ conn[v].peer # NoPeer
          BY <1>0, <2>1, <2>2, <3>3, LabelIsMode
        <4> QED BY <1>0, <2>1, <2>2, <2>4, <3>1, <4>1, LabelIsSocket
      <3> QED BY <3>2, <3>3
    <2>5. /\ conn[u].peer \in view'[v] <=> conn[u].peer \in view[v]
          /\ conn[v].peer \in view'[u] <=> conn[v].peer \in view[u]
      <3>1. \A d \in Departed(u, A) \cup Departed(v, A) : d \in D /\ conn[d].room = conn[u].room
        BY <2>2 DEF Departed
      <3>2. \A d \in Departed(u, A) \cup Departed(v, A) :
              conn[d].peer # conn[u].peer /\ conn[d].peer # conn[v].peer
        BY <2>4, <3>1
      <3> QED BY <1>2, <2>1, <2>2, <3>2
    <2> QED BY <2>2, <2>3, <2>5
  <1>10. NoGhostMembers'
    <2> SUFFICES ASSUME NEW u \in alive', NEW q \in view'[u], q # NoPeer
                 PROVE  \E t \in Sockets \ {u} : /\ conn'[t].peer = q
                                                  /\ \E x \in seats' : /\ x.room = conn'[u].room
                                                                      /\ x.socket = t
      BY DEF NoGhostMembers, Seated
    <2>1. u \in Sockets /\ u \in alive
      BY <1>0 DEF TypeOK
    <2>2. u \notin D /\ q \in view[u] /\ q \notin {conn[d].peer : d \in Departed(u, A)}
      BY <1>2, <2>1
    <2>3. conn'[u] = conn[u] /\ conn[u].room # NoRoom
      BY <1>0, <1>1, <2>1, <2>2 DEF SilentUnlessSeated
    <2>4. conn[u].room \in Rooms
      BY <1>0, <2>1, <2>3, LabelIsMode
    <2>5. PICK t \in Seated(conn[u].room) \ {u} : conn[t].peer = q
      BY <1>0, <2>1, <2>2 DEF NoGhostMembers
    <2>6. t \in Sockets /\ conn[t].room = conn[u].room
      BY <1>0, <2>4, <2>5, SeatedIsRoom DEF Seated
    <2>7. t \notin D
      <3> SUFFICES ASSUME t \in D PROVE FALSE
        OBVIOUS
      <3>1. t \in A
        BY <2>5
      <3>2. t \in Departed(u, A)
        BY <2>3, <2>5, <2>6, <3>1 DEF Departed
      <3> QED BY <2>2, <2>5, <3>2
    <2>8. PICK x \in seats : x.room = conn[u].room /\ x.socket = t
      BY <2>5 DEF Seated
    <2>9. x \in seats'
      BY <1>1, <2>7, <2>8
    <2>10. t \in Sockets \ {u} /\ conn'[t].peer = q
      BY <1>1, <2>5, <2>6, <2>7
    <2> QED BY <2>3, <2>8, <2>9, <2>10
  <1> QED BY <1>5, <1>6, <1>7, <1>8, <1>9, <1>10 DEF BrokerInv

-----------------------------------------------------------------------------
(* Every action is one of the steps above.                                 *)

LEMMA CleanupStep ==
  ASSUME BrokerInv, NEW D \in SUBSET tracked, Cleanup(D)
  PROVE  BrokerInv'
  <1>1. /\ tracked' = tracked \ D
        /\ alive' = alive \ D
        /\ Depart(D, D)
    BY DEF Cleanup
  <1>2. alive \subseteq tracked
    BY DEF BrokerInv, TypeOK
  <1> QED BY <1>1, <1>2, DepartStep

LEMMA LeaveStep ==
  ASSUME BrokerInv, NEW s \in Sockets, Leave(s)
  PROVE  BrokerInv'
  <1> DEFINE A == IF conn[s].peer = NoPeer THEN {} ELSE {s}
  <1>1. s \in tracked /\ tracked' = tracked /\ alive' = alive /\ Depart({s}, A)
    BY DEF Leave
  <1>2. alive \subseteq tracked
    BY DEF BrokerInv, TypeOK
  <1>3. A \in SUBSET {s} /\ \A d \in {s} \ A : conn[d].peer = NoPeer
    OBVIOUS
  <1> HIDE DEF A
  <1> QED BY <1>1, <1>2, <1>3, DepartStep

LEMMA RelayStep ==
  ASSUME BrokerInv, NEW s \in Sockets, Relay(s)
  PROVE  BrokerInv'
  <1>1. PICK to \in Labels : \E t \in Target(s, to) : Forward(t)
    BY DEF Relay
  <1>2. PICK t \in Target(s, to) : Forward(t)
    BY <1>1
  <1>3. t \in Sockets
    BY <1>2 DEF Target, Seated
  <1>4. UNCHANGED <<tracked, registry>>
    BY DEF Relay
  <1>5. CASE CloseSocket(t)
    BY <1>3, <1>4, <1>5, CloseStep
  <1>6. CASE backlog' = [backlog EXCEPT ![t] = Backlogged(@, 1)] /\ UNCHANGED <<alive, view>>
    <2>1. backlog \in [Sockets -> 0 .. MaxBuffered + 1]
      BY DEF BrokerInv, TypeOK
    <2>2. Backlogged(backlog[t], 1) \in 0 .. MaxBuffered + 1
      BY <1>3, <2>1, LimitsAssumption DEF Backlogged
    <2>3. backlog' \in [Sockets -> 0 .. MaxBuffered + 1]
      BY <1>3, <1>6, <2>1, <2>2
    <2> QED BY <1>4, <1>6, <2>3, QuietStep
  <1> QED BY <1>2, <1>5, <1>6 DEF Forward

LEMMA ReadStep ==
  ASSUME BrokerInv, NEW s \in Sockets, ClientReads(s)
  PROVE  BrokerInv'
  <1>1. backlog \in [Sockets -> 0 .. MaxBuffered + 1]
    BY DEF BrokerInv, TypeOK
  <1>2. backlog' \in [Sockets -> 0 .. MaxBuffered + 1]
    BY <1>1, LimitsAssumption DEF ClientReads
  <1> QED BY <1>2, QuietStep DEF ClientReads

LEMMA InitBrokerInv == Init => BrokerInv
  BY LimitsAssumption DEF Init, BrokerInv, TypeOK, Unseated, Labels, SeatsMatchConnections,
     NoThirdInPair, Seated, SilentUnlessSeated, OneOfTwoIsTold, NoGhostMembers

LEMMA NextBrokerInv == BrokerInv /\ [Next]_vars => BrokerInv'
  <1> SUFFICES ASSUME BrokerInv, [Next]_vars PROVE BrokerInv'
    OBVIOUS
  <1>0. tracked \subseteq Sockets /\ alive \subseteq tracked
    BY DEF BrokerInv, TypeOK
  <1>1. CASE Sweep
    BY <1>1, CleanupStep DEF Sweep, Zombies
  <1>2. CASE UNCHANGED vars
    BY <1>2, QuietStep DEF vars, BrokerInv, TypeOK
  <1>3. ASSUME NEW s \in Sockets, Open(s) PROVE BrokerInv'
    BY <1>3, OpenStep
  <1>4. ASSUME NEW s \in Sockets, Join(s) PROVE BrokerInv'
    <2>1. s \in tracked
      BY <1>4 DEF Join
    <2>2. PICK r \in Rooms, p \in Labels :
            JoinRefused(s, r, ModeOf(p), p) \/ JoinSeated(s, r, ModeOf(p), p)
      BY <1>4 DEF Join
    <2>3. CASE JoinRefused(s, r, ModeOf(p), p)
      BY <2>3, CloseStep DEF JoinRefused
    <2>4. CASE JoinSeated(s, r, ModeOf(p), p)
      BY <2>1, <2>4, JoinStep
    <2> QED BY <2>2, <2>3, <2>4
  <1>5. ASSUME NEW s \in Sockets, Leave(s) PROVE BrokerInv'
    BY <1>5, LeaveStep
  <1>6. ASSUME NEW s \in Sockets, Relay(s) PROVE BrokerInv'
    BY <1>6, RelayStep
  <1>7. ASSUME NEW s \in Sockets, CloseHook(s) \/ ErrorHook(s) PROVE BrokerInv'
    BY <1>0, <1>7, CleanupStep DEF CloseHook, ErrorHook
  <1>8. ASSUME NEW s \in Sockets, ClientGone(s) PROVE BrokerInv'
    BY <1>8, CloseStep DEF ClientGone
  <1>9. ASSUME NEW s \in Sockets, ClientReads(s) PROVE BrokerInv'
    BY <1>9, ReadStep
  <1> QED BY <1>1, <1>2, <1>3, <1>4, <1>5, <1>6, <1>7, <1>8, <1>9 DEF Next

(* The broker's inductive invariant holds in every reachable state.        *)
THEOREM BrokerInvariance == Spec => []BrokerInv
  <1> QED BY InitBrokerInv, NextBrokerInv, PTL DEF Spec

(* The broker's variables keep their types.                                *)
THEOREM BrokerTypeCorrect == Spec => []TypeOK
  <1>1. BrokerInv => TypeOK
    BY DEF BrokerInv
  <1> QED BY <1>1, BrokerInvariance, PTL

(* The registry's seats and the connections' fields always agree.          *)
THEOREM SeatingAgrees == Spec => []SeatsMatchConnections
  <1>1. BrokerInv => SeatsMatchConnections
    BY DEF BrokerInv
  <1> QED BY <1>1, BrokerInvariance, PTL

(* Of two sockets seated together exactly one is to offer.                 *)
THEOREM OffersNeverCross == Spec => []OneOfTwoIsTold
  <1>1. BrokerInv => OneOfTwoIsTold
    BY DEF BrokerInv
  <1> QED BY <1>1, BrokerInvariance, PTL

(* No group member believes in a peer that is not seated with it.          *)
THEOREM MembersAreReal == Spec => []NoGhostMembers
  <1>1. BrokerInv => NoGhostMembers
    BY DEF BrokerInv
  <1> QED BY <1>1, BrokerInvariance, PTL

(* Both together: the views of the members are true, and complementary.    *)
THEOREM ViewsHold == Spec => []ViewsAreTrue
  BY OffersNeverCross, MembersAreReal, PTL DEF ViewsAreTrue

-----------------------------------------------------------------------------
(* The limits.                                                             *)

LEMMA LiveRoomsFinite == IsFiniteSet(LiveRooms) /\ Cardinality(LiveRooms) \in Nat
  <1>1. LiveRooms \in SUBSET Rooms
    BY DEF LiveRooms
  <1> QED BY <1>1, FiniteAssumption, FS_Subset, FS_CardinalityType

LEMMA LimitsUnchanged ==
  ASSUME WithinLimits, UNCHANGED <<mode, seats>>
  PROVE  WithinLimits'
  BY DEF WithinLimits, LiveRooms, Seated

LEMMA JoinLimits ==
  ASSUME BrokerInv, WithinLimits, NEW s \in tracked, NEW r \in Rooms, NEW p \in Labels,
         JoinSeated(s, r, ModeOf(p), p)
  PROVE  WithinLimits'
  <1>1. JoinChanges(s, r, p)
    BY JoinShape
  <1>2. ~ Rejected(r, ModeOf(p), p)
    BY DEF JoinSeated, MaySit
  <1>3. \A q \in Rooms : mode'[q] = IF q = r THEN ModeOf(p) ELSE mode[q]
    BY <1>1 DEF JoinChanges
  <1>4. ModeOf(p) \in {"pair", "group"}
    BY DEF ModeOf
  <1>5. Cardinality(LiveRooms)' <= MaxRooms
    <2>1. LiveRooms' = LiveRooms \cup {r}
      BY <1>3, <1>4 DEF LiveRooms
    <2>2. CASE mode[r] = "none"
      <3>1. Cardinality(LiveRooms) < MaxRooms
        BY <1>2, <2>2, LiveRoomsFinite, LimitsAssumption DEF Rejected
      <3>2. IsFiniteSet(LiveRooms)
        BY LiveRoomsFinite
      <3>3. /\ Cardinality(LiveRooms \cup {r}) <= Cardinality(LiveRooms) + 1
            /\ Cardinality(LiveRooms \cup {r}) \in Nat
        BY <3>2, OneMore
      <3> QED BY <2>1, <3>1, <3>3, LiveRoomsFinite, LimitsAssumption
    <2>3. CASE mode[r] # "none"
      <3>1. LiveRooms \cup {r} = LiveRooms
        BY <2>3 DEF LiveRooms
      <3> QED BY <2>1, <3>1 DEF WithinLimits
    <2> QED BY <2>2, <2>3
  <1>6. ASSUME NEW q \in Rooms
        PROVE  Cardinality(Seated(q)') <=
                 IF mode'[q] = "pair" THEN MaxPeersPerRoom ELSE MaxGroupPeers
    <2>1. CASE q = r
      <3> DEFINE limit == IF ModeOf(p) = "pair" THEN MaxPeersPerRoom ELSE MaxGroupPeers
      <3>0. limit \in Nat
        BY LimitsAssumption DEF MaxPeersPerRoom
      <3>1. Cardinality(Seated(r)) < limit
        BY <1>2, <3>0, SeatedFinite DEF Rejected, Full
      <3>2. Seated(q)' = Seated(r) \cup {s}
        BY <1>1, <2>1 DEF JoinChanges
      <3>a. IsFiniteSet(Seated(r))
        BY SeatedFinite
      <3>3. /\ Cardinality(Seated(r) \cup {s}) <= Cardinality(Seated(r)) + 1
            /\ Cardinality(Seated(r) \cup {s}) \in Nat
        BY <3>a, OneMore
      <3>4. mode'[q] = ModeOf(p)
        BY <1>3, <2>1
      <3>5. Cardinality(Seated(q)') <= limit
        BY <3>0, <3>1, <3>2, <3>3, SeatedFinite
      <3> QED BY <3>4, <3>5
    <2>2. CASE q # r
      <3>1. Seated(q)' = Seated(q) /\ mode'[q] = mode[q]
        BY <1>1, <2>2 DEF JoinChanges
      <3> QED BY <3>1 DEF WithinLimits
    <2> QED BY <2>1, <2>2
  <1> QED BY <1>5, <1>6 DEF WithinLimits

LEMMA DepartLimits ==
  ASSUME WithinLimits, NEW D, NEW A, Depart(D, A)
  PROVE  WithinLimits'
  <1>1. /\ \A r \in Rooms : Seated(r)' = Seated(r) \ D
        /\ \A r \in Rooms : mode'[r] = IF Seated(r) \subseteq D THEN "none" ELSE mode[r]
    BY DepartShape
  <1>2. Cardinality(LiveRooms)' <= MaxRooms
    <2>1. LiveRooms' \in SUBSET LiveRooms
      BY <1>1 DEF LiveRooms
    <2>2. Cardinality(LiveRooms') <= Cardinality(LiveRooms) /\ Cardinality(LiveRooms') \in Nat
      BY <2>1, LiveRoomsFinite, FS_Subset, FS_CardinalityType
    <2> QED BY <2>2, LiveRoomsFinite, LimitsAssumption DEF WithinLimits
  <1>3. ASSUME NEW r \in Rooms
        PROVE  Cardinality(Seated(r)') <=
                 IF mode'[r] = "pair" THEN MaxPeersPerRoom ELSE MaxGroupPeers
    <2>1. Seated(r)' \in SUBSET Seated(r)
      BY <1>1
    <2>2. Cardinality(Seated(r)') <= Cardinality(Seated(r)) /\ Cardinality(Seated(r)') \in Nat
      BY <2>1, SeatedFinite, FS_Subset, FS_CardinalityType
    <2>3. CASE Seated(r) \subseteq D
      <3>1. Seated(r)' = {} /\ mode'[r] = "none"
        BY <1>1, <2>3
      <3>2. Cardinality(Seated(r)') = 0
        BY <3>1, FS_EmptySet
      <3> QED BY <3>1, <3>2, LimitsAssumption
    <2>4. CASE ~ (Seated(r) \subseteq D)
      <3>1. mode'[r] = mode[r]
        BY <1>1, <2>4
      <3>2. Cardinality(Seated(r)) <=
              IF mode[r] = "pair" THEN MaxPeersPerRoom ELSE MaxGroupPeers
        BY DEF WithinLimits
      <3> QED BY <2>2, <3>1, <3>2, SeatedFinite, LimitsAssumption DEF MaxPeersPerRoom
    <2> QED BY <2>3, <2>4
  <1> QED BY <1>2, <1>3 DEF WithinLimits

LEMMA NextLimits == BrokerInv /\ WithinLimits /\ [Next]_vars => WithinLimits'
  <1> SUFFICES ASSUME BrokerInv, WithinLimits, [Next]_vars PROVE WithinLimits'
    OBVIOUS
  <1>1. CASE Sweep
    BY <1>1, DepartLimits DEF Sweep, Cleanup
  <1>2. CASE UNCHANGED vars
    BY <1>2, LimitsUnchanged DEF vars, registry
  <1>3. ASSUME NEW s \in Sockets, Open(s) \/ Relay(s) \/ ClientGone(s) \/ ClientReads(s)
        PROVE  WithinLimits'
    BY <1>3, LimitsUnchanged DEF Open, Relay, ClientGone, ClientReads, registry
  <1>4. ASSUME NEW s \in Sockets, Join(s) PROVE WithinLimits'
    <2>1. s \in tracked
      BY <1>4 DEF Join
    <2>2. PICK r \in Rooms, p \in Labels :
            JoinRefused(s, r, ModeOf(p), p) \/ JoinSeated(s, r, ModeOf(p), p)
      BY <1>4 DEF Join
    <2>3. CASE JoinRefused(s, r, ModeOf(p), p)
      BY <2>3, LimitsUnchanged DEF JoinRefused, registry
    <2>4. CASE JoinSeated(s, r, ModeOf(p), p)
      BY <2>1, <2>4, JoinLimits
    <2> QED BY <2>2, <2>3, <2>4
  <1>5. ASSUME NEW s \in Sockets, Leave(s) PROVE WithinLimits'
    BY <1>5, DepartLimits DEF Leave
  <1>6. ASSUME NEW s \in Sockets, CloseHook(s) \/ ErrorHook(s) PROVE WithinLimits'
    BY <1>6, DepartLimits DEF CloseHook, ErrorHook, Cleanup
  <1> QED BY <1>1, <1>2, <1>3, <1>4, <1>5, <1>6 DEF Next

(* No order of joins and departures takes a room or the registry over its  *)
(* limit.                                                                  *)
THEOREM LimitsHold == Spec => []WithinLimits
  <1>1. Init => WithinLimits
    <2> SUFFICES ASSUME Init PROVE WithinLimits
      OBVIOUS
    <2>1. LiveRooms = {} /\ \A r \in Rooms : Seated(r) = {}
      BY DEF Init, LiveRooms, Seated
    <2> QED BY <2>1, FS_EmptySet, LimitsAssumption DEF WithinLimits, MaxPeersPerRoom
  <1> QED BY <1>1, NextLimits, BrokerInvariance, PTL DEF Spec

(* The seating is consistent and within its limits, always.                *)
THEOREM SeatingIsSound == Spec => []SeatingHolds
  BY SeatingAgrees, LimitsHold, PTL DEF SeatingHolds

=============================================================================
