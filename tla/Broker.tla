------------------------------- MODULE Broker -------------------------------
(***************************************************************************)
(* The signaling broker: one process, a registry of rooms and one          *)
(* BrokerConnection per WebSocket (broker/ and the server's broker.ts).    *)
(* Every handler is synchronous, so one action is one event: a parsed      *)
(* message, a close or error hook, a pass of the zombie sweep.             *)
(*                                                                         *)
(* A name of Sockets stands for successive connections: when the server    *)
(* has dropped one, a new connection may take the name.  `view` is what    *)
(* the join and leave notifications written to a socket add up to, which   *)
(* is what its client believes once it has read them all.                  *)
(***************************************************************************)
EXTENDS Naturals, FiniteSets

CONSTANTS
  Sockets, Rooms, PeerIds,
  NoRoom, NoPeer,   \* roomId = null; a pair seat, or no seat: peerId = null
  MaxRooms,         \* RoomRegistryOptions.maxRooms
  MaxGroupPeers,    \* RoomRegistryOptions.maxGroupPeers
  MaxConnections,   \* MAX_CONNECTIONS
  MaxBuffered       \* BROKER_MAX_BUFFERED_BYTES, counted in frames

ASSUME NamesAssumption == NoRoom \notin Rooms /\ NoPeer \notin PeerIds
ASSUME FiniteAssumption == IsFiniteSet(Sockets) /\ IsFiniteSet(Rooms)
ASSUME LimitsAssumption == /\ MaxRooms \in Nat /\ MaxConnections \in Nat
                           /\ MaxGroupPeers \in Nat \ {0} /\ MaxBuffered \in Nat

VARIABLES
  tracked,   \* keys of the server's `connections` and `sockets` maps
  alive,     \* tracked sockets with readyState OPEN
  mode,      \* the registry: a room's mode, "none" when it has no entry
  seats,     \* the registry: who sits where
  conn,      \* roomId and peerId of every BrokerConnection
  view,      \* presence, as told to each socket
  backlog    \* bufferedAmount, in frames

registry == <<mode, seats, conn>>
vars == <<tracked, alive, registry, view, backlog>>

Labels == PeerIds \cup {NoPeer}
Unseated == [room |-> NoRoom, peer |-> NoPeer]
MaxPeersPerRoom == 2

(* Bound: a backlog beyond the limit counts as one frame beyond it.        *)
Backlogged(b, n) == IF b + n > MaxBuffered THEN MaxBuffered + 1 ELSE b + n

TypeOK ==
  /\ tracked \subseteq Sockets
  /\ alive \subseteq tracked
  /\ mode \in [Rooms -> {"none", "pair", "group"}]
  /\ seats \subseteq [room : Rooms, peer : Labels, socket : Sockets]
  /\ conn \in [Sockets -> [room : Rooms \cup {NoRoom}, peer : Labels]]
  /\ view \in [Sockets -> SUBSET Labels]
  /\ backlog \in [Sockets -> 0 .. MaxBuffered + 1]

Init ==
  /\ tracked = {}
  /\ alive = {}
  /\ mode = [r \in Rooms |-> "none"]
  /\ seats = {}
  /\ conn = [s \in Sockets |-> Unseated]
  /\ view = [s \in Sockets |-> {}]
  /\ backlog = [s \in Sockets |-> 0]

-----------------------------------------------------------------------------
(* RoomRegistry.                                                           *)

LiveRooms == {r \in Rooms : mode[r] # "none"}

Seated(r) == {s \in Sockets : \E x \in seats : x.room = r /\ x.socket = s}

(* getPeerById, and getPeer: the one seat of a pair room that is not s.    *)
Target(s, to) ==
  {t \in Seated(conn[s].room) \ {s} :
     conn[s].peer = NoPeer \/ [room |-> conn[s].room, peer |-> to, socket |-> t] \in seats}

(* Mutant: off by one.                                                     *)
FullOffByOne(r, m) == Cardinality(Seated(r)) > (IF m = "pair" THEN MaxPeersPerRoom ELSE MaxGroupPeers)

Full(r, m) == Cardinality(Seated(r)) >= (IF m = "pair" THEN MaxPeersPerRoom ELSE MaxGroupPeers)

(* Every rejection by RoomRegistry.join that closes the socket.            *)
Rejected(r, m, p) ==
  \/ mode[r] = "none" /\ Cardinality(LiveRooms) >= MaxRooms
  \/ mode[r] # "none" /\ mode[r] # m
  \/ m = "group" /\ \E x \in seats : x.room = r /\ x.peer = p
  \/ Full(r, m)

(* Mutant: a second join of the same socket is let through.                *)
MaySitAgain(s, r, m, p) == ~ Rejected(r, m, p)

(* handleJoin: a socket takes one seat at a time.                          *)
MaySit(s, r, m, p) == conn[s].room = NoRoom /\ ~ Rejected(r, m, p)

(* Mutant: leave does not delete an emptied room.                          *)
WithoutKeepsRoom(D) ==
  /\ seats' = {x \in seats : x.socket \notin D}
  /\ UNCHANGED mode

(* RoomRegistry.leave for the sockets of D: an emptied room is deleted.    *)
Without(D) ==
  /\ seats' = {x \in seats : x.socket \notin D}
  /\ mode' = [r \in Rooms |-> IF Seated(r) \subseteq D THEN "none" ELSE mode[r]]

-----------------------------------------------------------------------------
(* Sending to a socket.  What is written to a socket that is no longer     *)
(* open is lost.                                                           *)

(* socket.close: a client that is gone has no beliefs and no backlog.      *)
CloseSocket(s) ==
  /\ alive' = alive \ {s}
  /\ view' = [view EXCEPT ![s] = {}]
  /\ backlog' = [backlog EXCEPT ![s] = 0]

(* The departures of A that t is told of.                                  *)
Departed(t, A) == {d \in A \ {t} : conn[d].room # NoRoom /\ conn[d].room = conn[t].room}

(* Mutant: the leaver's fields are cleared before it is announced.         *)
DepartForgets(D, A) ==
  /\ view' = [t \in Sockets |-> IF t \in alive' \ D THEN view[t] ELSE {}]
  /\ backlog' = [t \in Sockets |-> IF t \in alive' THEN backlog[t] ELSE 0]
  /\ conn' = [t \in Sockets |-> IF t \in D THEN Unseated ELSE conn[t]]
  /\ Without(D)

(* The sockets of D give up their seats; those of A are announced by       *)
(* notifyPeerLeft.                                                         *)
Depart(D, A) ==
  /\ view' = [t \in Sockets |-> IF t \in alive' \ D
                                THEN view[t] \ {conn[d].peer : d \in Departed(t, A)}
                                ELSE {}]
  /\ backlog' = [t \in Sockets |-> IF t \in alive'
                                   THEN Backlogged(backlog[t], Cardinality(Departed(t, A)))
                                   ELSE 0]
  /\ conn' = [t \in Sockets |-> IF t \in D THEN Unseated ELSE conn[t]]
  /\ Without(D)

-----------------------------------------------------------------------------
(* BrokerConnection.  A message still in flight when a socket is closed is *)
(* handled as long as the connection is tracked.                           *)

(* The server's open hook.  A refused connection leaves no trace.          *)
Open(s) ==
  /\ s \notin tracked
  /\ Cardinality(tracked) < MaxConnections
  /\ tracked' = tracked \cup {s}
  /\ alive' = alive \cup {s}
  /\ UNCHANGED <<registry, view, backlog>>

JoinRefused(s, r, m, p) ==
  /\ ~ MaySit(s, r, m, p)
  /\ CloseSocket(s)
  /\ UNCHANGED <<tracked, registry>>

(* Mutant: the joiner is told of the seated members as well.               *)
AnnouncedBoth(s, r) == Seated(r) \cup {s}

(* Who is told of a join: every seated member of a group, and the first    *)
(* peer of a pair room when the second one arrives.                        *)
Announced(s, r) == Seated(r) \ {s}

(* handleJoin with RoomRegistry.join.  The first join fixes the mode.      *)
JoinSeated(s, r, m, p) ==
  /\ MaySit(s, r, m, p)
  /\ mode' = [mode EXCEPT ![r] = m]
  /\ seats' = seats \cup {[room |-> r, peer |-> p, socket |-> s]}
  /\ conn' = [conn EXCEPT ![s] = [room |-> r, peer |-> p]]
  /\ view' = [t \in Sockets |-> IF t \in Announced(s, r) \cap alive
                                THEN view[t] \cup {p} ELSE view[t]]
  /\ backlog' = [t \in Sockets |-> IF t \in Announced(s, r) \cap alive
                                   THEN Backlogged(backlog[t], 1) ELSE backlog[t]]
  /\ UNCHANGED <<tracked, alive>>

(* A join with the wrong mix of mode and peerId is dropped as malformed:   *)
(* what is left is a pair join without and a group join with a label.      *)
ModeOf(p) == IF p = NoPeer THEN "pair" ELSE "group"

Join(s) ==
  /\ s \in tracked
  /\ \E r \in Rooms, p \in Labels :
       JoinRefused(s, r, ModeOf(p), p) \/ JoinSeated(s, r, ModeOf(p), p)

(* handleLeave: announced in a group, silent in a pair room.               *)
Leave(s) ==
  /\ s \in tracked
  /\ conn[s].room # NoRoom
  /\ UNCHANGED <<tracked, alive>>
  /\ Depart({s}, IF conn[s].peer = NoPeer THEN {} ELSE {s})

(* forward: a receiver whose backlog is over the limit is closed.          *)
Forward(t) ==
  \/ /\ backlog[t] > MaxBuffered
     /\ CloseSocket(t)
  \/ /\ backlog[t] <= MaxBuffered
     /\ t \in alive
     /\ backlog' = [backlog EXCEPT ![t] = Backlogged(@, 1)]
     /\ UNCHANGED <<alive, view>>

(* relay: an offer, answer or candidate.                                   *)
Relay(s) ==
  /\ s \in tracked
  /\ conn[s].room # NoRoom
  /\ \E to \in Labels : \E t \in Target(s, to) : Forward(t)
  /\ UNCHANGED <<tracked, registry>>

-----------------------------------------------------------------------------
(* The server.                                                             *)

(* Mutant: the error hook forgets a connection without closing it.         *)
CleanupLeavesOpen(D) ==
  /\ tracked' = tracked \ D
  /\ UNCHANGED alive
  /\ Depart(D, D)

(* cleanup: onClose announces the departure, then the maps forget it.      *)
Cleanup(D) ==
  /\ tracked' = tracked \ D
  /\ alive' = alive \ D
  /\ Depart(D, D)

(* The close hook, which may also never fire.                              *)
CloseHook(s) == s \in tracked \ alive /\ Cleanup({s})

(* handlePeerError.                                                        *)
ErrorHook(s) == s \in alive /\ Cleanup({s})

(* Mutant: the sweep looks for dead sockets in the rooms only.             *)
ZombiesSeatedOnly == {s \in tracked \ alive : conn[s].room # NoRoom}

(* readyState CLOSING or CLOSED.                                           *)
Zombies == tracked \ alive

(* runSweep, every minute.                                                 *)
Sweep == Zombies # {} /\ Cleanup(Zombies)

-----------------------------------------------------------------------------
(* The other end of a socket.                                              *)

ClientGone(s) ==
  /\ s \in alive
  /\ CloseSocket(s)
  /\ UNCHANGED <<tracked, registry>>

ClientReads(s) ==
  /\ s \in alive
  /\ backlog[s] > 0
  /\ backlog' = [backlog EXCEPT ![s] = @ - 1]
  /\ UNCHANGED <<tracked, alive, registry, view>>

Next ==
  \/ Sweep
  \/ \E s \in Sockets :
       \/ Open(s) \/ Join(s) \/ Leave(s) \/ Relay(s)
       \/ CloseHook(s) \/ ErrorHook(s)
       \/ ClientGone(s) \/ ClientReads(s)

Spec == Init /\ [][Next]_vars

(* The sweep's interval fires as long as the server runs.                  *)
FairSpec == Spec /\ WF_vars(Sweep)

-----------------------------------------------------------------------------
(* The registry and the connections describe the same seating: a seat is   *)
(* held by a tracked connection that knows its room and label, a           *)
(* connection with a room is seated there, a label names one seat, a room  *)
(* exists while somebody sits in it.  (connection.ts:81, leave before the  *)
(* fields are cleared; room-registry.ts:266.)                              *)
SeatsMatchConnections ==
  /\ \A x \in seats : /\ x.socket \in tracked
                      /\ conn[x.socket] = [room |-> x.room, peer |-> x.peer]
                      /\ mode[x.room] = IF x.peer = NoPeer THEN "pair" ELSE "group"
  /\ \A s \in Sockets : conn[s].room # NoRoom =>
       [room |-> conn[s].room, peer |-> conn[s].peer, socket |-> s] \in seats
  /\ \A x, y \in seats : /\ x.room = y.room
                         /\ x.peer = y.peer
                         /\ x.peer # NoPeer
                         => x = y
  /\ \A r \in Rooms : mode[r] # "none" => Seated(r) # {}

(* The limits hold through every order of joins, leaves, drops and sweeps. *)
(* (room-registry.ts:190, :224, :233.)                                     *)
WithinLimits ==
  /\ Cardinality(LiveRooms) <= MaxRooms
  /\ \A r \in Rooms :
       Cardinality(Seated(r)) <= IF mode[r] = "pair" THEN MaxPeersPerRoom ELSE MaxGroupPeers

(* The seating is consistent and within its limits.                        *)
SeatingHolds == SeatsMatchConnections /\ WithinLimits

(* Only seated members offer, so glare cannot arise: of two sockets seated *)
(* together, exactly one has been told that the other one joined.          *)
(* (connection.ts:122-133, :136-148; protocol-v2-group.md.)                *)
OneOfTwoIsTold ==
  \A s, t \in alive :
    /\ s # t
    /\ conn[s].room # NoRoom
    /\ conn[s].room = conn[t].room
    => (conn[s].peer \in view[t] <=> conn[t].peer \notin view[s])

(* A group member is never told of a peer that is not seated with it, a    *)
(* label that was given up and taken again included.                       *)
NoGhostMembers ==
  \A s \in alive : \A p \in view[s] \ {NoPeer} :
    \E t \in Seated(conn[s].room) \ {s} : conn[t].peer = p

(* What the members of a room have been told is true, and is enough for    *)
(* each two of them to be linked by exactly one.                           *)
ViewsAreTrue == OneOfTwoIsTold /\ NoGhostMembers

(* A socket that died is forgotten, even if no hook ever reports it.       *)
DeadSocketsAreForgotten ==
  \A s \in Sockets : (s \in tracked \ alive) ~> (s \notin tracked)

(* A group member that was told of a peer hears of its death, or is gone   *)
(* itself.                                                                 *)
DeathIsAnnounced ==
  \A t \in Sockets, p \in PeerIds :
    (/\ p \in view[t]
     /\ \E s \in tracked \ alive : conn[s] = [room |-> conn[t].room, peer |-> p])
    ~> (p \notin view[t])

=============================================================================
