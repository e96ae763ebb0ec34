--------------------------- MODULE GroupHostsProofs ---------------------------
(***************************************************************************)
(* Theorems about GroupHosts, for all groups and however many hosts, calls *)
(* and messages.                                                           *)
(***************************************************************************)
EXTENDS GroupHosts, FiniteSetTheorems, TLAPS

Host == [group : GroupId, seat : {"none", "seated", "left"}, ended : BOOLEAN,
         detached : BOOLEAN, got : SUBSET Nat, seen : SUBSET Nat, unread : Nat]
Tasks == [op : {"start", "join", "send", "clear"}, group : GroupId \cup {Nowhere},
          host : Nat, at : {"store", "refresh", "wait", "fan", "wipe", "done"}, on : Nat]

(* The values of the variables.                                            *)
TypeOK ==
  /\ host \in Seq(Host) /\ clock \in Nat /\ over \in BOOLEAN
  /\ Registered \subseteq GroupId
  /\ \A g \in Registered : groups[g] \in Hosts
  /\ \A g \in DOMAIN marker : marker[g] \in 0..clock

(* A call that stores or sends works on a host that was built, and one     *)
(* that waits asked for a group and waits for a call.                      *)
TasksAreSound ==
  /\ task \in Seq(Tasks)
  /\ \A g \in DOMAIN pending : pending[g] \in Nat
  /\ \A i \in DOMAIN task : /\ task[i].at \in {"store", "fan"} => task[i].host \in Hosts
                            /\ task[i].at = "wait" => task[i].group \in GroupId

(* A set of arrivals is empty or has a last.                               *)
HasLatest(S) == S # {} => \E t \in S : \A u \in S : u <= t

(* A host that has ended holds no seat, and what it got has come.          *)
HostIsSound(h) ==
  /\ h.ended => h.seat = "left"
  /\ h.seen \subseteq h.got /\ h.got \subseteq 1..clock /\ HasLatest(h.got)
HostsAreSound == \A n \in Hosts : HostIsSound(host[n])

(* The read marker of a registered group splits what its host got into     *)
(* seen and unseen; of the group that is shown, all is seen.               *)
MarkersAreExact ==
  \A g \in Registered :
    LET h == host[groups[g]] IN
    /\ h.got \ h.seen = {t \in h.got : t > ReadUpTo(g)}
    /\ shown = g => h.seen = h.got

HostsInv == /\ TypeOK /\ HostsAreSound /\ MarkersAreExact
            /\ GroupsMatchHosts /\ UnreadIsExact

-----------------------------------------------------------------------------
LEMMA LatestFacts ==
  ASSUME NEW S \in SUBSET Nat, HasLatest(S)
  PROVE  /\ Latest(S) \in Nat
         /\ S = {} => Latest(S) = 0
         /\ S # {} => Latest(S) \in S
         /\ \A t \in S : t <= Latest(S)
<1>1. CASE S = {}
  BY <1>1 DEF Latest
<1>2. CASE S # {}
  <2>1. \E t \in S : \A u \in S : u <= t
    BY <1>2 DEF HasLatest
  <2>2. Latest(S) = CHOOSE t \in S : \A u \in S : u <= t
    BY <1>2 DEF Latest
  <2>3. Latest(S) \in S /\ \A u \in S : u <= Latest(S)
    BY <2>1, <2>2, Zenon
  <2> QED
    BY <1>2, <2>3
<1> QED
  BY <1>1, <1>2

(* What came up to now is a finite set.                                    *)
LEMMA CountType ==
  ASSUME clock \in Nat, NEW S, S \subseteq 1..clock
  PROVE  IsFiniteSet(S) /\ Cardinality(S) \in Nat
<1>1. IsFiniteSet(1..clock)
  BY FS_Interval
<1> QED
  BY <1>1, FS_Subset, FS_CardinalityType

(* Replacing one host.                                                     *)
LEMMA UpdateHost ==
  ASSUME host \in Seq(Host), NEW n \in Hosts, NEW h \in Host, host' = [host EXCEPT ![n] = h]
  PROVE  /\ host' \in Seq(Host) /\ Hosts' = Hosts
         /\ host'[n] = h /\ \A m \in Hosts \ {n} : host'[m] = host[m]
BY DEF Hosts

LEMMA AppendHost ==
  ASSUME host \in Seq(Host), NEW h \in Host, NEW k \in Host,
         host' = [Append(host, h) EXCEPT ![Len(host) + 1] = k]
  PROVE  /\ host' \in Seq(Host) /\ Hosts' = Hosts \cup {Len(host) + 1}
         /\ Len(host) + 1 \notin Hosts
         /\ host'[Len(host) + 1] = k /\ \A m \in Hosts : host'[m] = host[m]
<1> DEFINE a == Append(host, h)
<1>1. /\ a \in Seq(Host) /\ Len(a) = Len(host) + 1 /\ Len(host) \in Nat
      /\ \A m \in 1..Len(host) : a[m] = host[m]
  OBVIOUS
<1>2. DOMAIN a = 1..Len(host) + 1 /\ Hosts = 1..Len(host)
  BY <1>1 DEF Hosts
<1>3. host' = [a EXCEPT ![Len(host) + 1] = k]
  OBVIOUS
<1> HIDE DEF a
<1>4. host' \in Seq(Host) /\ DOMAIN host' = DOMAIN a
  BY <1>1, <1>2, <1>3
<1>5. host'[Len(host) + 1] = k /\ \A m \in 1..Len(host) : host'[m] = a[m]
  BY <1>1, <1>2, <1>3
<1>6. Hosts' = 1..Len(host) + 1
  BY <1>2, <1>4 DEF Hosts
<1> QED
  BY <1>1, <1>2, <1>4, <1>5, <1>6

LEMMA InitInv == Init => HostsInv /\ TasksAreSound
<1> SUFFICES ASSUME Init PROVE HostsInv /\ TasksAreSound
  OBVIOUS
<1>1. /\ host \in Seq(Host) /\ Hosts = {} /\ Registered = {} /\ DOMAIN marker = {}
      /\ task \in Seq(Tasks) /\ DOMAIN task = {} /\ DOMAIN pending = {}
  BY DEF Init, Hosts, Registered
<1>2. TypeOK /\ TasksAreSound /\ HostsAreSound
  BY <1>1 DEF Init, TypeOK, TasksAreSound, HostsAreSound
<1>3. MarkersAreExact /\ GroupsMatchHosts /\ UnreadIsExact
  BY <1>1 DEF Init, MarkersAreExact, GroupsMatchHosts, UnreadIsExact
<1> QED
  BY <1>2, <1>3 DEF HostsInv

(* What a group received is read when it is shown.                         *)
LEMMA ReadFacts ==
  ASSUME NEW h \in Host
  PROVE  /\ Read(h) \in Host
         /\ Read(h).group = h.group /\ Read(h).ended = h.ended /\ Read(h).seat = h.seat
         /\ Read(h).got = h.got /\ Read(h).seen = h.got /\ Read(h).unread = 0
BY DEF Read, Host

-----------------------------------------------------------------------------
(* Moving the read marker of one group.                                    *)
LEMMA MarkFacts ==
  ASSUME NEW g, NEW t, marker' = With(marker, g, t)
  PROVE  /\ DOMAIN marker' = DOMAIN marker \cup {g} /\ marker'[g] = t
         /\ \A f \in DOMAIN marker \ {g} : marker'[f] = marker[f]
         /\ ReadUpTo(g)' = t
         /\ \A f : f # g => ReadUpTo(f)' = ReadUpTo(f)
BY DEF With, ReadUpTo

(* What is shown has seen all it got, and none of that is unread.          *)
LEMMA UnreadCounts ==
  ASSUME HostsInv, NEW g \in Registered
  PROVE  host[groups[g]].unread = Cardinality(host[groups[g]].got \ host[groups[g]].seen)
<1>1. MarkersAreExact /\ UnreadIsExact
  BY DEF HostsInv
<1>2. CASE shown = g
  <2>1. host[groups[g]].got \ host[groups[g]].seen = {} /\ host[groups[g]].unread = 0
    BY <1>1, <1>2 DEF MarkersAreExact, UnreadIsExact
  <2> QED
    BY <2>1, FS_EmptySet
<1> QED
  BY <1>1, <1>2 DEF UnreadIsExact

(* A registered group is shown: its host reads what it got.                *)
LEMMA SelectsInv ==
  ASSUME HostsInv, NEW g \in Registered, Selects(g), UNCHANGED <<clock, over>>
  PROVE  HostsInv'
<1> DEFINE n == groups[g]
           t == Latest(host[n].got)
<1>1. TypeOK /\ HostsAreSound /\ MarkersAreExact /\ GroupsMatchHosts /\ UnreadIsExact
  BY DEF HostsInv
<1>2. n \in Hosts /\ host[n] \in Host
  BY <1>1 DEF TypeOK, Hosts
<1>3. /\ shown' = g /\ marker' = With(marker, g, t) /\ host' = [host EXCEPT ![n] = Read(host[n])]
      /\ groups' = groups /\ Registered' = Registered
  BY DEF Selects, Show, Registered
<1>4. /\ host' \in Seq(Host) /\ Hosts' = Hosts
      /\ host'[n] = Read(host[n]) /\ \A m \in Hosts \ {n} : host'[m] = host[m]
  <2>1. Read(host[n]) \in Host
    BY <1>2, ReadFacts
  <2> QED
    BY <1>1, <1>2, <1>3, <2>1, UpdateHost DEF TypeOK
<1>5. /\ host'[n].group = host[n].group /\ host'[n].ended = host[n].ended
      /\ host'[n].seat = host[n].seat /\ host'[n].got = host[n].got
      /\ host'[n].seen = host[n].got /\ host'[n].unread = 0
  BY <1>2, <1>4, ReadFacts
<1>6. /\ DOMAIN marker' = DOMAIN marker \cup {g} /\ marker'[g] = t
      /\ \A f \in DOMAIN marker \ {g} : marker'[f] = marker[f]
      /\ ReadUpTo(g)' = t
      /\ \A f \in Registered \ {g} : ReadUpTo(f)' = ReadUpTo(f)
  BY <1>3, MarkFacts
<1>7. t \in 0..clock /\ \A u \in host[n].got : u \in Nat /\ u <= t
  <2>1. host[n].got \subseteq 1..clock /\ HasLatest(host[n].got) /\ clock \in Nat
    BY <1>1, <1>2 DEF HostsAreSound, HostIsSound, TypeOK
  <2>2. host[n].got \in SUBSET Nat
    BY <2>1
  <2> QED
    BY <2>1, <2>2, LatestFacts
<1> HIDE DEF t
<1>8. \A f \in Registered \ {g} : groups[f] \in Hosts \ {n}
  BY <1>1 DEF GroupsMatchHosts, TypeOK
<1>9. TypeOK'
  BY <1>1, <1>3, <1>4, <1>6, <1>7 DEF TypeOK
<1>10. HostsAreSound'
  BY <1>1, <1>2, <1>4, <1>5 DEF HostsAreSound, HostIsSound
<1>11. MarkersAreExact'
  <2>1. host'[n].got \ host'[n].seen = {u \in host'[n].got : u > ReadUpTo(g)'}
    BY <1>5, <1>6, <1>7
  <2>2. ASSUME NEW f \in Registered \ {g}
        PROVE  /\ host'[groups[f]] = host[groups[f]] /\ ReadUpTo(f)' = ReadUpTo(f)
               /\ shown' # f
    BY <1>3, <1>4, <1>6, <1>8
  <2> QED
    BY <1>1, <1>3, <1>5, <2>1, <2>2 DEF MarkersAreExact
<1>12. GroupsMatchHosts'
  BY <1>1, <1>2, <1>3, <1>4, <1>5 DEF GroupsMatchHosts
<1>13. UnreadIsExact'
  BY <1>3, <1>4, <1>5, <1>8, UnreadCounts DEF UnreadIsExact
<1> QED
  BY <1>9, <1>10, <1>11, <1>12, <1>13 DEF HostsInv

(* A group gets a host, and is shown.                                      *)
LEMMA BuildsInv ==
  ASSUME HostsInv, NEW g \in GroupId \ Registered, Builds(g), UNCHANGED <<clock, over>>
  PROVE  HostsInv'
<1> DEFINE n == Len(host) + 1
<1>1. TypeOK /\ HostsAreSound /\ MarkersAreExact /\ GroupsMatchHosts /\ UnreadIsExact
  BY DEF HostsInv
<1>2. NewHost(g) \in Host /\ NewHost(g).got = {}
  BY DEF NewHost, Host
<1>3. Read(NewHost(g)) \in Host /\ n \in Nat /\ host \in Seq(Host)
  BY <1>1, <1>2, ReadFacts DEF TypeOK
<1>4. /\ host' = [Append(host, NewHost(g)) EXCEPT ![n] = Read(NewHost(g))]
      /\ marker' = With(marker, g, 0) /\ shown' = g /\ groups' = With(groups, g, n)
  <2>1. Append(host, NewHost(g))[n] = NewHost(g)
    BY <1>2, <1>3
  <2>2. Latest({}) = 0
    BY DEF Latest
  <2> QED
    BY <1>2, <2>1, <2>2 DEF Builds, Show
<1>5. /\ host' \in Seq(Host) /\ Hosts' = Hosts \cup {n} /\ n \notin Hosts
      /\ host'[n] = Read(NewHost(g)) /\ \A m \in Hosts : host'[m] = host[m]
  BY <1>2, <1>3, <1>4, AppendHost
<1>6. /\ host'[n].group = g /\ host'[n].ended = FALSE /\ host'[n].seat = "none"
      /\ host'[n].got = {} /\ host'[n].seen = {} /\ host'[n].unread = 0
  BY <1>5 DEF Read, NewHost
<1>7. /\ DOMAIN marker' = DOMAIN marker \cup {g} /\ marker'[g] = 0
      /\ \A f \in DOMAIN marker \ {g} : marker'[f] = marker[f]
      /\ \A f \in Registered : ReadUpTo(f)' = ReadUpTo(f)
  BY <1>4, MarkFacts
<1>8. /\ Registered' = Registered \cup {g} /\ groups'[g] = n
      /\ \A f \in Registered : groups'[f] = groups[f] /\ f # g
  BY <1>4 DEF Registered, With
<1>9. TypeOK'
  BY <1>1, <1>5, <1>7, <1>8 DEF TypeOK
<1>10. HostsAreSound'
  BY <1>1, <1>5, <1>6 DEF HostsAreSound, HostIsSound, HasLatest
<1>11. MarkersAreExact'
  <2>1. ASSUME NEW f \in Registered
        PROVE  /\ host'[groups'[f]] = host[groups[f]] /\ ReadUpTo(f)' = ReadUpTo(f) /\ shown' # f
    BY <1>1, <1>4, <1>5, <1>7, <1>8 DEF TypeOK
  <2>2. /\ host'[groups'[g]].got = {} /\ host'[groups'[g]].seen = {}
    BY <1>6, <1>8
  <2> DEFINE h(f) == host'[groups'[f]]
  <2> SUFFICES ASSUME NEW f \in Registered'
               PROVE  /\ h(f).got \ h(f).seen = {t \in h(f).got : t > ReadUpTo(f)'}
                      /\ shown' = f => h(f).seen = h(f).got
    BY DEF MarkersAreExact
  <2>3. CASE f = g
    BY <2>2, <2>3
  <2>4. CASE f \in Registered
    BY <1>1, <2>1, <2>4 DEF MarkersAreExact
  <2> QED
    BY <1>8, <2>3, <2>4
<1>12. GroupsMatchHosts'
  BY <1>1, <1>4, <1>5, <1>6, <1>8 DEF GroupsMatchHosts, TypeOK
<1>13. UnreadIsExact'
  <2>1. ASSUME NEW f \in Registered
        PROVE  host'[groups'[f]] = host[groups[f]] /\ shown' # f
    BY <1>1, <1>4, <1>5, <1>8 DEF TypeOK
  <2>2. \A f \in Registered :
          host[groups[f]].unread = Cardinality(host[groups[f]].got \ host[groups[f]].seen)
    BY UnreadCounts
  <2> QED
    BY <1>4, <1>6, <1>8, <2>1, <2>2 DEF UnreadIsExact
<1> QED
  BY <1>9, <1>10, <1>11, <1>12, <1>13 DEF HostsInv

(* Hosts end, and the groups that are registered with them go: all of      *)
(* them when the controller is disposed of.                                *)
LEMMA TornInv ==
  ASSUME HostsInv, Nowhere \notin GroupId,
         NEW N \in SUBSET Hosts, NEW G, G = {g \in Registered : groups[g] \in N},
         host' = Torn(N), marker' = Without(marker, G),
         Registered' = Registered \ G, \A g \in Registered \ G : groups'[g] = groups[g],
         shown' = (IF shown \in G THEN Nowhere ELSE shown),
         UNCHANGED clock, over' \in BOOLEAN, over' => over \/ G = Registered
  PROVE  HostsInv'
<1>1. TypeOK /\ HostsAreSound /\ MarkersAreExact /\ GroupsMatchHosts /\ UnreadIsExact
  BY DEF HostsInv
<1>2. /\ Registered' = Registered \ G /\ \A g \in Registered \ G : groups'[g] = groups[g]
      /\ DOMAIN marker' = DOMAIN marker \ G
      /\ \A g \in DOMAIN marker' : marker'[g] = marker[g]
      /\ \A g \in Registered \ G : ReadUpTo(g)' = ReadUpTo(g)
  BY DEF Without, Registered, ReadUpTo
<1>3. /\ DOMAIN host' = Hosts /\ Hosts' = Hosts
      /\ \A n \in Hosts : host'[n] = IF n \notin N \/ host[n].ended THEN host[n]
                                     ELSE [host[n] EXCEPT !.ended = TRUE, !.seat = "left"]
  BY DEF Torn, Hosts
<1>4. \A n \in Hosts : host[n] \in Host
  BY <1>1 DEF TypeOK, Hosts
<1>5. ASSUME NEW n \in Hosts
      PROVE  /\ host'[n] \in Host
             /\ host'[n].group = host[n].group
             /\ host'[n].got = host[n].got /\ host'[n].seen = host[n].seen
             /\ host'[n].unread = host[n].unread
             /\ n \notin N => host'[n] = host[n]
             /\ host'[n].ended <=> host[n].ended \/ n \in N
             /\ ~host[n].ended /\ n \in N => host'[n].seat = "left"
             /\ host[n].ended => host'[n] = host[n]
  <2>1. CASE n \notin N \/ host[n].ended
    BY <1>3, <1>4, <2>1
  <2>2. CASE ~(n \notin N \/ host[n].ended)
    <3>1. host'[n] = [host[n] EXCEPT !.ended = TRUE, !.seat = "left"] /\ host[n] \in Host
      BY <1>3, <1>4, <2>2
    <3> QED
      BY <2>2, <3>1 DEF Host
  <2> QED
    BY <2>1, <2>2
<1>6. host' \in Seq(Host)
  <2>1. Hosts = 1..Len(host) /\ Len(host) \in Nat
    BY <1>1 DEF TypeOK, Hosts
  <2>2. host' \in [1..Len(host) -> Host]
    BY <1>3, <1>5, <2>1 DEF Torn
  <2> QED
    BY <2>1, <2>2
<1>7. \A g \in Registered \ G : groups[g] \in Hosts \ N
  BY <1>1 DEF TypeOK
<1>9. TypeOK'
  BY <1>1, <1>2, <1>3, <1>6 DEF TypeOK
<1>10. HostsAreSound'
  <2> SUFFICES ASSUME NEW n \in Hosts PROVE HostIsSound(host[n])'
    BY <1>3 DEF HostsAreSound
  <2>1. HostIsSound(host[n])
    BY <1>1 DEF HostsAreSound
  <2>2. host'[n].ended => host'[n].seat = "left"
    BY <1>5, <2>1 DEF HostIsSound
  <2> QED
    BY <1>5, <2>1, <2>2 DEF HostIsSound
<1>11. MarkersAreExact'
  BY <1>1, <1>2, <1>5, <1>7 DEF MarkersAreExact, TypeOK
<1>12. GroupsMatchHosts'
  <2>1. \A g \in Registered' : host'[groups'[g]].group = g /\ ~host'[groups'[g]].ended
    BY <1>1, <1>2, <1>5, <1>7 DEF GroupsMatchHosts
  <2>2. \A n \in Hosts : ~host'[n].ended => \E g \in Registered' : groups'[g] = n
    BY <1>1, <1>2, <1>5 DEF GroupsMatchHosts
  <2>3. over' => \A n \in Hosts : host'[n].seat # "seated"
    <3> SUFFICES ASSUME over', NEW n \in Hosts PROVE host'[n].seat # "seated"
      OBVIOUS
    <3>1. HostIsSound(host[n])
      BY <1>1 DEF HostsAreSound
    <3>2. CASE over
      BY <1>1, <1>5, <3>1, <3>2 DEF GroupsMatchHosts, HostIsSound
    <3>3. CASE G = Registered
      <4>1. host[n].ended \/ n \in N
        BY <1>1, <3>3 DEF GroupsMatchHosts
      <4> QED
        BY <1>5, <3>1, <4>1 DEF HostIsSound
    <3> QED
      BY <3>2, <3>3
  <2> QED
    BY <1>1, <1>2, <1>3, <2>1, <2>2, <2>3 DEF GroupsMatchHosts
<1>13. UnreadIsExact'
  <2>1. \A f \in Registered :
          host[groups[f]].unread = Cardinality(host[groups[f]].got \ host[groups[f]].seen)
    BY UnreadCounts
  <2>2. \A f \in Registered \ G : shown' = f => shown = f
    BY <1>1 DEF TypeOK
  <2>3. \A f \in Registered \ G : groups'[f] = groups[f] /\ host'[groups[f]] = host[groups[f]]
    BY <1>2, <1>5, <1>7
  <2> SUFFICES ASSUME NEW f \in Registered \ G
               PROVE  IF shown' = f THEN host'[groups'[f]].unread = 0
                      ELSE host'[groups'[f]].unread =
                             Cardinality(host'[groups'[f]].got \ host'[groups'[f]].seen)
    BY <1>2 DEF UnreadIsExact
  <2>4. shown' = f => host[groups[f]].unread = 0
    BY <1>1, <2>2 DEF UnreadIsExact
  <2>5. host'[groups'[f]] = host[groups[f]]
    BY <2>3
  <2>6. host[groups[f]].unread = Cardinality(host[groups[f]].got \ host[groups[f]].seen)
    BY <2>1
  <2> QED
    BY <2>4, <2>5, <2>6
<1> QED
  BY <1>9, <1>10, <1>11, <1>12, <1>13 DEF HostsInv

(* A host takes its seat, or is attached again: what it got stays.         *)
LEMMA SeatInv ==
  ASSUME HostsInv, NEW n \in Hosts, NEW h \in Host,
         host' = [host EXCEPT ![n] = h],
         h.group = host[n].group, h.ended = host[n].ended, h.got = host[n].got,
         h.seen = host[n].seen, h.unread = host[n].unread,
         h.ended => h.seat = "left", over => h.seat # "seated",
         UNCHANGED <<groups, shown, marker, clock, over>>
  PROVE  HostsInv'
<1>1. TypeOK /\ HostsAreSound /\ MarkersAreExact /\ GroupsMatchHosts /\ UnreadIsExact
  BY DEF HostsInv
<1>2. /\ host' \in Seq(Host) /\ Hosts' = Hosts
      /\ host'[n] = h /\ \A m \in Hosts \ {n} : host'[m] = host[m]
  BY <1>1, UpdateHost DEF TypeOK
<1>3. /\ Registered' = Registered /\ \A g : ReadUpTo(g)' = ReadUpTo(g)
      /\ \A g \in Registered : groups[g] \in Hosts
  BY <1>1 DEF Registered, ReadUpTo, TypeOK
<1>4. \A m \in Hosts : /\ host'[m].group = host[m].group /\ host'[m].ended = host[m].ended
                       /\ host'[m].got = host[m].got /\ host'[m].seen = host[m].seen
                       /\ host'[m].unread = host[m].unread
  BY <1>2
<1>5. TypeOK'
  BY <1>1, <1>2, <1>3 DEF TypeOK
<1>6. HostsAreSound'
  BY <1>1, <1>2, <1>4 DEF HostsAreSound, HostIsSound
<1>7. MarkersAreExact'
  BY <1>1, <1>3, <1>4 DEF MarkersAreExact
<1>8. GroupsMatchHosts'
  BY <1>1, <1>2, <1>3, <1>4 DEF GroupsMatchHosts
<1>9. UnreadIsExact'
  BY <1>1, <1>3, <1>4 DEF UnreadIsExact
<1> QED
  BY <1>5, <1>6, <1>7, <1>8, <1>9 DEF HostsInv

(* A session reports a change: of a group in the background, or of the one *)
(* that is shown; with a message that came just now, or without; of a host *)
(* that is registered, or of one that has ended since.                     *)
LEMMA ChangeInv ==
  ASSUME HostsInv, Nowhere \notin GroupId, NEW n \in Hosts, NEW h \in Host,
         h.group = host[n].group, h.ended = host[n].ended, h.seat = host[n].seat,
         h.seen = host[n].seen,
         \/ h.got = host[n].got /\ clock' = clock
         \/ h.got = host[n].got \cup {clock + 1} /\ clock' = clock + 1,
         host' = [host EXCEPT ![n] = Counted(h)], marker' = Marked(h),
         UNCHANGED <<groups, shown, over>>
  PROVE  HostsInv'
<1> DEFINE g == h.group
           k == Counted(h)
<1>1. TypeOK /\ HostsAreSound /\ MarkersAreExact /\ GroupsMatchHosts /\ UnreadIsExact
  BY DEF HostsInv
<1>2. /\ clock \in Nat /\ clock' \in Nat /\ clock' >= clock
      /\ g \in GroupId /\ ReadUpTo(g) \in 0..clock
  BY <1>1 DEF TypeOK, Host, ReadUpTo
<1>3. /\ h.seen \subseteq host[n].got /\ host[n].got \subseteq h.got
      /\ h.got \subseteq 1..clock' /\ HasLatest(h.got)
      /\ \A t \in h.got \ host[n].got : t = clock + 1 /\ clock' = clock + 1
  <2>1. /\ h.seen \subseteq host[n].got /\ host[n].got \subseteq 1..clock
        /\ HasLatest(host[n].got)
    BY <1>1 DEF HostsAreSound, HostIsSound
  <2>2. CASE h.got = host[n].got /\ clock' = clock
    BY <2>1, <2>2
  <2>3. CASE h.got = host[n].got \cup {clock + 1} /\ clock' = clock + 1
    <3>1. \A u \in h.got : u <= clock + 1
      BY <1>2, <2>1, <2>3
    <3> QED
      BY <1>2, <2>1, <2>3, <3>1 DEF HasLatest
  <2> QED
    BY <2>2, <2>3
<1>4. /\ Latest(h.got) \in 0..clock' /\ \A t \in h.got : t \in Nat /\ t <= Latest(h.got)
  <2>1. h.got \in SUBSET Nat
    BY <1>3
  <2> QED
    BY <1>2, <1>3, <2>1, LatestFacts
<1>5. /\ k \in Host /\ k.group = g /\ k.ended = h.ended /\ k.seat = h.seat /\ k.got = h.got
      /\ shown = g => k.seen = h.got /\ k.unread = 0
      /\ shown # g => /\ k.seen = h.seen
                      /\ k.unread = Cardinality({t \in h.got : t > ReadUpTo(g)})
  <2>1. CASE shown = g
    BY <2>1 DEF Counted, IsShown, Host
  <2>2. CASE shown # g
    <3>1. {t \in h.got : t > ReadUpTo(g)} \subseteq 1..clock'
      BY <1>3
    <3>2. Cardinality({t \in h.got : t > ReadUpTo(g)}) \in Nat
      <4>1. IsFiniteSet(1..clock')
        BY <1>2, FS_Interval
      <4> QED
        BY <3>1, <4>1, FS_Subset, FS_CardinalityType
    <3> QED
      BY <2>2, <3>2 DEF Counted, IsShown, Host
  <2> QED
    BY <2>1, <2>2
<1>6. /\ host' \in Seq(Host) /\ Hosts' = Hosts
      /\ host'[n] = k /\ \A m \in Hosts \ {n} : host'[m] = host[m]
  BY <1>1, <1>5, UpdateHost DEF TypeOK
<1>7. /\ \A f \in DOMAIN marker' : marker'[f] \in 0..clock'
      /\ \A f : f # g => ReadUpTo(f)' = ReadUpTo(f)
      /\ shown # g => ReadUpTo(g)' = ReadUpTo(g)
      /\ shown = g => /\ ReadUpTo(g)' >= ReadUpTo(g)
                      /\ ReadUpTo(g)' >= Latest(h.got) /\ ReadUpTo(g)' \in Nat
  <2>1. CASE shown = g /\ Latest(h.got) > ReadUpTo(g)
    <3>1. marker' = With(marker, g, Latest(h.got))
      BY <2>1 DEF Marked, IsShown
    <3>2. /\ DOMAIN marker' = DOMAIN marker \cup {g} /\ marker'[g] = Latest(h.got)
          /\ \A f \in DOMAIN marker \ {g} : marker'[f] = marker[f]
          /\ ReadUpTo(g)' = Latest(h.got)
          /\ \A f : f # g => ReadUpTo(f)' = ReadUpTo(f)
      BY <3>1, MarkFacts
    <3> QED
      BY <1>1, <1>2, <1>4, <2>1, <3>2 DEF TypeOK
  <2>2. CASE ~(shown = g /\ Latest(h.got) > ReadUpTo(g))
    <3>1. marker' = marker
      BY <2>2 DEF Marked, IsShown
    <3>2. \A f : ReadUpTo(f)' = ReadUpTo(f)
      BY <3>1 DEF ReadUpTo
    <3> QED
      BY <1>1, <1>2, <1>4, <2>2, <3>1, <3>2 DEF TypeOK
  <2> QED
    BY <2>1, <2>2
<1> HIDE DEF k
<1>8. Registered' = Registered /\ \A f \in Registered : groups[f] \in Hosts /\ groups'[f] = groups[f]
  BY <1>1 DEF TypeOK, Registered
<1>9. TypeOK'
  BY <1>1, <1>2, <1>6, <1>7, <1>8 DEF TypeOK
<1>10. HostsAreSound'
  <2> SUFFICES ASSUME NEW m \in Hosts PROVE HostIsSound(host[m])'
    BY <1>6 DEF HostsAreSound
  <2>1. HostIsSound(host[m])
    BY <1>1 DEF HostsAreSound
  <2>2. CASE m = n
    BY <1>3, <1>5, <1>6, <2>1, <2>2 DEF HostIsSound
  <2>3. CASE m # n
    BY <1>2, <1>6, <2>1, <2>3 DEF HostIsSound
  <2> QED
    BY <2>2, <2>3
\* For the host itself, and for another one that is registered for its group.
<1>11. ASSUME NEW f \in Registered
       PROVE  LET j == host'[groups[f]]
              IN /\ j.got \ j.seen = {t \in j.got : t > ReadUpTo(f)'}
                 /\ shown = f => j.seen = j.got /\ j.unread = 0
                 /\ shown # f => j.unread = Cardinality(j.got \ j.seen)
  <2>1. LET j == host[groups[f]]
        IN /\ j.got \ j.seen = {t \in j.got : t > ReadUpTo(f)}
           /\ shown = f => j.seen = j.got /\ j.unread = 0
           /\ shown # f => j.unread = Cardinality(j.got \ j.seen)
    BY <1>1 DEF MarkersAreExact, UnreadIsExact
  <2>2. CASE groups[f] = n
    <3>1. f = g
      BY <1>1, <2>2 DEF GroupsMatchHosts
    <3>2. CASE shown = g
      BY <1>4, <1>5, <1>6, <1>7, <2>2, <3>1, <3>2
    <3>3. CASE shown # g
      <4>1. h.got \ h.seen = {t \in h.got : t > ReadUpTo(g)}
        BY <1>2, <1>3, <2>1, <2>2, <3>1
      <4>2. k.got \ k.seen = {t \in h.got : t > ReadUpTo(g)}
        BY <1>5, <3>3, <4>1
      <4>3. host'[groups[f]] = k /\ ReadUpTo(f)' = ReadUpTo(g) /\ k.got = h.got /\ shown # f
        BY <1>5, <1>6, <1>7, <2>2, <3>1, <3>3
      <4>4. k.unread = Cardinality(k.got \ k.seen)
        BY <1>5, <3>3, <4>2
      <4> HIDE DEF g
      <4> QED
        BY <4>2, <4>3, <4>4
    <3> QED
      BY <3>2, <3>3
  <2>3. CASE groups[f] # n
    <3>1. host'[groups[f]] = host[groups[f]]
      BY <1>6, <1>8, <2>3, SMTT(40)
    <3>2. CASE f = g /\ shown = g
      <4>1. host[groups[f]].got \subseteq Nat
        BY <1>1, <1>8 DEF HostsAreSound, HostIsSound
      <4> QED
        BY <1>2, <1>7, <2>1, <3>1, <3>2, <4>1, SMTT(40)
    <3>3. CASE ~(f = g /\ shown = g)
      <4>1. ReadUpTo(f)' = ReadUpTo(f)
        BY <1>7, <3>3
      <4> QED
        BY <2>1, <3>1, <4>1
    <3> QED
      BY <3>2, <3>3
  <2> QED
    BY <2>2, <2>3
<1>12. MarkersAreExact' /\ UnreadIsExact'
  BY <1>8, <1>11 DEF MarkersAreExact, UnreadIsExact
<1>13. GroupsMatchHosts'
  BY <1>1, <1>5, <1>6, <1>8 DEF GroupsMatchHosts
<1> QED
  BY <1>9, <1>10, <1>12, <1>13 DEF HostsInv

(* The repository was wiped: what is registered has received nothing.      *)
LEMMA WipesInv ==
  ASSUME HostsInv,
         host' = [n \in Hosts |-> IF \E g \in Registered : groups[g] = n THEN Wiped(n)
                                  ELSE host[n]],
         marker' = Without(marker, Registered),
         UNCHANGED <<groups, shown, clock, over>>
  PROVE  HostsInv'
<1>1. TypeOK /\ HostsAreSound /\ MarkersAreExact /\ GroupsMatchHosts /\ UnreadIsExact
  BY DEF HostsInv
<1>2. \A n \in Hosts : host[n] \in Host
  BY <1>1 DEF TypeOK, Hosts
<1>3. DOMAIN host' = Hosts /\ Hosts' = Hosts /\ Registered' = Registered
  BY DEF Hosts, Registered
<1>4. ASSUME NEW n \in Hosts
      PROVE  /\ host'[n] \in Host /\ host'[n].group = host[n].group
             /\ host'[n].ended = host[n].ended /\ host'[n].seat = host[n].seat
             /\ \/ host'[n] = host[n]
                \/ host'[n].got = {} /\ host'[n].seen = {} /\ host'[n].unread = 0
  <2>1. host[n] \in Host
    BY <1>2
  <2>2. CASE \E g \in Registered : groups[g] = n
    <3>1. host'[n] = [host[n] EXCEPT !.got = {}, !.seen = {}, !.unread = 0, !.detached = TRUE]
      BY <2>2 DEF Wiped
    <3> DEFINE w == [host[n] EXCEPT !.got = {}, !.seen = {}, !.unread = 0, !.detached = TRUE]
    <3>2. /\ w \in Host /\ w.group = host[n].group
          /\ w.ended = host[n].ended /\ w.seat = host[n].seat
      BY <2>1 DEF Host
    <3>3. w.got = {} /\ w.seen = {} /\ w.unread = 0
      BY <2>1 DEF Host
    <3>4. host'[n] = w
      BY <3>1
    <3> HIDE DEF w
    <3> QED
      BY <3>2, <3>3, <3>4
  <2>3. CASE ~\E g \in Registered : groups[g] = n
    BY <2>1, <2>3
  <2> QED
    BY <2>2, <2>3
<1>5. host' \in Seq(Host)
  <2>1. Hosts = 1..Len(host) /\ Len(host) \in Nat
    BY <1>1 DEF TypeOK, Hosts
  <2>2. host' \in [1..Len(host) -> Host]
    BY <1>4, <2>1
  <2> QED
    BY <2>1, <2>2
<1>6. ASSUME NEW g \in Registered
      PROVE  /\ groups[g] \in Hosts /\ host'[groups[g]].got = {}
             /\ host'[groups[g]].seen = {} /\ host'[groups[g]].unread = 0
  <2>1. groups[g] \in Hosts /\ host[groups[g]] \in Host
    BY <1>1, <1>2 DEF TypeOK
  <2>2. host'[groups[g]] = [host[groups[g]] EXCEPT !.got = {}, !.seen = {}, !.unread = 0,
                                                   !.detached = TRUE]
    BY <2>1 DEF Wiped
  <2> QED
    BY <2>1, <2>2 DEF Host
<1>7. TypeOK'
  BY <1>1, <1>3, <1>5 DEF TypeOK, Without
<1>8. HostsAreSound'
  <2> SUFFICES ASSUME NEW n \in Hosts PROVE HostIsSound(host[n])'
    BY <1>3 DEF HostsAreSound
  <2>1. HostIsSound(host[n])
    BY <1>1 DEF HostsAreSound
  <2>2. clock' = clock
    OBVIOUS
  <2>3. CASE host'[n] = host[n]
    BY <2>1, <2>2, <2>3 DEF HostIsSound
  <2>4. CASE host'[n].got = {} /\ host'[n].seen = {}
    BY <1>4, <2>1, <2>2, <2>4 DEF HostIsSound, HasLatest
  <2> QED
    BY <1>4, <2>3, <2>4
<1>9. MarkersAreExact'
  <2> SUFFICES ASSUME NEW g \in Registered
               PROVE  LET j == host'[groups[g]]
                      IN /\ j.got \ j.seen = {t \in j.got : t > ReadUpTo(g)'}
                         /\ shown' = g => j.seen = j.got
    BY <1>3 DEF MarkersAreExact
  <2>1. host'[groups[g]].got = {} /\ host'[groups[g]].seen = {}
    BY <1>6
  <2> QED
    BY <2>1
<1>10. GroupsMatchHosts'
  BY <1>1, <1>3, <1>4 DEF GroupsMatchHosts, TypeOK
<1>11. UnreadIsExact'
  <2>1. Cardinality({}) = 0
    BY FS_EmptySet
  <2> SUFFICES ASSUME NEW g \in Registered
               PROVE  IF shown' = g THEN host'[groups'[g]].unread = 0
                      ELSE host'[groups'[g]].unread =
                             Cardinality(host'[groups'[g]].got \ host'[groups'[g]].seen)
    BY <1>3 DEF UnreadIsExact
  <2>2. host'[groups'[g]].unread = 0 /\ host'[groups'[g]].got \ host'[groups'[g]].seen = {}
    BY <1>6
  <2> QED
    BY <2>1, <2>2
<1> QED
  BY <1>7, <1>8, <1>9, <1>10, <1>11 DEF HostsInv

(* A conversation is shown instead of a group.                             *)
LEMMA HiddenInv ==
  ASSUME HostsInv, Nowhere \notin GroupId, shown' = Nowhere,
         UNCHANGED <<host, groups, marker, clock, over>>
  PROVE  HostsInv'
<1>1. TypeOK /\ HostsAreSound /\ MarkersAreExact /\ GroupsMatchHosts /\ UnreadIsExact
  BY DEF HostsInv
<1>2. Hosts' = Hosts /\ Registered' = Registered /\ \A g : ReadUpTo(g)' = ReadUpTo(g)
  BY DEF Hosts, Registered, ReadUpTo
<1>3. \A g \in Registered : shown' # g
  BY <1>1 DEF TypeOK
<1>4. TypeOK' /\ HostsAreSound'
  BY <1>1, <1>2 DEF TypeOK, HostsAreSound, HostIsSound
<1>5. MarkersAreExact' /\ GroupsMatchHosts'
  BY <1>1, <1>2, <1>3 DEF MarkersAreExact, GroupsMatchHosts
<1>6. UnreadIsExact'
  <2>1. \A f \in Registered :
          host[groups[f]].unread = Cardinality(host[groups[f]].got \ host[groups[f]].seen)
    BY UnreadCounts
  <2> QED
    BY <1>2, <1>3, <2>1 DEF UnreadIsExact
<1> QED
  BY <1>4, <1>5, <1>6 DEF HostsInv

(* Nothing of the groups changes.                                          *)
LEMMA SameInv ==
  ASSUME HostsInv, UNCHANGED <<host, groups, shown, marker, clock, over>>
  PROVE  HostsInv'
<1>1. Hosts' = Hosts /\ Registered' = Registered /\ \A g : ReadUpTo(g)' = ReadUpTo(g)
  BY DEF Hosts, Registered, ReadUpTo
<1> QED
  BY <1>1 DEF HostsInv, TypeOK, HostsAreSound, HostIsSound, MarkersAreExact,
              GroupsMatchHosts, UnreadIsExact

-----------------------------------------------------------------------------
(* The calls.                                                              *)

LEMMA CallsTasks ==
  ASSUME TasksAreSound, NEW op, NEW g, NEW n, NEW at, NEW on,
         Task(op, g, n, at, on) \in Tasks, Calls(op, g, n, at, on),
         Hosts \subseteq Hosts', at \in {"store", "fan"} => n \in Hosts',
         at = "wait" => g \in GroupId,
         \A f \in DOMAIN pending' : pending'[f] \in Nat
  PROVE  TasksAreSound'
<1> DEFINE t == Task(op, g, n, at, on)
<1>1. task \in Seq(Tasks) /\ task' = Append(task, t) /\ t \in Tasks
  BY DEF TasksAreSound, Calls
<1>2. t.at = at /\ t.host = n /\ t.group = g
  BY DEF Task
<1> HIDE DEF t
<1>3. /\ task' \in Seq(Tasks) /\ DOMAIN task' = DOMAIN task \cup {Len(task) + 1}
      /\ task'[Len(task) + 1] = t /\ \A i \in DOMAIN task : task'[i] = task[i]
  BY <1>1
<1> QED
  BY <1>2, <1>3 DEF TasksAreSound

LEMMA UpdateTask ==
  ASSUME task \in Seq(Tasks), NEW i \in DOMAIN task, NEW t \in Tasks,
         task' = [task EXCEPT ![i] = t]
  PROVE  /\ task' \in Seq(Tasks) /\ DOMAIN task' = DOMAIN task
         /\ task'[i] = t /\ \A j \in DOMAIN task \ {i} : task'[j] = task[j]
OBVIOUS

LEMMA MoveTasks ==
  ASSUME TasksAreSound, NEW i \in DOMAIN task, NEW at \in {"refresh", "done"},
         task' = To(i, at), Hosts' = Hosts,
         \A f \in DOMAIN pending' : pending'[f] \in Nat
  PROVE  TasksAreSound'
<1>1. task \in Seq(Tasks) /\ task[i] \in Tasks
  BY DEF TasksAreSound
<1> DEFINE t == [task[i] EXCEPT !.at = at]
<1>2. t \in Tasks /\ t.at = at
  BY <1>1 DEF Tasks
<1>3. task' = [task EXCEPT ![i] = t]
  BY DEF To
<1> HIDE DEF t
<1>4. /\ task' \in Seq(Tasks) /\ DOMAIN task' = DOMAIN task
      /\ task'[i] = t /\ \A j \in DOMAIN task \ {i} : task'[j] = task[j]
  BY <1>1, <1>2, <1>3, UpdateTask
<1> QED
  BY <1>2, <1>4 DEF TasksAreSound

LEMMA BuildTasks ==
  ASSUME TasksAreSound, NEW i \in DOMAIN task, NEW n \in Nat,
         task' = [task EXCEPT ![i].at = "store", ![i].host = n],
         Hosts' = Hosts \cup {n},
         \A f \in DOMAIN pending' : pending'[f] \in Nat
  PROVE  TasksAreSound'
<1>1. task \in Seq(Tasks) /\ task[i] \in Tasks
  BY DEF TasksAreSound
<1> DEFINE t == [task[i] EXCEPT !.at = "store", !.host = n]
<1>2. t \in Tasks /\ t.at = "store" /\ t.host = n
  BY <1>1 DEF Tasks
<1>3. task' = [task EXCEPT ![i] = t]
  OBVIOUS
<1> HIDE DEF t
<1>4. /\ task' \in Seq(Tasks) /\ DOMAIN task' = DOMAIN task
      /\ task'[i] = t /\ \A j \in DOMAIN task \ {i} : task'[j] = task[j]
  BY <1>1, <1>2, <1>3, UpdateTask
<1> QED
  BY <1>2, <1>4 DEF TasksAreSound

LEMMA SameTasks ==
  ASSUME TasksAreSound, UNCHANGED <<task, pending>>, Hosts' = Hosts
  PROVE  TasksAreSound'
BY DEF TasksAreSound

LEMMA BuildsHosts ==
  ASSUME TypeOK, NEW g, Builds(g)
  PROVE  Hosts' = Hosts \cup {Len(host) + 1} /\ Len(host) + 1 \in Nat
<1> DEFINE a == Append(host, NewHost(g))
<1>1. host \in Seq(Host) /\ Len(host) \in Nat /\ Hosts = 1..Len(host)
  BY DEF TypeOK, Hosts
<1>2. DOMAIN host' = DOMAIN a
  BY DEF Builds, Show
<1>3. DOMAIN a = 1..Len(a) /\ Len(a) = Len(host) + 1
  BY <1>1
<1> QED
  BY <1>1, <1>2, <1>3 DEF Hosts

LEMMA PendingFacts ==
  ASSUME TasksAreSound, NEW g, NEW n \in Nat, pending' = With(pending, g, n)
  PROVE  \A f \in DOMAIN pending' : pending'[f] \in Nat
BY DEF TasksAreSound, With

LEMMA SettledFacts ==
  ASSUME TasksAreSound, NEW i, pending' = Settled(i)
  PROVE  \A f \in DOMAIN pending' : pending'[f] \in Nat
BY DEF TasksAreSound, Settled, Without

-----------------------------------------------------------------------------
LEMMA EndedInv ==
  ASSUME HostsInv, Nowhere \notin GroupId, NEW n \in Hosts, Ended(n), UNCHANGED <<clock, over>>
  PROVE  HostsInv' /\ Hosts' = Hosts
<1> DEFINE G == {g \in Registered : groups[g] = n}
<1>1. /\ host' = Torn({n}) /\ marker' = Without(marker, G)
      /\ shown' = IF shown \in G THEN Nowhere ELSE shown
      /\ groups' = Without(groups, G)
  BY DEF Ended, Evict
<1>2. Registered' = Registered \ G /\ \A g \in Registered \ G : groups'[g] = groups[g]
  BY <1>1 DEF Without, Registered
<1>3. G = {g \in Registered : groups[g] \in {n}} /\ {n} \in SUBSET Hosts
  OBVIOUS
<1>4. over' \in BOOLEAN /\ (over' => over)
  BY DEF HostsInv, TypeOK
<1> HIDE DEF G
<1>5. HostsInv'
  BY <1>1, <1>2, <1>3, <1>4, TornInv
<1> QED
  BY <1>1, <1>5 DEF Torn, Hosts

LEMMA LeavesInv ==
  ASSUME HostsInv, Nowhere \notin GroupId, Leaves, UNCHANGED clock, over' \in BOOLEAN
  PROVE  HostsInv' /\ Hosts' = Hosts
<1> DEFINE N == {groups[g] : g \in Registered}
           G == Registered
<1>1. host' = Torn(N) /\ groups' = <<>> /\ marker' = Without(marker, G) /\ shown' = Nowhere
  BY DEF Leaves
<1>2. N \in SUBSET Hosts /\ G = {g \in Registered : groups[g] \in N}
  BY DEF HostsInv, TypeOK
<1>3. Registered' = Registered \ G /\ \A g \in Registered \ G : groups'[g] = groups[g]
  BY <1>1 DEF Registered
<1>4. shown' = IF shown \in G THEN Nowhere ELSE shown
  BY <1>1 DEF HostsInv, GroupsMatchHosts
<1>5. UNCHANGED clock /\ over' \in BOOLEAN /\ (over' => over \/ G = Registered)
  OBVIOUS
<1> HIDE DEF N, G
<1>6. HostsInv'
  BY <1>1, <1>2, <1>3, <1>4, <1>5, TornInv
<1> QED
  BY <1>1, <1>6 DEF Torn, Hosts

Inv == HostsInv /\ TasksAreSound

LEMMA SelectsBoth ==
  ASSUME HostsInv, NEW g \in Registered, Selects(g), UNCHANGED <<clock, over>>
  PROVE  HostsInv' /\ Hosts' = Hosts /\ pending' = pending
<1>1. HostsInv'
  BY SelectsInv
<1>2. DOMAIN host' = DOMAIN host /\ pending' = pending
  BY DEF Selects, Show
<1> QED
  BY <1>1, <1>2 DEF Hosts

LEMMA StartGroupInv ==
  ASSUME Inv, NEW g \in GroupId, StartGroup(g) PROVE Inv'
<1>1. /\ HostsInv /\ TypeOK /\ TasksAreSound /\ Builds(g) /\ UNCHANGED <<pending, clock, over>>
      /\ Calls("start", g, Len(host) + 1, "store", 0)
  BY DEF Inv, HostsInv, StartGroup
<1>2. g \notin Registered
  <2>1. \A n \in Hosts : host[n].group # g
    BY DEF StartGroup
  <2> QED
    BY <1>1, <2>1 DEF HostsInv, GroupsMatchHosts, TypeOK
<1>3. HostsInv'
  BY <1>1, <1>2, BuildsInv
<1>4. Hosts' = Hosts \cup {Len(host) + 1} /\ Len(host) + 1 \in Nat
  BY <1>1, BuildsHosts
<1>5. Task("start", g, Len(host) + 1, "store", 0) \in Tasks
  BY <1>4 DEF Task, Tasks
<1>6. \A f \in DOMAIN pending' : pending'[f] \in Nat
  BY <1>1 DEF TasksAreSound
<1>7. TasksAreSound'
  BY <1>1, <1>4, <1>5, <1>6, CallsTasks
<1> QED
  BY <1>3, <1>7 DEF Inv

LEMMA JoinGroupInv ==
  ASSUME Inv, NEW g \in GroupId, JoinGroup(g) PROVE Inv'
<1>1. HostsInv /\ TypeOK /\ TasksAreSound /\ UNCHANGED <<clock, over>>
  BY DEF Inv, HostsInv, JoinGroup
<1>2. CASE g \in Registered /\ Calls("join", g, 0, "done", 0) /\ Selects(g)
  <2>1. HostsInv' /\ Hosts' = Hosts /\ pending' = pending
    BY <1>1, <1>2, SelectsBoth
  <2>2. Task("join", g, 0, "done", 0) \in Tasks
    BY DEF Task, Tasks
  <2>3. \A f \in DOMAIN pending' : pending'[f] \in Nat
    BY <1>1, <2>1 DEF TasksAreSound
  <2>4. TasksAreSound'
    BY <1>1, <1>2, <2>1, <2>2, <2>3, CallsTasks
  <2> QED
    BY <2>1, <2>4 DEF Inv
<1>3. CASE /\ g \notin Registered /\ g \in DOMAIN pending
           /\ Calls("join", g, 0, "wait", pending[g])
           /\ UNCHANGED <<host, groups, pending, shown, marker>>
  <2>1. HostsInv' /\ Hosts' = Hosts
    BY <1>1, <1>3, SameInv DEF Hosts
  <2>2. Task("join", g, 0, "wait", pending[g]) \in Tasks
    BY <1>1, <1>3 DEF Task, Tasks, TasksAreSound
  <2>3. \A f \in DOMAIN pending' : pending'[f] \in Nat
    BY <1>1, <1>3 DEF TasksAreSound
  <2>4. TasksAreSound'
    BY <1>1, <1>3, <2>1, <2>2, <2>3, CallsTasks
  <2> QED
    BY <2>1, <2>4 DEF Inv
<1>4. CASE /\ g \notin Registered /\ g \notin DOMAIN pending
           /\ Calls("join", g, Len(host) + 1, "store", 0)
           /\ Attempts(Len(task) + 1, g)
  <2>1. Builds(g) /\ pending' = With(pending, g, Len(task) + 1)
    BY <1>4 DEF Attempts
  <2>2. HostsInv'
    BY <1>1, <1>4, <2>1, BuildsInv
  <2>3. Hosts' = Hosts \cup {Len(host) + 1} /\ Len(host) + 1 \in Nat
    BY <1>1, <2>1, BuildsHosts
  <2>4. Task("join", g, Len(host) + 1, "store", 0) \in Tasks
    BY <2>3 DEF Task, Tasks
  <2>5. Len(task) + 1 \in Nat
    BY <1>1 DEF TasksAreSound
  <2>6. \A f \in DOMAIN pending' : pending'[f] \in Nat
    BY <1>1, <2>1, <2>5, PendingFacts
  <2>7. TasksAreSound'
    BY <1>1, <1>4, <2>3, <2>4, <2>6, CallsTasks
  <2> QED
    BY <2>2, <2>7 DEF Inv
<1> QED
  BY <1>2, <1>3, <1>4 DEF JoinGroup

LEMMA WokenInv ==
  ASSUME Inv, NEW i \in DOMAIN task, Woken(i) PROVE Inv'
<1> DEFINE g == task[i].group
<1>1. /\ HostsInv /\ TypeOK /\ TasksAreSound /\ UNCHANGED <<clock, over>>
      /\ g \in GroupId
  BY DEF Inv, HostsInv, Woken, TasksAreSound
<1>2. CASE g \in Registered
  <2>1. Selects(g) /\ task' = To(i, "done")
    BY <1>2 DEF Woken
  <2>2. HostsInv' /\ Hosts' = Hosts /\ pending' = pending
    BY <1>1, <1>2, <2>1, SelectsBoth
  <2>3. \A f \in DOMAIN pending' : pending'[f] \in Nat
    BY <1>1, <2>2 DEF TasksAreSound
  <2>4. TasksAreSound'
    BY <1>1, <2>1, <2>2, <2>3, MoveTasks
  <2> QED
    BY <2>2, <2>4 DEF Inv
<1>3. CASE g \notin Registered
  <2>1. /\ Builds(g) /\ pending' = With(pending, g, i)
        /\ task' = [task EXCEPT ![i].at = "store", ![i].host = Len(host) + 1]
    BY <1>3 DEF Woken, Attempts
  <2>2. HostsInv'
    BY <1>1, <1>3, <2>1, BuildsInv
  <2>3. Hosts' = Hosts \cup {Len(host) + 1} /\ Len(host) + 1 \in Nat
    BY <1>1, <2>1, BuildsHosts
  <2>4. i \in Nat
    <3>1. task \in Seq(Tasks)
      BY <1>1 DEF TasksAreSound
    <3> QED
      BY <3>1
  <2>5. \A f \in DOMAIN pending' : pending'[f] \in Nat
    BY <1>1, <2>1, <2>4, PendingFacts
  <2>6. TasksAreSound'
    BY <1>1, <2>1, <2>3, <2>5, BuildTasks
  <2> QED
    BY <2>2, <2>6 DEF Inv
<1> QED
  BY <1>2, <1>3

LEMMA StoredInv ==
  ASSUME Inv, NEW i \in DOMAIN task, Stored(i) PROVE Inv'
<1> DEFINE n == task[i].host
           h == [host[n] EXCEPT !.seat = "seated"]
<1>1. /\ HostsInv /\ TypeOK /\ TasksAreSound /\ GroupsMatchHosts
      /\ UNCHANGED <<groups, shown, marker, clock, over>> /\ n \in Hosts
  BY DEF Inv, HostsInv, Stored, TasksAreSound
<1>2. CASE IsLive(n)
  <2>1. host' = [host EXCEPT ![n] = h] /\ task' = To(i, "refresh") /\ pending' = pending
    BY <1>2 DEF Stored
  <2>2. /\ host[n] \in Host /\ ~host[n].ended /\ ~over
    BY <1>1, <1>2 DEF TypeOK, Hosts, IsLive, GroupsMatchHosts
  <2>3. /\ h \in Host /\ h.group = host[n].group /\ h.ended = host[n].ended
        /\ h.got = host[n].got /\ h.seen = host[n].seen /\ h.unread = host[n].unread
    BY <2>2 DEF Host
  <2> HIDE DEF h
  <2>4. HostsInv'
    BY <1>1, <2>1, <2>2, <2>3, SeatInv
  <2>5. Hosts' = Hosts
    BY <2>1 DEF Hosts
  <2>6. \A f \in DOMAIN pending' : pending'[f] \in Nat
    BY <1>1, <2>1 DEF TasksAreSound
  <2>7. TasksAreSound'
    BY <1>1, <2>1, <2>5, <2>6, MoveTasks
  <2> QED
    BY <2>4, <2>7 DEF Inv
<1>3. CASE ~IsLive(n)
  <2>1. task' = To(i, "done") /\ pending' = Settled(i) /\ host' = host
    BY <1>3 DEF Stored
  <2>2. HostsInv' /\ Hosts' = Hosts
    BY <1>1, <2>1, SameInv DEF Hosts
  <2>3. \A f \in DOMAIN pending' : pending'[f] \in Nat
    BY <1>1, <2>1, SettledFacts
  <2>4. TasksAreSound'
    BY <1>1, <2>1, <2>2, <2>3, MoveTasks
  <2> QED
    BY <2>2, <2>4 DEF Inv
<1> QED
  BY <1>2, <1>3

LEMMA StoreFailsInv ==
  ASSUME Inv, Nowhere \notin GroupId, NEW i \in DOMAIN task, StoreFails(i) PROVE Inv'
<1>1. /\ HostsInv /\ TasksAreSound /\ task[i].host \in Hosts /\ Ended(task[i].host)
      /\ task' = To(i, "done") /\ pending' = Settled(i) /\ UNCHANGED <<clock, over>>
  BY DEF Inv, StoreFails, Failed, TasksAreSound
<1>2. HostsInv' /\ Hosts' = Hosts
  BY <1>1, EndedInv
<1>3. \A f \in DOMAIN pending' : pending'[f] \in Nat
  BY <1>1, SettledFacts
<1>4. TasksAreSound'
  BY <1>1, <1>2, <1>3, MoveTasks
<1> QED
  BY <1>2, <1>4 DEF Inv

LEMMA RefreshedInv ==
  ASSUME Inv, NEW i \in DOMAIN task, Refreshed(i) PROVE Inv'
<1>1. /\ HostsInv /\ TasksAreSound /\ task' = To(i, "done") /\ pending' = Settled(i)
      /\ UNCHANGED <<host, groups, shown, marker, clock, over>>
  BY DEF Inv, Refreshed
<1>2. HostsInv' /\ Hosts' = Hosts
  BY <1>1, SameInv DEF Hosts
<1>3. \A f \in DOMAIN pending' : pending'[f] \in Nat
  BY <1>1, SettledFacts
<1>4. TasksAreSound'
  BY <1>1, <1>2, <1>3, MoveTasks
<1> QED
  BY <1>2, <1>4 DEF Inv

LEMMA ReceiveInv ==
  ASSUME Inv, Nowhere \notin GroupId, NEW n \in Hosts, Receive(n) PROVE Inv'
<1>1. /\ HostsInv /\ TypeOK /\ HostsAreSound /\ TasksAreSound /\ clock' = clock + 1 /\ clock \in Nat
      /\ UNCHANGED <<groups, pending, shown, task, over>> /\ host[n] \in Host
  BY DEF Inv, HostsInv, Receive, TypeOK, Hosts
<1>2. CASE host[n].detached
  <2>1. UNCHANGED <<host, marker>>
    BY <1>2 DEF Receive
  <2>2. Hosts' = Hosts /\ Registered' = Registered /\ \A g : ReadUpTo(g)' = ReadUpTo(g)
    BY <1>1, <2>1 DEF Hosts, Registered, ReadUpTo
  <2>3. TypeOK' /\ HostsAreSound'
    BY <1>1, <2>1, <2>2 DEF TypeOK, HostsAreSound, HostIsSound
  <2>4. MarkersAreExact' /\ GroupsMatchHosts' /\ UnreadIsExact'
    BY <1>1, <2>1, <2>2 DEF HostsInv, MarkersAreExact, GroupsMatchHosts, UnreadIsExact
  <2>5. TasksAreSound'
    BY <1>1, <2>2, SameTasks
  <2> QED
    BY <2>3, <2>4, <2>5 DEF Inv, HostsInv
<1>3. CASE ~host[n].detached
  <2> DEFINE h == [host[n] EXCEPT !.got = @ \cup {clock + 1}]
  <2>1. host' = [host EXCEPT ![n] = Counted(h)] /\ marker' = Marked(h)
    BY <1>3 DEF Receive
  <2>2. /\ h \in Host /\ h.group = host[n].group /\ h.ended = host[n].ended
        /\ h.seat = host[n].seat /\ h.seen = host[n].seen
        /\ h.got = host[n].got \cup {clock + 1}
    BY <1>1 DEF Host
  <2> HIDE DEF h
  <2>3. HostsInv'
    BY <1>1, <2>1, <2>2, ChangeInv
  <2>4. Hosts' = Hosts
    BY <2>1 DEF Hosts
  <2>5. TasksAreSound'
    BY <1>1, <2>4, SameTasks
  <2> QED
    BY <2>3, <2>5 DEF Inv
<1> QED
  BY <1>2, <1>3

LEMMA SendGroupTextInv ==
  ASSUME Inv, NEW g \in GroupId, SendGroupText(g) PROVE Inv'
<1> DEFINE n == groups[g]
           h == [host[n] EXCEPT !.detached = FALSE]
<1>1. /\ HostsInv /\ TypeOK /\ HostsAreSound /\ GroupsMatchHosts /\ TasksAreSound
      /\ g \in Registered /\ Calls("send", g, n, "fan", 0) /\ n \in Hosts /\ host[n] \in Host
      /\ host' = [host EXCEPT ![n] = h]
      /\ UNCHANGED <<groups, pending, shown, marker, clock, over>>
  BY DEF Inv, HostsInv, SendGroupText, TypeOK, Hosts
<1>2. /\ h \in Host /\ h.group = host[n].group /\ h.ended = host[n].ended
      /\ h.seat = host[n].seat
      /\ h.got = host[n].got /\ h.seen = host[n].seen /\ h.unread = host[n].unread
  BY <1>1 DEF Host
<1>3. /\ h.ended => h.seat = "left"
      /\ over => h.seat # "seated"
  BY <1>1, <1>2 DEF HostsAreSound, HostIsSound, GroupsMatchHosts
<1> HIDE DEF h
<1>4. HostsInv'
  BY <1>1, <1>2, <1>3, SeatInv
<1>5. Hosts' = Hosts
  BY <1>1 DEF Hosts
<1>6. Task("send", g, n, "fan", 0) \in Tasks
  <2>1. n \in Nat
    BY <1>1 DEF Hosts, TypeOK
  <2> QED
    BY <2>1 DEF Task, Tasks
<1>7. \A f \in DOMAIN pending' : pending'[f] \in Nat
  BY <1>1 DEF TasksAreSound
<1>8. TasksAreSound'
  BY <1>1, <1>5, <1>6, <1>7, CallsTasks
<1> QED
  BY <1>4, <1>8 DEF Inv

LEMMA FannedInv ==
  ASSUME Inv, Nowhere \notin GroupId, NEW i \in DOMAIN task, Fanned(i) PROVE Inv'
<1> DEFINE n == task[i].host
<1>1. /\ HostsInv /\ TypeOK /\ TasksAreSound /\ n \in Hosts /\ task' = To(i, "done")
      /\ host' = [host EXCEPT ![n] = Counted(host[n])] /\ marker' = Marked(host[n])
      /\ UNCHANGED <<groups, pending, shown, clock, over>>
  BY DEF Inv, HostsInv, Fanned, TasksAreSound
<1>2. host[n] \in Host
  BY <1>1 DEF TypeOK, Hosts
<1>3. HostsInv'
  BY <1>1, <1>2, ChangeInv
<1>4. Hosts' = Hosts
  BY <1>1 DEF Hosts
<1>5. \A f \in DOMAIN pending' : pending'[f] \in Nat
  BY <1>1 DEF TasksAreSound
<1>6. TasksAreSound'
  BY <1>1, <1>4, <1>5, MoveTasks
<1> QED
  BY <1>3, <1>6 DEF Inv

LEMMA ClearAllInv ==
  ASSUME Inv, ClearAll PROVE Inv'
<1>1. /\ HostsInv /\ TasksAreSound /\ Calls("clear", Nowhere, 0, "wipe", 0)
      /\ UNCHANGED <<host, groups, pending, shown, marker, clock, over>>
  BY DEF Inv, ClearAll
<1>2. HostsInv' /\ Hosts' = Hosts
  BY <1>1, SameInv DEF Hosts
<1>3. Task("clear", Nowhere, 0, "wipe", 0) \in Tasks
  BY DEF Task, Tasks
<1>4. \A f \in DOMAIN pending' : pending'[f] \in Nat
  BY <1>1 DEF TasksAreSound
<1>5. TasksAreSound'
  BY <1>1, <1>2, <1>3, <1>4, CallsTasks
<1> QED
  BY <1>2, <1>5 DEF Inv

LEMMA WipesBoth ==
  ASSUME Inv, NEW i \in DOMAIN task, Wipes(i) PROVE Inv'
<1>1. /\ HostsInv /\ TasksAreSound /\ task' = To(i, "done")
      /\ host' = [n \in Hosts |-> IF \E g \in Registered : groups[g] = n THEN Wiped(n)
                                  ELSE host[n]]
      /\ marker' = Without(marker, Registered)
      /\ UNCHANGED <<groups, pending, shown, clock, over>>
  BY DEF Inv, Wipes
<1>2. HostsInv'
  BY <1>1, WipesInv
<1>3. Hosts' = Hosts
  BY <1>1 DEF Hosts
<1>4. \A f \in DOMAIN pending' : pending'[f] \in Nat
  BY <1>1 DEF TasksAreSound
<1>5. TasksAreSound'
  BY <1>1, <1>3, <1>4, MoveTasks
<1> QED
  BY <1>2, <1>5 DEF Inv

LEMMA LeaveGroupInv ==
  ASSUME Inv, Nowhere \notin GroupId, NEW g \in GroupId, LeaveGroup(g) PROVE Inv'
<1>1. HostsInv /\ TypeOK /\ TasksAreSound /\ UNCHANGED <<pending, task, clock, over>>
  BY DEF Inv, HostsInv, LeaveGroup
<1>2. CASE g \in Registered /\ Ended(groups[g])
  <2>1. HostsInv' /\ Hosts' = Hosts
    BY <1>1, <1>2, EndedInv DEF TypeOK
  <2> QED
    BY <1>1, <2>1, SameTasks DEF Inv
<1>3. CASE UNCHANGED <<host, groups, marker, shown>>
  <2>1. HostsInv' /\ Hosts' = Hosts
    BY <1>1, <1>3, SameInv DEF Hosts
  <2> QED
    BY <1>1, <2>1, SameTasks DEF Inv
<1> QED
  BY <1>2, <1>3 DEF LeaveGroup

LEMMA NextInv ==
  ASSUME Inv, Nowhere \notin GroupId, [Next]_hostVars PROVE Inv'
<1>1. HostsInv /\ TypeOK /\ TasksAreSound
  BY DEF Inv, HostsInv
<1>2. ASSUME NEW n \in Hosts, SelfEnds(n) PROVE Inv'
  <2>1. HostsInv' /\ Hosts' = Hosts
    BY <1>1, <1>2, EndedInv DEF SelfEnds
  <2> QED
    BY <1>1, <1>2, <2>1, SameTasks DEF SelfEnds, Inv
<1>3. ASSUME NEW g \in GroupId, SelectGroup(g) PROVE Inv'
  <2>1. g \in Registered /\ Selects(g) /\ UNCHANGED <<task, clock, over>>
    BY <1>3 DEF SelectGroup
  <2>2. HostsInv' /\ Hosts' = Hosts /\ pending' = pending
    BY <1>1, <2>1, SelectsBoth
  <2> QED
    BY <1>1, <2>1, <2>2, SameTasks DEF Inv
<1>4. CASE SelectConversation
  <2>1. HostsInv' /\ Hosts' = Hosts
    BY <1>1, <1>4, HiddenInv DEF SelectConversation, Hosts
  <2> QED
    BY <1>1, <1>4, <2>1, SameTasks DEF SelectConversation, Inv
<1>5. CASE LeaveAll \/ Dispose
  <2>1. Leaves /\ UNCHANGED <<pending, task, clock>> /\ over' \in BOOLEAN
    BY <1>1, <1>5 DEF LeaveAll, Dispose, TypeOK
  <2>2. HostsInv' /\ Hosts' = Hosts
    BY <1>1, <2>1, LeavesInv
  <2> QED
    BY <1>1, <2>1, <2>2, SameTasks DEF Inv
<1>6. CASE UNCHANGED hostVars
  <2>1. HostsInv' /\ Hosts' = Hosts
    BY <1>1, <1>6, SameInv DEF hostVars, Hosts
  <2> QED
    BY <1>1, <1>6, <2>1, SameTasks DEF hostVars, Inv
<1> QED
  BY <1>2, <1>3, <1>4, <1>5, <1>6, StartGroupInv, JoinGroupInv, SendGroupTextInv, LeaveGroupInv,
     ClearAllInv, ReceiveInv, WokenInv, StoredInv, StoreFailsInv, RefreshedInv, FannedInv,
     WipesBoth DEF Next

-----------------------------------------------------------------------------
(* A registered group's host holds a live seat, a live host is registered, *)
(* and a disposed controller has no seat, whatever calls, ends and         *)
(* failures came in between (chat-controller.ts finishGroup, joinGroup).   *)
THEOREM GroupsHoldTheirHosts ==
  ASSUME Nowhere \notin GroupId
  PROVE  Spec => []GroupsMatchHosts
<1>1. Init => Inv
  BY InitInv DEF Inv
<1>2. Inv /\ [Next]_hostVars => Inv'
  BY NextInv
<1>3. Inv => GroupsMatchHosts
  BY DEF Inv, HostsInv
<1> QED
  BY <1>1, <1>2, <1>3, PTL DEF Spec

(* The unread count of a group is what arrived and was never shown         *)
(* (chat-controller.ts onGroupSessionChange, syncGroupReadMarker).         *)
THEOREM UnreadCountIsExact ==
  ASSUME Nowhere \notin GroupId
  PROVE  Spec => []UnreadIsExact
<1>1. Init => Inv
  BY InitInv DEF Inv
<1>2. Inv /\ [Next]_hostVars => Inv'
  BY NextInv
<1>3. Inv => UnreadIsExact
  BY DEF Inv, HostsInv
<1> QED
  BY <1>1, <1>2, <1>3, PTL DEF Spec
=============================================================================
