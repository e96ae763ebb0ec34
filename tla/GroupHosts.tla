----------------------------- MODULE GroupHosts -----------------------------
(***************************************************************************)
(* How the controller opens, shows and closes groups                       *)
(* (runtime/chat-controller.ts with runtime/group-session-host.ts): the    *)
(* startGroup, joinGroup, leaveGroup, leaveAll, clearAll and dispose calls *)
(* that meet at each other's awaits, sessions that end on their own, and   *)
(* the messages and unread counts of the groups in the background.         *)
(*                                                                         *)
(* A host is the pair of a group session and its manager, which            *)
(* finishGroup tears down together.  What happens between the members is   *)
(* modules Group and Mesh.  A message is its time of arrival, on a clock   *)
(* that moves with every message.                                          *)
(***************************************************************************)
EXTENDS Naturals, Sequences, FiniteSets

CONSTANTS
    GroupId,       \* groups this user may join
    MaxHosts,      \* bound on the hosts built
    MaxTasks,      \* bound on the calls made
    MaxMessages,   \* bound on the messages received
    Nowhere

VARIABLES
    host,       \* hosts built so far: [group, seat, ended, detached, got, seen, unread]
    groups,     \* registered group -> its host
    pending,    \* group -> the join attempt in flight
    shown,      \* the active group, if a group is active
    marker,     \* group -> time up to which it was read
    task,       \* the calls made so far: [op, group, host, at, on]
    clock,      \* time of the last message
    over,       \* the controller is disposed of
    left        \* history: groups whose last join or leave was a leave

hostVars == <<host, groups, pending, shown, marker, task, clock, over, left>>

Hosts == DOMAIN host
Registered == DOMAIN groups
Without(f, K) == [k \in DOMAIN f \ K |-> f[k]]
With(f, k, v) == [j \in DOMAIN f \cup {k} |-> IF j = k THEN v ELSE f[j]]
Latest(S) == IF S = {} THEN 0 ELSE CHOOSE t \in S : \A u \in S : u <= t

Init ==
  /\ host = <<>> /\ groups = <<>> /\ pending = <<>> /\ marker = <<>>
  /\ shown = Nowhere /\ task = <<>> /\ clock = 0 /\ over = FALSE /\ left = {}

-----------------------------------------------------------------------------
(* Hosts.                                                                  *)

NewHost(g) == [group |-> g, seat |-> "none", ended |-> FALSE, detached |-> FALSE,
               got |-> {}, seen |-> {}, unread |-> 0]

ReadUpTo(g) == IF g \in DOMAIN marker THEN marker[g] ELSE 0

Read(h) == [h EXCEPT !.seen = h.got, !.unread = 0, !.detached = FALSE]

(* Mutant: a group that is selected keeps the marker it had.               *)
ShowUnmarked(g, hs, n) ==
  /\ shown' = g
  /\ host' = [hs EXCEPT ![n] = Read(@)]
  /\ UNCHANGED marker

(* activateGroup and syncGroupReadMarker: the group is shown, and all it   *)
(* has received is read.                                                   *)
Show(g, hs, n) ==
  /\ shown' = g
  /\ marker' = With(marker, g, Latest(hs[n].got))
  /\ host' = [hs EXCEPT ![n] = Read(@)]

(* onGroupSessionChange: a background group counts what it received past   *)
(* the marker, the active one moves the marker.                            *)
IsShown(g) == shown = g
Counted(h) == IF IsShown(h.group) THEN [h EXCEPT !.unread = 0, !.seen = h.got]
              ELSE [h EXCEPT !.unread = Cardinality({t \in h.got : t > ReadUpTo(h.group)})]
Marked(h) == IF IsShown(h.group) /\ Latest(h.got) > ReadUpTo(h.group)
             THEN With(marker, h.group, Latest(h.got)) ELSE marker

(* finishGroup: session and manager end together, and onEnded evicts the   *)
(* record if it is still the registered one.                               *)
Torn(N) == [n \in Hosts |-> IF n \notin N \/ host[n].ended THEN host[n]
                            ELSE [host[n] EXCEPT !.ended = TRUE, !.seat = "left"]]
Evict(G) ==
  /\ groups' = Without(groups, G)
  /\ marker' = Without(marker, G)
  /\ shown' = IF shown \in G THEN Nowhere ELSE shown
Ended(n) ==
  /\ host' = Torn({n})
  /\ Evict({g \in Registered : groups[g] = n})

-----------------------------------------------------------------------------
(* Calls.                                                                  *)

Task(op, g, n, at, on) == [op |-> op, group |-> g, host |-> n, at |-> at, on |-> on]
Busy == \E i \in DOMAIN task : task[i].at # "done"
Calls(op, g, n, at, on) == /\ ~over /\ Len(task) < MaxTasks
                           /\ task' = Append(task, Task(op, g, n, at, on))
To(i, at) == [task EXCEPT ![i].at = at]

(* createGroupHost, registered and shown before its record is stored.      *)
Builds(g) ==
  /\ Len(host) < MaxHosts
  /\ groups' = With(groups, g, Len(host) + 1)
  /\ Show(g, Append(host, NewHost(g)), Len(host) + 1)

(* startGroup: the id of the group is a new one.                           *)
StartGroup(g) ==
  /\ \A n \in Hosts : host[n].group # g
  /\ Calls("start", g, Len(host) + 1, "store", 0)
  /\ Builds(g) /\ left' = left \ {g}
  /\ UNCHANGED <<pending, clock, over>>

(* performJoinGroup up to the store of the record.                         *)
Attempts(i, g) == Builds(g) /\ pending' = With(pending, g, i)

Selects(g) == Show(g, host, groups[g]) /\ UNCHANGED <<groups, pending>>

(* joinGroup: select what is live, wait for the attempt in flight, or      *)
(* begin one.                                                              *)
JoinGroup(g) ==
  /\ left' = left \ {g} /\ UNCHANGED <<clock, over>>
  /\ \/ /\ g \in Registered
        /\ Calls("join", g, 0, "done", 0) /\ Selects(g)
     \/ /\ g \notin Registered /\ g \in DOMAIN pending
        /\ Calls("join", g, 0, "wait", pending[g])
        /\ UNCHANGED <<host, groups, pending, shown, marker>>
     \/ /\ g \notin Registered /\ g \notin DOMAIN pending
        /\ Calls("join", g, Len(host) + 1, "store", 0)
        /\ Attempts(Len(task) + 1, g)

(* The awaited attempt has settled, however.                               *)
Woken(i) ==
  LET g == task[i].group IN
  /\ task[i].at = "wait" /\ task[task[i].on].at = "done"
  /\ UNCHANGED <<clock, over, left>>
  /\ IF g \in Registered
     THEN Selects(g) /\ task' = To(i, "done")
     ELSE /\ Attempts(i, g)
          /\ task' = [task EXCEPT ![i].at = "store", ![i].host = Len(host) + 1]

(* The attempt's finally.                                                  *)
Settled(i) == IF task[i].op = "join" THEN Without(pending, {task[i].group}) ELSE pending

(* Mutant: what happened during the await is not looked at.                *)
IsLiveUnlessEnded(n) == ~host[n].ended
(* The host is still the one registered, in a live controller.             *)
IsLive(n) == ~over /\ host[n].group \in Registered /\ groups[host[n].group] = n

(* storeGroup has stored the record: the host takes its seat, unless a     *)
(* leave or a dispose came first.                                          *)
Stored(i) ==
  LET n == task[i].host IN
  /\ task[i].at = "store"
  /\ IF IsLive(n)
     THEN /\ host' = [host EXCEPT ![n].seat = "seated"]
          /\ task' = To(i, "refresh") /\ UNCHANGED pending
     ELSE task' = To(i, "done") /\ pending' = Settled(i) /\ UNCHANGED host
  /\ UNCHANGED <<groups, shown, marker, clock, over, left>>

(* persistGroupRecord when the repository rejects.                         *)
Failed(n) == Ended(n)

StoreFails(i) ==
  /\ task[i].at = "store" /\ Failed(task[i].host)
  /\ task' = To(i, "done") /\ pending' = Settled(i)
  /\ UNCHANGED <<clock, over, left>>

(* refreshConversations ends or rejects: the call does too.                *)
Refreshed(i) ==
  /\ task[i].at = "refresh" /\ task' = To(i, "done") /\ pending' = Settled(i)
  /\ UNCHANGED <<host, groups, shown, marker, clock, over, left>>

-----------------------------------------------------------------------------
(* Messages.                                                               *)

(* recordInboundMessage: a seated, attached host shows it.                 *)
Receive(n) ==
  /\ host[n].seat = "seated" /\ clock < MaxMessages /\ clock' = clock + 1
  /\ IF host[n].detached THEN UNCHANGED <<host, marker>>
     ELSE LET h == [host[n] EXCEPT !.got = @ \cup {clock + 1}] IN
          host' = [host EXCEPT ![n] = Counted(h)] /\ marker' = Marked(h)
  /\ UNCHANGED <<groups, pending, shown, task, over, left>>

(* sendGroupText up to the fan-out; it attaches a cleared group again.     *)
SendGroupText(g) ==
  /\ g \in Registered /\ Calls("send", g, groups[g], "fan", 0)
  /\ host' = [host EXCEPT ![groups[g]].detached = FALSE]
  /\ UNCHANGED <<groups, pending, shown, marker, clock, over, left>>

(* ... and after it: the change of a host that may have ended meanwhile.   *)
Fanned(i) ==
  LET h == host[task[i].host] IN
  /\ task[i].at = "fan" /\ task' = To(i, "done")
  /\ host' = [host EXCEPT ![task[i].host] = Counted(h)] /\ marker' = Marked(h)
  /\ UNCHANGED <<groups, pending, shown, clock, over, left>>

(* clearAll, up to the wipe of the repository ...                          *)
ClearAll ==
  /\ Calls("clear", Nowhere, 0, "wipe", 0)
  /\ UNCHANGED <<host, groups, pending, shown, marker, clock, over, left>>

(* ... and after it: the groups keep their seats and forget the rest.      *)
Wiped(n) == [host[n] EXCEPT !.got = {}, !.seen = {}, !.unread = 0, !.detached = TRUE]
Wipes(i) ==
  /\ task[i].at = "wipe" /\ task' = To(i, "done")
  /\ host' = [n \in Hosts |-> IF \E g \in Registered : groups[g] = n THEN Wiped(n) ELSE host[n]]
  /\ marker' = Without(marker, Registered)
  /\ UNCHANGED <<groups, pending, shown, clock, over, left>>

-----------------------------------------------------------------------------
(* What ends, hides and shows a group.                                     *)

(* A kick, or the broker's socket closed: session.leave(), onClosed.       *)
SelfEnds(n) ==
  /\ host[n].seat = "seated" /\ Ended(n)
  /\ UNCHANGED <<pending, task, clock, over, left>>

SelectGroup(g) ==
  /\ ~over /\ g \in Registered /\ shown # g /\ Selects(g)
  /\ UNCHANGED <<task, clock, over, left>>

(* activateConversation, of the other half of the controller.              *)
SelectConversation ==
  /\ shown # Nowhere /\ shown' = Nowhere
  /\ UNCHANGED <<host, groups, pending, marker, task, clock, over, left>>

LeaveGroup(g) ==
  /\ ~over
  /\ \/ g \in Registered /\ Ended(groups[g])
     \/ g \notin Registered /\ Busy /\ g \notin left /\ UNCHANGED <<host, groups, marker, shown>>
  /\ left' = left \cup {g}
  /\ UNCHANGED <<pending, task, clock, over>>

Leaves == /\ host' = Torn({groups[g] : g \in Registered})
          /\ groups' = <<>> /\ marker' = Without(marker, Registered) /\ shown' = Nowhere

LeaveAll ==
  /\ ~over /\ Registered # {} /\ Leaves /\ left' = GroupId
  /\ UNCHANGED <<pending, task, clock, over>>

Dispose ==
  /\ ~over /\ Busy /\ Leaves /\ over' = TRUE
  /\ UNCHANGED <<pending, task, clock, left>>

-----------------------------------------------------------------------------
Next ==
  \/ \E g \in GroupId : \/ StartGroup(g) \/ JoinGroup(g) \/ SendGroupText(g)
                        \/ SelectGroup(g) \/ LeaveGroup(g)
  \/ ClearAll \/ SelectConversation \/ LeaveAll \/ Dispose
  \/ \E n \in Hosts : Receive(n) \/ SelfEnds(n)
  \/ \E i \in DOMAIN task : \/ Woken(i) \/ Stored(i) \/ StoreFails(i) \/ Refreshed(i)
                            \/ Fanned(i) \/ Wipes(i)

Spec == Init /\ [][Next]_hostVars

-----------------------------------------------------------------------------
(* The map of groups, the hosts and their seats agree at every await: a    *)
(* registered host has not ended, a host that has not ended is registered, *)
(* so that a leave can reach it, and no disposed controller keeps a seat   *)
(* in a broker's room.                                                     *)
GroupsMatchHosts ==
  /\ \A g \in Registered : host[groups[g]].group = g /\ ~host[groups[g]].ended
  /\ \A n \in Hosts : ~host[n].ended => \E g \in Registered : groups[g] = n
  /\ over => \A n \in Hosts : host[n].seat # "seated"
  /\ shown # Nowhere => shown \in Registered

(* The unread count of a group is what arrived and was never on the        *)
(* screen: whatever was left, joined, cleared, sent or shown in between.   *)
UnreadIsExact ==
  \A g \in Registered :
    LET h == host[groups[g]] IN
    IF shown = g THEN h.unread = 0 ELSE h.unread = Cardinality(h.got \ h.seen)

(* A leave is final until the user joins again, also for a join that was   *)
(* waiting for an earlier one when the leave came.                         *)
LeaveIsFinal == \A g \in Registered : g \notin left
=============================================================================
