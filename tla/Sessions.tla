------------------------------ MODULE Sessions ------------------------------
(***************************************************************************)
(* How the controller opens and closes one conversation                    *)
(* (runtime/chat-controller.ts with runtime/chat-session.ts): concurrent   *)
(* joinConversation and resumeConversation calls for the same id, fresh    *)
(* startConversation calls beside them, and the leaveConversation,         *)
(* leaveAll, clearConversation, selectConversation and dispose that land   *)
(* while a call waits.                                                     *)
(*                                                                         *)
(* A call builds at most one session, which has the call's number.  The    *)
(* awaits of performJoin and performResume up to the first startAborted    *)
(* test are one parked step: each of them only reads, and all of them end  *)
(* in the same test or in the same finally.  What is in a session, its     *)
(* messages, transfers and handshake, is the business of other modules.    *)
(***************************************************************************)
EXTENDS Naturals, FiniteSets

CONSTANTS MaxCalls,    \* bound on start, join and resume calls
          MaxLeaves,   \* bound on lifecycle epochs of the conversation
          None

ASSUME BoundAssumption == MaxCalls \in Nat /\ MaxLeaves \in Nat
Kinds == {"start", "join", "resume"}

ASSUME NoneAssumption == None \notin Nat \cup Kinds

Calls == 1..MaxCalls

VARIABLES
  call,       \* call[c]: what the call asked for, where it is parked
  joining,    \* the join attempt in flight, if any
  resuming,   \* the resume attempt in flight, if any
  sessions,   \* registered sessions
  detached,   \* sessions whose inbound handlers clearConversation detached
  bridge,     \* bridge[c]: the WebRTC bridge of the session
  active,     \* activeConversationId
  epoch,      \* lifecycle epoch of the conversation
  disposed,
  overlapped  \* history: two attempts of one kind were in flight together

vars == <<call, joining, resuming, sessions, detached, bridge, active, epoch, disposed, overlapped>>

Parks == {"new", "entered", "waitJoin", "waitResume", "reading", "starting", "seeding", "refreshing", "done"}
Call == [kind : Kinds \cup {None}, pc : Parks, on : Calls \cup {None}, epoch : Nat]

Init ==
  /\ call = [c \in Calls |-> [kind |-> None, pc |-> "new", on |-> None, epoch |-> 0]]
  /\ joining = None /\ resuming = None
  /\ sessions = {} /\ detached = {}
  /\ bridge = [c \in Calls |-> "none"]
  /\ active = None
  /\ epoch = 0
  /\ disposed = FALSE
  /\ overlapped = FALSE

-----------------------------------------------------------------------------
(* The session map.  A fresh start has an id of its own; joins and resumes *)
(* share the conversation's.                                               *)

Fresh == {c \in Calls : call[c].kind = "start"}
Landed == sessions \ Fresh

(* activateConversation and the re-arming of the handlers.                 *)
Select(s) ==
  /\ active' = s
  /\ detached' = detached \ {s}

(* teardownSession of every session in S, which leaves the map.            *)
Closed(S) == [c \in Calls |-> IF c \in S /\ bridge[c] # "none" THEN "closed" ELSE bridge[c]]
Evict(S) ==
  /\ bridge' = Closed(S)
  /\ sessions' = sessions \ S
  /\ active' = IF active \in S THEN None ELSE active

(* Mutant: only disposal aborts a start.                                   *)
AbortedByDispose(c) == disposed

(* startAborted: a leave moved the epoch, or the controller is gone.       *)
Aborted(c) == disposed \/ (call[c].kind # "start" /\ call[c].epoch # epoch)

-----------------------------------------------------------------------------
(* A call's continuation.  Park(c, pc, on) is its await; Return(c) also    *)
(* runs the finally of the attempt, which deletes the map entry whoever    *)
(* set it.                                                                 *)

Parked(c, pc, on) == [call EXCEPT ![c].pc = pc, ![c].on = on]
Park(c, pc, on) == call' = Parked(c, pc, on)

Return(c) ==
  /\ Park(c, "done", None)
  /\ joining' = IF call[c].kind = "join" THEN None ELSE joining
  /\ resuming' = IF call[c].kind = "resume" THEN None ELSE resuming

(* A caller that found the conversation live returns without an attempt.   *)
ReturnTo(c, s) ==
  /\ Select(s)
  /\ Park(c, "done", None)
  /\ UNCHANGED <<joining, resuming, sessions, bridge, overlapped>>

(* The attempt: performJoin or performResume up to its first await.        *)
Begin(c) ==
  /\ Park(c, "starting", None)
  /\ overlapped' = (overlapped \/ (IF call[c].kind = "join" THEN joining ELSE resuming) # None)
  /\ joining' = IF call[c].kind = "join" THEN c ELSE joining
  /\ resuming' = IF call[c].kind = "resume" THEN c ELSE resuming
  /\ UNCHANGED <<sessions, detached, bridge, active>>

(* Mutant: a join that waits for a resume is already in the joining map.   *)
AwaitRegistered(c, pc, attempt) ==
  /\ Park(c, pc, attempt)
  /\ joining' = IF call[c].kind = "join" THEN c ELSE joining
  /\ UNCHANGED <<resuming, sessions, detached, bridge, active, overlapped>>

(* The await of an attempt of another call.                                *)
Await(c, pc, attempt) ==
  /\ Park(c, pc, attempt)
  /\ UNCHANGED <<joining, resuming, sessions, detached, bridge, active, overlapped>>

(* A join waits for a resume in flight, then for a join; a resume for a    *)
(* join, then for a resume.                                                *)
SecondWait(c) ==
  LET own == IF call[c].kind = "join" THEN joining ELSE resuming
      pc == IF call[c].kind = "join" THEN "waitJoin" ELSE "waitResume"
  IN IF own # None THEN Await(c, pc, own) ELSE Begin(c)

FirstWait(c) ==
  LET other == IF call[c].kind = "join" THEN resuming ELSE joining
      pc == IF call[c].kind = "join" THEN "waitResume" ELSE "waitJoin"
  IN IF other # None THEN Await(c, pc, other) ELSE SecondWait(c)

-----------------------------------------------------------------------------
(* Waiters.  An attempt that settles wakes them in the same turn of the    *)
(* event loop, before any other task.                                      *)

Woken == {c \in Calls : call[c].pc \in {"waitJoin", "waitResume"} /\ call[call[c].on].pc = "done"}
Entered == {c \in Calls : call[c].pc = "entered"}
Idle == Woken \cup Entered = {}

(* A call that finds the conversation live selects it.                     *)
Enter(c) ==
  /\ c \in Entered
  /\ \/ \E s \in Landed : ReturnTo(c, s)
     \/ Landed = {} /\ FirstWait(c)
  /\ UNCHANGED <<epoch, disposed>>

(* A resume that waited for a join decorates the session the join made;    *)
(* every other waiter selects what landed.                                 *)
Wake(c) ==
  /\ c \in Woken
  /\ LET first == call[c].pc = (IF call[c].kind = "join" THEN "waitResume" ELSE "waitJoin")
     IN \/ \E s \in Landed :
             IF call[c].kind = "resume" /\ first THEN Await(c, "reading", s) ELSE ReturnTo(c, s)
        \/ Landed = {} /\ first /\ SecondWait(c)
        \/ Landed = {} /\ ~first /\ Begin(c)
  /\ UNCHANGED <<epoch, disposed>>

(* The record and the history of the joined conversation have been read,   *)
(* or could not be.                                                        *)
Decorate(c) ==
  /\ Idle /\ call[c].pc = "reading"
  /\ LET s == call[c].on
     IN IF s \in sessions \ detached THEN ReturnTo(c, s) ELSE SecondWait(c)
  /\ UNCHANGED <<epoch, disposed>>

DecorateFails(c) ==
  /\ Idle /\ call[c].pc = "reading"
  /\ Park(c, "done", None)
  /\ UNCHANGED <<joining, resuming, sessions, detached, bridge, active, epoch, disposed, overlapped>>

-----------------------------------------------------------------------------
(* startSession.                                                           *)

(* The id is group-scoped or unknown, or the orchestrator's join fails;    *)
(* or a leave or dispose won.  Nothing was registered yet.                 *)
StartFails(c) ==
  /\ Idle /\ call[c].pc = "starting"
  /\ Return(c)
  /\ UNCHANGED <<sessions, detached, bridge, active, epoch, disposed, overlapped>>

(* The session another call has registered for the conversation.           *)
Prior == Landed

(* Another call registered a session meanwhile: that one is selected.      *)
AdoptPrior(c) ==
  /\ Idle /\ call[c].pc = "starting" /\ ~Aborted(c)
  /\ call[c].kind # "start"
  /\ \E s \in Prior : Select(s)
  /\ Park(c, "refreshing", None)
  /\ UNCHANGED <<joining, resuming, sessions, bridge, epoch, disposed, overlapped>>

(* wireBridge and registerSession; only a resume has a seed to wait for.   *)
Register(c) ==
  /\ Idle /\ call[c].pc = "starting" /\ ~Aborted(c)
  /\ call[c].kind = "start" \/ Prior = {}
  /\ sessions' = {c} \cup (IF call[c].kind = "start" THEN sessions ELSE sessions \cap Fresh)
  /\ active' = c
  /\ bridge' = [bridge EXCEPT ![c] = IF call[c].kind = "resume" THEN "built" ELSE "live"]
  /\ Park(c, IF call[c].kind = "resume" THEN "seeding" ELSE "refreshing", None)
  /\ UNCHANGED <<joining, resuming, detached, epoch, disposed, overlapped>>

(* The history was read and no leave intervened: bridge.start().           *)
SeedDone(c) ==
  /\ Idle /\ call[c].pc = "seeding" /\ ~Aborted(c)
  /\ bridge' = [bridge EXCEPT ![c] = "live"]
  /\ Park(c, "refreshing", None)
  /\ UNCHANGED <<joining, resuming, sessions, detached, active, epoch, disposed, overlapped>>

(* Mutant: a failed seed is only rethrown.                                 *)
AbortForgotten(c) == UNCHANGED <<bridge, sessions, active>>

(* abortRegisteredStart tears its own session down and deletes the         *)
(* conversation's map entry, and the selection with it.                    *)
AbortRegistered(c) ==
  /\ bridge' = Closed({c})
  /\ sessions' = sessions \cap Fresh
  /\ active' = IF active \in Fresh THEN active ELSE None

(* The read of the history fails, or a leave or dispose landed during it.  *)
SeedFails(c) ==
  /\ Idle /\ call[c].pc = "seeding"
  /\ AbortRegistered(c)
  /\ Return(c)
  /\ UNCHANGED <<detached, epoch, disposed, overlapped>>

Refreshed(c) ==
  /\ Idle /\ call[c].pc = "refreshing"
  /\ Return(c)
  /\ UNCHANGED <<sessions, detached, bridge, active, epoch, disposed, overlapped>>

-----------------------------------------------------------------------------
(* What the user does.                                                     *)

(* The entry of a call: the lifecycle epoch is captured before any await.  *)
(* Calls are numbered in the order they are made.                          *)
Invoke(c, kind) ==
  /\ Idle /\ ~disposed
  /\ call[c].pc = "new" /\ \A d \in 1..(c - 1) : call[d].pc # "new"
  /\ call' = [call EXCEPT ![c] = [kind |-> kind, on |-> None, epoch |-> epoch,
                                  pc |-> IF kind = "start" THEN "starting" ELSE "entered"]]
  /\ UNCHANGED <<joining, resuming, sessions, detached, bridge, active, epoch, disposed, overlapped>>

(* Leaving the conversation, registered or only on its way.                *)
LeaveConversation ==
  /\ Idle /\ ~disposed /\ epoch < MaxLeaves
  /\ epoch' = epoch + 1
  /\ Evict(Landed)
  /\ UNCHANGED <<call, joining, resuming, detached, disposed, overlapped>>

LeaveFresh(s) ==
  /\ Idle /\ ~disposed /\ s \in sessions \cap Fresh
  /\ Evict({s})
  /\ UNCHANGED <<call, joining, resuming, detached, epoch, disposed, overlapped>>

(* leaveAll moves the epoch of registered conversations only.              *)
LeaveAll ==
  /\ Idle /\ ~disposed /\ sessions # {} /\ epoch < MaxLeaves
  /\ epoch' = IF Landed = {} THEN epoch ELSE epoch + 1
  /\ Evict(sessions)
  /\ UNCHANGED <<call, joining, resuming, detached, disposed, overlapped>>

Dispose ==
  /\ Idle /\ ~disposed
  /\ disposed' = TRUE
  /\ Evict(sessions)
  /\ UNCHANGED <<call, joining, resuming, detached, epoch, overlapped>>

(* clearConversation has emptied the store and wipes the snapshot.         *)
ClearConversation ==
  /\ Idle /\ ~(Landed \subseteq detached)
  /\ detached' = detached \cup Landed
  /\ UNCHANGED <<call, joining, resuming, sessions, bridge, active, epoch, disposed, overlapped>>

SelectConversation(s) ==
  /\ Idle /\ ~disposed /\ s \in sessions
  /\ Select(s)
  /\ UNCHANGED <<call, joining, resuming, sessions, bridge, epoch, disposed, overlapped>>

User ==
  \/ \E c \in Calls, kind \in Kinds : Invoke(c, kind)
  \/ \E s \in Calls : LeaveFresh(s) \/ SelectConversation(s)
  \/ LeaveConversation \/ LeaveAll \/ Dispose \/ ClearConversation

(* A parked call goes on: its promise settles.                             *)
GoesOn(c) ==
  \/ Enter(c) \/ Wake(c) \/ Decorate(c) \/ DecorateFails(c)
  \/ StartFails(c) \/ AdoptPrior(c) \/ Register(c)
  \/ SeedDone(c) \/ SeedFails(c) \/ Refreshed(c)

Next == User \/ \E c \in Calls : GoesOn(c)

Spec == Init /\ [][Next]_vars

-----------------------------------------------------------------------------
(* The values of the variables, and what a map can hold: one session for   *)
(* the conversation, which is what is selected, or a fresh one.            *)
TypeOK ==
  /\ call \in [Calls -> Call]
  /\ joining \in Calls \cup {None} /\ resuming \in Calls \cup {None}
  /\ sessions \subseteq Calls /\ detached \subseteq Calls
  /\ bridge \in [Calls -> {"none", "built", "live", "closed"}]
  /\ active \in sessions \cup {None}
  /\ epoch \in Nat /\ disposed \in BOOLEAN
  /\ \A s, t \in Landed : s = t

(* Bridges that no leave can reach, for their session is not in the map.   *)
Orphans == {c \in Calls : bridge[c] \in {"built", "live"}} \ sessions

(* No session is orphaned: its bridge would hold a seat in the broker's    *)
(* room for good.                                                          *)
NoOrphan == Orphans = {}

Attempts == {c \in Calls : call[c].pc \in {"starting", "seeding", "refreshing"}} \ Fresh

(* No phantom and no orphan: a registered session has a live bridge, or    *)
(* the call that registered it is still at work on it, so a failed or      *)
(* aborted start leaves nothing a later call would take for a live         *)
(* conversation; and the bridge of a session that left the map is closed.  *)
(* (The second half fails once an attempt has taken the place of another   *)
(* of its kind in the map of attempts, see NoOrphan.)                      *)
MapMatchesBridges ==
  /\ \A c \in sessions : bridge[c] = "live" \/ (bridge[c] = "built" /\ call[c].pc = "seeding")
  /\ overlapped \/ NoOrphan

(* A leave wins over every call made before it, wherever that call was     *)
(* parked: what is registered was asked for after the last leave, and      *)
(* nothing is registered in a controller that was disposed of.             *)
LeaveWins ==
  \A c \in sessions : ~disposed /\ (c \in Fresh \/ call[c].epoch = epoch)

(* What is registered is owned: by a live bridge, and by a call that no    *)
(* leave came after.                                                       *)
SessionsAreOwned == MapMatchesBridges /\ LeaveWins

(* A call never waits for a call that waits itself, so no circle of calls  *)
(* waits for ever: joinConversation and resumeConversation look into each  *)
(* other's map.                                                            *)
NoCircularWait ==
  \A c \in Calls : call[c].pc \in {"waitJoin", "waitResume"} =>
    call[c].on \in Attempts \/ call[call[c].on].pc = "done"
=============================================================================
