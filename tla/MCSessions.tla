----------------------------- MODULE MCSessions -----------------------------
(***************************************************************************)
(* The parts of the controller: its conversations, its groups, and the     *)
(* safety number of one group.  They share no state but the selection and  *)
(* the disposal, which each part's actions take into account, so one       *)
(* behaviour moves one of the parts.                                       *)
(***************************************************************************)
EXTENDS Sessions

CONSTANTS GroupId, MaxHosts, MaxTasks, MaxMessages, Nowhere, MaxEpoch

ASSUME NowhereAssumption == Nowhere \notin GroupId

VARIABLES part, host, groups, pending, shown, marker, task, clock, over, left,
          author, listEpoch, mutation, digests, number, verified, screen, compared

G == INSTANCE GroupHosts
N == INSTANCE SafetyNumber WITH epoch <- listEpoch

groupVars == <<host, groups, pending, shown, marker, task, clock, over, left>>

numberVars == <<author, listEpoch, mutation, digests, number, verified, screen, compared>>

MCInit == /\ Init /\ G!Init /\ N!Init
          /\ part \in {"conversations", "groups", "number"}
          /\ author => part = "number"

MCNext ==
  /\ UNCHANGED part
  /\ \/ part = "conversations" /\ Next /\ UNCHANGED groupVars /\ UNCHANGED numberVars
     \/ part = "groups" /\ G!Next /\ UNCHANGED vars /\ UNCHANGED numberVars
     \/ part = "number" /\ N!Next /\ UNCHANGED vars /\ UNCHANGED groupVars

MCSpec == MCInit /\ [][MCNext]_<<part, vars, groupVars, numberVars>>

(* The groups' part of the properties.                                     *)
GroupsMatchHosts == G!GroupsMatchHosts
UnreadIsExact == G!UnreadIsExact
LeaveIsFinal == G!LeaveIsFinal
VerifiedIsCompared == N!VerifiedIsCompared
=============================================================================
