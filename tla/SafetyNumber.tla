---------------------------- MODULE SafetyNumber ----------------------------
(***************************************************************************)
(* The safety number of a group, at one member (group/group-session.ts,    *)
(* runtime/group-session-host.ts, runtime/chat-controller.ts): the session *)
(* recomputes it for every list it adopts or commits, the host drops the   *)
(* mark of the user with every list, and the screen shows the number as it *)
(* was when the controller last emitted a snapshot.                        *)
(*                                                                         *)
(* A number is the epoch of the list it was computed from.                 *)
(***************************************************************************)
EXTENDS Naturals

CONSTANT MaxEpoch       \* bound on the lists

VARIABLES
    author,     \* this member is the group's author
    epoch,      \* the epoch of the list in force
    mutation,   \* the author's change: "idle" | "gossip" | "number"
    digests,    \* epochs whose number is being computed
    number,     \* the session's number, 0 before the first
    verified,   \* the group is marked as verified
    screen,     \* the number in the last snapshot
    compared    \* history: the number on the screen when the user marked it

numberVars == <<author, epoch, mutation, digests, number, verified, screen, compared>>

NoNumber == 0

(* The author's first list is there from the start, and so is the          *)
(* computation of its number.                                              *)
Init ==
  /\ author \in BOOLEAN
  /\ epoch = (IF author THEN 1 ELSE 0) /\ digests = (IF author THEN {1} ELSE {})
  /\ mutation = "idle" /\ number = NoNumber /\ verified = FALSE
  /\ screen = NoNumber /\ compared = NoNumber

(* adoptMembership: the number is recomputed without waiting for it.       *)
AdoptMembership ==
  /\ ~author /\ epoch < MaxEpoch
  /\ epoch' \in epoch + 1 .. MaxEpoch
  /\ digests' = digests \cup {epoch'}
  /\ verified' = FALSE /\ screen' = number
  /\ UNCHANGED <<author, mutation, number, compared>>

(* applyMembershipChange, up to the gossip it awaits: members that joined  *)
(* are reported before it ...                                              *)
CommitMembership ==
  /\ author /\ mutation = "idle" /\ epoch < MaxEpoch
  /\ epoch' = epoch + 1 /\ mutation' = "gossip" /\ screen' \in {screen, number}
  /\ UNCHANGED <<author, digests, number, verified, compared>>

(* ... removed ones after it, then the number it awaits next ...           *)
GossipDone ==
  /\ mutation = "gossip" /\ mutation' = "number"
  /\ digests' = digests \cup {epoch} /\ screen' \in {screen, number}
  /\ UNCHANGED <<author, epoch, number, verified, compared>>

(* ... and the change it reports with that number in place.                *)
ChangeReported(e) ==
  /\ mutation = "number" /\ e = epoch
  /\ mutation' = "idle" /\ verified' = FALSE /\ screen' = e
  /\ UNCHANGED <<author, epoch, compared>>

(* refreshGroupSafetyNumber: the digest ends, and nobody is told.          *)
NumberComputed(e) ==
  /\ e \in digests /\ digests' = digests \ {e} /\ number' = e
  /\ \/ ChangeReported(e)
     \/ /\ ~(mutation = "number" /\ e = epoch)
        /\ UNCHANGED <<author, epoch, mutation, verified, screen, compared>>

(* markGroupSafetyVerified, by a user who has compared what the screen     *)
(* shows: the mark is for whatever the session's number is by now.         *)
MarkGroupSafetyVerified ==
  /\ number # NoNumber /\ ~verified /\ screen # NoNumber
  /\ verified' = TRUE /\ compared' = screen /\ screen' = number
  /\ UNCHANGED <<author, epoch, mutation, digests, number>>

(* A message, a link or another conversation: a new snapshot.              *)
Emit ==
  /\ screen # number /\ screen' = number
  /\ UNCHANGED <<author, epoch, mutation, digests, number, verified, compared>>

Next == \/ AdoptMembership \/ CommitMembership \/ GossipDone
        \/ MarkGroupSafetyVerified \/ Emit
        \/ \E e \in digests : NumberComputed(e)

-----------------------------------------------------------------------------
(* A group is marked as verified for the number that the user compared: a  *)
(* list that came before the mark, or comes after it, changes no number    *)
(* under the mark.                                                         *)
VerifiedIsCompared == verified => number = compared
=============================================================================
