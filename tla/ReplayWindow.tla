----------------------------- MODULE ReplayWindow -----------------------------
(***************************************************************************)
(* The anti-replay window of a FrameReceiver and decryptFrame around it    *)
(* (crypto/aead.ts).  Frames of one session arrive in any order, because a *)
(* FrameSender draws the sequence number before it awaits the encryption,  *)
(* and any of them may arrive again.                                       *)
(***************************************************************************)
EXTENDS Integers

CONSTANTS
  Size,         \* REPLAY_WINDOW_SEQUENCES
  MaxSequence   \* MAX_SEQUENCE

ASSUME SizeAssumption == Size \in Nat \ {0}
ASSUME SequenceAssumption == MaxSequence \in Nat

VARIABLES
  highest,   \* the newest sequence observed, -1 before the first
  slots,     \* slots[i] = 1: highest - i was observed
  times,     \* history: how often each sequence was accepted
  verdict    \* what the last decryptFrame answered

vars == <<highest, slots, times, verdict>>

Sequences == 0 .. MaxSequence
Slots == 0 .. Size - 1
Answers == {"none", "forged", "stale", "duplicate", "accepted"}

Init ==
  /\ highest = -1
  /\ slots = [i \in Slots |-> 0]
  /\ times = [s \in Sequences |-> 0]
  /\ verdict = [answer |-> "none", sequence |-> 0]

Answer(answer, s) == verdict' = [answer |-> answer, sequence |-> s]

Accept(s) ==
  /\ times' = [times EXCEPT ![s] = @ + 1]
  /\ Answer("accepted", s)

Reject(answer, s) ==
  /\ Answer(answer, s)
  /\ UNCHANGED <<highest, slots, times>>

(* Mutant: slots that the shift uncovers keep their old value.             *)
ShiftedUncleared(by) ==
  [i \in Slots |-> IF i = 0 THEN 1 ELSE IF i >= by THEN slots[i - by] ELSE slots[i]]

(* The slots after the window moved up by `by`: fill(0) when nothing of it *)
(* remains, else the loop that shifts from the top down.                   *)
Shifted(by) ==
  [i \in Slots |-> IF i = 0 THEN 1 ELSE IF i >= by THEN slots[i - by] ELSE 0]

(* ReplayWindow.observe, ahead of the window ...                           *)
Advance(s) ==
  /\ s > highest
  /\ highest' = s
  /\ slots' = Shifted(s - highest)
  /\ Accept(s)

(* Mutant: the newest sequence is not tested.                              *)
FillNewest(s) ==
  /\ s <= highest /\ highest - s < Size
  /\ slots[highest - s] = 0 \/ s = highest
  /\ slots' = [slots EXCEPT ![highest - s] = 1]
  /\ Accept(s)
  /\ UNCHANGED highest

(* ... inside it, for a sequence not yet seen ...                          *)
Fill(s) ==
  /\ s <= highest /\ highest - s < Size
  /\ slots[highest - s] = 0
  /\ slots' = [slots EXCEPT ![highest - s] = 1]
  /\ Accept(s)
  /\ UNCHANGED highest

(* ... and the two ways to refuse one.                                     *)
Stale(s) ==
  /\ s <= highest /\ highest - s >= Size
  /\ Reject("stale", s)

Duplicate(s) ==
  /\ s <= highest /\ highest - s < Size
  /\ slots[highest - s] = 1
  /\ Reject("duplicate", s)

Observe(s) == Advance(s) \/ Fill(s) \/ Stale(s) \/ Duplicate(s)

(* A frame whose authentication fails never reaches the window.            *)
RejectForged(s) == Reject("forged", s)

(* decryptFrame *)
Decrypt(s) == Observe(s) \/ RejectForged(s)

Next == \E s \in Sequences : Decrypt(s)

Spec == Init /\ [][Next]_vars

-----------------------------------------------------------------------------
(* Type invariant.                                                         *)
TypeOK ==
  /\ highest \in {-1} \cup Sequences
  /\ slots \in [Slots -> {0, 1}]
  /\ times \in [Sequences -> Nat]
  /\ verdict \in [answer : Answers, sequence : Sequences]

(* No frame is accepted twice, whatever the order of arrival.              *)
NoReplay == \A s \in Sequences : times[s] <= 1

(* No genuine frame is refused without cause: a duplicate was accepted     *)
(* before, and a stale one is older than everything the window covers.     *)
RefusedForCause ==
  /\ verdict.answer = "duplicate" => times[verdict.sequence] = 1
  /\ verdict.answer = "stale" => verdict.sequence + Size <= highest

(* The window stands on a sequence that was accepted: a forged frame       *)
(* cannot push genuine ones out of it.                                     *)
HighestIsGenuine == highest # -1 => times[highest] = 1

(* A frame counts once, and only if it is genuine.                         *)
GenuineOnce == NoReplay /\ HighestIsGenuine

(* observe() is exact: what it accepts is genuine and new, and what it      *)
(* refuses it has accepted before or can no longer remember.               *)
ObservesExactly == GenuineOnce /\ RefusedForCause

(* The slots are the history of the sequences they cover, and nothing was  *)
(* accepted above the window.                                              *)
SlotsAreHistory ==
  /\ \A i \in Slots : slots[i] = 1 <=> highest - i \in Sequences /\ times[highest - i] = 1
  /\ \A s \in Sequences : times[s] > 0 => s <= highest

(* The inductive invariant.                                                *)
WindowInv == TypeOK /\ NoReplay /\ RefusedForCause /\ HighestIsGenuine /\ SlotsAreHistory
=============================================================================
