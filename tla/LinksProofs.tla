----------------------------- MODULE LinksProofs -----------------------------
(***************************************************************************)
(* What carries messages, for every size of what the runs bound: the       *)
(* replay window accepts each genuine sequence once, the inbound side of a *)
(* group link neither loses nor repeats a message nor blames its peer      *)
(* without cause, the managers of a group and their sessions stay in step, *)
(* and a file transfer keeps its books, surfaces a file once and is never  *)
(* broken by an honest peer.                                               *)
(***************************************************************************)
EXTENDS MCLinks, FiniteSetTheorems, SequenceTheorems, TLAPS

LEMMA InitWindowInv == Init => WindowInv
  <1> SUFFICES ASSUME Init PROVE WindowInv
    OBVIOUS
  <1> USE SizeAssumption, SequenceAssumption
  <1>1. TypeOK
    BY DEF Init, TypeOK, Answers, Sequences
  <1>2. SlotsAreHistory
    BY DEF Init, SlotsAreHistory, Slots, Sequences
  <1> QED BY <1>1, <1>2 DEF Init, WindowInv, NoReplay, RefusedForCause, HighestIsGenuine

(* Accepting s keeps the sequences accepted at most once if s was new.     *)
LEMMA AcceptOnce ==
  ASSUME TypeOK, NoReplay, NEW s \in Sequences, times[s] = 0, Accept(s)
  PROVE  /\ times' \in [Sequences -> Nat]
         /\ \A r \in Sequences : times'[r] = IF r = s THEN 1 ELSE times[r]
         /\ NoReplay'
         /\ verdict' = [answer |-> "accepted", sequence |-> s]
         /\ verdict' \in [answer : Answers, sequence : Sequences]
  <1>1. times' \in [Sequences -> Nat]
    BY DEF TypeOK, Accept
  <1>2. \A r \in Sequences : times'[r] = IF r = s THEN 1 ELSE times[r]
    BY DEF TypeOK, Accept
  <1>3. NoReplay'
    BY <1>2 DEF NoReplay
  <1> QED BY <1>1, <1>2, <1>3 DEF Accept, Answer, Answers

(* The window moves up: what it shifts out of sight is forgotten, what it  *)
(* uncovers was never accepted.                                            *)
LEMMA AdvanceStep ==
  ASSUME WindowInv, NEW s \in Sequences, Advance(s)
  PROVE  WindowInv'
  <1> USE SizeAssumption, SequenceAssumption
  <1>1. /\ s > highest /\ highest' = s
        /\ slots' = Shifted(s - highest)
        /\ Accept(s)
    BY DEF Advance
  <1>2. highest \in Int /\ s \in Nat /\ s - highest \in Nat \ {0}
    BY <1>1 DEF WindowInv, TypeOK, Sequences
  <1>3. times[s] = 0
    BY <1>1, <1>2 DEF WindowInv, TypeOK, SlotsAreHistory, Sequences
  <1>4. /\ times' \in [Sequences -> Nat]
        /\ \A r \in Sequences : times'[r] = IF r = s THEN 1 ELSE times[r]
        /\ NoReplay'
        /\ verdict' = [answer |-> "accepted", sequence |-> s]
        /\ verdict' \in [answer : Answers, sequence : Sequences]
    BY <1>1, <1>3, AcceptOnce DEF WindowInv
  <1>5. /\ slots' \in [Slots -> {0, 1}]
        /\ slots'[0] = 1
        /\ \A i \in Slots \ {0} :
             slots'[i] = IF i >= s - highest THEN slots[i - (s - highest)] ELSE 0
    <2>1. \A i \in Slots : i >= s - highest => i - (s - highest) \in Slots
      BY <1>2 DEF Slots
    <2> QED BY <1>1, <1>2, <2>1 DEF Shifted, WindowInv, TypeOK, Slots
  <1>6. ASSUME NEW i \in Slots
        PROVE  slots'[i] = 1 <=> s - i \in Sequences /\ times'[s - i] = 1
    <2>1. i \in Nat
      BY DEF Slots
    <2>2. CASE i = 0
      <3>1. s - i = s /\ times'[s] = 1
        BY <2>2, <1>2, <1>4
      <3> QED BY <2>2, <3>1, <1>5
    <2>3. CASE i # 0 /\ i >= s - highest
      <3> DEFINE j == i - (s - highest)
      <3>1. j \in Slots /\ highest - j = s - i
        BY <1>2, <2>1, <2>3 DEF Slots
      <3>2. slots[j] = 1 <=> s - i \in Sequences /\ times[s - i] = 1
        BY <3>1 DEF WindowInv, SlotsAreHistory
      <3>3. slots'[i] = slots[j]
        BY <1>5, <2>3
      <3>4. s - i # s
        BY <1>2, <2>1, <2>3
      <3> QED BY <1>4, <3>2, <3>3, <3>4
    <2>4. CASE i # 0 /\ ~(i >= s - highest)
      <3>1. slots'[i] = 0
        BY <1>5, <2>4
      <3>2. s - i > highest /\ s - i # s
        BY <1>2, <2>1, <2>4
      <3>3. s - i \in Sequences => times[s - i] = 0
        BY <3>2 DEF WindowInv, TypeOK, SlotsAreHistory, Sequences
      <3> QED BY <1>4, <3>1, <3>2, <3>3
    <2> QED BY <2>2, <2>3, <2>4
  <1>7. \A r \in Sequences : times'[r] > 0 => r <= s
    BY <1>1, <1>2, <1>4 DEF WindowInv, SlotsAreHistory, Sequences
  <1>8. SlotsAreHistory'
    BY <1>1, <1>6, <1>7 DEF SlotsAreHistory
  <1>9. TypeOK'
    BY <1>1, <1>4, <1>5 DEF TypeOK
  <1> QED BY <1>1, <1>4, <1>8, <1>9 DEF WindowInv, RefusedForCause, HighestIsGenuine

(* A sequence inside the window whose slot is free was never accepted.     *)
LEMMA FillStep ==
  ASSUME WindowInv, NEW s \in Sequences, Fill(s)
  PROVE  WindowInv'
  <1> USE SizeAssumption, SequenceAssumption
  <1> DEFINE offset == highest - s
  <1>1. /\ s <= highest /\ offset < Size /\ slots[offset] = 0
        /\ slots' = [slots EXCEPT ![offset] = 1]
        /\ Accept(s) /\ highest' = highest
    BY DEF Fill
  <1>2. highest \in Sequences /\ offset \in Slots /\ highest - offset = s
    BY <1>1 DEF WindowInv, TypeOK, Sequences, Slots
  <1>3. times[s] = 0
    BY <1>1, <1>2 DEF WindowInv, TypeOK, NoReplay, SlotsAreHistory
  <1>4. /\ times' \in [Sequences -> Nat]
        /\ \A r \in Sequences : times'[r] = IF r = s THEN 1 ELSE times[r]
        /\ NoReplay'
        /\ verdict' = [answer |-> "accepted", sequence |-> s]
        /\ verdict' \in [answer : Answers, sequence : Sequences]
    BY <1>1, <1>3, AcceptOnce DEF WindowInv
  <1>5. /\ slots' \in [Slots -> {0, 1}]
        /\ \A i \in Slots : slots'[i] = IF i = offset THEN 1 ELSE slots[i]
    BY <1>1, <1>2 DEF WindowInv, TypeOK
  <1>6. \A i \in Slots : slots'[i] = 1
                           <=> highest - i \in Sequences /\ times'[highest - i] = 1
    <2> SUFFICES ASSUME NEW i \in Slots
                 PROVE  slots'[i] = 1
                          <=> highest - i \in Sequences /\ times'[highest - i] = 1
      OBVIOUS
    <2>1. CASE i = offset
      BY <2>1, <1>2, <1>4, <1>5
    <2>2. CASE i # offset
      <3>1. highest - i # s
        BY <2>2, <1>2 DEF Slots, Sequences
      <3>2. slots[i] = 1 <=> highest - i \in Sequences /\ times[highest - i] = 1
        BY DEF WindowInv, SlotsAreHistory
      <3> QED BY <2>2, <3>1, <3>2, <1>4, <1>5
    <2> QED BY <2>1, <2>2
  <1>7. SlotsAreHistory'
    BY <1>1, <1>4, <1>6 DEF WindowInv, SlotsAreHistory
  <1>8. TypeOK'
    BY <1>1, <1>4, <1>5 DEF WindowInv, TypeOK
  <1>9. HighestIsGenuine'
    BY <1>1, <1>2, <1>4 DEF WindowInv, HighestIsGenuine
  <1> QED BY <1>4, <1>7, <1>8, <1>9 DEF WindowInv, RefusedForCause

(* A refusal changes nothing but the answer, and has its cause.            *)
LEMMA RejectStep ==
  ASSUME WindowInv, NEW s \in Sequences,
         Stale(s) \/ Duplicate(s) \/ RejectForged(s)
  PROVE  WindowInv'
  <1> USE SizeAssumption, SequenceAssumption
  <1>1. UNCHANGED <<highest, slots, times>>
    BY DEF Stale, Duplicate, RejectForged, Reject
  <1>2. NoReplay' /\ HighestIsGenuine' /\ SlotsAreHistory'
    BY <1>1 DEF WindowInv, NoReplay, HighestIsGenuine, SlotsAreHistory
  <1>3. CASE Stale(s)
    <2>1. verdict' = [answer |-> "stale", sequence |-> s] /\ s + Size <= highest
      BY <1>3 DEF Stale, Reject, Answer, WindowInv, TypeOK, Sequences
    <2>2. TypeOK'
      BY <1>1, <2>1 DEF WindowInv, TypeOK, Answers
    <2>3. RefusedForCause'
      BY <1>1, <2>1 DEF RefusedForCause
    <2> QED BY <1>2, <2>2, <2>3 DEF WindowInv
  <1>4. CASE Duplicate(s)
    <2>1. verdict' = [answer |-> "duplicate", sequence |-> s]
      BY <1>4 DEF Duplicate, Reject, Answer
    <2>2. highest - s \in Slots /\ highest - (highest - s) = s /\ slots[highest - s] = 1
      BY <1>4 DEF Duplicate, WindowInv, TypeOK, Sequences, Slots
    <2>3. times[s] = 1
      BY <2>2 DEF WindowInv, SlotsAreHistory
    <2>4. TypeOK'
      BY <1>1, <2>1 DEF WindowInv, TypeOK, Answers
    <2>5. RefusedForCause'
      BY <1>1, <2>1, <2>3 DEF RefusedForCause
    <2> QED BY <1>2, <2>4, <2>5 DEF WindowInv
  <1>5. CASE RejectForged(s)
    <2>1. verdict' = [answer |-> "forged", sequence |-> s]
      BY <1>5 DEF RejectForged, Reject, Answer
    <2>2. TypeOK'
      BY <1>1, <2>1 DEF WindowInv, TypeOK, Answers
    <2>3. RefusedForCause'
      BY <2>1 DEF RefusedForCause
    <2> QED BY <1>2, <2>2, <2>3 DEF WindowInv
  <1> QED BY <1>3, <1>4, <1>5

(* The slots of the window are the acceptance history, at every step.      *)
THEOREM WindowInvariance == Spec => []WindowInv
  <1>1. ASSUME WindowInv, [Next]_vars PROVE WindowInv'
    <2>1. ASSUME NEW s \in Sequences, Decrypt(s) PROVE WindowInv'
      BY <1>1, <2>1, AdvanceStep, FillStep, RejectStep DEF Decrypt, Observe
    <2>2. CASE UNCHANGED vars
      BY <1>1, <2>2 DEF vars, WindowInv, TypeOK, NoReplay, RefusedForCause,
                        HighestIsGenuine, SlotsAreHistory
    <2> QED BY <1>1, <2>1, <2>2 DEF Next
  <1> QED BY <1>1, InitWindowInv, PTL DEF Spec

(* observe() returns at most once for a sequence: no frame is replayed.    *)
THEOREM NeverReplayed == Spec => []NoReplay
  BY WindowInvariance, PTL DEF WindowInv

(* observe() throws only for a sequence it has seen or cannot remember.    *)
THEOREM RefusedOnlyForCause == Spec => []RefusedForCause
  BY WindowInvariance, PTL DEF WindowInv

(* A frame that fails authentication leaves the window where it was.       *)
THEOREM WindowIsGenuine == Spec => []HighestIsGenuine
  BY WindowInvariance, PTL DEF WindowInv

(* decryptFrame counts a frame once, and only if it is genuine.            *)
THEOREM CountedOnce == Spec => []GenuineOnce
  BY NeverReplayed, WindowIsGenuine, PTL DEF GenuineOnce

(* observe() is exact, for a window of any size.                           *)
THEOREM Exact == Spec => []ObservesExactly
  BY CountedOnce, RefusedOnlyForCause, PTL DEF ObservesExactly

-----------------------------------------------------------------------------
(* Induction over the naturals, from the least element of a set of them.   *)

LEMMA LeastElement ==
  ASSUME NEW S0 \in SUBSET Nat, S0 # {}
  PROVE  \E x \in S0 : \A y \in S0 : ~ (y < x)
<1> DEFINE U == {0..k : k \in S0}
<1>1. U \subseteq FiniteSubsetsOf(Nat)
  <2> SUFFICES ASSUME NEW k \in S0 PROVE 0..k \in FiniteSubsetsOf(Nat)
    OBVIOUS
  <2>1. IsFiniteSet(0..k)
    BY FS_Interval
  <2>2. 0..k \subseteq Nat
    OBVIOUS
  <2> QED BY <2>1, <2>2 DEF FiniteSubsetsOf
<1>2. U # {}
  OBVIOUS
<1>3. PICK A \in U : \A B \in U : ~ (<<B, A>> \in StrictSubsetOrdering(Nat))
  <2> HIDE DEF U
  <2> QED BY <1>1, <1>2, FS_StrictSubsetOrderingWellFounded, WFMin
<1>4. PICK x \in S0 : A = 0..x
  OBVIOUS
<1>5. ASSUME NEW y \in S0, y < x PROVE FALSE
  <2>1. 0..y \in U /\ 0..y \subseteq 0..x /\ 0..y # 0..x
    <3>1. x \in 0..x /\ x \notin 0..y
      BY <1>5
    <3> QED BY <1>5, <3>1
  <2>2. 0..y \in SUBSET Nat /\ 0..x \in SUBSET Nat
    OBVIOUS
  <2> QED BY <1>3, <1>4, <2>1, <2>2 DEF StrictSubsetOrdering
<1> QED BY <1>5

(* Induction up to n.                                                      *)
LEMMA UpTo ==
  ASSUME NEW n \in Nat, NEW S, 0 \in S, \A i \in 0..n : i \in S /\ i < n => i + 1 \in S
  PROVE  0..n \subseteq S
<1> SUFFICES ASSUME (0..n) \ S # {} PROVE FALSE
  OBVIOUS
<1>1. PICK x \in (0..n) \ S : \A y \in (0..n) \ S : ~ (y < x)
  <2>1. (0..n) \ S \in SUBSET Nat
    OBVIOUS
  <2> QED BY <2>1, LeastElement
<1>2. x # 0 /\ x - 1 \in 0..n
  BY <1>1
<1>3. x - 1 \in S
  BY <1>1, <1>2
<1> QED BY <1>1, <1>2, <1>3

Steps(S, n) == [S \X (1..n) -> S]
(* f is the run of the step function from c.                               *)
IsRun(f, n, S, c, step) ==
  f \in [0..n -> S] /\ f[0] = c /\ \A i \in 1..n : f[i] = step[<<f[i-1], i>>]

(* A function defined by recursion exists.                                 *)
LEMMA Recursion ==
  ASSUME NEW n \in Nat, NEW S, NEW c \in S, NEW step \in Steps(S, n)
  PROVE  \E f : IsRun(f, n, S, c, step)
<1> USE DEF Steps
<1> DEFINE Runs(k) == {f \in [0..k -> S] : f[0] = c /\ \A i \in 1..k : f[i] = step[<<f[i-1], i>>]}
           K == {k \in 0..n : Runs(k) # {}}
<1>1. 0 \in K
  <2>1. [i \in 0..0 |-> c] \in Runs(0)
    OBVIOUS
  <2> QED BY <2>1
<1>2. ASSUME NEW k \in 0..n, k \in K, k < n PROVE k + 1 \in K
  <2>1. PICK f \in Runs(k) : TRUE
    BY <1>2
  <2> DEFINE g == [i \in 0..(k+1) |-> IF i = k + 1 THEN step[<<f[k], k+1>>] ELSE f[i]]
  <2>2. g \in [0..(k+1) -> S]
    <3>1. f[k] \in S /\ k + 1 \in 1..n
      BY <1>2, <2>1
    <3>2. step[<<f[k], k+1>>] \in S
      BY <3>1
    <3>3. \A i \in 0..(k+1) : i # k+1 => f[i] \in S
      BY <2>1
    <3> QED BY <3>2, <3>3
  <2>3. g[0] = c
    BY <2>1
  <2>4. ASSUME NEW i \in 1..(k+1) PROVE g[i] = step[<<g[i-1], i>>]
    <3>1. g[i-1] = f[i-1]
      OBVIOUS
    <3>2. CASE i = k + 1
      BY <3>1, <3>2, SMTT(40)
    <3>3. CASE i # k + 1
      <4>1. i \in 1..k
        BY <3>3
      <4>2. f[i] = step[<<f[i-1], i>>]
        BY <4>1, <2>1
      <4> QED BY <3>1, <4>2, <3>3
    <3> QED BY <3>2, <3>3
  <2>5. g \in Runs(k+1)
    <3>1. \A i \in 1..(k+1) : g[i] = step[<<g[i-1], i>>]
      BY <2>4
    <3> HIDE DEF g
    <3> QED BY <2>2, <2>3, <3>1
  <2>6. k + 1 \in 0..n
    BY <1>2
  <2> QED
    <3> HIDE DEF Runs
    <3> QED BY <2>5, <2>6
<1>3. n \in K
  <2> HIDE DEF K
  <2> QED BY <1>1, <1>2, UpTo
<1> QED BY <1>3 DEF IsRun

-----------------------------------------------------------------------------
(* The inbound side of a group link.                                       *)

Places(A) == <<heard, first, held, early, flush, ingested>>
(* The number of a message is its place among the arrivals.                *)
Stamped == \A i \in DOMAIN arrived : arrived[i].n = i
(* What each variable of the link may hold.                                *)
LinkTypes ==
  /\ state \in {"Handshaking", "Connected", "Disconnected"}
  /\ conversation \in BOOLEAN /\ resolving \in BOOLEAN /\ blamed \in BOOLEAN
  /\ resolution \in {"none", "resolver", "create", "authFailed", "over"}
  /\ \A s \in {held, early, first, flush, arrived, heard, ingested} : s \in Seq(L!Messages)
(* Before the first Hello nothing is anywhere.                             *)
Unheard == resolution = "none" =>
   /\ ~conversation /\ ~resolving
   /\ \A s \in {held, early, first, flush, arrived, heard, ingested} : s = <<>>
(* While the Hello is resolved, it and what is parked behind it are all    *)
(* that arrived.                                                           *)
Resolves == resolution \in {"resolver", "create", "authFailed"} =>
   /\ resolving /\ \A s \in {early, heard, flush, ingested} : s = <<>>
   /\ resolution # "resolver" => conversation
   /\ arrived = first \o held /\ Len(first) = 1 /\ first[1].kind = "hello"
   /\ Len(held) <= MaxParked
(* After that every handshake message was handed on, and every frame is    *)
(* kept for later, held by the completion or ingested; until the           *)
(* completion nothing is ingested.                                         *)
Over == resolution = "over" =>
   /\ conversation /\ ~resolving /\ held = <<>> /\ first = <<>>
   /\ arrived # <<>> /\ arrived[1].kind = "hello"
   /\ L!Range(heard) = {m \in L!Range(arrived) : m.kind # "frame"}
   /\ L!Range(early) \cup L!Range(flush) \cup L!Range(ingested)
         = {m \in L!Range(arrived) : m.kind = "frame"}
   /\ L!Ascending(heard) /\ L!Ascending(early) /\ L!Ascending(flush)
   /\ L!Range(flush) \cap L!Range(ingested) = {}
   /\ IF state = "Handshaking"
      THEN flush = <<>> /\ ingested = <<>> /\ Len(early) + Len(heard) = Len(arrived)
      ELSE early = <<>>
(* The invariant of the link: while it is up nobody is blamed and the      *)
(* arrivals are accounted for according to how far the resolution is; a    *)
(* link that went down is blamed for cause.                                *)
LinkInv == /\ LinkTypes /\ Stamped /\ L!BlamedForCause
           /\ state # "Disconnected" => /\ ~blamed /\ Unheard /\ Resolves /\ Over
                                        /\ state = "Connected" => resolution = "over"

(* f lists the prefixes of OfKinds.                                        *)
Follow(f, ms, kinds) ==
  /\ DOMAIN f = 0..Len(ms) /\ f[0] = <<>>
  /\ \A i \in 1..Len(ms) : f[i] = IF ms[i].kind \in kinds THEN Append(f[i-1], ms[i]) ELSE f[i-1]

(* OfKinds is the last value of a run that takes the messages one by one.  *)
LEMMA KeptUnfolds ==
  ASSUME NEW S, NEW ms \in Seq(S), NEW kinds
  PROVE  \E f \in [0..Len(ms) -> Seq(S)] : L!OfKinds(ms, kinds) = f[Len(ms)] /\ Follow(f, ms, kinds)
<1> DEFINE n == Len(ms)
           step == [x \in Seq(S) \X (1..n) |->
                     IF ms[x[2]].kind \in kinds THEN Append(x[1], ms[x[2]]) ELSE x[1]]
           D(f) == [i \in 0..n |-> IF i = 0 THEN <<>>
                                   ELSE IF ms[i].kind \in kinds THEN Append(f[i - 1], ms[i])
                                   ELSE f[i - 1]]
<1>0. n \in Nat /\ <<>> \in Seq(S) /\ \A i \in 1..n : ms[i] \in S
  OBVIOUS
<1>1. step \in [Seq(S) \X (1..n) -> Seq(S)]
  BY <1>0
<1>2. PICK f \in [0..n -> Seq(S)] : f[0] = <<>> /\ \A i \in 1..n : f[i] = step[<<f[i-1], i>>]
  <2> DEFINE S0 == Seq(S)
             c == <<>>
  <2>1. n \in Nat /\ c \in S0 /\ step \in Steps(S0, n)
    BY <1>0, <1>1 DEF Steps
  <2>2. \E f : IsRun(f, n, S0, c, step)
    <3> HIDE DEF step, n, S0, c
    <3> QED BY <2>1, Recursion
  <2> QED
    <3> HIDE DEF step, n
    <3> QED BY <2>2 DEF IsRun
<1>3. ASSUME NEW i \in 1..n
      PROVE  f[i] = IF ms[i].kind \in kinds THEN Append(f[i-1], ms[i]) ELSE f[i-1]
  <2>1. f[i-1] \in Seq(S)
    BY <1>2
  <2>2. step[<<f[i-1], i>>] = IF ms[i].kind \in kinds THEN Append(f[i-1], ms[i]) ELSE f[i-1]
    BY <2>1
  <2> QED BY <1>2, <2>2
<1>4. f = D(f)
  <2>1. ASSUME NEW i \in 0..n PROVE f[i] = D(f)[i]
    <3>1. CASE i = 0
      BY <3>1, <1>2
    <3>2. CASE i # 0
      <4>1. i \in 1..n
        BY <3>2, <1>0
      <4> QED BY <4>1, <1>3, <3>2
    <3> QED BY <3>1, <3>2
  <2>2. f = [i \in 0..n |-> f[i]]
    BY <1>2
  <2>3. D(f) = [i \in 0..n |-> D(f)[i]]
    OBVIOUS
  <2> HIDE DEF D
  <2> QED BY <2>1, <2>2, <2>3
<1> DEFINE g == CHOOSE h : h = D(h)
<1>5. g = D(g)
  <2> HIDE DEF D
  <2> QED BY <1>4
<1>6. L!OfKinds(ms, kinds) = g[n]
  BY DEF L!OfKinds
<1>7. DOMAIN g = 0..n /\ g[0] = <<>>
      /\ \A i \in 1..n : g[i] = IF ms[i].kind \in kinds THEN Append(g[i-1], ms[i]) ELSE g[i-1]
  <2> HIDE DEF g
  <2>1. DOMAIN g = 0..n 
    BY <1>5
  <2>2. \A i \in 0..n : g[i] = D(g)[i]
    BY <1>5
  <2>3. g[0] = <<>>
    BY <2>2, <1>0
  <2>4. ASSUME NEW i \in 1..n
        PROVE  g[i] = IF ms[i].kind \in kinds THEN Append(g[i-1], ms[i]) ELSE g[i-1]
    <3>1. i \in 0..n /\ i # 0
      BY <1>0
    <3> QED BY <3>1, <2>2
  <2> QED BY <2>1, <2>3, <2>4
<1>8. g \in [0..n -> Seq(S)]
  <2> HIDE DEF g
  <2> DEFINE K == {i \in 0..n : g[i] \in Seq(S)}
  <2>1. 0 \in K
    <3>1. 0 \in 0..n /\ g[0] = <<>> /\ <<>> \in Seq(S)
      BY <1>7, <1>0
    <3> QED BY <3>1, Zenon
  <2>2. ASSUME NEW i \in 0..n, i \in K, i < n PROVE i + 1 \in K
    <3>1. i + 1 \in 1..n /\ (i + 1) - 1 = i
      BY <2>2
    <3>2. g[i+1] = IF ms[i+1].kind \in kinds THEN Append(g[i], ms[i+1]) ELSE g[i]
      BY <1>7, <3>1
    <3>3. g[i+1] \in Seq(S)
      BY <3>2, <2>2, <3>1, <1>0
    <3> QED BY <3>1, <3>3
  <2>3. 0..n \subseteq K
    <3> HIDE DEF K
    <3> QED BY <2>1, <2>2, <1>0, UpTo
  <2>4. g = [i \in 0..n |-> g[i]]
    BY <1>7, <1>5
  <2> QED BY <2>3, <2>4
<1> QED
  <2> HIDE DEF g
  <2> QED BY <1>6, <1>7, <1>8 DEF Follow

(* The messages of these kinds among the first i.                          *)
Seen(ms, i, kinds) == {m \in L!Range(ms) : m.kind \in kinds /\ \E j \in 1..i : m = ms[j]}

LEMMA AppendRange ==
  ASSUME NEW S, NEW s \in Seq(S), NEW x
  PROVE  L!Range(Append(s, x)) = L!Range(s) \cup {x}
<1>1. \A i \in 1..Len(s) : Append(s, x)[i] = s[i]
  OBVIOUS
<1>2. Append(s, x)[Len(s) + 1] = x /\ Len(Append(s, x)) = Len(s) + 1
  OBVIOUS
<1>3. DOMAIN Append(s, x) = 1..(Len(s) + 1) /\ DOMAIN s = 1..Len(s)
  OBVIOUS
<1>4. Len(s) \in Nat
  OBVIOUS
<1>5. 1..(Len(s) + 1) = (1..Len(s)) \cup {Len(s) + 1}
  BY <1>4
<1>6. ASSUME NEW i \in DOMAIN Append(s, x)
      PROVE  Append(s, x)[i] = x \/ \E j \in DOMAIN s : Append(s, x)[i] = s[j]
  BY <1>1, <1>2, <1>3, <1>5
<1>7. x \in L!Range(Append(s, x))
  BY <1>2, <1>3, <1>4 DEF L!Range
<1>8. ASSUME NEW i \in DOMAIN s PROVE s[i] \in L!Range(Append(s, x))
  BY <1>1, <1>3, <1>5 DEF L!Range
<1> QED
  BY <1>6, <1>7, <1>8 DEF L!Range

LEMMA AppendAscends ==
  ASSUME NEW S, NEW s \in Seq(S), L!Ascending(s), NEW x, \A m \in L!Range(s) : m.n < x.n
  PROVE  L!Ascending(Append(s, x))
<1> SUFFICES ASSUME NEW i \in DOMAIN Append(s, x), NEW j \in DOMAIN Append(s, x), i < j
             PROVE  Append(s, x)[i].n < Append(s, x)[j].n
  BY DEF L!Ascending
<1>1. i \in 1..Len(s) /\ Append(s, x)[i] = s[i] /\ i \in DOMAIN s
  OBVIOUS
<1>2. CASE j = Len(s) + 1
  <2>1. Append(s, x)[j] = x
    BY <1>2
  <2> QED
    BY <1>1, <2>1 DEF L!Range
<1>3. CASE j # Len(s) + 1
  <2>1. j \in DOMAIN s /\ Append(s, x)[j] = s[j]
    BY <1>3
  <2> QED
    BY <1>1, <2>1 DEF L!Ascending
<1> QED
  BY <1>2, <1>3

(* OfKinds returns the messages of these kinds, each once, in their order. *)
LEMMA KeptFacts ==
  ASSUME NEW S, NEW ms \in Seq(S), NEW kinds
  PROVE  /\ L!OfKinds(ms, kinds) \in Seq(S)
         /\ L!Range(L!OfKinds(ms, kinds)) = {m \in L!Range(ms) : m.kind \in kinds}
         /\ L!Ascending(ms) => L!Ascending(L!OfKinds(ms, kinds))
<1> DEFINE n == Len(ms)
<1>0. n \in Nat /\ DOMAIN ms = 1..n
  OBVIOUS
<1>1. PICK f \in [0..n -> Seq(S)] : L!OfKinds(ms, kinds) = f[n] /\ Follow(f, ms, kinds)
  BY KeptUnfolds
<1> DEFINE K == {i \in 0..n : /\ L!Range(f[i]) = Seen(ms, i, kinds)
                              /\ L!Ascending(ms) => L!Ascending(f[i])}
<1>2. 0 \in K
  <2>1. f[0] = <<>>
    BY <1>1 DEF Follow
  <2>2. L!Range(<<>>) = {} /\ L!Ascending(<<>>)
    BY DEF L!Range, L!Ascending
  <2>3. Seen(ms, 0, kinds) = {}
    BY DEF Seen
  <2> QED
    BY <1>0, <2>1, <2>2, <2>3
<1>3. ASSUME NEW i \in 0..n, i \in K, i < n PROVE i + 1 \in K
  <2>1. i + 1 \in 1..n /\ (i + 1) - 1 = i /\ i + 1 \in DOMAIN ms
    BY <1>0, <1>3
  <2>2. f[i] \in Seq(S)
    BY <1>1
  <2>3. /\ L!Range(f[i]) = Seen(ms, i, kinds)
        /\ L!Ascending(ms) => L!Ascending(f[i])
    BY <1>3
  <2>4. 1..(i + 1) = (1..i) \cup {i + 1}
    OBVIOUS
  <2>5. CASE ms[i + 1].kind \in kinds
    <3>1. f[i + 1] = Append(f[i], ms[i + 1])
      BY <1>1, <2>1, <2>5 DEF Follow
    <3>2. L!Range(f[i + 1]) = L!Range(f[i]) \cup {ms[i + 1]}
      BY <2>2, <3>1, AppendRange
    <3>3. Seen(ms, i + 1, kinds) = Seen(ms, i, kinds) \cup {ms[i + 1]}
      <4>1. ms[i + 1] \in L!Range(ms)
        BY <2>1 DEF L!Range
      <4> QED
        BY <4>1, <2>4, <2>5 DEF Seen
    <3>4. ASSUME L!Ascending(ms) PROVE L!Ascending(f[i + 1])
      <4>1. \A m \in L!Range(f[i]) : m.n < ms[i + 1].n
        <5> SUFFICES ASSUME NEW m \in Seen(ms, i, kinds) PROVE m.n < ms[i + 1].n
          BY <2>3
        <5>1. PICK j \in 1..i : m = ms[j]
          BY DEF Seen
        <5>2. j \in DOMAIN ms /\ j < i + 1
          BY <1>0, <2>1
        <5> QED
          BY <3>4, <5>1, <5>2, <2>1 DEF L!Ascending
      <4> QED
        BY <2>2, <2>3, <3>1, <3>4, <4>1, AppendAscends
    <3>5. i + 1 \in 0..n
      BY <2>1
    <3> QED
      BY <2>3, <3>2, <3>3, <3>4, <3>5
  <2>6. CASE ms[i + 1].kind \notin kinds
    <3>1. f[i + 1] = f[i]
      BY <1>1, <2>1, <2>6 DEF Follow
    <3>2. Seen(ms, i + 1, kinds) = Seen(ms, i, kinds)
      BY <2>4, <2>6 DEF Seen
    <3> QED
      BY <2>1, <2>3, <3>1, <3>2
  <2> QED
    BY <2>5, <2>6
<1>4. n \in K
  <2>1. 0..n \subseteq K
    <3> HIDE DEF K, n
    <3> QED BY <1>0, <1>2, <1>3, UpTo
  <2> QED BY <1>0, <2>1
<1>5. Seen(ms, n, kinds) = {m \in L!Range(ms) : m.kind \in kinds}
  BY <1>0 DEF Seen, L!Range
<1> QED
  BY <1>0, <1>1, <1>4, <1>5

(* A sequence is as long as its frames and its handshake messages          *)
(* together.                                                               *)
LEMMA KeptLengths ==
  ASSUME NEW S, NEW ms \in Seq(S), NEW a, NEW b,
         \A m \in L!Range(ms) : (m.kind \in a) <=> ~(m.kind \in b)
  PROVE  Len(L!OfKinds(ms, a)) + Len(L!OfKinds(ms, b)) = Len(ms)
<1> DEFINE n == Len(ms)
<1>0. n \in Nat /\ DOMAIN ms = 1..n
  OBVIOUS
<1>1. PICK f \in [0..n -> Seq(S)] : L!OfKinds(ms, a) = f[n] /\ Follow(f, ms, a)
  BY KeptUnfolds
<1>2. PICK g \in [0..n -> Seq(S)] : L!OfKinds(ms, b) = g[n] /\ Follow(g, ms, b)
  BY KeptUnfolds
<1> DEFINE K == {i \in 0..n : Len(f[i]) + Len(g[i]) = i}
<1>3. 0 \in K
  BY <1>0, <1>1, <1>2 DEF Follow
<1>4. ASSUME NEW i \in 0..n, i \in K, i < n PROVE i + 1 \in K
  <2>1. i + 1 \in 1..n /\ (i + 1) - 1 = i /\ i + 1 \in DOMAIN ms
    BY <1>0, <1>4
  <2>2. f[i] \in Seq(S) /\ g[i] \in Seq(S)
    BY <1>1, <1>2
  <2>3. (ms[i + 1].kind \in a) <=> ~(ms[i + 1].kind \in b)
    BY <2>1 DEF L!Range
  <2>4. Len(f[i]) + Len(g[i]) = i /\ Len(f[i]) \in Nat /\ Len(g[i]) \in Nat
    BY <1>4, <2>2
  <2>5. CASE ms[i + 1].kind \in a
    <3>1. f[i + 1] = Append(f[i], ms[i + 1]) /\ g[i + 1] = g[i]
      BY <1>1, <1>2, <2>1, <2>3, <2>5 DEF Follow
    <3>2. Len(f[i + 1]) = Len(f[i]) + 1
      BY <2>2, <3>1
    <3> QED
      BY <2>1, <2>4, <3>1, <3>2
  <2>6. CASE ms[i + 1].kind \in b
    <3>1. g[i + 1] = Append(g[i], ms[i + 1]) /\ f[i + 1] = f[i]
      BY <1>1, <1>2, <2>1, <2>3, <2>6 DEF Follow
    <3>2. Len(g[i + 1]) = Len(g[i]) + 1
      BY <2>2, <3>1
    <3> QED
      BY <2>1, <2>4, <3>1, <3>2
  <2> QED
    BY <2>3, <2>5, <2>6
<1>5. n \in K
  <2>1. 0..n \subseteq K
    <3> HIDE DEF K, n
    <3>1. n \in Nat
      BY <1>0
    <3>2. \A i \in 0..n : i \in K /\ i < n => i + 1 \in K
      BY <1>4
    <3> QED BY <1>3, <3>1, <3>2, UpTo
  <2>2. n \in 0..n
    BY <1>0
  <2> HIDE DEF K, n
  <2> QED BY <2>1, <2>2
<1> QED
  BY <1>1, <1>2, <1>5

-----------------------------------------------------------------------------
LEMMA ConcatRange ==
  ASSUME NEW S, NEW s \in Seq(S), NEW t \in Seq(S)
  PROVE  L!Range(s \o t) = L!Range(s) \cup L!Range(t)
<1>1. DOMAIN s = 1..Len(s) /\ DOMAIN t = 1..Len(t) /\ Len(s) \in Nat /\ Len(t) \in Nat
  OBVIOUS
<1>2. DOMAIN (s \o t) = 1..(Len(s) + Len(t))
  OBVIOUS
<1>3. ASSUME NEW i \in DOMAIN (s \o t) PROVE (s \o t)[i] \in L!Range(s) \cup L!Range(t)
  <2>1. CASE i <= Len(s)
    <3>1. (s \o t)[i] = s[i] /\ i \in DOMAIN s
      BY <2>1, <1>1, <1>2
    <3> QED BY <3>1 DEF L!Range
  <2>2. CASE ~(i <= Len(s))
    <3>1. (s \o t)[i] = t[i - Len(s)] /\ i - Len(s) \in DOMAIN t
      BY <2>2, <1>1, <1>2
    <3> QED BY <3>1 DEF L!Range
  <2> QED BY <2>1, <2>2
<1>4. ASSUME NEW i \in DOMAIN s PROVE s[i] \in L!Range(s \o t)
  <2>1. (s \o t)[i] = s[i] /\ i \in DOMAIN (s \o t)
    BY <1>1, <1>2
  <2> QED BY <2>1 DEF L!Range
<1>5. ASSUME NEW i \in DOMAIN t PROVE t[i] \in L!Range(s \o t)
  <2>1. (s \o t)[i + Len(s)] = t[i] /\ i + Len(s) \in DOMAIN (s \o t)
    BY <1>1, <1>2
  <2> QED BY <2>1 DEF L!Range
<1> QED
  BY <1>3, <1>4, <1>5 DEF L!Range

LEMMA ConcatAscends ==
  ASSUME NEW S, NEW s \in Seq(S), NEW t \in Seq(S), L!Ascending(s), L!Ascending(t),
         \A x \in L!Range(s), y \in L!Range(t) : x.n < y.n
  PROVE  L!Ascending(s \o t)
<1> SUFFICES ASSUME NEW i \in DOMAIN (s \o t), NEW j \in DOMAIN (s \o t), i < j
             PROVE  (s \o t)[i].n < (s \o t)[j].n
  BY DEF L!Ascending
<1>1. DOMAIN s = 1..Len(s) /\ DOMAIN t = 1..Len(t) /\ Len(s) \in Nat /\ Len(t) \in Nat
  OBVIOUS
<1>2. DOMAIN (s \o t) = 1..(Len(s) + Len(t))
  OBVIOUS
<1>3. \A k \in DOMAIN (s \o t) :
         /\ k <= Len(s) => k \in DOMAIN s /\ (s \o t)[k] = s[k]
         /\ ~(k <= Len(s)) => k - Len(s) \in DOMAIN t /\ (s \o t)[k] = t[k - Len(s)]
  BY <1>1, <1>2
<1>4. CASE j <= Len(s)
  <2>1. i <= Len(s)
    BY <1>1, <1>2, <1>4
  <2> QED BY <1>3, <1>4, <2>1 DEF L!Ascending
<1>5. CASE ~(i <= Len(s))
  <2>1. ~(j <= Len(s))
    BY <1>1, <1>2, <1>5
  <2>2. i - Len(s) < j - Len(s)
    BY <1>1, <1>2
  <2> QED BY <1>3, <1>5, <2>1, <2>2 DEF L!Ascending
<1>6. CASE i <= Len(s) /\ ~(j <= Len(s))
  <2>1. (s \o t)[i] \in L!Range(s)
    BY <1>3, <1>6 DEF L!Range
  <2>2. (s \o t)[j] \in L!Range(t)
    BY <1>3, <1>6 DEF L!Range
  <2> QED BY <2>1, <2>2
<1> QED
  BY <1>4, <1>5, <1>6

(* With stamps, a message is known by its number.                          *)
LEMMA StampsAscend ==
  ASSUME arrived \in Seq(L!Messages), Stamped
  PROVE  /\ L!Ascending(arrived)
         /\ \A m \in L!Range(arrived) : m.n \in 1..Len(arrived) /\ arrived[m.n] = m
BY DEF Stamped, L!Ascending, L!Range

(* A sequence in order holds nothing twice.                                *)
LEMMA AscendingTail ==
  ASSUME NEW s \in Seq(L!Messages), L!Ascending(s), s # <<>>
  PROVE  /\ L!Ascending(Tail(s)) /\ Tail(s) \in Seq(L!Messages) /\ Head(s) \in L!Messages
         /\ L!Range(s) = {Head(s)} \cup L!Range(Tail(s))
         /\ Head(s) \notin L!Range(Tail(s))
<1>1. /\ Len(s) \in Nat /\ Len(s) >= 1 /\ DOMAIN s = 1..Len(s)
      /\ DOMAIN Tail(s) = 1..(Len(s) - 1) /\ Head(s) = s[1] /\ 1 \in DOMAIN s
  OBVIOUS
<1>2. \A i \in DOMAIN Tail(s) : Tail(s)[i] = s[i + 1] /\ i + 1 \in DOMAIN s
  BY <1>1
<1>3. \A i \in DOMAIN s : i # 1 => i - 1 \in DOMAIN Tail(s) /\ Tail(s)[i - 1] = s[i]
  BY <1>1
<1>4. L!Ascending(Tail(s))
  <2> SUFFICES ASSUME NEW i \in DOMAIN Tail(s), NEW j \in DOMAIN Tail(s), i < j
               PROVE  Tail(s)[i].n < Tail(s)[j].n
    BY DEF L!Ascending
  <2>1. i + 1 < j + 1
    BY <1>1
  <2> QED BY <1>2, <2>1 DEF L!Ascending
<1>5. Head(s) \notin L!Range(Tail(s))
  <2> SUFFICES ASSUME NEW i \in DOMAIN Tail(s), Tail(s)[i] = s[1] PROVE FALSE
    BY <1>1 DEF L!Range
  <2>1. 1 < i + 1
    BY <1>1
  <2>2. s[1].n < s[i + 1].n
    BY <1>1, <1>2, <2>1 DEF L!Ascending
  <2>3. s[1].n \in 1..MaxArrivals
    <3>1. s[1] \in L!Messages
      BY <1>1
    <3> QED BY <3>1 DEF L!Messages
  <2>4. ~(s[1].n < s[1].n)
    BY <2>3
  <2> QED BY <1>2, <2>2, <2>4
<1>6. L!Range(s) = {Head(s)} \cup L!Range(Tail(s))
  <2>1. \A i \in DOMAIN s : s[i] \in {s[1]} \cup L!Range(Tail(s))
    BY <1>3 DEF L!Range
  <2>2. \A i \in DOMAIN Tail(s) : Tail(s)[i] \in L!Range(s)
    BY <1>2 DEF L!Range
  <2>3. s[1] \in L!Range(s) /\ Head(s) = s[1]
    BY <1>1 DEF L!Range
  <2> QED BY <2>1, <2>2, <2>3 DEF L!Range
<1> QED
  BY <1>4, <1>5, <1>6

-----------------------------------------------------------------------------
LEMMA ConcatFacts ==
  ASSUME NEW S, NEW s \in Seq(S), NEW t \in Seq(S)
  PROVE  /\ DOMAIN (s \o t) = 1..(Len(s) + Len(t)) /\ Len(t) \in Nat
         /\ DOMAIN s = 1..Len(s) /\ DOMAIN t = 1..Len(t)
         /\ \A i \in 1..(Len(s) + Len(t)) :
               (s \o t)[i] = IF i <= Len(s) THEN s[i] ELSE t[i - Len(s)]
OBVIOUS

LEMMA FirstOfMany ==
  ASSUME NEW S, NEW s \in Seq(S), NEW t \in Seq(S), Len(s) = 1
  PROVE  /\ L!Range(s) = {(s \o t)[1]} /\ 1 \in DOMAIN (s \o t)
         /\ \A i \in DOMAIN t : t[i] = (s \o t)[i + 1] /\ i + 1 \in DOMAIN (s \o t)
<1>0. /\ DOMAIN (s \o t) = 1..(Len(s) + Len(t)) /\ Len(t) \in Nat
      /\ DOMAIN s = 1..Len(s) /\ DOMAIN t = 1..Len(t)
      /\ \A i \in 1..(Len(s) + Len(t)) :
            (s \o t)[i] = IF i <= Len(s) THEN s[i] ELSE t[i - Len(s)]
  BY ConcatFacts
<1> DEFINE u == s \o t
<1> HIDE DEF u
<1>1. DOMAIN s = {1} /\ DOMAIN t = 1..Len(t) /\ Len(t) \in Nat
  BY <1>0
<1>2. DOMAIN u = 1..(1 + Len(t))
  BY <1>0 DEF u
<1>3. u[1] = s[1]
  BY <1>0 DEF u
<1>4. \A i \in 1..Len(t) : u[i + 1] = t[i]
  BY <1>0 DEF u
<1>5. L!Range(s) = {s[1]}
  BY <1>1 DEF L!Range
<1> QED
  BY <1>1, <1>2, <1>3, <1>4, <1>5 DEF u

(* The invariant implies what the runs check.                              *)
LEMMA LinkImplies == ASSUME LinkInv PROVE L!InboundIsFaithful
<1> DEFINE P == <<heard, first, held, early, flush, ingested>>
<1>1. /\ \A i \in 1..6 : L!Range(P[i]) = CASE i = 1 -> L!Range(heard) [] i = 2 -> L!Range(first)
                           [] i = 3 -> L!Range(held) [] i = 4 -> L!Range(early)
                           [] i = 5 -> L!Range(flush) [] i = 6 -> L!Range(ingested)
  OBVIOUS
<1>2. L!Range(<<>>) = {} /\ L!Ascending(<<>>)
  BY DEF L!Range, L!Ascending
<1>3. ASSUME state # "Disconnected"
      PROVE  /\ L!Range(heard) \cup L!Range(first) \cup L!Range(held) \cup L!Range(early)
                   \cup L!Range(flush) \cup L!Range(ingested) = L!Range(arrived)
             /\ L!Ascending(heard)
             /\ L!Range(heard) \cap L!Range(first) = {}
             /\ L!Range(heard) \cap L!Range(held) = {}
             /\ L!Range(heard) \cap L!Range(early) = {}
             /\ L!Range(heard) \cap L!Range(flush) = {}
             /\ L!Range(heard) \cap L!Range(ingested) = {}
             /\ L!Range(first) \cap L!Range(held) = {}
             /\ L!Range(first) \cap L!Range(early) = {}
             /\ L!Range(first) \cap L!Range(flush) = {}
             /\ L!Range(first) \cap L!Range(ingested) = {}
             /\ L!Range(held) \cap L!Range(early) = {}
             /\ L!Range(held) \cap L!Range(flush) = {}
             /\ L!Range(held) \cap L!Range(ingested) = {}
             /\ L!Range(early) \cap L!Range(flush) = {}
             /\ L!Range(early) \cap L!Range(ingested) = {}
             /\ L!Range(flush) \cap L!Range(ingested) = {}
  <2>1. CASE resolution = "none"
    <3>1. /\ held = <<>> /\ early = <<>> /\ first = <<>> /\ flush = <<>> /\ arrived = <<>>
          /\ heard = <<>> /\ ingested = <<>>
      BY <1>3, <2>1 DEF LinkInv, Unheard
    <3> QED
      BY <3>1, <1>2
  <2>2. CASE resolution \in {"resolver", "create", "authFailed"}
    <3>1. /\ early = <<>> /\ heard = <<>> /\ flush = <<>> /\ ingested = <<>>
          /\ arrived = first \o held /\ Len(first) = 1
      BY <1>3, <2>2 DEF LinkInv, Resolves
    <3>2. /\ first \in Seq(L!Messages) /\ held \in Seq(L!Messages)
          /\ arrived \in Seq(L!Messages)
      BY DEF LinkInv, LinkTypes
    <3>3. L!Range(arrived) = L!Range(first) \cup L!Range(held)
      BY <3>1, <3>2, ConcatRange
    <3>4. L!Range(first) = {arrived[1]} /\ 1 \in DOMAIN arrived
      BY <3>1, <3>2, FirstOfMany
    <3>5. \A i \in DOMAIN held : held[i] = arrived[i + 1] /\ i + 1 \in DOMAIN arrived
      BY <3>1, <3>2, FirstOfMany
    <3>6. ASSUME NEW i \in DOMAIN held PROVE held[i] # arrived[1]
      <4>1. i + 1 # 1
        BY <3>2
      <4> QED BY <3>4, <3>5, <4>1 DEF LinkInv, Stamped
    <3>7. L!Range(first) \cap L!Range(held) = {}
      BY <3>4, <3>6 DEF L!Range
    <3> QED
      BY <3>1, <3>3, <3>7, <1>2
  <2>3. CASE resolution = "over"
    <3>1. Over
      BY <1>3 DEF LinkInv
    <3>2. /\ held = <<>> /\ first = <<>> /\ L!Ascending(heard)
          /\ L!Range(heard) = {m \in L!Range(arrived) : m.kind # "frame"}
          /\ L!Range(early) \cup L!Range(flush) \cup L!Range(ingested)
                = {m \in L!Range(arrived) : m.kind = "frame"}
          /\ L!Range(flush) \cap L!Range(ingested) = {}
      BY <3>1, <2>3 DEF Over
    <3>3. early = <<>> \/ (flush = <<>> /\ ingested = <<>>)
      BY <3>1, <2>3 DEF Over
    <3> QED
      BY <3>2, <3>3, <1>2
  <2> QED
    BY <1>3, <2>1, <2>2, <2>3 DEF LinkInv, LinkTypes
<1>4. ASSUME state # "Disconnected"
      PROVE  UNION {L!Range(P[i]) : i \in 1..6} = L!Range(arrived)
  <2>1. \A x : x \in UNION {L!Range(P[i]) : i \in 1..6} <=> \E i \in 1..6 : x \in L!Range(P[i])
    OBVIOUS
  <2>2. 1..6 = {1, 2, 3, 4, 5, 6}
    OBVIOUS
  <2>3. /\ L!Range(P[1]) = L!Range(heard) /\ L!Range(P[2]) = L!Range(first)
        /\ L!Range(P[3]) = L!Range(held) /\ L!Range(P[4]) = L!Range(early)
        /\ L!Range(P[5]) = L!Range(flush) /\ L!Range(P[6]) = L!Range(ingested)
    OBVIOUS
  <2> HIDE DEF P
  <2> QED BY <1>3, <1>4, <2>1, <2>2, <2>3
<1>5. ASSUME state # "Disconnected", NEW i \in 1..6, NEW j \in 1..6, i # j
      PROVE  L!Range(P[i]) \cap L!Range(P[j]) = {}
  <2>1. /\ L!Range(P[1]) = L!Range(heard) /\ L!Range(P[2]) = L!Range(first)
        /\ L!Range(P[3]) = L!Range(held) /\ L!Range(P[4]) = L!Range(early)
        /\ L!Range(P[5]) = L!Range(flush) /\ L!Range(P[6]) = L!Range(ingested)
    OBVIOUS
  <2>2. i \in {1, 2, 3, 4, 5, 6} /\ j \in {1, 2, 3, 4, 5, 6}
    OBVIOUS
  <2> HIDE DEF P
  <2> QED BY <1>3, <1>5, <2>1, <2>2
<1>6. L!HandedInOrder
  BY <1>3, <1>4, <1>5 DEF L!HandedInOrder
<1> QED
  BY <1>6 DEF LinkInv, L!InboundIsFaithful

-----------------------------------------------------------------------------
LEMMA Before ==
  ASSUME NEW s \in Seq(L!Messages), NEW ms \in Seq(L!Messages), NEW i \in DOMAIN ms
  PROVE  (\E k \in DOMAIN (s \o SubSeq(ms, 1, i - 1)) : (s \o SubSeq(ms, 1, i - 1))[k].kind = "hello")
           <=> \/ \E m \in L!Range(s) : m.kind = "hello"
               \/ \E j \in DOMAIN ms : j < i /\ ms[j].kind = "hello"
<1> DEFINE t == SubSeq(ms, 1, i - 1)
<1>1. i \in 1..Len(ms) /\ Len(ms) \in Nat /\ DOMAIN ms = 1..Len(ms)
  OBVIOUS
<1>2. t \in Seq(L!Messages) /\ Len(t) = i - 1 /\ \A j \in 1..(i - 1) : t[j] = ms[j]
  BY <1>1, SubSeqProperties
<1>3. L!Range(t) = {ms[j] : j \in 1..(i - 1)}
  <2>1. DOMAIN t = 1..(i - 1)
    BY <1>2
  <2> HIDE DEF t
  <2> QED BY <1>2, <2>1 DEF L!Range
<1>4. L!Range(s \o t) = L!Range(s) \cup L!Range(t)
  BY <1>2, ConcatRange, ZenonT(60)
<1>5. (\E k \in DOMAIN (s \o t) : (s \o t)[k].kind = "hello")
         <=> \E m \in L!Range(s \o t) : m.kind = "hello"
  BY DEF L!Range
<1>6. \A j : j \in 1..(i - 1) <=> j \in DOMAIN ms /\ j < i
  BY <1>1
<1>7. (\E m \in L!Range(t) : m.kind = "hello")
         <=> \E j \in DOMAIN ms : j < i /\ ms[j].kind = "hello"
  <2> HIDE DEF t
  <2> QED BY <1>3, <1>6
<1>8. (\E m \in L!Range(s \o t) : m.kind = "hello") <=> \/ \E m \in L!Range(s) : m.kind = "hello"
                                                        \/ \E m \in L!Range(t) : m.kind = "hello"
  <2> HIDE DEF t
  <2> QED BY <1>4
<1> QED
  BY <1>5, <1>7, <1>8

(* What was handed on before ms, and ms, are all that arrived.             *)
Handed(base, ms) ==
  /\ L!Range(heard) = {m \in base : m.kind # "frame"}
  /\ L!Range(early) = {m \in base : m.kind = "frame"}
  /\ L!Ascending(heard) /\ L!Ascending(early)
  /\ L!Range(arrived') = base \cup L!Range(ms)
  /\ \A x \in base, y \in L!Range(ms) : x.n < y.n
  /\ Len(early) + Len(heard) + Len(ms) = Len(arrived')
  /\ arrived'[1].kind = "hello"

(* Handing messages on, refused or not, keeps the invariant.               *)
LEMMA DispatchKeeps ==
  ASSUME LinkTypes, Stamped', arrived' \in Seq(L!Messages), arrived' # <<>>,
         state = "Handshaking",
         ~blamed, NEW ms \in Seq(L!Messages), L!Ascending(ms), NEW base,
         Handed(base, ms), L!Dispatch(ms)
  PROVE  /\ heard' \in Seq(L!Messages) /\ early' \in Seq(L!Messages)
         /\ ~resolving' /\ held' = <<>> /\ blamed' \in BOOLEAN
         /\ L!BlamedForCause'
         /\ \/ state' = "Disconnected"
            \/ /\ state' = state
               /\ L!Range(heard') = {m \in L!Range(arrived') : m.kind # "frame"}
               /\ L!Range(early') = {m \in L!Range(arrived') : m.kind = "frame"}
               /\ L!Ascending(heard') /\ L!Ascending(early')
               /\ Len(early') + Len(heard') = Len(arrived')
<1>1. heard \in Seq(L!Messages) /\ early \in Seq(L!Messages)
  BY DEF LinkTypes
<1> DEFINE H == L!Handshakes(ms)
           F == L!Frames(ms)
<1>2. \A m \in L!Range(ms) : m.kind \in L!Kinds
  <2>1. \A i \in DOMAIN ms : ms[i] \in L!Messages
    OBVIOUS
  <2> QED BY <2>1 DEF L!Messages, L!Range
<1>3. /\ H \in Seq(L!Messages) /\ F \in Seq(L!Messages) /\ L!Ascending(H) /\ L!Ascending(F)
      /\ L!Range(H) = {m \in L!Range(ms) : m.kind \in L!Kinds \ {"frame"}}
      /\ L!Range(F) = {m \in L!Range(ms) : m.kind \in {"frame"}}
  BY KeptFacts DEF L!Handshakes, L!Frames
<1>4. Len(H) + Len(F) = Len(ms)
  BY <1>2, KeptLengths DEF L!Handshakes, L!Frames
<1>5. heard' = heard \o H /\ heard' \in Seq(L!Messages)
  BY <1>1, <1>3 DEF L!Dispatch
<1>6. ~resolving' /\ held' = <<>>
  BY DEF L!Dispatch
<1>7. L!Range(heard') = {m \in L!Range(arrived') : m.kind # "frame"}
  <2>1. L!Range(heard') = L!Range(heard) \cup L!Range(H)
    BY <1>1, <1>3, <1>5, ConcatRange
  <2> HIDE DEF H
  <2> QED
    BY <2>1, <1>2, <1>3 DEF Handed
<1>8. L!Ascending(heard')
  <2>1. \A x \in L!Range(heard), y \in L!Range(H) : x.n < y.n
    <3> HIDE DEF H
    <3> QED BY <1>3 DEF Handed
  <2> HIDE DEF H
  <2> QED
    BY <2>1, <1>1, <1>3, <1>5, ConcatAscends DEF Handed
<1>9. Len(heard') = Len(heard) + Len(H) /\ Len(heard) \in Nat /\ Len(H) \in Nat
      /\ Len(early) \in Nat /\ Len(F) \in Nat /\ Len(ms) \in Nat /\ Len(arrived') \in Nat
  <2> HIDE DEF H, F
  <2> QED
    BY <1>1, <1>3, <1>5
<1>10. CASE ~L!Refused(ms)
  <2>1. early' = early \o F /\ UNCHANGED <<state, blamed>>
    BY <1>10 DEF L!Dispatch
  <2>2. early' \in Seq(L!Messages) /\ Len(early') = Len(early) + Len(F)
    <3> HIDE DEF F
    <3> QED BY <2>1, <1>1, <1>3
  <2>3. L!Range(early') = {m \in L!Range(arrived') : m.kind = "frame"}
    <3>1. L!Range(early') = L!Range(early) \cup L!Range(F)
      BY <1>1, <1>3, <2>1, ConcatRange
    <3> HIDE DEF F
    <3> QED
      BY <3>1, <1>3 DEF Handed
  <2>4. L!Ascending(early')
    <3>1. \A x \in L!Range(early), y \in L!Range(F) : x.n < y.n
      <4> HIDE DEF F
      <4> QED BY <1>3 DEF Handed
    <3> HIDE DEF F
    <3> QED
      BY <3>1, <1>1, <1>3, <2>1, ConcatAscends DEF Handed
  <2>5. Len(early') + Len(heard') = Len(arrived')
    <3> HIDE DEF H, F
    <3> QED
      BY <1>4, <1>9, <2>2 DEF Handed
  <2>6. blamed' = FALSE /\ L!BlamedForCause'
    <3>1. ~blamed'
      BY <2>1
    <3>2. blamed \in BOOLEAN /\ blamed' = blamed
      BY <2>1 DEF LinkTypes
    <3> QED
      BY <3>1, <3>2 DEF L!BlamedForCause
  <2> QED
    BY <1>5, <1>6, <1>7, <1>8, <2>1, <2>2, <2>3, <2>4, <2>5, <2>6
<1>11. CASE L!Refused(ms)
  <2>1. state' = "Disconnected" /\ early' = <<>> /\ blamed' = TRUE
    BY <1>11 DEF L!Dispatch, L!Refuse, L!Torn
  <2>2. \A m \in L!Range(arrived') : m.n \in 1..Len(arrived') /\ arrived'[m.n] = m
    BY DEF Stamped, L!Range
  <2>3. 1 \in DOMAIN arrived' /\ arrived'[1].n = 1 /\ arrived'[1] \in L!Range(arrived')
    BY DEF Stamped, L!Range
  <2>4. CASE Len(early) + Len(F) > MaxParked
    <3>1. arrived'[1] \in L!Range(heard')
      BY <1>7, <2>3 DEF Handed
    <3>2. Len(heard') >= 1
      BY <3>1, <1>5 DEF L!Range
    <3>3. Len(arrived') > MaxParked + 1
      <4> HIDE DEF H, F
      <4> QED
        BY <1>4, <1>9, <2>4, <3>2, LinkAssumption DEF Handed
    <3> QED
      BY <1>5, <1>6, <2>1, <3>3 DEF L!BlamedForCause
  <2>5. ASSUME NEW i \in DOMAIN ms, L!OutOfTurn(ms[i], heard \o SubSeq(ms, 1, i - 1))
        PROVE  \E k \in DOMAIN arrived' \ {1} : arrived'[k].kind = "hello"
    <3> DEFINE earlier == \/ \E m \in L!Range(heard) : m.kind = "hello"
                          \/ \E j \in DOMAIN ms : j < i /\ ms[j].kind = "hello"
    <3>1. ms[i].kind # "frame" /\ ((ms[i].kind = "hello") <=> earlier)
      BY <2>5, <1>1, Before DEF L!OutOfTurn
    <3>2. ms[i] \in L!Range(ms) /\ ms[i] \in L!Range(arrived') /\ L!Range(ms) \subseteq L!Range(arrived')
          /\ L!Range(heard) \subseteq base /\ base \subseteq L!Range(arrived')
      BY DEF Handed, L!Range
    <3>3. CASE ms[i].kind = "hello"
      <4>1. PICK m \in L!Range(arrived') : m.n < ms[i].n
        <5>1. CASE \E m \in L!Range(heard) : m.kind = "hello"
          BY <5>1, <3>2 DEF Handed
        <5>2. CASE \E j \in DOMAIN ms : j < i /\ ms[j].kind = "hello"
          <6>1. PICK j \in DOMAIN ms : j < i
            BY <5>2
          <6>2. ms[j].n < ms[i].n /\ ms[j] \in L!Range(ms)
            BY <6>1 DEF L!Ascending, L!Range
          <6> QED BY <6>2, <3>2
        <5> QED BY <3>1, <3>3, <5>1, <5>2
      <4>2. ms[i].n \in DOMAIN arrived' /\ ms[i].n # 1 /\ arrived'[ms[i].n] = ms[i]
        BY <2>2, <3>2, <4>1
      <4> QED
        BY <3>3, <4>2
    <3>4. CASE ms[i].kind # "hello"
      <4>1. ~earlier
        BY <3>1, <3>4
      <4>2. arrived'[1] \notin base
        BY <4>1 DEF Handed
      <4>3. arrived'[1] \in L!Range(ms)
        BY <2>3, <4>2 DEF Handed
      <4>4. PICK j \in DOMAIN ms : ms[j] = arrived'[1]
        BY <4>3 DEF L!Range
      <4>5. ~(j < i)
        BY <4>1, <4>4 DEF Handed
      <4>6. j # i
        BY <3>4, <4>4 DEF Handed
      <4>7. ms[i].n < ms[j].n
        <5>1. i < j
          BY <4>5, <4>6
        <5> QED BY <5>1 DEF L!Ascending
      <4>8. ms[i].n >= 1 /\ ms[j].n = 1
        BY <2>2, <2>3, <3>2, <4>4
      <4> QED
        BY <4>7, <4>8, <2>2, <3>2
    <3> QED
      BY <3>3, <3>4
  <2>6. CASE \E i \in DOMAIN ms : L!OutOfTurn(ms[i], heard \o SubSeq(ms, 1, i - 1))
    <3>1. L!BlamedForCause'
      BY <2>5, <2>6 DEF L!BlamedForCause
    <3> QED
      BY <1>5, <1>6, <2>1, <3>1
  <2> QED
    BY <1>11, <2>4, <2>6 DEF L!Refused
<1> QED
  BY <1>10, <1>11

-----------------------------------------------------------------------------
LEMMA LinkInit == ASSUME L!Init PROVE LinkInv
<1>1. <<>> \in Seq(L!Messages)
  OBVIOUS
<1>2. LinkTypes
  BY <1>1 DEF L!Init, LinkTypes
<1>3. Stamped /\ Unheard /\ Resolves /\ Over /\ L!BlamedForCause
  BY DEF L!Init, Stamped, Unheard, Resolves, Over, L!BlamedForCause
<1> QED
  BY <1>2, <1>3 DEF LinkInv, L!Init

(* Once the link is torn down only its types and its blame are left.       *)
LEMMA TornKeeps ==
  ASSUME LinkInv, state' = "Disconnected", LinkTypes', UNCHANGED <<arrived, blamed>>
  PROVE  LinkInv'
BY DEF LinkInv, Stamped, L!BlamedForCause

LEMMA TeardownInv == ASSUME LinkInv, L!Teardown PROVE LinkInv'
<1>1. <<>> \in Seq(L!Messages)
  OBVIOUS
<1>2. LinkTypes'
  BY <1>1 DEF LinkInv, LinkTypes, L!Teardown, L!Torn
<1> QED
  BY <1>2, TornKeeps DEF L!Teardown, L!Torn

LEMMA RejectedInv == ASSUME LinkInv, L!Rejected PROVE LinkInv'
<1>1. <<>> \in Seq(L!Messages)
  OBVIOUS
<1>2. LinkTypes'
  BY <1>1 DEF LinkInv, LinkTypes, L!Rejected, L!Torn
<1> QED
  BY <1>2, TornKeeps DEF L!Rejected, L!Torn

LEMMA GiveUpInv == ASSUME LinkInv, L!GiveUp PROVE LinkInv'
<1>1. <<>> \in Seq(L!Messages)
  OBVIOUS
<1>2. LinkTypes'
  BY <1>1 DEF LinkInv, LinkTypes, L!GiveUp
<1> QED
  BY <1>2, TornKeeps DEF L!GiveUp

LEMMA DerivedInv == ASSUME LinkInv, L!Derived PROVE LinkInv'
<1>1. LinkTypes'
  BY DEF LinkInv, LinkTypes, L!Derived
<1> QED
  BY <1>1 DEF LinkInv, L!Derived, Stamped, L!BlamedForCause, Unheard, Resolves, Over

LEMMA CreatedInv == ASSUME LinkInv, L!Created PROVE LinkInv'
<1>1. LinkTypes'
  BY DEF LinkInv, LinkTypes, L!Created
<1> QED
  BY <1>1 DEF LinkInv, L!Created, Stamped, L!BlamedForCause, Unheard, Resolves, Over

(* The Hello and what waited behind it are everything that arrived.        *)
LEMMA ReplayInv == ASSUME LinkInv, L!Replay PROVE LinkInv'
<1> DEFINE ms == first \o held
<1>1. /\ resolution = "authFailed" /\ state = "Handshaking" /\ L!Dispatch(ms)
      /\ resolution' = "over" /\ first' = <<>>
      /\ UNCHANGED <<conversation, flush, arrived, ingested>>
  BY DEF L!Replay
<1>2. /\ LinkTypes /\ Stamped /\ L!BlamedForCause /\ Resolves
  BY <1>1 DEF LinkInv
<1>3. /\ resolving /\ early = <<>> /\ heard = <<>> /\ flush = <<>> /\ ingested = <<>>
      /\ arrived = ms /\ Len(first) = 1 /\ first[1].kind = "hello"
  BY <1>1, <1>2 DEF Resolves
<1>4. arrived \in Seq(L!Messages) /\ first \in Seq(L!Messages) /\ held \in Seq(L!Messages)
  BY <1>2 DEF LinkTypes
<1>5. 1 \in DOMAIN arrived /\ arrived[1].kind = "hello" /\ arrived # <<>>
  <2>1. 1 \in DOMAIN arrived /\ L!Range(first) = {arrived[1]}
    BY <1>3, <1>4, FirstOfMany
  <2>2. first[1] \in L!Range(first)
    BY <1>3, <1>4 DEF L!Range
  <2> QED
    BY <1>3, <2>1, <2>2
<1>6. L!Ascending(arrived)
  BY <1>2, <1>4, StampsAscend
<1>7. Handed({}, ms)
  <2>1. L!Range(<<>>) = {} /\ L!Ascending(<<>>)
    BY DEF L!Range, L!Ascending
  <2>2. Len(ms) \in Nat
    BY <1>3, <1>4
  <2> HIDE DEF ms
  <2> QED
    BY <2>1, <2>2, <1>1, <1>3, <1>5 DEF Handed
<1>8. ~blamed
  BY <1>1 DEF LinkInv
<1>9. /\ heard' \in Seq(L!Messages) /\ early' \in Seq(L!Messages)
      /\ ~resolving' /\ held' = <<>> /\ blamed' \in BOOLEAN
      /\ L!BlamedForCause'
      /\ \/ state' = "Disconnected"
         \/ /\ state' = state
            /\ L!Range(heard') = {m \in L!Range(arrived') : m.kind # "frame"}
            /\ L!Range(early') = {m \in L!Range(arrived') : m.kind = "frame"}
            /\ L!Ascending(heard') /\ L!Ascending(early')
            /\ Len(early') + Len(heard') = Len(arrived')
  <2>1. /\ Stamped' /\ arrived' \in Seq(L!Messages) /\ arrived' # <<>>
        /\ ms \in Seq(L!Messages) /\ L!Ascending(ms)
    BY <1>1, <1>2, <1>3, <1>4, <1>5, <1>6 DEF Stamped
  <2> HIDE DEF ms
  <2> QED
    BY <2>1, <1>1, <1>2, <1>7, <1>8, DispatchKeeps
<1>10. LinkTypes' /\ Stamped'
  <2>1. <<>> \in Seq(L!Messages)
    OBVIOUS
  <2>2. resolving' \in BOOLEAN
    <3>1. resolving' = FALSE
      BY <1>1 DEF L!Dispatch
    <3> QED BY <3>1
  <2>3. state' \in {"Handshaking", "Connected", "Disconnected"}
    BY <1>9, <1>1
  <2> HIDE DEF ms
  <2> QED
    BY <2>1, <2>2, <2>3, <1>1, <1>2, <1>9 DEF LinkTypes, Stamped
<1>11. ASSUME state' # "Disconnected" PROVE ~blamed' /\ Unheard' /\ Resolves' /\ Over'
  <2>1. ~blamed'
    BY <1>8, <1>11, <1>1 DEF L!Dispatch, L!Refuse, L!Torn
  <2>2. conversation'
    BY <1>1, <1>2 DEF Resolves
  <2>3. /\ state' = "Handshaking"
        /\ L!Range(heard') = {m \in L!Range(arrived') : m.kind # "frame"}
        /\ L!Range(early') = {m \in L!Range(arrived') : m.kind = "frame"}
        /\ L!Ascending(heard') /\ L!Ascending(early')
        /\ Len(early') + Len(heard') = Len(arrived')
    BY <1>9, <1>11, <1>1
  <2>4. L!Range(<<>>) = {} /\ L!Ascending(<<>>)
    BY DEF L!Range, L!Ascending
  <2>5. flush' = <<>> /\ ingested' = <<>>
    BY <1>1, <1>3
  <2>6. Over'
    <3> HIDE DEF ms
    <3> QED
      BY <2>2, <2>3, <2>4, <2>5, <1>1, <1>5, <1>9 DEF Over
  <2> QED
    BY <2>1, <2>6, <1>1 DEF Unheard, Resolves
<1> QED
  BY <1>1, <1>9, <1>10, <1>11 DEF LinkInv

(* A message that is handled as it arrives.                                *)
LEMMA ArriveInv == ASSUME LinkInv, L!Arrive PROVE LinkInv'
<1> PICK k \in L!Kinds : LET m == [n |-> Len(arrived) + 1, kind |-> k]
                       IN /\ k = "frame" \/ state = "Handshaking"
                          /\ arrived' = Append(arrived, m)
                          /\ L!Inbound(m)
  BY DEF L!Arrive
<1> DEFINE m == [n |-> Len(arrived) + 1, kind |-> k]
<1>1. /\ state # "Disconnected" /\ Len(arrived) < MaxArrivals /\ UNCHANGED flush
      /\ k = "frame" \/ state = "Handshaking"
      /\ arrived' = Append(arrived, m) /\ L!Inbound(m)
  BY DEF L!Arrive
<1>2. LinkTypes /\ Stamped /\ L!BlamedForCause /\ Unheard /\ Resolves /\ Over /\ ~blamed
      /\ (state = "Connected" => resolution = "over")
  BY <1>1 DEF LinkInv
<1>3. arrived \in Seq(L!Messages) /\ Len(arrived) \in Nat
  BY <1>2 DEF LinkTypes
<1>4. m \in L!Messages /\ m.n = Len(arrived) + 1 /\ m.kind = k
  BY <1>1, <1>3, LinkAssumption DEF L!Messages
<1> HIDE DEF m
<1>5. /\ arrived' \in Seq(L!Messages) /\ Len(arrived') = Len(arrived) + 1
      /\ arrived'[Len(arrived) + 1] = m
      /\ \A i \in DOMAIN arrived : i \in DOMAIN arrived' /\ arrived'[i] = arrived[i]
      /\ L!Range(arrived') = L!Range(arrived) \cup {m}
      /\ DOMAIN arrived' = 1..(Len(arrived) + 1) /\ arrived' # <<>>
  <2>1. L!Range(arrived') = L!Range(arrived) \cup {m}
    BY <1>1, <1>3, AppendRange
  <2> QED
    BY <2>1, <1>1, <1>3, <1>4
<1>6. Stamped'
  BY <1>2, <1>3, <1>4, <1>5 DEF Stamped
<1>7. \A x \in L!Range(arrived) : x.n < m.n
  BY <1>2, <1>3, <1>4, StampsAscend
<1>8. ~blamed' => L!BlamedForCause'
  BY DEF L!BlamedForCause
<1>9. CASE L!Ingest(m)
  <2>1. /\ state = "Connected" /\ ingested' = Append(ingested, m)
        /\ UNCHANGED <<state, conversation, resolving, held, early, resolution, first,
                       heard, blamed>>
    BY <1>9 DEF L!Ingest
  <2>2. k = "frame" /\ resolution = "over"
    BY <1>1, <1>2, <2>1
  <2>3. ingested' \in Seq(L!Messages) /\ L!Range(ingested') = L!Range(ingested) \cup {m}
    BY <1>2, <1>4, <2>1, AppendRange DEF LinkTypes
  <2>4. LinkTypes'
    BY <1>1, <1>2, <1>5, <2>1, <2>3 DEF LinkTypes
  <2>5. arrived # <<>> /\ arrived'[1] = arrived[1]
    BY <1>2, <1>3, <1>5, <2>2 DEF Over
  <2>6. m \notin L!Range(arrived)
    BY <1>7, <1>3, <1>4
  <2>7. Over'
    BY <1>1, <1>2, <1>4, <1>5, <2>1, <2>2, <2>3, <2>5, <2>6 DEF Over
  <2>8. Unheard' /\ Resolves'
    BY <2>1, <2>2 DEF Unheard, Resolves
  <2> QED
    BY <1>2, <1>6, <1>8, <2>1, <2>2, <2>4, <2>7, <2>8 DEF LinkInv
<1>10. CASE L!Park(m)
  <2>1. /\ state = "Handshaking" /\ resolving
        /\ IF Len(held) >= MaxParked THEN L!Refuse
           ELSE held' = Append(held, m) /\ UNCHANGED <<state, resolving, early, blamed>>
        /\ UNCHANGED <<conversation, resolution, first, heard, ingested>>
    BY <1>10 DEF L!Park
  <2>2. resolution \in {"resolver", "create", "authFailed"}
    BY <1>2, <2>1 DEF Unheard, Over, LinkTypes
  <2>3. /\ \A s \in {early, heard, flush, ingested} : s = <<>>
        /\ arrived = first \o held /\ Len(first) = 1 /\ first[1].kind = "hello"
        /\ Len(held) <= MaxParked /\ (resolution # "resolver" => conversation)
    BY <1>2, <2>2 DEF Resolves
  <2>4. first \in Seq(L!Messages) /\ held \in Seq(L!Messages)
    BY <1>2 DEF LinkTypes
  <2>5. CASE Len(held) >= MaxParked
    <3>1. /\ state' = "Disconnected" /\ resolving' = FALSE /\ held' = <<>> /\ early' = <<>>
          /\ blamed' = TRUE
      BY <2>1, <2>5 DEF L!Refuse, L!Torn
    <3>2. Len(arrived') > MaxParked + 1
      <4>1. Len(first \o held) = Len(first) + Len(held) /\ Len(held) \in Nat
        BY <2>4, ConcatProperties
      <4> QED BY <4>1, <1>5, <2>3, <2>5, LinkAssumption
    <3>3. L!BlamedForCause'
      BY <3>2 DEF L!BlamedForCause
    <3>4. LinkTypes'
      <4>1. <<>> \in Seq(L!Messages)
        OBVIOUS
      <4> QED
        BY <4>1, <1>1, <1>2, <1>5, <2>1, <3>1 DEF LinkTypes
    <3> QED
      BY <1>6, <3>1, <3>3, <3>4 DEF LinkInv
  <2>6. CASE ~(Len(held) >= MaxParked)
    <3>1. held' = Append(held, m) /\ UNCHANGED <<state, resolving, early, blamed>>
      BY <2>1, <2>6
    <3>2. held' \in Seq(L!Messages) /\ Len(held') = Len(held) + 1 /\ Len(held) \in Nat
      BY <1>4, <2>4, <3>1
    <3>3. arrived' = first' \o held'
      <4>1. Append(first \o held, m) = first \o Append(held, m)
        <5>1. first \o held \in Seq(L!Messages) /\ <<m>> \in Seq(L!Messages)
          BY <1>4, <2>4
        <5>2. /\ Append(first \o held, m) = (first \o held) \o <<m>>
              /\ Append(held, m) = held \o <<m>>
          BY <1>4, <2>4, <5>1, AppendIsConcat
        <5>3. (first \o held) \o <<m>> = first \o (held \o <<m>>)
          BY <5>1, <2>4, ConcatAssociative
        <5> QED BY <5>2, <5>3
      <4> QED BY <4>1, <1>1, <2>1, <2>3, <3>1
    <3>4. Len(held') <= MaxParked
      BY <2>6, <3>2, LinkAssumption
    <3>5. LinkTypes'
      BY <1>1, <1>2, <1>5, <2>1, <3>1, <3>2 DEF LinkTypes
    <3>6. Resolves'
      BY <1>1, <2>1, <2>3, <3>1, <3>3, <3>4 DEF Resolves
    <3>7. Unheard' /\ Over'
      BY <2>1, <2>2 DEF Unheard, Over
    <3> QED
      BY <1>2, <1>6, <1>8, <2>1, <3>1, <3>5, <3>6, <3>7 DEF LinkInv
  <2> QED
    BY <2>5, <2>6
<1>11. CASE L!Resolve(m)
  <2>1. /\ state = "Handshaking" /\ ~resolving /\ ~conversation
        /\ IF m.kind # "hello" THEN L!Refuse /\ UNCHANGED <<resolution, first>>
           ELSE /\ resolving' = TRUE /\ resolution' = "resolver" /\ first' = <<m>>
                /\ UNCHANGED <<state, held, early, blamed>>
        /\ UNCHANGED <<conversation, heard, ingested>>
    BY <1>11 DEF L!Resolve
  <2>2. resolution = "none"
    BY <1>2, <2>1 DEF Resolves, Over, LinkTypes
  <2>3. \A s \in {held, early, first, flush, arrived, heard, ingested} : s = <<>>
    BY <1>2, <2>2 DEF Unheard
  <2>4. arrived' = <<m>> /\ arrived'[1] = m
    BY <1>1, <2>3
  <2>5. CASE m.kind # "hello"
    <3>1. /\ state' = "Disconnected" /\ resolving' = FALSE /\ held' = <<>> /\ early' = <<>>
          /\ blamed' = TRUE /\ UNCHANGED <<resolution, first>>
      BY <2>1, <2>5 DEF L!Refuse, L!Torn
    <3>2. L!BlamedForCause'
      BY <2>4, <2>5 DEF L!BlamedForCause
    <3>3. LinkTypes'
      <4>1. <<>> \in Seq(L!Messages)
        OBVIOUS
      <4> QED
        BY <4>1, <1>1, <1>2, <1>5, <2>1, <3>1 DEF LinkTypes
    <3> QED
      BY <1>6, <3>1, <3>2, <3>3 DEF LinkInv
  <2>6. CASE m.kind = "hello"
    <3>1. /\ resolving' = TRUE /\ resolution' = "resolver" /\ first' = <<m>>
          /\ UNCHANGED <<state, held, early, blamed>>
      BY <2>1, <2>6
    <3>2. first' \in Seq(L!Messages) /\ Len(first') = 1 /\ first'[1] = m
      BY <1>4, <3>1
    <3>3. arrived' = first' \o held'
      BY <2>3, <2>4, <3>1, <1>4
    <3>4. LinkTypes'
      BY <1>1, <1>2, <1>5, <2>1, <3>1, <3>2 DEF LinkTypes
    <3>5. Resolves'
      <4>1. Len(held') <= MaxParked
        BY <2>3, <3>1, LinkAssumption
      <4> QED
        BY <1>1, <2>1, <2>3, <2>6, <3>1, <3>2, <3>3, <4>1 DEF Resolves
    <3>6. Unheard' /\ Over'
      BY <3>1 DEF Unheard, Over
    <3> QED
      BY <1>2, <1>6, <1>8, <2>1, <3>1, <3>4, <3>5, <3>6 DEF LinkInv
  <2> QED
    BY <2>5, <2>6
<1>12. CASE L!HandOn(m)
  <2> DEFINE ms == <<m>>
  <2>1. /\ state = "Handshaking" /\ ~resolving /\ conversation /\ L!Dispatch(ms)
        /\ UNCHANGED <<conversation, resolution, first, ingested>>
    BY <1>12 DEF L!HandOn
  <2>2. resolution = "over"
    BY <1>2, <2>1 DEF Unheard, Resolves, LinkTypes
  <2>3. ms \in Seq(L!Messages) /\ L!Ascending(ms) /\ L!Range(ms) = {m} /\ Len(ms) = 1
    BY <1>4 DEF L!Ascending, L!Range
  <2>4. /\ flush = <<>> /\ ingested = <<>> /\ Len(early) + Len(heard) = Len(arrived)
        /\ L!Range(heard) = {x \in L!Range(arrived) : x.kind # "frame"}
        /\ L!Range(early) \cup L!Range(flush) \cup L!Range(ingested)
              = {x \in L!Range(arrived) : x.kind = "frame"}
        /\ L!Ascending(heard) /\ L!Ascending(early) /\ first = <<>>
        /\ arrived # <<>> /\ arrived[1].kind = "hello"
    BY <1>2, <2>1, <2>2 DEF Over
  <2>5. L!Range(<<>>) = {} /\ L!Ascending(<<>>)
    BY DEF L!Range, L!Ascending
  <2>6. arrived'[1] = arrived[1]
    BY <1>3, <1>5, <2>4
  <2>7. Handed(L!Range(arrived), ms)
    <3>1. L!Range(early) = {x \in L!Range(arrived) : x.kind = "frame"}
      BY <2>4, <2>5
    <3>2. Len(early) + Len(heard) + Len(ms) = Len(arrived')
      <4>1. Len(early) \in Nat /\ Len(heard) \in Nat
        BY <1>2 DEF LinkTypes
      <4> QED BY <4>1, <2>3, <2>4, <1>5
    <3> HIDE DEF ms
    <3> QED
      BY <3>1, <3>2, <1>5, <1>7, <2>3, <2>4, <2>6 DEF Handed
  <2> HIDE DEF ms
  <2>8. /\ heard' \in Seq(L!Messages) /\ early' \in Seq(L!Messages)
        /\ ~resolving' /\ held' = <<>> /\ blamed' \in BOOLEAN
        /\ L!BlamedForCause'
        /\ \/ state' = "Disconnected"
           \/ /\ state' = state
              /\ L!Range(heard') = {x \in L!Range(arrived') : x.kind # "frame"}
              /\ L!Range(early') = {x \in L!Range(arrived') : x.kind = "frame"}
              /\ L!Ascending(heard') /\ L!Ascending(early')
              /\ Len(early') + Len(heard') = Len(arrived')
    BY <1>2, <1>5, <1>6, <2>1, <2>3, <2>7, DispatchKeeps
  <2>9. LinkTypes'
    <3>1. <<>> \in Seq(L!Messages)
      OBVIOUS
    <3>2. resolving' = FALSE
      BY <2>1 DEF L!Dispatch
    <3>3. state' \in {"Handshaking", "Connected", "Disconnected"}
      BY <2>8, <2>1
    <3> QED
      BY <3>1, <3>2, <3>3, <1>1, <1>2, <1>5, <2>1, <2>8 DEF LinkTypes
  <2>10. ASSUME state' # "Disconnected" PROVE ~blamed' /\ Unheard' /\ Resolves' /\ Over'
    <3>1. ~blamed'
      BY <1>2, <2>10, <2>1 DEF L!Dispatch, L!Refuse, L!Torn
    <3>2. Over'
      BY <1>1, <1>5, <2>1, <2>2, <2>4, <2>5, <2>6, <2>8, <2>10 DEF Over
    <3> QED
      BY <3>1, <3>2, <2>1, <2>2 DEF Unheard, Resolves
  <2> QED
    BY <1>6, <2>1, <2>2, <2>8, <2>9, <2>10 DEF LinkInv
<1>13. CASE L!Dropped(m)
  BY <1>1, <1>13 DEF L!Dropped
<1> QED
  BY <1>1, <1>9, <1>10, <1>11, <1>12, <1>13 DEF L!Inbound

(* What waited is ingested, frame by frame.                                *)
LEMMA CompleteInv == ASSUME LinkInv, L!Complete PROVE LinkInv'
<1>1. /\ state = "Handshaking" /\ Len(heard) >= 2 /\ state' = "Connected" /\ early' = <<>>
      /\ IF early = <<>> THEN UNCHANGED <<ingested, flush>>
         ELSE ingested' = <<Head(early)>> /\ flush' = Tail(early)
      /\ UNCHANGED <<conversation, resolving, held, resolution, first, arrived, heard, blamed>>
  BY DEF L!Complete
<1>2. LinkTypes /\ Stamped /\ L!BlamedForCause /\ Unheard /\ Resolves /\ Over /\ ~blamed
  BY <1>1 DEF LinkInv
<1>3. heard # <<>>
  BY <1>1
<1>4. resolution = "over"
  BY <1>2, <1>3 DEF Unheard, Resolves, LinkTypes
<1>5. L!Range(<<>>) = {} /\ L!Ascending(<<>>) /\ <<>> \in Seq(L!Messages)
  BY DEF L!Range, L!Ascending
<1>6. flush = <<>> /\ ingested = <<>> /\ early \in Seq(L!Messages) /\ L!Ascending(early)
  BY <1>1, <1>2, <1>4 DEF Over, LinkTypes
<1>7. CASE early = <<>>
  <2>1. LinkTypes'
    BY <1>1, <1>2, <1>7 DEF LinkTypes
  <2>2. Over'
    BY <1>1, <1>2, <1>4, <1>7, <1>6 DEF Over
  <2> QED
    BY <1>1, <1>2, <1>4, <2>1, <2>2
       DEF LinkInv, Stamped, L!BlamedForCause, Unheard, Resolves
<1>8. CASE early # <<>>
  <2>1. /\ L!Ascending(Tail(early)) /\ Tail(early) \in Seq(L!Messages)
        /\ Head(early) \in L!Messages
        /\ L!Range(early) = {Head(early)} \cup L!Range(Tail(early))
        /\ Head(early) \notin L!Range(Tail(early))
    BY <1>6, <1>8, AscendingTail
  <2>2. ingested' = <<Head(early)>> /\ flush' = Tail(early)
    BY <1>1, <1>8
  <2> DEFINE h == Head(early)
             t == Tail(early)
  <2>3. L!Range(<<h>>) = {h} /\ <<h>> \in Seq(L!Messages)
    BY <2>1 DEF L!Range
  <2> HIDE DEF h, t
  <2>4. /\ ingested' = <<h>> /\ flush' = t /\ L!Ascending(t) /\ t \in Seq(L!Messages)
        /\ L!Range(early) = {h} \cup L!Range(t) /\ h \notin L!Range(t)
    BY <2>1, <2>2 DEF h, t
  <2>5. LinkTypes'
    BY <1>1, <1>2, <1>5, <2>3, <2>4 DEF LinkTypes
  <2>6. Over'
    <3>1. L!Range(early') \cup L!Range(flush') \cup L!Range(ingested')
             = {m \in L!Range(arrived') : m.kind = "frame"}
      BY <1>1, <1>2, <1>4, <1>5, <1>6, <2>3, <2>4 DEF Over
    <3>2. L!Range(flush') \cap L!Range(ingested') = {}
      BY <2>3, <2>4
    <3> QED
      BY <1>1, <1>2, <1>4, <1>5, <2>4, <3>1, <3>2 DEF Over
  <2> QED
    BY <1>1, <1>2, <1>4, <2>5, <2>6
       DEF LinkInv, Stamped, L!BlamedForCause, Unheard, Resolves
<1> QED
  BY <1>7, <1>8

LEMMA FlushInv == ASSUME LinkInv, L!Flush PROVE LinkInv'
<1> DEFINE h == Head(flush)
           t == Tail(flush)
<1>1. flush # <<>> /\ flush' = t /\ L!Inbound(h) /\ UNCHANGED arrived
  BY DEF L!Flush
<1>2. flush \in Seq(L!Messages) /\ t \in Seq(L!Messages) /\ h \in L!Messages
  BY <1>1 DEF LinkInv, LinkTypes
<1>3. ASSUME state # "Disconnected"
      PROVE  state = "Connected" /\ Over /\ resolution = "over"
  BY <1>1, <1>3 DEF LinkInv, LinkTypes, Unheard, Resolves, Over
<1>4. ASSUME state # "Disconnected"
      PROVE  /\ L!Ascending(t) /\ L!Range(flush) = {h} \cup L!Range(t)
             /\ h \notin L!Range(t)
    BY <1>1, <1>2, <1>3, <1>4, AscendingTail DEF Over
<1> HIDE DEF h, t
<1>5. CASE state = "Connected"
  <2>1. L!Ingest(h)
    BY <1>1, <1>5 DEF L!Inbound, L!Ingest, L!Park, L!Resolve, L!HandOn, L!Dropped
  <2>2. /\ ingested' = Append(ingested, h)
        /\ UNCHANGED <<state, conversation, resolving, held, early, resolution, first,
                       heard, blamed>>
    BY <2>1 DEF L!Ingest
  <2>3. ingested \in Seq(L!Messages)
    BY DEF LinkInv, LinkTypes
  <2>4. ingested' \in Seq(L!Messages) /\ L!Range(ingested') = L!Range(ingested) \cup {h}
    BY <1>2, <2>2, <2>3, AppendRange
  <2>5. LinkTypes'
    BY <1>1, <1>2, <2>2, <2>4 DEF LinkInv, LinkTypes
  <2>6. /\ Over /\ resolution = "over" /\ L!Ascending(t)
        /\ L!Range(flush) = {h} \cup L!Range(t) /\ h \notin L!Range(t)
    BY <1>3, <1>4, <1>5
  <2>7. Over'
    BY <1>1, <1>5, <2>2, <2>4, <2>6 DEF Over
  <2> QED
    BY <1>1, <1>5, <2>2, <2>5, <2>6, <2>7
       DEF LinkInv, Stamped, L!BlamedForCause, Unheard, Resolves
<1>6. CASE state = "Disconnected"
  <2>1. UNCHANGED <<state, conversation, resolving, held, early, resolution, first,
                    heard, ingested, blamed>>
    BY <1>1, <1>6 DEF L!Inbound, L!Ingest, L!Park, L!Resolve, L!HandOn, L!Dropped
  <2>2. LinkTypes'
    BY <1>1, <1>2, <2>1 DEF LinkInv, LinkTypes
  <2> QED
    BY <1>1, <1>6, <2>1, <2>2, TornKeeps
<1> QED
  BY <1>3, <1>5, <1>6

LEMMA LinkStep == ASSUME LinkInv, [L!Next]_(L!vars) PROVE LinkInv'
<1>1. CASE UNCHANGED L!vars
  BY <1>1 DEF L!vars, LinkInv, LinkTypes, Stamped, L!BlamedForCause, Unheard, Resolves, Over
<1> QED
  BY <1>1, TeardownInv, ArriveInv, DerivedInv, CreatedInv, ReplayInv, GiveUpInv,
       RejectedInv,
     CompleteInv, FlushInv DEF L!Next

-----------------------------------------------------------------------------
(* The peer connections of a group.                                        *)

Wired == [kind : {"join", "leave", "offer", "answer"}, from : Seat,
          offer : M!Channels \cup {None}, answer : Nat]
(* A coroutine that waits; it started on a connection.                     *)
Waiting == [kind : {"offer", "answer"}, with : Seat, pc : Nat \ {0}, offer : M!Channels \cup {None}]
(* What each variable of the managers may hold.                            *)
MeshTypes ==
  /\ seat \in [Seat -> {"new", "dialing", "open", "gone"}]
  /\ present \in [Seat -> SUBSET Seat]
  /\ links \in [Seat -> [Seat -> M!Link]]
  /\ session \in [Seat -> SUBSET Seat]
  /\ made \in [Seat -> Nat]
  /\ faults \in 0..MaxFaults
  /\ wire \in [Seat -> Seq(Wired)]
  /\ DOMAIN parked = Seat /\ \A p \in Seat : parked[p] \subseteq Waiting
(* An offer, and what answers it, names the channel of the offering        *)
(* connection.                                                             *)
Offered ==
  /\ \A p \in Seat : \A i \in DOMAIN wire[p] :
        wire[p][i].kind \in {"offer", "answer"} => wire[p][i].offer \in M!Channels
  /\ \A p \in Seat : \A k \in parked[p] : k.kind = "answer" => k.offer \in M!Channels
(* A link that is not there is empty, connections are numbered as they are *)
(* made, and only the dialling end has an offer in flight.                 *)
Built ==
  \A p, q \in Seat :
    /\ links[p][q].pc = 0 => links[p][q] = M!NoLink
    /\ links[p][q].pc <= made[p]
    /\ links[p][q].inFlight => links[p][q].seatedByUs
(* A coroutine started on a connection that was made; one that answers on  *)
(* the connection of today has rolled back the offer of its own end.       *)
Numbered ==
  \A p \in Seat : \A k \in parked[p] :
     /\ k.pc <= made[p]
     /\ k.kind = "answer" /\ links[p][k.with].pc = k.pc => ~links[p][k.with].inFlight
(* The news that q joined is on its way to p.                              *)
JoinComes(p, q) == \E i \in DOMAIN wire[p] : wire[p][i].kind = "join" /\ wire[p][i].from = q
(* p dials q, or will when it hears that q joined.                         *)
Dials(p, q) == links[p][q].seatedByUs \/ JoinComes(p, q)
(* p has not joined yet.                                                   *)
Unborn(p) == seat[p] \in {"new", "dialing"}
(* Of two seats at most one dials: the one that was seated when the other  *)
(* joined.                                                                 *)
OneDials ==
  \A p, q \in Seat : Dials(p, q) => /\ ~Unborn(p) /\ ~Unborn(q)
                                    /\ p # q => ~Dials(q, p)
(* The invariant of the managers: who dials is settled by the news of a    *)
(* join before it arrives, so no two offers of a pair are ever in flight   *)
(* together.                                                               *)
MeshInv == /\ MeshTypes /\ Offered /\ Built /\ Numbered /\ OneDials /\ M!SessionFollowsManager
           /\ \A p \in Seat : Cardinality(M!LinkedTo(p)) <= MaxPeers

(* The fields of a link, in their order.                                   *)
Records(n, c, f, o, s, a, e) ==
  [pc |-> n, chan |-> c, inFlight |-> f, offered |-> o, seatedByUs |-> s, attached |-> a, ex |-> e]

LEMMA RecordsAreLinks ==
  ASSUME NEW n \in Nat, NEW c \in M!Channels \cup {None}, NEW f \in BOOLEAN,
         NEW o \in BOOLEAN,
         NEW s \in BOOLEAN, NEW a \in BOOLEAN, NEW e \in M!Exchange \cup {None}
  PROVE  Records(n, c, f, o, s, a, e) \in M!Link
BY DEF Records, M!Link

LEMMA LinkFields ==
  ASSUME NEW l \in M!Link
  PROVE  /\ l.pc \in Nat /\ l.chan \in M!Channels \cup {None} /\ l.inFlight \in BOOLEAN
         /\ l.offered \in BOOLEAN /\ l.seatedByUs \in BOOLEAN /\ l.attached \in BOOLEAN
         /\ l.ex \in M!Exchange \cup {None}
         /\ l = Records(l.pc, l.chan, l.inFlight, l.offered, l.seatedByUs, l.attached, l.ex)
BY DEF Records, M!Link

LEMMA FreshFacts ==
  ASSUME NEW n \in Nat
  PROVE  /\ M!FreshLink(n) \in M!Link
         /\ M!FreshLink(n) = Records(n, None, FALSE, FALSE, FALSE, FALSE, None)
         /\ M!FreshLink(n).pc = n /\ M!FreshLink(n).inFlight = FALSE
         /\ M!FreshLink(n).seatedByUs = FALSE
         /\ M!FreshLink(n).attached = FALSE
<1>1. M!FreshLink(n) = Records(n, None, FALSE, FALSE, FALSE, FALSE, None)
  BY DEF M!FreshLink, Records
<1>2. FALSE \in BOOLEAN
  OBVIOUS
<1>3. M!FreshLink(n) \in M!Link
  BY <1>1, <1>2, RecordsAreLinks
<1>4. /\ M!FreshLink(n).pc = n /\ M!FreshLink(n).inFlight = FALSE
      /\ M!FreshLink(n).seatedByUs = FALSE
      /\ M!FreshLink(n).attached = FALSE
  BY DEF M!FreshLink
<1> QED
  BY <1>1, <1>3, <1>4

LEMMA WithFields ==
  ASSUME NEW l \in M!Link, NEW b \in BOOLEAN, NEW c \in M!Channels \cup {None},
         NEW e \in M!Exchange \cup {None}
  PROVE  /\ [l EXCEPT !.seatedByUs = b] \in M!Link /\ [l EXCEPT !.inFlight = b] \in M!Link
         /\ [l EXCEPT !.offered = b] \in M!Link /\ [l EXCEPT !.attached = b] \in M!Link
         /\ [l EXCEPT !.chan = c] \in M!Link /\ [l EXCEPT !.ex = e] \in M!Link
BY DEF M!Link

LEMMA RebuiltFacts ==
  ASSUME MeshTypes, NEW p \in Seat, NEW q \in Seat
  PROVE  /\ M!Rebuilt(p, q) \in M!Link
         /\ [M!Rebuilt(p, q) EXCEPT !.seatedByUs = TRUE] \in M!Link
         /\ M!Rebuilt(p, q).pc = made[p] + 1 /\ ~M!Rebuilt(p, q).inFlight
         /\ M!Rebuilt(p, q).seatedByUs = links[p][q].seatedByUs /\ ~M!Rebuilt(p, q).attached
         /\ [M!Rebuilt(p, q) EXCEPT !.seatedByUs = TRUE].pc = made[p] + 1
         /\ ~[M!Rebuilt(p, q) EXCEPT !.seatedByUs = TRUE].inFlight
         /\ [M!Rebuilt(p, q) EXCEPT !.seatedByUs = TRUE].seatedByUs
         /\ ~[M!Rebuilt(p, q) EXCEPT !.seatedByUs = TRUE].attached
<1> DEFINE s == links[p][q].seatedByUs
           f == M!FreshLink(made[p] + 1)
           r == [f EXCEPT !.seatedByUs = s]
           u == [r EXCEPT !.seatedByUs = TRUE]
<1>1. made[p] + 1 \in Nat /\ links[p][q] \in M!Link
  BY DEF MeshTypes
<1>2. s \in BOOLEAN /\ TRUE \in BOOLEAN
  BY <1>1, LinkFields
<1>3. f \in M!Link /\ f.pc = made[p] + 1 /\ ~f.inFlight /\ ~f.attached
      /\ f = Records(made[p] + 1, None, FALSE, FALSE, FALSE, FALSE, None)
  BY <1>1, FreshFacts
<1> HIDE DEF f
<1>4. r \in M!Link
  <2> HIDE DEF s
  <2> QED BY <1>2, <1>3, WithFields
<1>5. r.pc = f.pc /\ r.inFlight = f.inFlight /\ r.seatedByUs = s /\ r.attached = f.attached
  BY <1>3 DEF Records
<1> HIDE DEF r
<1>6. u \in M!Link
  BY <1>2, <1>4, WithFields
<1>7. /\ u.pc = r.pc /\ u.inFlight = r.inFlight /\ u.seatedByUs = TRUE
      /\ u.attached = r.attached
  BY <1>4 DEF M!Link
<1>8. M!Rebuilt(p, q) = r
  BY DEF M!Rebuilt, r, f
<1> HIDE DEF s, u
<1>9. [M!Rebuilt(p, q) EXCEPT !.seatedByUs = TRUE] = u
  BY <1>8 DEF u
<1> QED
  BY <1>3, <1>4, <1>5, <1>6, <1>7, <1>8, <1>9 DEF s

LEMMA ArmedFacts ==
  ASSUME NEW p \in Seat, NEW l \in M!Link
  PROVE  /\ M!Armed(p, l) \in M!Link
         /\ M!Armed(p, l).pc = l.pc /\ M!Armed(p, l).inFlight = TRUE
         /\ M!Armed(p, l).seatedByUs = l.seatedByUs /\ M!Armed(p, l).attached = l.attached
<1> DEFINE c == [by |-> p, n |-> l.pc]
           a == [l EXCEPT !.inFlight = TRUE]
           b == [a EXCEPT !.chan = c]
<1>1. c \in M!Channels \cup {None}
  BY LinkFields DEF M!Channels
<1>2. TRUE \in BOOLEAN
  OBVIOUS
<1>3. a \in M!Link
  BY <1>2, WithFields
<1>4. /\ a.pc = l.pc /\ a.inFlight = TRUE /\ a.seatedByUs = l.seatedByUs
      /\ a.attached = l.attached
  BY DEF M!Link
<1> HIDE DEF a, c
<1>5. b \in M!Link
  BY <1>1, <1>3, WithFields
<1>6. /\ b.pc = a.pc /\ b.inFlight = a.inFlight /\ b.seatedByUs = a.seatedByUs
      /\ b.attached = a.attached
  BY <1>3 DEF M!Link
<1>7. M!Armed(p, l) = b
  BY DEF M!Armed, a, c
<1> HIDE DEF b
<1> QED
  BY <1>4, <1>5, <1>6, <1>7

LEMMA SetLink ==
  ASSUME MeshTypes, NEW p \in Seat, NEW q \in Seat, NEW l
  PROVE  /\ l \in M!Link => [links EXCEPT ![p][q] = l] \in [Seat -> [Seat -> M!Link]]
         /\ \A a, b \in Seat : [links EXCEPT ![p][q] = l][a][b] =
               IF a = p /\ b = q THEN l ELSE links[a][b]
BY DEF MeshTypes

-----------------------------------------------------------------------------
Fewer(w) ==
  /\ w \in [Seat -> Seq(Wired)]
  /\ \A a \in Seat : \A i \in DOMAIN w[a] :
        /\ w[a][i].kind \in {"offer", "answer"} => w[a][i].offer \in M!Channels
        /\ w[a][i].kind = "join" => JoinComes(a, w[a][i].from)

LEMMA SameFewer == ASSUME MeshTypes, Offered PROVE Fewer(wire)
BY DEF MeshTypes, Offered, Fewer, JoinComes

LEMMA TakesFewer ==
  ASSUME MeshTypes, Offered, NEW p \in Seat, NEW kind, M!Takes(p, kind)
  PROVE  /\ Fewer(wire') /\ Head(wire[p]) \in Wired /\ Head(wire[p]).kind = kind
         /\ kind \in {"offer", "answer"} => Head(wire[p]).offer \in M!Channels
         /\ kind = "join" => JoinComes(p, Head(wire[p]).from)
<1>1. /\ wire[p] # <<>> /\ Head(wire[p]).kind = kind
      /\ wire' = [wire EXCEPT ![p] = Tail(wire[p])] /\ wire[p] \in Seq(Wired)
  BY DEF M!Takes, MeshTypes
<1>2. /\ 1 \in DOMAIN wire[p] /\ Head(wire[p]) = wire[p][1] /\ wire[p][1] \in Wired
      /\ Tail(wire[p]) \in Seq(Wired)
      /\ \A i \in DOMAIN Tail(wire[p]) :
            i + 1 \in DOMAIN wire[p] /\ Tail(wire[p])[i] = wire[p][i + 1]
  BY <1>1
<1>3. wire' \in [Seat -> Seq(Wired)]
  BY <1>1, <1>2 DEF MeshTypes
<1>4. ASSUME NEW a \in Seat, NEW i \in DOMAIN wire'[a]
      PROVE  \E j \in DOMAIN wire[a] : wire'[a][i] = wire[a][j]
  <2>1. CASE a = p
    BY <2>1, <1>1, <1>2 DEF MeshTypes
  <2>2. CASE a # p
    BY <2>2, <1>1 DEF MeshTypes
  <2> QED BY <2>1, <2>2
<1>5. Fewer(wire')
  BY <1>3, <1>4 DEF Offered, Fewer, JoinComes
<1> QED
  BY <1>1, <1>2, <1>5 DEF Offered, JoinComes

LEMMA Appended ==
  ASSUME NEW S, NEW s \in Seq(S), NEW x
  PROVE  /\ Append(s, x)[Len(s) + 1] = x /\ Len(s) + 1 \in DOMAIN Append(s, x)
         /\ \A i \in DOMAIN Append(s, x) :
               Append(s, x)[i] = x \/ (i \in DOMAIN s /\ Append(s, x)[i] = s[i])
<1>1. /\ DOMAIN Append(s, x) = 1..(Len(s) + 1) /\ DOMAIN s = 1..Len(s) /\ Len(s) \in Nat
      /\ Append(s, x)[Len(s) + 1] = x
  OBVIOUS
<1>2. \A i \in 1..Len(s) : Append(s, x)[i] = s[i]
  OBVIOUS
<1>3. \A i \in 1..(Len(s) + 1) : i \in 1..Len(s) \/ i = Len(s) + 1
  BY <1>1
<1> QED
  BY <1>1, <1>2, <1>3

LEMMA RelayedFewer ==
  ASSUME MeshTypes, Offered, NEW p \in Seat, NEW q \in Seat, NEW m \in Wired,
         m.kind \in {"offer", "answer"}, m.offer \in M!Channels
  PROVE  Fewer(M!Relayed(wire, p, q, m))
<1>1. CASE ~(M!Seated(p) /\ M!Seated(q))
  BY <1>1, SameFewer DEF M!Relayed
<1>2. CASE M!Seated(p) /\ M!Seated(q)
  <2> DEFINE w == [wire EXCEPT ![q] = Append(wire[q], m)]
  <2>1. M!Relayed(wire, p, q, m) = w
    BY <1>2 DEF M!Relayed
  <2>2. wire[q] \in Seq(Wired) /\ Append(wire[q], m) \in Seq(Wired)
    BY DEF MeshTypes
  <2>3. \A i \in DOMAIN Append(wire[q], m) :
           Append(wire[q], m)[i] = m \/ (i \in DOMAIN wire[q] /\ Append(wire[q], m)[i] = wire[q][i])
    BY <2>2, Appended
  <2>4. w \in [Seat -> Seq(Wired)]
    BY <2>2 DEF MeshTypes
  <2>5. ASSUME NEW a \in Seat, NEW i \in DOMAIN w[a]
        PROVE  w[a][i] = m \/ \E j \in DOMAIN wire[a] : w[a][i] = wire[a][j]
    <3>1. CASE a = q
      BY <3>1, <2>2, <2>3 DEF MeshTypes
    <3>2. CASE a # q
      BY <3>2 DEF MeshTypes
    <3> QED BY <3>1, <3>2
  <2> HIDE DEF w
  <2>6. ASSUME NEW a \in Seat, NEW i \in DOMAIN w[a]
        PROVE  /\ w[a][i].kind \in {"offer", "answer"} => w[a][i].offer \in M!Channels
               /\ w[a][i].kind = "join" => JoinComes(a, w[a][i].from)
    <3>1. CASE w[a][i] = m
      BY <3>1
    <3>2. CASE \E j \in DOMAIN wire[a] : w[a][i] = wire[a][j]
      BY <3>2 DEF Offered, JoinComes
    <3> QED BY <2>5, <3>1, <3>2
  <2>7. Fewer(w)
    BY <2>4, <2>6 DEF Fewer
  <2> QED BY <2>1, <2>7
<1> QED
  BY <1>1, <1>2

LEMMA FewerKeeps ==
  ASSUME Fewer(wire')
  PROVE  /\ \A a, b \in Seat : JoinComes(a, b)' => JoinComes(a, b)
         /\ \A a \in Seat : \A i \in DOMAIN wire'[a] :
               wire'[a][i].kind \in {"offer", "answer"} => wire'[a][i].offer \in M!Channels
BY DEF Fewer, JoinComes

-----------------------------------------------------------------------------
(* The cardinality of Mesh is that of FiniteSets.                          *)
LEMMA SameCardinality == ASSUME NEW S PROVE M!Cardinality(S) = Cardinality(S)
BY DEF M!Cardinality, Cardinality

(* A manager that adds a link only when it is not full keeps to its cap.   *)
LEMMA CapKept ==
  ASSUME NEW p \in Seat, NEW q \in Seat, Cardinality(M!LinkedTo(p)) <= MaxPeers,
         M!LinkedTo(p)' \subseteq M!LinkedTo(p) \cup {q},
         q \in M!LinkedTo(p)' => q \in M!LinkedTo(p) \/ ~M!IsFull(p)
  PROVE  Cardinality(M!LinkedTo(p)') <= MaxPeers
<1>1. IsFiniteSet(M!LinkedTo(p))
  BY FS_Subset, MeshAssumption DEF M!LinkedTo
<1>2. Cardinality(M!LinkedTo(p)) \in Nat
  BY <1>1, FS_CardinalityType
<1>3. CASE M!LinkedTo(p)' \subseteq M!LinkedTo(p)
  <2>1. /\ Cardinality(M!LinkedTo(p)') <= Cardinality(M!LinkedTo(p))
        /\ Cardinality(M!LinkedTo(p)') \in Nat
    BY <1>1, <1>3, FS_Subset, FS_CardinalityType
  <2> QED BY <2>1, <1>2, MeshAssumption
<1>4. CASE ~(M!LinkedTo(p)' \subseteq M!LinkedTo(p))
  <2>1. ~M!IsFull(p) /\ M!LinkedTo(p)' = M!LinkedTo(p)' /\ q \notin M!LinkedTo(p)
    BY <1>4
  <2>2. Cardinality(M!LinkedTo(p)) + 1 <= MaxPeers
    BY <2>1, <1>2, MeshAssumption, SameCardinality DEF M!IsFull
  <2>3. /\ IsFiniteSet(M!LinkedTo(p) \cup {q})
        /\ Cardinality(M!LinkedTo(p) \cup {q}) = Cardinality(M!LinkedTo(p)) + 1
    BY <1>1, <2>1, FS_AddElement
  <2>4. /\ Cardinality(M!LinkedTo(p)') <= Cardinality(M!LinkedTo(p) \cup {q})
        /\ Cardinality(M!LinkedTo(p)') \in Nat
    BY <2>3, FS_Subset, FS_CardinalityType
  <2> QED BY <2>2, <2>3, <2>4, <1>2, MeshAssumption
<1> QED BY <1>3, <1>4

-----------------------------------------------------------------------------
(* A step that changes one link and nothing else but the session's, the    *)
(* coroutines of its manager and what is on the wire.                      *)
EntryKept(p, q, l) ==
  /\ l \in M!Link
  /\ l.pc = 0 => l = M!NoLink
  /\ l.pc <= made'[p]
  /\ l.inFlight => l.seatedByUs
  /\ l.seatedByUs => Dials(p, q)
  /\ l.pc # 0 => links[p][q].pc # 0 \/ ~M!IsFull(p)

ParkedKept(p, q, l) ==
  /\ DOMAIN parked' = Seat /\ \A a \in Seat \ {p} : parked'[a] = parked[a]
  /\ parked'[p] \subseteq Waiting
  /\ \A k \in parked'[p] :
       \/ k \in parked[p] /\ (k.with = q => (l.pc # k.pc \/ ~l.inFlight
                                            \/ (l.pc = links[p][q].pc /\ links[p][q].inFlight)))
       \/ k.pc <= made'[p] /\ k.with = q
          /\ (k.kind = "answer" => k.offer \in M!Channels /\ (l.pc = k.pc => ~l.inFlight))

SessionKept(p, q, l) ==
  /\ session' \in [Seat -> SUBSET Seat]
  /\ \A a \in Seat \ {p} : session'[a] \subseteq session[a]
  /\ \A b \in Seat \ {q} : b \in session'[p] => b \in session[p]
  /\ q \in session'[p] => l.attached

(* Such a step keeps the invariant.                                        *)
LEMMA EntryStep ==
  ASSUME MeshInv, NEW p \in Seat, NEW q \in Seat, NEW l,
         links' = [links EXCEPT ![p][q] = l], UNCHANGED seat,
         made' \in [Seat -> Nat], \A a \in Seat : made[a] <= made'[a],
         present' \in [Seat -> SUBSET Seat], faults' \in 0..MaxFaults,
         EntryKept(p, q, l), ParkedKept(p, q, l), SessionKept(p, q, l), Fewer(wire')
  PROVE  MeshInv'
<1>1. MeshTypes /\ Offered /\ Built /\ Numbered /\ OneDials /\ M!SessionFollowsManager
  BY DEF MeshInv
<1>2. /\ l \in M!Link /\ links' \in [Seat -> [Seat -> M!Link]]
      /\ \A a, b \in Seat : links'[a][b] = IF a = p /\ b = q THEN l ELSE links[a][b]
  BY <1>1, SetLink DEF EntryKept
<1>3. \A a \in Seat : parked[a] \subseteq Waiting
  BY <1>1 DEF MeshTypes
<1>4. MeshTypes'
  <2>1. \A a \in Seat : parked'[a] \subseteq Waiting
    BY <1>3 DEF ParkedKept
  <2> QED
    BY <1>1, <1>2, <2>1 DEF MeshTypes, ParkedKept, SessionKept, Fewer
<1>5. Offered'
  <2>1. \A a \in Seat : \A i \in DOMAIN wire'[a] :
           wire'[a][i].kind \in {"offer", "answer"} => wire'[a][i].offer \in M!Channels
    BY DEF Fewer
  <2>2. \A a \in Seat : \A k \in parked'[a] : k.kind = "answer" => k.offer \in M!Channels
    BY <1>1 DEF Offered, ParkedKept
  <2> QED BY <2>1, <2>2 DEF Offered
<1>6. Built'
  <2> SUFFICES ASSUME NEW a \in Seat, NEW b \in Seat
               PROVE  /\ links'[a][b].pc = 0 => links'[a][b] = M!NoLink
                      /\ links'[a][b].pc <= made'[a]
                      /\ links'[a][b].inFlight => links'[a][b].seatedByUs
    BY DEF Built, M!NoLink, M!FreshLink
  <2>1. CASE a = p /\ b = q
    BY <1>2, <2>1 DEF EntryKept
  <2>2. CASE ~(a = p /\ b = q)
    <3>0. links[a][b] \in M!Link
      BY <1>1 DEF MeshTypes
    <3>1. links'[a][b] = links[a][b] /\ links[a][b].pc \in Nat
      BY <1>2, <2>2, <3>0, LinkFields
    <3>2. made[a] \in Nat /\ made'[a] \in Nat /\ made[a] <= made'[a]
      BY <1>1 DEF MeshTypes
    <3> QED
      BY <1>1, <3>1, <3>2 DEF Built
  <2> QED BY <2>1, <2>2
<1>7. Numbered'
  <2> SUFFICES ASSUME NEW a \in Seat, NEW k \in parked'[a]
               PROVE  /\ k.pc <= made'[a]
                      /\ k.kind = "answer" /\ links'[a][k.with].pc = k.pc
                            => ~links'[a][k.with].inFlight
    BY DEF Numbered
  <2>0. k \in Waiting /\ made[a] \in Nat /\ made'[a] \in Nat /\ made[a] <= made'[a]
    BY <1>1, <1>4 DEF MeshTypes
  <2>1. k.with \in Seat /\ k.pc \in Nat
    BY <2>0 DEF Waiting
  <2>2. ASSUME k \in parked[a] PROVE k.pc <= made'[a]
    BY <1>1, <2>0, <2>1, <2>2 DEF Numbered
  <2>3. CASE a # p
    <3>1. k \in parked[a] /\ links'[a][k.with] = links[a][k.with]
      BY <1>2, <2>1, <2>3 DEF ParkedKept
    <3> QED BY <1>1, <2>2, <3>1 DEF Numbered
  <2>4. CASE a = p /\ k.with # q
    <3>1. k \in parked[a] /\ links'[a][k.with] = links[a][k.with]
      BY <1>2, <2>1, <2>4 DEF ParkedKept
    <3> QED BY <1>1, <2>2, <3>1 DEF Numbered
  <2>5. CASE a = p /\ k.with = q
    <3>1. links'[a][k.with] = l
      BY <1>2, <2>5
    <3>2. CASE k \in parked[p] /\ (l.pc # k.pc \/ ~l.inFlight
                                     \/ (l.pc = links[p][q].pc /\ links[p][q].inFlight))
      BY <1>1, <2>2, <2>5, <3>1, <3>2 DEF Numbered
    <3>3. CASE /\ k.pc <= made'[p]
               /\ k.kind = "answer" => k.offer \in M!Channels /\ (l.pc = k.pc => ~l.inFlight)
      BY <2>5, <3>1, <3>3
    <3> QED BY <2>5, <3>2, <3>3 DEF ParkedKept
  <2> QED BY <2>3, <2>4, <2>5
<1>8. OneDials'
  <2>1. \A a, b \in Seat : Dials(a, b)' => Dials(a, b)
    BY <1>2, FewerKeeps DEF Dials, EntryKept
  <2>2. \A a \in Seat : Unborn(a)' <=> Unborn(a)
    BY DEF Unborn
  <2> QED
    BY <1>1, <2>1, <2>2 DEF OneDials
<1>9. M!SessionFollowsManager'
  <2> SUFFICES ASSUME NEW a \in Seat, NEW b \in session'[a] PROVE links'[a][b].attached
    BY DEF M!SessionFollowsManager
  <2>0. b \in Seat
    BY DEF SessionKept
  <2>1. CASE a # p
    BY <1>1, <1>2, <2>0, <2>1 DEF M!SessionFollowsManager, SessionKept
  <2>2. CASE a = p /\ b # q
    BY <1>1, <1>2, <2>0, <2>2 DEF M!SessionFollowsManager, SessionKept
  <2>3. CASE a = p /\ b = q
    BY <1>2, <2>3 DEF SessionKept
  <2> QED BY <2>1, <2>2, <2>3
<1>10. ASSUME NEW a \in Seat PROVE Cardinality(M!LinkedTo(a)') <= MaxPeers
  <2>0. Cardinality(M!LinkedTo(a)) <= MaxPeers
    BY DEF MeshInv
  <2>1. CASE a # p
    <3>1. M!LinkedTo(a)' = M!LinkedTo(a)
      BY <1>2, <2>1 DEF M!LinkedTo
    <3> QED BY <2>0, <3>1
  <2>2. CASE a = p
    <3>1. M!LinkedTo(p)' \subseteq M!LinkedTo(p) \cup {q}
      BY <1>2 DEF M!LinkedTo
    <3>2. q \in M!LinkedTo(p)' => q \in M!LinkedTo(p) \/ ~M!IsFull(p)
      BY <1>2 DEF M!LinkedTo, EntryKept
    <3> QED BY <2>0, <2>2, <3>1, <3>2, CapKept
  <2> QED BY <2>1, <2>2
<1> QED
  BY <1>4, <1>5, <1>6, <1>7, <1>8, <1>9, <1>10 DEF MeshInv

(* A fresh connection, offered on or not.                                  *)
LEMMA DialStep ==
  ASSUME MeshInv, NEW p \in Seat, NEW q \in Seat, NEW l \in M!Link, NEW offers \in BOOLEAN,
         M!Dial(p, q, l, offers), M!DropLink(p, q), UNCHANGED seat,
         present' \in [Seat -> SUBSET Seat],
         faults' \in 0..MaxFaults, Fewer(wire'),
         l.pc = made[p] + 1, ~l.inFlight, ~l.attached,
         offers => l.seatedByUs, l.seatedByUs => Dials(p, q),
         links[p][q].pc # 0 \/ ~M!IsFull(p)
  PROVE  MeshInv'
<1>1. MeshTypes /\ Offered /\ Built /\ Numbered /\ OneDials /\ M!SessionFollowsManager
  BY DEF MeshInv
<1> DEFINE m == IF offers THEN M!Armed(p, l) ELSE l
<1>2. /\ made' = [made EXCEPT ![p] = made[p] + 1] /\ links' = [links EXCEPT ![p][q] = m]
      /\ parked' = IF offers
                   THEN [parked EXCEPT ![p] = parked[p] \cup {M!Parked("offer", q, l.pc, None)}]
                   ELSE parked
  BY DEF M!Dial
<1>3. /\ m \in M!Link /\ m.pc = made[p] + 1 /\ m.seatedByUs = l.seatedByUs /\ ~m.attached
      /\ m.inFlight => l.seatedByUs
  <2>1. CASE offers
    BY <2>1, ArmedFacts
  <2>2. CASE ~offers
    BY <2>2
  <2> QED BY <2>1, <2>2
<1> HIDE DEF m
<1>4. /\ made' \in [Seat -> Nat] /\ made'[p] = made[p] + 1 /\ made[p] \in Nat
      /\ \A a \in Seat : made[a] <= made'[a]
  BY <1>1, <1>2 DEF MeshTypes
<1>5. EntryKept(p, q, m)
  <2>1. m.pc # 0 /\ m.pc <= made'[p]
    BY <1>3, <1>4
  <2> QED
    BY <1>3, <2>1 DEF EntryKept
<1>6. ParkedKept(p, q, m)
  <2> DEFINE w == M!Parked("offer", q, l.pc, None)
  <2>1. w \in Waiting /\ w.kind = "offer" /\ w.with = q /\ w.pc = made[p] + 1
    <3>1. l.pc \in Nat \ {0}
      BY <1>4
    <3> QED
      BY <3>1 DEF M!Parked, Waiting
  <2> HIDE DEF w
  <2>2. DOMAIN parked = Seat /\ parked[p] \subseteq Waiting
    BY <1>1 DEF MeshTypes
  <2>3. /\ DOMAIN parked' = Seat /\ \A a \in Seat \ {p} : parked'[a] = parked[a]
        /\ parked[p] \subseteq parked'[p] /\ parked'[p] \subseteq parked[p] \cup {w}
    BY <1>2, <2>2 DEF w
  <2>4. ASSUME NEW k \in parked[p] PROVE m.pc # k.pc
    <3>1. k.pc <= made[p] /\ k.pc \in Nat
      BY <1>1, <2>2 DEF Numbered, Waiting
    <3> QED BY <3>1, <1>3, <1>4
  <2>5. ASSUME NEW k \in parked'[p]
        PROVE  \/ k \in parked[p] /\ (k.with = q => (m.pc # k.pc \/ ~m.inFlight
                                            \/ (m.pc = links[p][q].pc /\ links[p][q].inFlight)))
               \/ k.pc <= made'[p] /\ k.with = q
                  /\ (k.kind = "answer" => k.offer \in M!Channels /\ (m.pc = k.pc => ~m.inFlight))
    <3>1. CASE k \in parked[p]
      BY <3>1, <2>4
    <3>2. CASE k = w
      BY <3>2, <2>1, <1>4
    <3> QED BY <2>3, <3>1, <3>2
  <2>6. parked'[p] \subseteq Waiting
    BY <2>1, <2>2, <2>3
  <2> QED
    BY <2>3, <2>5, <2>6 DEF ParkedKept
<1>7. SessionKept(p, q, m)
  BY <1>1 DEF SessionKept, M!DropLink, MeshTypes
<1> QED
  BY <1>2, <1>4, <1>5, <1>6, <1>7, EntryStep

(* The pair is gone.                                                       *)
LEMMA TeardownStep ==
  ASSUME MeshInv, NEW p \in Seat, NEW q \in Seat, M!Teardown(p, q), UNCHANGED <<seat,
         parked, made>>,
         present' \in [Seat -> SUBSET Seat], faults' \in 0..MaxFaults, Fewer(wire')
  PROVE  MeshInv'
<1>1. MeshTypes /\ Offered /\ Built /\ Numbered /\ OneDials /\ M!SessionFollowsManager
  BY DEF MeshInv
<1>2. M!NoLink \in M!Link /\ M!NoLink.pc = 0 /\ ~M!NoLink.inFlight /\ ~M!NoLink.seatedByUs
  BY FreshFacts DEF M!NoLink
<1>3. EntryKept(p, q, M!NoLink)
  BY <1>1, <1>2 DEF EntryKept, MeshTypes
<1>4. SessionKept(p, q, M!NoLink)
  BY <1>1 DEF SessionKept, M!Teardown, M!DropLink, MeshTypes
<1>5. ParkedKept(p, q, M!NoLink)
  BY <1>1, <1>2 DEF ParkedKept, MeshTypes
<1>6. made' \in [Seat -> Nat] /\ \A a \in Seat : made[a] <= made'[a]
  BY <1>1 DEF MeshTypes
<1> QED
  BY <1>3, <1>4, <1>5, <1>6, EntryStep DEF M!Teardown

(* The links stay.                                                         *)
LEMMA LinksStay ==
  ASSUME MeshInv, UNCHANGED <<seat, links, made>>,
         present' \in [Seat -> SUBSET Seat], faults' \in 0..MaxFaults, Fewer(wire'),
         session' \in [Seat -> SUBSET Seat], \A a \in Seat : session'[a] \subseteq session[a],
         DOMAIN parked' = Seat, \A a \in Seat : parked'[a] \subseteq parked[a]
  PROVE  MeshInv'
<1>1. MeshTypes /\ Offered /\ Built /\ Numbered /\ OneDials /\ M!SessionFollowsManager
  BY DEF MeshInv
<1>2. MeshTypes'
  BY <1>1 DEF MeshTypes, Fewer
<1>3. Offered'
  BY <1>1 DEF Offered, Fewer
<1>4. Built' /\ Numbered' /\ M!SessionFollowsManager'
  BY <1>1 DEF Built, Numbered, M!SessionFollowsManager, M!NoLink, M!FreshLink, MeshTypes
<1>5. OneDials'
  <2>1. \A a, b \in Seat : Dials(a, b)' => Dials(a, b)
    BY FewerKeeps DEF Dials
  <2>2. \A a \in Seat : Unborn(a)' <=> Unborn(a)
    BY DEF Unborn
  <2> QED
    BY <1>1, <2>1, <2>2 DEF OneDials
<1>6. ASSUME NEW a \in Seat PROVE Cardinality(M!LinkedTo(a)') <= MaxPeers
  <2>1. M!LinkedTo(a)' = M!LinkedTo(a)
    BY DEF M!LinkedTo
  <2> QED
    BY <2>1 DEF MeshInv
<1> QED
  BY <1>2, <1>3, <1>4, <1>5, <1>6 DEF MeshInv

-----------------------------------------------------------------------------
LEMMA PromoteTypes ==
  ASSUME MeshTypes, NEW p \in Seat, NEW q \in Seat, M!Promote(p, q)
  PROVE  present' \in [Seat -> SUBSET Seat]
BY DEF MeshTypes, M!Promote

LEMMA DeliverJoinInv == ASSUME MeshInv, NEW p \in Seat, M!DeliverJoin(p) PROVE MeshInv'
<1> DEFINE q == Head(wire[p]).from
<1>1. MeshTypes /\ Offered
  BY DEF MeshInv
<1>2. /\ M!Takes(p, "join") /\ M!Promote(p, q) /\ UNCHANGED <<seat, faults>>
      /\ IF links[p][q].pc = 0 /\ M!IsFull(p)
         THEN UNCHANGED <<links, made, parked, session>>
         ELSE /\ M!Dial(p, q, [M!Rebuilt(p, q) EXCEPT !.seatedByUs = TRUE], TRUE)
              /\ M!DropLink(p, q)
  BY DEF M!DeliverJoin
<1>3. Fewer(wire') /\ q \in Seat /\ JoinComes(p, q)
  BY <1>1, <1>2, TakesFewer DEF Wired
<1> HIDE DEF q
<1>4. present' \in [Seat -> SUBSET Seat] /\ faults' \in 0..MaxFaults
  BY <1>1, <1>2, <1>3, PromoteTypes DEF MeshTypes
<1>5. CASE links[p][q].pc = 0 /\ M!IsFull(p)
  <2>1. UNCHANGED <<links, made, parked, session>>
    BY <1>2, <1>5
  <2> QED
    BY <1>1, <1>2, <1>3, <1>4, <2>1, LinksStay DEF MeshTypes
<1>6. CASE ~(links[p][q].pc = 0 /\ M!IsFull(p))
  <2> DEFINE l == [M!Rebuilt(p, q) EXCEPT !.seatedByUs = TRUE]
  <2>1. M!Dial(p, q, l, TRUE) /\ M!DropLink(p, q)
    BY <1>2, <1>6
  <2>2. l \in M!Link /\ l.pc = made[p] + 1 /\ ~l.inFlight /\ ~l.attached /\ l.seatedByUs
    BY <1>1, <1>3, RebuiltFacts
  <2> HIDE DEF l
  <2>3. TRUE \in BOOLEAN /\ Dials(p, q)
    BY <1>3 DEF Dials
  <2> QED
    BY <1>2, <1>3, <1>4, <1>6, <2>1, <2>2, <2>3, DialStep
<1> QED
  BY <1>5, <1>6

LEMMA DeliverLeaveInv == ASSUME MeshInv, NEW p \in Seat, M!DeliverLeave(p) PROVE MeshInv'
<1> DEFINE q == Head(wire[p]).from
<1>1. MeshTypes /\ Offered
  BY DEF MeshInv
<1>2. /\ M!Takes(p, "leave") /\ present' = [present EXCEPT ![p] = present[p] \ {q}]
      /\ UNCHANGED <<seat, parked, made, faults>>
      /\ IF q \in present[p] THEN M!Teardown(p, q) ELSE UNCHANGED <<links, session>>
  BY DEF M!DeliverLeave
<1>3. Fewer(wire') /\ q \in Seat
  BY <1>1, <1>2, TakesFewer DEF Wired
<1> HIDE DEF q
<1>4. present' \in [Seat -> SUBSET Seat] /\ faults' \in 0..MaxFaults
  BY <1>1, <1>2 DEF MeshTypes
<1>5. CASE q \in present[p]
  <2>1. M!Teardown(p, q)
    BY <1>2, <1>5
  <2> QED
    BY <1>2, <1>3, <1>4, <2>1, TeardownStep
<1>6. CASE q \notin present[p]
  <2>1. UNCHANGED <<links, session>>
    BY <1>2, <1>6
  <2> QED
    BY <1>1, <1>2, <1>3, <1>4, <2>1, LinksStay DEF MeshTypes
<1> QED
  BY <1>5, <1>6

LEMMA DeliverOfferInv == ASSUME MeshInv, NEW p \in Seat, M!DeliverOffer(p) PROVE MeshInv'
<1> DEFINE m == Head(wire[p])
           q == m.from
           glare == links[p][q].inFlight
           l == IF links[p][q].pc = 0 THEN M!FreshLink(made[p] + 1)
                ELSE IF glare THEN [links[p][q] EXCEPT !.inFlight = FALSE, !.offered = FALSE,
                                                       !.chan = None]
                ELSE links[p][q]
           skips == (links[p][q].pc = 0 /\ M!IsFull(p)) \/ (glare /\ p < q)
<1>1. MeshTypes /\ Offered /\ Built /\ Numbered
  BY SMTT(40) DEF MeshInv
<1>2. /\ M!Takes(p, "offer") /\ M!Promote(p, q) /\ UNCHANGED <<seat, session, faults>>
      /\ IF skips THEN UNCHANGED <<links, made, parked>>
         ELSE /\ links' = [links EXCEPT ![p][q] = l]
              /\ made' = [made EXCEPT ![p] = IF links[p][q].pc = 0 THEN made[p] + 1 ELSE made[p]]
              /\ parked' = [parked EXCEPT ![p] =
                              parked[p] \cup {M!Parked("answer", q, l.pc, m.offer)}]
  <2>1. M!Takes(p, "offer") /\ M!Promote(p, q) /\ UNCHANGED <<seat, session, faults>>
    BY ZenonT(40) DEF M!DeliverOffer
  <2>2. skips => UNCHANGED <<links, made, parked>>
    BY ZenonT(40) DEF M!DeliverOffer
  <2>3. ~skips => links' = [links EXCEPT ![p][q] = l]
    BY ZenonT(40) DEF M!DeliverOffer
  <2>4. ~skips => made' = [made EXCEPT ![p] = IF links[p][q].pc = 0 THEN made[p] + 1
                                              ELSE made[p]]
    BY ZenonT(40) DEF M!DeliverOffer
  <2>5. ~skips => parked' = [parked EXCEPT ![p] = parked[p] \cup
                               {M!Parked("answer", q, l.pc, m.offer)}]
    BY ZenonT(40) DEF M!DeliverOffer
  <2> HIDE DEF q, l, skips, m
  <2> QED
    BY <2>1, <2>2, <2>3, <2>4, <2>5, ZenonT(40)
<1>3. Fewer(wire') /\ q \in Seat /\ m.offer \in M!Channels
  BY <1>1, <1>2, TakesFewer, ZenonT(40) DEF Wired
<1>4. present' \in [Seat -> SUBSET Seat] /\ faults' \in 0..MaxFaults
  BY <1>1, <1>2, <1>3, PromoteTypes, SMTT(40) DEF MeshTypes
<1>5. CASE skips
  <2>1. UNCHANGED <<links, made, parked>>
    BY <1>2, <1>5, ZenonT(40)
  <2> QED
    BY <1>1, <1>2, <1>3, <1>4, <2>1, LinksStay, SMTT(40) DEF MeshTypes
<1>6. CASE ~skips
  <2>1. /\ links' = [links EXCEPT ![p][q] = l]
        /\ made' = [made EXCEPT ![p] = IF links[p][q].pc = 0 THEN made[p] + 1 ELSE made[p]]
        /\ parked' = [parked EXCEPT ![p] = parked[p] \cup {M!Parked("answer", q, l.pc, m.offer)}]
    BY <1>2, <1>6, ZenonT(40)
  <2>2. links[p][q] \in M!Link /\ made[p] \in Nat /\ links[p][q].pc \in Nat
    BY <1>1, <1>3, LinkFields DEF MeshTypes
  <2>3. /\ made' \in [Seat -> Nat] /\ \A a \in Seat : made[a] <= made'[a]
        /\ made'[p] = IF links[p][q].pc = 0 THEN made[p] + 1 ELSE made[p]
    <3> HIDE DEF q
    <3> QED
      BY <1>1, <2>1, <2>2, SMTT(40) DEF MeshTypes
  <2>4. /\ l \in M!Link /\ l.pc \in Nat \ {0} /\ l.pc <= made'[p] /\ ~l.inFlight
        /\ l.seatedByUs => Dials(p, q)
        /\ l.pc # 0 => links[p][q].pc # 0 \/ ~M!IsFull(p)
        /\ links[p][q].attached => l.attached
    <3>1. CASE links[p][q].pc = 0
      <4>1. l = M!FreshLink(made[p] + 1)
        BY <3>1
      <4>2. links[p][q] = M!NoLink /\ ~M!NoLink.attached
        <5>1. ~M!NoLink.attached
          BY FreshFacts DEF M!NoLink
        <5> HIDE DEF q
        <5>2. links[p][q] = M!NoLink
          BY <1>1, <1>3, <3>1 DEF Built
        <5> QED BY <5>1, <5>2
      <4>3. ~M!IsFull(p)
        BY <1>6, <3>1
      <4>4. made[p] + 1 \in Nat
        BY <2>2
      <4> HIDE DEF l, q
      <4>5. made'[p] = made[p] + 1
        BY <2>3, <3>1
      <4>6. /\ l \in M!Link /\ l.pc = made[p] + 1 /\ l.inFlight = FALSE
            /\ l.seatedByUs = FALSE
        BY <4>1, <4>4, FreshFacts
      <4> QED
        BY <2>2, <4>2, <4>3, <4>5, <4>6
    <3>2. CASE links[p][q].pc # 0 /\ glare
      <4> DEFINE o == links[p][q]
                 x == [o EXCEPT !.inFlight = FALSE]
                 y == [x EXCEPT !.offered = FALSE]
                 z == [y EXCEPT !.chan = None]
      <4>1. l = z
        BY <3>2
      <4>2. o \in M!Link
        BY <2>2
      <4>3. FALSE \in BOOLEAN /\ None \in M!Channels \cup {None}
        OBVIOUS
      <4> HIDE DEF o
      <4>4. /\ x \in M!Link /\ x.pc = o.pc /\ ~x.inFlight /\ x.seatedByUs = o.seatedByUs
            /\ x.attached = o.attached
        <5>1. x \in M!Link
          BY <4>2, <4>3, WithFields
        <5> QED BY <4>2, <5>1 DEF M!Link
      <4> HIDE DEF x
      <4>5. /\ y \in M!Link /\ y.pc = o.pc /\ ~y.inFlight /\ y.seatedByUs = o.seatedByUs
            /\ y.attached = o.attached
        <5>1. y \in M!Link
          BY <4>3, <4>4, WithFields
        <5> QED BY <4>4, <5>1 DEF M!Link
      <4> HIDE DEF y
      <4>6. /\ z \in M!Link /\ z.pc = o.pc /\ ~z.inFlight /\ z.seatedByUs = o.seatedByUs
            /\ z.attached = o.attached
        <5>1. z \in M!Link
          BY <4>3, <4>5, WithFields
        <5> QED BY <4>5, <5>1 DEF M!Link
      <4> HIDE DEF z, l
      <4>7. o.pc <= made[p] /\ made'[p] = made[p] /\ o.pc # 0 /\ o.pc \in Nat
        BY <1>1, <1>3, <2>2, <2>3, <3>2 DEF Built, o
      <4> QED
        BY <3>2, <4>1, <4>6, <4>7 DEF Dials, o
    <3>3. CASE links[p][q].pc # 0 /\ ~glare
      <4>1. l = links[p][q]
        BY <3>3
      <4> HIDE DEF l
      <4>2. links[p][q].pc <= made[p] /\ made'[p] = made[p]
        BY <1>1, <1>3, <2>3, <3>3 DEF Built
      <4> QED
        BY <2>2, <3>3, <4>1, <4>2 DEF Dials
    <3> QED BY <3>1, <3>2, <3>3
  <2> DEFINE w == M!Parked("answer", q, l.pc, m.offer)
  <2> HIDE DEF l
  <2>5. w \in Waiting /\ w.with = q /\ w.pc = l.pc /\ w.offer \in M!Channels
    BY <1>3, <2>4 DEF M!Parked, Waiting
  <2> HIDE DEF w, q, skips
  <2>6. EntryKept(p, q, l)
    BY <2>4 DEF EntryKept
  <2>7. ParkedKept(p, q, l)
    <3>1. DOMAIN parked = Seat /\ parked[p] \subseteq Waiting
      BY <1>1 DEF MeshTypes
    <3>2. parked'= [parked EXCEPT ![p] = parked[p] \cup {w}]
      BY <2>1 DEF w
    <3>3. /\ DOMAIN parked' = Seat /\ \A a \in Seat \ {p} : parked'[a] = parked[a]
          /\ parked'[p] = parked[p] \cup {w}
      BY <3>1, <3>2
    <3>4. w.pc <= made'[p] /\ ~l.inFlight
      BY <2>4, <2>5
    <3> QED
      BY <2>5, <3>1, <3>3, <3>4 DEF ParkedKept
  <2>8. SessionKept(p, q, l)
    <3>1. q \in session[p] => links[p][q].attached
      BY DEF MeshInv, M!SessionFollowsManager
    <3> QED
      BY <1>1, <1>2, <2>4, <3>1 DEF SessionKept, MeshTypes
  <2> QED
    BY <1>2, <1>3, <1>4, <2>1, <2>3, <2>6, <2>7, <2>8, EntryStep
<1> QED
  BY <1>5, <1>6

LEMMA DeliverAnswerInv == ASSUME MeshInv, NEW p \in Seat, M!DeliverAnswer(p) PROVE MeshInv'
<1> DEFINE m == Head(wire[p])
           q == m.from
           l == links[p][q]
           e == [offer |-> m.offer, answer |-> m.answer]
           x == [l EXCEPT !.inFlight = FALSE]
           y == [x EXCEPT !.offered = FALSE]
           z == [y EXCEPT !.ex = IF l.offered THEN e ELSE l.ex]
           n == IF l.pc = 0 THEN l ELSE z
<1>1. MeshTypes /\ Offered /\ Built /\ Numbered
  BY SMTT(40) DEF MeshInv
<1>2. /\ M!Takes(p, "answer") /\ M!Promote(p, q)
      /\ UNCHANGED <<seat, session, parked, made, faults>>
      /\ links' = [links EXCEPT ![p][q] =
                     IF l.pc = 0 THEN l
                     ELSE [l EXCEPT !.inFlight = FALSE, !.offered = FALSE,
                                    !.ex = IF l.offered THEN e ELSE @]]
  BY DEF M!DeliverAnswer
<1>3. Fewer(wire') /\ m \in Wired /\ m.offer \in M!Channels
  BY <1>1, <1>2, TakesFewer
<1>4. q \in Seat /\ e \in M!Exchange
  BY <1>3 DEF Wired, M!Exchange
<1>5. present' \in [Seat -> SUBSET Seat] /\ faults' \in 0..MaxFaults
  BY <1>1, <1>2, <1>4, PromoteTypes DEF MeshTypes
<1>6. l \in M!Link
  BY <1>1, <1>4 DEF MeshTypes
<1>7. links' = [links EXCEPT ![p][q] = n]
  BY <1>2
<1> HIDE DEF q, l, e, m
<1>8. FALSE \in BOOLEAN /\ (IF l.offered THEN e ELSE l.ex) \in M!Exchange \cup {None}
  BY <1>4, <1>6, LinkFields
<1>9. /\ x \in M!Link /\ x.pc = l.pc /\ ~x.inFlight /\ x.seatedByUs = l.seatedByUs
      /\ x.attached = l.attached
  <2>1. x \in M!Link
    BY <1>6, <1>8, WithFields
  <2> QED BY <1>6, <2>1 DEF M!Link
<1> HIDE DEF x
<1>10. /\ y \in M!Link /\ y.pc = l.pc /\ ~y.inFlight /\ y.seatedByUs = l.seatedByUs
       /\ y.attached = l.attached
  <2>1. y \in M!Link
    BY <1>8, <1>9, WithFields
  <2> QED BY <1>9, <2>1 DEF M!Link
<1> HIDE DEF y
<1>11. /\ z \in M!Link /\ z.pc = l.pc /\ ~z.inFlight /\ z.seatedByUs = l.seatedByUs
       /\ z.attached = l.attached
  <2>1. z \in M!Link
    BY <1>8, <1>10, WithFields
  <2> QED BY <1>10, <2>1 DEF M!Link
<1> HIDE DEF z
<1>12. /\ n \in M!Link /\ n.pc = l.pc /\ n.seatedByUs = l.seatedByUs
       /\ n.attached = l.attached
       /\ n.inFlight => l.pc = 0 /\ n = l
       /\ l.pc = 0 => n = l
  BY <1>6, <1>11
<1> HIDE DEF n
<1>13. /\ l.pc = 0 => l = M!NoLink
       /\ l.pc <= made[p] /\ l.pc \in Nat
       /\ l.inFlight => l.seatedByUs
  BY <1>1, <1>4, <1>6, LinkFields DEF Built, l
<1>14. ~M!NoLink.inFlight
  BY FreshFacts DEF M!NoLink
<1>15. made' \in [Seat -> Nat] /\ \A a \in Seat : made[a] <= made'[a]
  BY <1>1, <1>2 DEF MeshTypes
<1>16. EntryKept(p, q, n)
  <2>1. n.seatedByUs => Dials(p, q)
    BY <1>12 DEF Dials, l
  <2>2. n.pc # 0 => links[p][q].pc # 0
    BY <1>12 DEF l
  <2>3. n.pc = 0 => n = M!NoLink
    BY <1>12, <1>13
  <2>4. made' = made
    BY <1>2
  <2> QED
    BY <1>12, <1>13, <2>1, <2>2, <2>3, <2>4 DEF EntryKept
<1>17. ParkedKept(p, q, n)
  <2>1. ~n.inFlight
    BY <1>12, <1>13, <1>14
  <2> QED
    BY <1>1, <1>2, <2>1 DEF ParkedKept, MeshTypes
<1>18. SessionKept(p, q, n)
  <2>1. q \in session[p] => l.attached
    BY DEF MeshInv, M!SessionFollowsManager, l
  <2> QED
    BY <1>1, <1>2, <1>12, <2>1 DEF SessionKept, MeshTypes
<1> QED
  BY <1>2, <1>3, <1>4, <1>5, <1>7, <1>15, <1>16, <1>17, <1>18, EntryStep

-----------------------------------------------------------------------------
(* A coroutine resumes.                                                    *)
LEMMA ResumesFacts ==
  ASSUME MeshInv, NEW p \in Seat, NEW k, M!Resumes(p, k)
  PROVE  /\ k \in parked[p] /\ k \in Waiting /\ k.with \in Seat /\ k.pc \in Nat \ {0}
         /\ k.kind = "answer" => k.offer \in M!Channels
         /\ parked' = [parked EXCEPT ![p] = parked[p] \ {k}]
         /\ DOMAIN parked' = Seat /\ \A a \in Seat : parked'[a] \subseteq parked[a]
         /\ \A a \in Seat \ {p} : parked'[a] = parked[a]
         /\ parked'[p] \subseteq Waiting
         /\ links[p][k.with] \in M!Link /\ k.pc <= made[p]
<1>1. MeshTypes /\ Offered /\ Numbered
  BY DEF MeshInv
<1>2. k \in parked[p] /\ parked' = [parked EXCEPT ![p] = parked[p] \ {k}]
  BY DEF M!Resumes
<1>3. k \in Waiting
  BY <1>1, <1>2 DEF MeshTypes
<1>4. k.with \in Seat /\ k.pc \in Nat \ {0}
  BY <1>3 DEF Waiting
<1> QED
  BY <1>1, <1>2, <1>3, <1>4 DEF MeshTypes, Offered, Numbered

(* A coroutine that changes a link that is there, and its role at most.    *)
LEMMA ResumeStep ==
  ASSUME MeshInv, NEW p \in Seat, NEW k, M!Resumes(p, k), NEW l \in M!Link,
         links' = [links EXCEPT ![p][k.with] = l], UNCHANGED <<seat, present, session, made>>,
         faults' \in 0..MaxFaults, Fewer(wire'),
         l.pc = links[p][k.with].pc, links[p][k.with].pc # 0,
         l.attached = links[p][k.with].attached,
         l.inFlight => links[p][k.with].inFlight /\ l.seatedByUs,
         l.seatedByUs => links[p][k.with].seatedByUs
  PROVE  MeshInv'
<1>1. MeshTypes /\ Offered /\ Built /\ Numbered
  BY SMTT(40) DEF MeshInv
<1> DEFINE q == k.with
<1>2. /\ q \in Seat /\ DOMAIN parked' = Seat /\ \A a \in Seat : parked'[a] \subseteq parked[a]
      /\ \A a \in Seat \ {p} : parked'[a] = parked[a]
      /\ parked'[p] \subseteq Waiting
  BY ResumesFacts
<1> HIDE DEF q
<1>3. /\ links' = [links EXCEPT ![p][q] = l] /\ l.pc = links[p][q].pc /\ l.pc # 0
      /\ l.attached = links[p][q].attached
      /\ l.inFlight => links[p][q].inFlight /\ l.seatedByUs
      /\ l.seatedByUs => links[p][q].seatedByUs
  BY DEF q
<1>4. EntryKept(p, q, l)
  <2>1. l.pc <= made'[p]
    BY <1>1, <1>2, <1>3 DEF Built
  <2> QED
    BY <1>3, <2>1 DEF EntryKept, Dials
<1>5. ParkedKept(p, q, l)
  BY <1>2, <1>3 DEF ParkedKept
<1>6. SessionKept(p, q, l)
  <2>1. q \in session[p] => links[p][q].attached
    BY DEF MeshInv, M!SessionFollowsManager
  <2> QED
    BY <1>1, <1>3, <2>1 DEF SessionKept, MeshTypes
<1>7. made' \in [Seat -> Nat] /\ \A a \in Seat : made[a] <= made'[a]
  BY <1>1 DEF MeshTypes
<1>8. present' \in [Seat -> SUBSET Seat]
  BY <1>1 DEF MeshTypes
<1> QED
  BY <1>2, <1>3, <1>4, <1>5, <1>6, <1>7, <1>8, EntryStep

(* One that finds its link gone.                                           *)
LEMMA ResumeIdle ==
  ASSUME MeshInv, NEW p \in Seat, NEW k, M!Resumes(p, k), UNCHANGED <<seat, present, links,
         session, made>>,
         faults' \in 0..MaxFaults, Fewer(wire')
  PROVE  MeshInv'
<1>1. MeshTypes
  BY DEF MeshInv
<1> QED
  BY <1>1, ResumesFacts, LinksStay DEF MeshTypes

LEMMA OfferReadyInv == ASSUME MeshInv, NEW p \in Seat, NEW k, M!OfferReady(p, k)
  PROVE MeshInv'
<1> DEFINE q == k.with
           o == links[p][q]
           l == [o EXCEPT !.offered = TRUE]
           m == M!Message("offer", p, [by |-> p, n |-> k.pc], 0)
<1>1. MeshTypes /\ Offered /\ Built
  BY DEF MeshInv
<1>2. /\ M!Resumes(p, k) /\ UNCHANGED <<seat, present, session, made, faults>>
      /\ IF M!IsLive(p, k) /\ o.inFlight /\ o.chan # None
         THEN /\ links' = [links EXCEPT ![p][q].offered = TRUE] /\ wire' = M!Relayed(wire, p, q, m)
         ELSE UNCHANGED <<links, wire>>
  BY DEF M!OfferReady
<1>3. q \in Seat /\ k.pc \in Nat \ {0} /\ o \in M!Link
  BY <1>2, ResumesFacts
<1>4. faults' \in 0..MaxFaults
  BY <1>1, <1>2 DEF MeshTypes
<1>5. CASE M!IsLive(p, k) /\ o.inFlight /\ o.chan # None
  <2>1. links' = [links EXCEPT ![p][q].offered = TRUE] /\ wire' = M!Relayed(wire, p, q, m)
    BY <1>2, <1>5
  <2>2. m \in Wired /\ m.kind = "offer" /\ m.offer \in M!Channels
    BY <1>3 DEF M!Message, Wired, M!Channels
  <2>3. links' = [links EXCEPT ![p][q] = l]
    BY <2>1
  <2>4. o.pc # 0
    BY <1>3, <1>5 DEF M!IsLive
  <2>5. o.inFlight => o.seatedByUs
    BY <1>1, <1>3 DEF Built
  <2> HIDE DEF m, q
  <2>6. Fewer(wire')
    BY <1>1, <1>3, <2>1, <2>2, RelayedFewer
  <2> HIDE DEF o
  <2>7. TRUE \in BOOLEAN
    OBVIOUS
  <2>8. l \in M!Link
    BY <1>3, <2>7, WithFields
  <2>9. /\ l.pc = o.pc /\ l.attached = o.attached /\ l.inFlight = o.inFlight
        /\ l.seatedByUs = o.seatedByUs
    BY <1>3 DEF M!Link
  <2> HIDE DEF l
  <2> QED
    BY <1>2, <1>4, <2>3, <2>4, <2>5, <2>6, <2>8, <2>9, ResumeStep DEF o, q
<1>6. CASE ~(M!IsLive(p, k) /\ o.inFlight /\ o.chan # None)
  <2>1. UNCHANGED <<links, wire>>
    BY <1>2, <1>6
  <2>2. Fewer(wire')
    BY <1>1, <2>1, SameFewer DEF Fewer, JoinComes
  <2> QED
    BY <1>2, <1>4, <2>1, <2>2, ResumeIdle
<1> QED
  BY <1>5, <1>6

LEMMA RejectedFaults == ASSUME MeshInv, M!Rejected PROVE faults' \in 0..MaxFaults
BY MeshAssumption DEF MeshInv, MeshTypes, M!Rejected

LEMMA OfferRejectedInv == ASSUME MeshInv, NEW p \in Seat, NEW k, M!OfferRejected(p, k)
  PROVE MeshInv'
<1> DEFINE q == k.with
           o == links[p][q]
           x == [o EXCEPT !.chan = None]
           l == [x EXCEPT !.inFlight = FALSE]
<1>1. MeshTypes /\ Offered /\ Built
  BY DEF MeshInv
<1>2. /\ M!Resumes(p, k) /\ UNCHANGED <<seat, present, session, wire, made>> /\ M!Rejected
      /\ links' = [links EXCEPT ![p][q] =
                     IF M!IsLive(p, k) THEN [@ EXCEPT !.chan = None, !.inFlight = FALSE] ELSE @]
  BY DEF M!OfferRejected
<1>3. q \in Seat /\ k.pc \in Nat \ {0} /\ o \in M!Link
  BY <1>2, ResumesFacts
<1>4. faults' \in 0..MaxFaults /\ Fewer(wire')
  BY <1>1, <1>2, RejectedFaults, SameFewer DEF Fewer, JoinComes
<1>5. CASE M!IsLive(p, k)
  <2>1. links' = [links EXCEPT ![p][q] = l]
    BY <1>2, <1>5
  <2>2. o.pc # 0
    BY <1>3, <1>5 DEF M!IsLive
  <2> HIDE DEF q, o
  <2>3. FALSE \in BOOLEAN /\ None \in M!Channels \cup {None}
    OBVIOUS
  <2>4. x \in M!Link
    BY <1>3, <2>3, WithFields
  <2>5. /\ x.pc = o.pc /\ x.attached = o.attached /\ x.inFlight = o.inFlight
        /\ x.seatedByUs = o.seatedByUs
    BY <1>3 DEF M!Link
  <2> HIDE DEF x
  <2>6. l \in M!Link
    BY <2>3, <2>4, WithFields
  <2>7. l.pc = x.pc /\ l.attached = x.attached /\ ~l.inFlight /\ l.seatedByUs = x.seatedByUs
    BY <2>4 DEF M!Link
  <2> HIDE DEF l
  <2>8. l.inFlight => o.inFlight /\ l.seatedByUs
    BY <2>7
  <2>9. /\ l.pc = o.pc /\ l.attached = o.attached /\ (l.seatedByUs => o.seatedByUs)
    BY <2>5, <2>7
  <2> QED
    BY <1>2, <1>4, <2>1, <2>2, <2>6, <2>8, <2>9, ResumeStep DEF o, q
<1>6. CASE ~M!IsLive(p, k)
  <2>1. UNCHANGED links
    BY <1>1, <1>2, <1>6 DEF MeshTypes
  <2> QED
    BY <1>2, <1>4, <2>1, ResumeIdle
<1> QED
  BY <1>5, <1>6

LEMMA AnswerRejectedInv == ASSUME MeshInv, NEW p \in Seat, NEW k, M!AnswerRejected(p, k)
  PROVE MeshInv'
<1> DEFINE q == k.with
           o == links[p][q]
           l == [o EXCEPT !.chan = None]
<1>1. MeshTypes /\ Offered /\ Built
  BY DEF MeshInv
<1>2. /\ M!Resumes(p, k) /\ UNCHANGED <<seat, present, session, wire, made>> /\ M!Rejected
      /\ links' = [links EXCEPT ![p][q] =
                     IF M!IsLive(p, k) /\ ~@.attached THEN [@ EXCEPT !.chan = None] ELSE @]
  BY DEF M!AnswerRejected
<1>3. q \in Seat /\ k.pc \in Nat \ {0} /\ o \in M!Link
  BY <1>2, ResumesFacts
<1>4. faults' \in 0..MaxFaults /\ Fewer(wire')
  BY <1>1, <1>2, RejectedFaults, SameFewer DEF Fewer, JoinComes
<1>5. CASE M!IsLive(p, k) /\ ~o.attached
  <2>1. links' = [links EXCEPT ![p][q] = l]
    BY <1>2, <1>5
  <2>2. o.pc # 0
    BY <1>3, <1>5 DEF M!IsLive
  <2>3. o.inFlight => o.seatedByUs
    BY <1>1, <1>3 DEF Built
  <2> HIDE DEF q, o
  <2>4. None \in M!Channels \cup {None}
    OBVIOUS
  <2>5. l \in M!Link
    BY <1>3, <2>4, WithFields
  <2>6. /\ l.pc = o.pc /\ l.attached = o.attached /\ l.inFlight = o.inFlight
        /\ l.seatedByUs = o.seatedByUs
    BY <1>3 DEF M!Link
  <2> HIDE DEF l
  <2> QED
    BY <1>2, <1>4, <2>1, <2>2, <2>3, <2>5, <2>6, ResumeStep, ZenonT(60) DEF o, q
<1>6. CASE ~(M!IsLive(p, k) /\ ~o.attached)
  <2>1. UNCHANGED links
    BY <1>1, <1>2, <1>6 DEF MeshTypes
  <2> QED
    BY <1>2, <1>4, <2>1, ResumeIdle
<1> QED
  BY <1>5, <1>6

LEMMA AnswerReadyInv == ASSUME MeshInv, NEW p \in Seat, NEW k, M!AnswerReady(p, k)
  PROVE MeshInv'
<1> DEFINE q == k.with
           o == links[p][q]
           e == IF o.ex = None THEN [offer |-> k.offer, answer |-> k.pc] ELSE o.ex
           x == [o EXCEPT !.seatedByUs = FALSE]
           l == [x EXCEPT !.ex = e]
           m == M!Message("answer", p, k.offer, k.pc)
<1>1. MeshTypes /\ Offered /\ Built /\ Numbered
  BY SMTT(40) DEF MeshInv
<1>2. /\ k.kind = "answer" /\ M!Resumes(p, k)
      /\ UNCHANGED <<seat, present, session, made, faults>>
      /\ IF M!IsLive(p, k)
         THEN /\ links' = [links EXCEPT ![p][q].seatedByUs = FALSE,
                                        ![p][q].ex = IF @ = None THEN [offer |-> k.offer, answer |-> k.pc]
                                                     ELSE @]
              /\ wire' = M!Relayed(wire, p, q, m)
         ELSE UNCHANGED <<links, wire>>
  BY DEF M!AnswerReady
<1>3. /\ q \in Seat /\ k.pc \in Nat \ {0} /\ o \in M!Link /\ k.offer \in M!Channels
      /\ k \in parked[p]
  BY <1>2, ResumesFacts
<1>4. faults' \in 0..MaxFaults
  BY <1>1, <1>2 DEF MeshTypes
<1>5. CASE M!IsLive(p, k)
  <2>1. wire' = M!Relayed(wire, p, q, m)
        /\ links' = [links EXCEPT ![p][q].seatedByUs = FALSE,
                                  ![p][q].ex = IF @ = None THEN [offer |-> k.offer, answer |-> k.pc]
                                               ELSE @]
    BY <1>2, <1>5
  <2>2. m \in Wired /\ m.kind = "answer" /\ m.offer \in M!Channels
    BY <1>3 DEF M!Message, Wired
  <2>3. links' = [links EXCEPT ![p][q] = l]
    <3>1. /\ x.ex = o.ex
          /\ l = [x EXCEPT !.ex = IF x.ex = None THEN [offer |-> k.offer, answer |-> k.pc] ELSE x.ex]
      BY <1>3 DEF M!Link
    <3>2. links' = [[links EXCEPT ![p][q].seatedByUs = FALSE] EXCEPT
                       ![p][q].ex = IF @ = None THEN [offer |-> k.offer, answer |-> k.pc] ELSE @]
      BY <2>1
    <3>3. [links EXCEPT ![p][q].seatedByUs = FALSE] = [links EXCEPT ![p][q] = x]
      OBVIOUS
    <3> DEFINE made1 == [links EXCEPT ![p][q] = x]
    <3>4. made1[p][q] = x
      <4> HIDE DEF x
      <4> QED BY <1>1, <1>3 DEF MeshTypes
    <3>5. links' = [made1 EXCEPT ![p][q].ex = IF @ = None THEN [offer |-> k.offer, answer |-> k.pc] ELSE @]
      BY <3>2, <3>3
    <3>6. links' = [made1 EXCEPT ![p][q] = [made1[p][q] EXCEPT !.ex =
                IF made1[p][q].ex = None THEN [offer |-> k.offer, answer |-> k.pc] ELSE made1[p][q].ex]]
      <4> HIDE DEF made1
      <4> QED BY <3>5
    <3>7. links' = [made1 EXCEPT ![p][q] = l]
      <4> HIDE DEF made1, x, l
      <4> QED BY <3>1, <3>4, <3>6
    <3>8. [made1 EXCEPT ![p][q] = l] = [links EXCEPT ![p][q] = l]
      <4> HIDE DEF l, x
      <4> QED BY <1>1, <1>3 DEF MeshTypes
    <3> QED BY <3>7, <3>8
  <2>4. o.pc # 0
    BY <1>3, <1>5 DEF M!IsLive
  <2>5. ~o.inFlight
    BY <1>1, <1>2, <1>3, <1>5 DEF Numbered, M!IsLive
  <2> HIDE DEF m, q
  <2>6. Fewer(wire')
    BY <1>1, <1>3, <2>1, <2>2, RelayedFewer
  <2>7. FALSE \in BOOLEAN /\ e \in M!Exchange \cup {None}
    BY <1>3, LinkFields DEF M!Exchange
  <2> HIDE DEF o, e
  <2>8. x \in M!Link
    BY <1>3, <2>7, WithFields
  <2>9. x.pc = o.pc /\ x.attached = o.attached /\ x.inFlight = o.inFlight /\ ~x.seatedByUs
    BY <1>3 DEF M!Link
  <2> HIDE DEF x
  <2>10. l \in M!Link
    BY <2>7, <2>8, WithFields
  <2>11. /\ l.pc = x.pc /\ l.attached = x.attached /\ l.inFlight = x.inFlight
         /\ l.seatedByUs = x.seatedByUs
    BY <2>8 DEF M!Link
  <2> HIDE DEF l
  <2> QED
    BY <1>2, <1>4, <2>3, <2>4, <2>5, <2>6, <2>9, <2>10, <2>11, ResumeStep DEF o, q
<1>6. CASE ~M!IsLive(p, k)
  <2>1. UNCHANGED <<links, wire>>
    BY <1>2, <1>6
  <2>2. Fewer(wire')
    BY <1>1, <2>1, SameFewer DEF Fewer, JoinComes
  <2> QED
    BY <1>2, <1>4, <2>1, <2>2, ResumeIdle
<1> QED
  BY <1>5, <1>6

-----------------------------------------------------------------------------
(* Events of the connections.                                              *)
LEMMA ChannelOpensInv ==
  ASSUME MeshInv, NEW p \in Seat, NEW q \in Seat, M!ChannelOpens(p, q) PROVE MeshInv'
<1> DEFINE o == links[p][q]
           c == o.ex.offer
           x == [o EXCEPT !.chan = c]
           l == [x EXCEPT !.attached = TRUE]
<1>1. MeshTypes /\ Offered /\ Built /\ Numbered
  BY SMTT(40) DEF MeshInv
<1>2. /\ M!Joined(p, q) /\ UNCHANGED <<seat, present, parked, wire, made, faults>>
      /\ IF M!Cardinality(session[p] \ {q}) < MaxPeers
         THEN /\ links' = [links EXCEPT ![p][q].chan = c, ![p][q].attached = TRUE]
              /\ session' = [session EXCEPT ![p] = @ \cup {q}]
         ELSE M!Teardown(p, q)
  BY DEF M!ChannelOpens
<1>3. faults' \in 0..MaxFaults /\ Fewer(wire') /\ present' \in [Seat -> SUBSET Seat]
  BY <1>1, <1>2, SameFewer DEF Fewer, JoinComes, MeshTypes
<1>4. o \in M!Link /\ o.ex # None
  BY <1>1, <1>2 DEF M!Joined, MeshTypes
<1>5. CASE ~(M!Cardinality(session[p] \ {q}) < MaxPeers)
  BY <1>2, <1>3, <1>5, TeardownStep
<1>6. CASE M!Cardinality(session[p] \ {q}) < MaxPeers
  <2>1. /\ links' = [links EXCEPT ![p][q].chan = c, ![p][q].attached = TRUE]
        /\ session' = [session EXCEPT ![p] = session[p] \cup {q}]
    BY <1>2, <1>6
  <2>2. links' = [links EXCEPT ![p][q] = l]
    BY <2>1
  <2>3. TRUE \in BOOLEAN /\ c \in M!Channels \cup {None}
    BY <1>4, LinkFields DEF M!Exchange
  <2>4. /\ o.pc # 0 /\ o.pc <= made[p] /\ (o.inFlight => o.seatedByUs)
    <3>1. M!NoLink.ex = None
      BY DEF M!NoLink, M!FreshLink
    <3> QED
      BY <1>1, <1>4, <3>1 DEF Built
  <2> HIDE DEF o, c
  <2>5. /\ x \in M!Link /\ x.pc = o.pc /\ x.inFlight = o.inFlight
        /\ x.seatedByUs = o.seatedByUs
    <3>1. x \in M!Link
      BY <1>4, <2>3, WithFields
    <3> QED BY <1>4, <3>1 DEF M!Link
  <2> HIDE DEF x
  <2>6. l \in M!Link
    BY <2>3, <2>5, WithFields
  <2>7. l.pc = x.pc /\ l.attached /\ l.inFlight = x.inFlight /\ l.seatedByUs = x.seatedByUs
    BY <2>5 DEF M!Link
  <2> HIDE DEF l
  <2>8. EntryKept(p, q, l)
    <3>1. l.inFlight => l.seatedByUs
      BY <2>4, <2>5, <2>7
    <3>2. l.seatedByUs => Dials(p, q)
      BY <2>5, <2>7 DEF Dials, o
    <3>3. l.pc # 0 /\ l.pc <= made'[p] /\ links[p][q].pc # 0
      BY <1>2, <2>4, <2>5, <2>7 DEF o
    <3> QED
      BY <2>6, <3>1, <3>2, <3>3 DEF EntryKept
  <2>9. ParkedKept(p, q, l)
    <3>1. l.inFlight => l.pc = links[p][q].pc /\ links[p][q].inFlight
      BY <2>5, <2>7 DEF o
    <3> QED
      BY <1>1, <1>2, <3>1 DEF ParkedKept, MeshTypes
  <2>10. SessionKept(p, q, l)
    BY <1>1, <2>1, <2>7 DEF SessionKept, MeshTypes
  <2>11. made' \in [Seat -> Nat] /\ \A a \in Seat : made[a] <= made'[a]
    BY <1>1, <1>2 DEF MeshTypes
  <2> QED
    BY <1>2, <1>3, <2>2, <2>8, <2>9, <2>10, <2>11, EntryStep
<1> QED
  BY <1>5, <1>6

LEMMA SessionDropsInv ==
  ASSUME MeshInv, NEW p \in Seat, NEW q \in Seat, M!SessionDrops(p, q) PROVE MeshInv'
<1>1. MeshTypes /\ Offered
  BY DEF MeshInv
<1>2. M!DropLink(p, q) /\ UNCHANGED <<seat, present, links, parked, wire, made, faults>>
  BY DEF M!SessionDrops
<1>3. Fewer(wire')
  BY <1>1, <1>2, SameFewer DEF Fewer, JoinComes
<1>4. session' \in [Seat -> SUBSET Seat] /\ \A a \in Seat : session'[a] \subseteq session[a]
  BY <1>1, <1>2 DEF M!DropLink, MeshTypes
<1> QED
  BY <1>1, <1>2, <1>3, <1>4, LinksStay DEF MeshTypes

LEMMA LinkFailureInv ==
  ASSUME MeshInv, NEW p \in Seat, NEW q \in Seat, M!LinkFailure(p, q),
         links[p][q].ex # None,
         UNCHANGED <<seat, present, wire>>, faults' \in 0..MaxFaults
  PROVE  MeshInv'
<1>1. MeshTypes /\ Offered /\ Built
  BY DEF MeshInv
<1>2. Fewer(wire') /\ present' \in [Seat -> SUBSET Seat]
  BY <1>1, SameFewer DEF Fewer, JoinComes, MeshTypes
<1>3. CASE q \notin present[p]
  <2>1. M!Teardown(p, q) /\ UNCHANGED <<made, parked>>
    BY <1>3 DEF M!LinkFailure
  <2> QED
    BY <1>2, <2>1, TeardownStep
<1>4. CASE q \in present[p]
  <2> DEFINE l == M!Rebuilt(p, q)
             offers == M!Reoffers(p, q)
  <2>1. M!Dial(p, q, l, offers) /\ M!DropLink(p, q)
    BY <1>4 DEF M!LinkFailure
  <2>2. /\ l \in M!Link /\ l.pc = made[p] + 1 /\ ~l.inFlight /\ ~l.attached
        /\ l.seatedByUs = links[p][q].seatedByUs
    BY <1>1, RebuiltFacts
  <2>3. links[p][q].seatedByUs \in BOOLEAN
    <3>1. links[p][q] \in M!Link
      BY <1>1 DEF MeshTypes
    <3> QED BY <3>1, LinkFields
  <2>4. offers \in BOOLEAN /\ offers = l.seatedByUs
    BY <2>2, <2>3 DEF M!Reoffers
  <2>5. l.seatedByUs => Dials(p, q)
    BY <2>2 DEF Dials
  <2>6. links[p][q].pc # 0
    <3>1. M!NoLink.ex = None
      BY DEF M!NoLink, M!FreshLink
    <3> QED
      BY <1>1, <3>1 DEF Built
  <2> HIDE DEF l, offers
  <2>7. offers => l.seatedByUs
    BY <2>4
  <2> QED
    BY <1>2, <2>1, <2>2, <2>4, <2>5, <2>6, <2>7, DialStep
<1> QED
  BY <1>3, <1>4

LEMMA FailureInv ==
  ASSUME MeshInv, NEW p \in Seat, NEW q \in Seat, M!ConnectionLost(p,
         q) \/ M!ConnectionFails(p, q)
  PROVE  MeshInv'
<1>1. faults' \in 0..MaxFaults
  BY MeshAssumption DEF MeshInv, MeshTypes, M!ConnectionLost, M!ConnectionFails
<1>2. links[p][q].ex # None
  BY DEF M!ConnectionLost, M!ConnectionFails, M!Lost, M!Joined
<1> QED
  BY <1>1, <1>2, LinkFailureInv DEF M!ConnectionLost, M!ConnectionFails

-----------------------------------------------------------------------------
(* The seat.                                                               *)
(* Beside what was there, w holds the news of p and nothing else.          *)
Heralds(w, p, kind) ==
  /\ w \in [Seat -> Seq(Wired)] /\ w[p] = wire[p]
  /\ \A a \in Seat : \A i \in DOMAIN w[a] :
        \/ \E j \in DOMAIN wire[a] : w[a][i] = wire[a][j]
        \/ w[a][i].kind = kind /\ w[a][i].from = p /\ a # p /\ M!Seated(a)

LEMMA ToldFacts ==
  ASSUME MeshTypes, NEW p \in Seat, NEW kind \in {"join", "leave"}
  PROVE  Heralds(M!Told(wire, p, kind), p, kind)
<1> DEFINE m == M!Message(kind, p, None, 0)
           w == M!Told(wire, p, kind)
<1>1. m \in Wired /\ m.kind = kind /\ m.from = p
  BY DEF M!Message, Wired
<1> HIDE DEF m
<1>2. w = [a \in Seat |-> IF a # p /\ M!Seated(a) THEN Append(wire[a], m) ELSE wire[a]]
  BY DEF M!Told, m
<1> HIDE DEF w
<1>3. ASSUME NEW a \in Seat
      PROVE  /\ w[a] \in Seq(Wired)
             /\ \A i \in DOMAIN w[a] : \/ \E j \in DOMAIN wire[a] : w[a][i] = wire[a][j]
                                       \/ w[a][i] = m /\ a # p /\ M!Seated(a)
  <2>0. wire[a] \in Seq(Wired)
    BY DEF MeshTypes
  <2>1. CASE a # p /\ M!Seated(a)
    <3>1. w[a] = Append(wire[a], m)
      BY <1>2, <2>1
    <3>2. w[a] \in Seq(Wired)
      BY <1>1, <2>0, <3>1
    <3>3. \A i \in DOMAIN w[a] : w[a][i] = m \/ (i \in DOMAIN wire[a] /\ w[a][i] = wire[a][i])
      BY <2>0, <3>1, Appended
    <3> QED BY <2>1, <3>2, <3>3
  <2>2. CASE ~(a # p /\ M!Seated(a))
    BY <1>2, <2>0, <2>2
  <2> QED BY <2>1, <2>2
<1>4. w \in [Seat -> Seq(Wired)]
  BY <1>2, <1>3
<1>5. w[p] = wire[p]
  BY <1>2
<1>6. \A a \in Seat : \A i \in DOMAIN w[a] :
         \/ \E j \in DOMAIN wire[a] : w[a][i] = wire[a][j]
         \/ w[a][i].kind = kind /\ w[a][i].from = p /\ a # p /\ M!Seated(a)
  BY <1>1, <1>3
<1>7. Heralds(w, p, kind)
  BY <1>4, <1>5, <1>6 DEF Heralds
<1> QED
  BY <1>7 DEF w

LEMMA ConnectInv == ASSUME MeshInv, NEW p \in Seat, M!Connect(p) PROVE MeshInv'
<1>1. MeshTypes /\ Offered /\ Built /\ Numbered /\ OneDials /\ M!SessionFollowsManager
  BY DEF MeshInv
<1>2. /\ seat[p] = "new" /\ seat' = [seat EXCEPT ![p] = "dialing"]
      /\ UNCHANGED <<present, links, session, parked, wire, made, faults>>
  BY DEF M!Connect
<1>3. MeshTypes'
  BY <1>1, <1>2 DEF MeshTypes
<1>4. Offered' /\ Built' /\ Numbered' /\ M!SessionFollowsManager'
  BY <1>1, <1>2 DEF Offered, Built, Numbered, M!SessionFollowsManager, M!NoLink, M!FreshLink
<1>5. OneDials'
  <2>1. \A a, b \in Seat : Dials(a, b)' <=> Dials(a, b)
    BY <1>2 DEF Dials, JoinComes
  <2>2. \A a \in Seat : Unborn(a)' <=> Unborn(a)
    BY <1>1, <1>2 DEF Unborn, MeshTypes
  <2> QED BY <1>1, <2>1, <2>2 DEF OneDials
<1>6. ASSUME NEW a \in Seat PROVE Cardinality(M!LinkedTo(a)') <= MaxPeers
  <2>1. M!LinkedTo(a)' = M!LinkedTo(a)
    BY <1>2 DEF M!LinkedTo
  <2> QED BY <2>1 DEF MeshInv
<1> QED
  BY <1>3, <1>4, <1>5, <1>6 DEF MeshInv

LEMMA SocketOpenInv == ASSUME MeshInv, NEW p \in Seat, M!SocketOpen(p) PROVE MeshInv'
<1>1. MeshTypes /\ Offered /\ Built /\ Numbered /\ OneDials /\ M!SessionFollowsManager
  BY DEF MeshInv
<1>2. /\ seat[p] = "dialing" /\ seat' = [seat EXCEPT ![p] = "open"]
      /\ wire' = M!Told(wire, p, "join")
      /\ UNCHANGED <<present, links, session, parked, made, faults>>
  BY DEF M!SocketOpen
<1>3. /\ wire' \in [Seat -> Seq(Wired)] /\ wire'[p] = wire[p]
      /\ \A a \in Seat : \A i \in DOMAIN wire'[a] :
            \/ \E j \in DOMAIN wire[a] : wire'[a][i] = wire[a][j]
            \/ wire'[a][i].kind = "join" /\ wire'[a][i].from = p /\ a # p /\ M!Seated(a)
  <2>1. Heralds(wire', p, "join")
    BY <1>1, <1>2, ToldFacts
  <2> QED BY <2>1 DEF Heralds
<1>4. MeshTypes'
  BY <1>1, <1>2, <1>3 DEF MeshTypes
<1>5. Offered'
  <2>1. ASSUME NEW a \in Seat, NEW i \in DOMAIN wire'[a], wire'[a][i].kind \in {"offer", "answer"}
        PROVE  wire'[a][i].offer \in M!Channels
    <3>1. \E j \in DOMAIN wire[a] : wire'[a][i] = wire[a][j]
      BY <1>3, <2>1
    <3> QED BY <1>1, <2>1, <3>1 DEF Offered
  <2>2. \A a \in Seat : \A k \in parked'[a] : k.kind = "answer" => k.offer \in M!Channels
    BY <1>1, <1>2 DEF Offered
  <2> QED BY <2>1, <2>2 DEF Offered
<1>6. Built' /\ Numbered' /\ M!SessionFollowsManager'
  BY <1>1, <1>2 DEF Built, Numbered, M!SessionFollowsManager, M!NoLink, M!FreshLink
<1>7. OneDials'
  <2>1. ASSUME NEW a \in Seat, NEW b \in Seat, Dials(a, b)'
        PROVE  Dials(a, b) \/ (b = p /\ a # p /\ M!Seated(a))
    <3>1. CASE links'[a][b].seatedByUs
      BY <1>2, <3>1 DEF Dials
    <3>2. CASE JoinComes(a, b)'
      <4>1. PICK i \in DOMAIN wire'[a] : wire'[a][i].kind = "join" /\ wire'[a][i].from = b
        BY <3>2 DEF JoinComes
      <4> QED
        BY <1>3, <4>1 DEF Dials, JoinComes
    <3> QED BY <2>1, <3>1, <3>2 DEF Dials
  <2>2. \A a \in Seat : Unborn(a)' => Unborn(a)
    BY <1>1, <1>2 DEF Unborn, MeshTypes
  <2>3. ~Unborn(p)' /\ \A a \in Seat : M!Seated(a) => ~Unborn(a)'
    BY <1>1, <1>2 DEF Unborn, M!Seated, MeshTypes
  <2>4. \A b \in Seat : ~Dials(p, b)
    BY <1>1, <1>2 DEF OneDials, Unborn
  <2>5. \A b \in Seat : ~Dials(b, p)
    BY <1>1, <1>2 DEF OneDials, Unborn
  <2>6. ASSUME NEW a \in Seat, NEW b \in Seat, Dials(a, b)'
        PROVE  ~Unborn(a)' /\ ~Unborn(b)' /\ (a # b => ~Dials(b, a)')
    <3>1. CASE Dials(a, b)
      <4>1. a # p /\ b # p
        BY <2>4, <2>5, <3>1
      <4> QED
        BY <1>1, <2>1, <2>2, <3>1, <4>1 DEF OneDials
    <3>2. CASE b = p /\ a # p /\ M!Seated(a)
      BY <2>1, <2>3, <2>4, <3>2
    <3> QED BY <2>1, <2>6, <3>1, <3>2
  <2> QED BY <2>6 DEF OneDials
<1>8. ASSUME NEW a \in Seat PROVE Cardinality(M!LinkedTo(a)') <= MaxPeers
  <2>1. M!LinkedTo(a)' = M!LinkedTo(a)
    BY <1>2 DEF M!LinkedTo
  <2> QED BY <2>1 DEF MeshInv
<1> QED
  BY <1>4, <1>5, <1>6, <1>7, <1>8 DEF MeshInv

LEMMA FinishInv ==
  ASSUME MeshInv, NEW p \in Seat, M!Finish(p), faults' \in 0..MaxFaults PROVE MeshInv'
<1>1. MeshTypes /\ Offered /\ Built /\ Numbered /\ OneDials /\ M!SessionFollowsManager
  BY DEF MeshInv
<1> DEFINE w == IF M!Seated(p) THEN M!Told(wire, p, "leave") ELSE wire
<1>2. /\ seat' = [seat EXCEPT ![p] = "gone"] /\ present' = [present EXCEPT ![p] = {}]
      /\ links' = [links EXCEPT ![p] = [q \in Seat |-> M!NoLink]]
      /\ session' = [session EXCEPT ![p] = {}] /\ parked' = [parked EXCEPT ![p] = {}]
      /\ wire' = [w EXCEPT ![p] = <<>>] /\ made' = made
  BY DEF M!Finish
<1>3. /\ w \in [Seat -> Seq(Wired)]
      /\ \A a \in Seat : \A i \in DOMAIN w[a] :
            \/ \E j \in DOMAIN wire[a] : w[a][i] = wire[a][j]
            \/ w[a][i].kind = "leave"
  <2>1. CASE M!Seated(p)
    <3>1. Heralds(w, p, "leave")
      BY <1>1, <2>1, ToldFacts
    <3> HIDE DEF w
    <3> QED BY <3>1 DEF Heralds
  <2>2. CASE ~M!Seated(p)
    BY <1>1, <2>2 DEF MeshTypes
  <2> QED BY <2>1, <2>2
<1> HIDE DEF w
<1>4. wire' \in [Seat -> Seq(Wired)] /\ wire'[p] = <<>> /\ \A a \in Seat \ {p} : wire'[a] = w[a]
  BY <1>2, <1>3
<1>5. /\ \A a \in Seat : ~JoinComes(p, a)'
      /\ \A a, b \in Seat : JoinComes(a, b)' => JoinComes(a, b)
  <2>1. \A a \in Seat : ~JoinComes(p, a)'
    BY <1>4 DEF JoinComes
  <2>2. ASSUME NEW a \in Seat, NEW b \in Seat, JoinComes(a, b)' PROVE JoinComes(a, b)
    <3>1. a # p
      BY <2>1, <2>2
    <3>2. PICK i \in DOMAIN w[a] : w[a][i].kind = "join" /\ w[a][i].from = b
      BY <1>4, <2>2, <3>1 DEF JoinComes
    <3> QED
      BY <1>3, <3>2 DEF JoinComes
  <2> QED BY <2>1, <2>2
<1>6. M!NoLink \in M!Link /\ M!NoLink.pc = 0 /\ ~M!NoLink.inFlight /\ ~M!NoLink.seatedByUs
  BY FreshFacts DEF M!NoLink
<1> HIDE DEF M!NoLink
<1>7. /\ links' \in [Seat -> [Seat -> M!Link]]
      /\ \A a, b \in Seat : links'[a][b] = IF a = p THEN M!NoLink ELSE links[a][b]
  BY <1>1, <1>2, <1>6 DEF MeshTypes
<1>8. /\ DOMAIN parked' = Seat /\ parked'[p] = {} /\ \A a \in Seat \ {p} : parked'[a] = parked[a]
      /\ session' \in [Seat -> SUBSET Seat] /\ session'[p] = {}
      /\ \A a \in Seat \ {p} : session'[a] = session[a]
  BY <1>1, <1>2 DEF MeshTypes
<1>9. MeshTypes'
  <2>1. /\ seat' \in [Seat -> {"new", "dialing", "open", "gone"}]
        /\ present' \in [Seat -> SUBSET Seat] /\ made' \in [Seat -> Nat]
    BY <1>1, <1>2 DEF MeshTypes
  <2>2. \A a \in Seat : parked'[a] \subseteq Waiting
    BY <1>1, <1>8 DEF MeshTypes
  <2> QED
    BY <1>4, <1>7, <1>8, <2>1, <2>2 DEF MeshTypes
<1>10. Offered'
  <2>1. ASSUME NEW a \in Seat, NEW i \in DOMAIN wire'[a], wire'[a][i].kind \in {"offer", "answer"}
        PROVE  wire'[a][i].offer \in M!Channels
    <3>1. a # p /\ wire'[a] = w[a]
      BY <1>4, <2>1
    <3>2. \E j \in DOMAIN wire[a] : wire'[a][i] = wire[a][j]
      BY <1>3, <2>1, <3>1
    <3> QED BY <1>1, <2>1, <3>2 DEF Offered
  <2>2. \A a \in Seat : \A k \in parked'[a] : k.kind = "answer" => k.offer \in M!Channels
    BY <1>1, <1>8 DEF Offered
  <2> QED BY <2>1, <2>2 DEF Offered
<1>11. Built'
  <2> SUFFICES ASSUME NEW a \in Seat, NEW b \in Seat
               PROVE  /\ links'[a][b].pc = 0 => links'[a][b] = M!NoLink
                      /\ links'[a][b].pc <= made'[a]
                      /\ links'[a][b].inFlight => links'[a][b].seatedByUs
    BY DEF Built, M!NoLink, M!FreshLink
  <2>1. CASE a = p
    BY <1>1, <1>2, <1>6, <1>7, <2>1 DEF MeshTypes
  <2>2. CASE a # p
    BY <1>1, <1>2, <1>7, <2>2 DEF Built
  <2> QED BY <2>1, <2>2
<1>12. Numbered'
  <2> SUFFICES ASSUME NEW a \in Seat, NEW k \in parked'[a]
               PROVE  /\ k.pc <= made'[a]
                      /\ k.kind = "answer" /\ links'[a][k.with].pc = k.pc
                            => ~links'[a][k.with].inFlight
    BY DEF Numbered
  <2>1. a # p /\ k \in parked[a]
    BY <1>8
  <2>2. k.with \in Seat
    BY <1>1, <2>1 DEF MeshTypes, Waiting
  <2> QED BY <1>1, <1>2, <1>7, <2>1, <2>2 DEF Numbered
<1>13. OneDials'
  <2>1. \A a, b \in Seat : Dials(a, b)' => Dials(a, b)
    BY <1>5, <1>6, <1>7 DEF Dials
  <2>2. \A a \in Seat : Unborn(a)' => Unborn(a)
    BY <1>1, <1>2 DEF Unborn, MeshTypes
  <2> QED BY <1>1, <2>1, <2>2 DEF OneDials
<1>14. M!SessionFollowsManager'
  <2>1. ASSUME NEW a \in Seat, NEW b \in session'[a] PROVE links'[a][b].attached
    <3>1. a # p /\ b \in session[a] /\ b \in Seat
      BY <1>8
    <3> QED BY <1>1, <1>7, <3>1 DEF M!SessionFollowsManager
  <2> QED BY <2>1 DEF M!SessionFollowsManager
<1>15. ASSUME NEW a \in Seat PROVE Cardinality(M!LinkedTo(a)') <= MaxPeers
  <2>1. CASE a = p
    <3>1. M!LinkedTo(a)' = {}
      BY <1>6, <1>7, <2>1 DEF M!LinkedTo
    <3> QED BY <3>1, FS_EmptySet, MeshAssumption
  <2>2. CASE a # p
    <3>1. M!LinkedTo(a)' = M!LinkedTo(a)
      BY <1>7, <2>2 DEF M!LinkedTo
    <3> QED BY <3>1 DEF MeshInv
  <2> QED BY <2>1, <2>2
<1> QED
  BY <1>9, <1>10, <1>11, <1>12, <1>13, <1>14, <1>15 DEF MeshInv

-----------------------------------------------------------------------------
LEMMA MeshInit == M!Init => MeshInv
<1> SUFFICES ASSUME M!Init PROVE MeshInv
  OBVIOUS
<1>1. M!NoLink \in M!Link /\ M!NoLink.pc = 0 /\ ~M!NoLink.inFlight /\ ~M!NoLink.seatedByUs
  BY FreshFacts DEF M!NoLink
<1> HIDE DEF M!NoLink
<1>2. \A a, b \in Seat : links[a][b] = M!NoLink
  BY DEF M!Init
<1>3. MeshTypes
  BY <1>1, MeshAssumption DEF M!Init, MeshTypes
<1>4. Offered /\ Numbered /\ M!SessionFollowsManager
  BY DEF M!Init, Offered, Numbered, M!SessionFollowsManager
<1>5. Built
  BY <1>1, <1>2 DEF M!Init, Built
<1>6. OneDials
  BY <1>1, <1>2 DEF M!Init, OneDials, Dials, JoinComes
<1>7. ASSUME NEW a \in Seat PROVE Cardinality(M!LinkedTo(a)) <= MaxPeers
  <2>1. M!LinkedTo(a) = {}
    BY <1>1, <1>2 DEF M!LinkedTo
  <2> QED BY <2>1, FS_EmptySet, MeshAssumption
<1> QED
  BY <1>3, <1>4, <1>5, <1>6, <1>7 DEF MeshInv

LEMMA MeshStep == MeshInv /\ [M!Next]_(M!vars) => MeshInv'
<1> SUFFICES ASSUME MeshInv, [M!Next]_(M!vars) PROVE MeshInv'
  OBVIOUS
<1>1. CASE UNCHANGED M!vars
  <2>1. MeshTypes' /\ Offered' /\ Built' /\ Numbered' /\ M!SessionFollowsManager'
    BY <1>1
       DEF MeshInv, M!vars, MeshTypes, Offered, Built, Numbered, M!SessionFollowsManager,
                M!NoLink, M!FreshLink
  <2>2. OneDials'
    BY <1>1 DEF MeshInv, M!vars, OneDials, Dials, JoinComes, Unborn
  <2>3. ASSUME NEW a \in Seat PROVE Cardinality(M!LinkedTo(a)') <= MaxPeers
    <3>1. M!LinkedTo(a)' = M!LinkedTo(a)
      BY <1>1 DEF M!LinkedTo, M!vars
    <3> QED BY <3>1 DEF MeshInv
  <2> QED BY <2>1, <2>2, <2>3 DEF MeshInv
<1>2. ASSUME NEW p \in Seat, M!Connect(p) PROVE MeshInv'
  BY <1>2, ConnectInv
<1>3. ASSUME NEW p \in Seat, M!Leave(p) PROVE MeshInv'
  <2>1. faults' \in 0..MaxFaults /\ M!Finish(p)
    BY <1>3 DEF M!Leave, MeshInv, MeshTypes
  <2> QED BY <2>1, FinishInv
<1>4. ASSUME NEW p \in Seat, M!SocketDrop(p) PROVE MeshInv'
  <2>1. faults' \in 0..MaxFaults /\ M!Finish(p)
    BY <1>4, MeshAssumption DEF M!SocketDrop, MeshInv, MeshTypes
  <2> QED BY <2>1, FinishInv
<1>5. ASSUME NEW p \in Seat, M!SocketOpen(p) PROVE MeshInv'
  BY <1>5, SocketOpenInv
<1>6. ASSUME NEW p \in Seat, M!Delivers(p) PROVE MeshInv'
  BY <1>6, DeliverJoinInv, DeliverLeaveInv, DeliverOfferInv, DeliverAnswerInv DEF M!Delivers
<1>7. ASSUME NEW p \in Seat, M!Wakes(p) PROVE MeshInv'
  BY <1>7, OfferReadyInv, AnswerReadyInv DEF M!Wakes
<1>8. ASSUME NEW p \in Seat, NEW q \in Seat, M!ChannelOpens(p, q) \/ M!ConnectionLost(p, q)
      PROVE  MeshInv'
  BY <1>8, ChannelOpensInv, FailureInv
<1>9. ASSUME NEW p \in Seat, NEW k \in parked[p], M!OfferRejected(p, k) \/ M!AnswerRejected(p, k)
      PROVE  MeshInv'
  BY <1>9, OfferRejectedInv, AnswerRejectedInv
<1>10. ASSUME NEW p \in Seat, NEW q \in Seat, M!SessionDrops(p, q) \/ M!ConnectionFails(p, q)
       PROVE  MeshInv'
  BY <1>10, SessionDropsInv, FailureInv
<1> QED
  BY <1>1, <1>2, <1>3, <1>4, <1>5, <1>6, <1>7, <1>8, <1>9, <1>10 DEF M!Next, M!Events

(* The invariant is enough.                                                *)
LEMMA MeshImplies == MeshInv => M!InStep
<1> SUFFICES ASSUME MeshInv PROVE M!InStep
  OBVIOUS
<1>1. MeshTypes /\ Built /\ OneDials /\ M!SessionFollowsManager
  BY DEF MeshInv
<1>2. M!TypeOK
  <2>1. ASSUME NEW a \in Seat PROVE parked[a] \subseteq
               [kind : {"offer", "answer"}, with : Seat, pc : Nat, offer : M!Channels \cup {None}]
    BY <1>1 DEF MeshTypes, Waiting
  <2>2. ASSUME NEW a \in Seat, NEW i \in DOMAIN wire[a] PROVE wire[a][i] \in Wired
    BY <1>1 DEF MeshTypes
  <2> QED BY <1>1, <2>1, <2>2 DEF MeshTypes, M!TypeOK, Wired
<1>3. M!OffersNeverCross
  BY <1>1 DEF Built, OneDials, Dials, M!OffersNeverCross
<1>4. M!CapsAgree
  <2>1. ~M!NoLink.attached
    BY FreshFacts DEF M!NoLink
  <2>2. ASSUME NEW a \in Seat PROVE session[a] \subseteq M!LinkedTo(a)
    <3>1. session[a] \subseteq Seat
      BY <1>1 DEF MeshTypes
    <3> QED BY <1>1, <2>1, <3>1 DEF M!SessionFollowsManager, Built, M!LinkedTo
  <2> QED BY <2>2, SameCardinality DEF M!CapsAgree, MeshInv
<1> QED
  BY <1>1, <1>2, <1>3, <1>4 DEF M!InStep

-----------------------------------------------------------------------------
(* One behaviour of the runs moves one part.                               *)
LEMMA PartsMove ==
  ASSUME [MCNext]_<<part, vars, meshVars, linkVars, fileVars>>
  PROVE  [Next]_vars /\ [L!Next]_(L!vars) /\ [M!Next]_(M!vars)
<1>1. CASE UNCHANGED <<part, vars, meshVars, linkVars, fileVars>>
  BY <1>1 DEF vars, meshVars, linkVars, L!vars, M!vars
<1>2. CASE MCNext
  <2>1. Rest(part)
    BY <1>2 DEF MCNext
  <2>2. Next \/ UNCHANGED vars
    BY <1>2, <2>1 DEF MCNext, Rest
  <2>3. L!Next \/ UNCHANGED linkVars
    BY <1>2, <2>1 DEF MCNext, Rest
  <2>4. M!Next \/ UNCHANGED meshVars
    BY <1>2, <2>1 DEF MCNext, Rest
  <2> QED
    BY <2>2, <2>3, <2>4 DEF meshVars, linkVars, L!vars, M!vars
<1> QED
  BY <1>1, <1>2

(* observe() is exact in every run of the parts together.                  *)
THEOREM WindowStaysExact == MCSpec => []ObservesExactly
<1>1. MCInit => Init
  BY DEF MCInit
<1>2. [MCNext]_<<part, vars, meshVars, linkVars, fileVars>> => [Next]_vars
  BY PartsMove
<1> QED
  BY <1>1, <1>2, Exact, PTL DEF MCSpec, Spec

(* Wherever the Hello's resolution, the arrivals, the teardown and the     *)
(* completion fall, and for any bound on what is parked, each message that *)
(* arrived is in exactly one place, handshake messages are handed on in    *)
(* the order they came in, and a link is blamed only for a peer that did   *)
(* not say Hello once and first or sent more than the bound.               *)
THEOREM LinksAreFaithful == MCSpec => []InboundIsFaithful
<1>1. MCInit => LinkInv
  BY LinkInit DEF MCInit
<1>2. LinkInv /\ [MCNext]_<<part, vars, meshVars, linkVars, fileVars>> => LinkInv'
  BY PartsMove, LinkStep
<1>3. LinkInv => InboundIsFaithful
  BY LinkImplies DEF InboundIsFaithful
<1> QED
  BY <1>1, <1>2, <1>3, PTL DEF MCSpec

(* Among any number of seats, with sockets, connections and the browser's  *)
(* promises failing at any time, one end of a pair dials, a session holds  *)
(* links only for channels that its manager attached and still has, and    *)
(* neither goes over the cap.                                              *)
THEOREM MeshStaysInStep == MCSpec => []InStep
<1>1. MCInit => MeshInv
  BY MeshInit DEF MCInit
<1>2. MeshInv /\ [MCNext]_<<part, vars, meshVars, linkVars, fileVars>> => MeshInv'
  BY PartsMove, MeshStep
<1>3. MeshInv => InStep
  BY MeshImplies DEF InStep
<1> QED
  BY <1>1, <1>2, <1>3, PTL DEF MCSpec

-----------------------------------------------------------------------------
(* Induction and recursion over the subsets of a finite set, which is how  *)
(* the folds over sets of transfers are defined.                           *)

(* The element that a fold takes from a set.                               *)
Taken(s) == CHOOSE x \in s : TRUE

LEMMA SetInduction ==
  ASSUME NEW D, IsFiniteSet(D), NEW K, {} \in K,
         \A s \in SUBSET D : s # {} /\ s \ {Taken(s)} \in K => s \in K
  PROVE  SUBSET D \subseteq K
<1> DEFINE U == {s \in SUBSET D : s \notin K}
<1> SUFFICES ASSUME U # {} PROVE FALSE
  OBVIOUS
<1>1. U \subseteq FiniteSubsetsOf(D)
  BY FS_Subset DEF FiniteSubsetsOf
<1>2. PICK A \in U : \A B \in U : ~ (<<B, A>> \in StrictSubsetOrdering(D))
  <2> HIDE DEF U
  <2> QED BY <1>1, FS_StrictSubsetOrderingWellFounded, WFMin
<1>3. Taken(A) \in A
  BY DEF Taken
<1>4. A \ {Taken(A)} \in SUBSET D /\ A \ {Taken(A)} # A /\ A \ {Taken(A)} \subseteq A
  BY <1>3
<1>5. A \ {Taken(A)} \in K
  BY <1>2, <1>4 DEF StrictSubsetOrdering
<1> QED BY <1>4, <1>5

(* f folds step over the subsets of D from c.                              *)
IsFold(f, D, V, c, step) ==
  /\ f \in [SUBSET D -> V] /\ f[{}] = c
  /\ \A s \in SUBSET D : s # {} => f[s] = step[<<Taken(s), f[s \ {Taken(s)}]>>]

LEMMA TakenFacts ==
  ASSUME NEW D, IsFiniteSet(D), NEW s \in SUBSET D, s # {}
  PROVE  /\ Taken(s) \in s /\ Taken(s) \in D /\ s \ {Taken(s)} \in SUBSET D
         /\ Cardinality(s) \in Nat \ {0}
         /\ Cardinality(s \ {Taken(s)}) = Cardinality(s) - 1
<1>1. Taken(s) \in s
  BY DEF Taken
<1>2. IsFiniteSet(s)
  BY FS_Subset
<1>3. Cardinality(s) \in Nat /\ Cardinality(s) # 0
  BY <1>2, FS_CardinalityType, FS_EmptySet
<1>4. Cardinality(s \ {Taken(s)}) = Cardinality(s) - 1
  BY <1>1, <1>2, FS_RemoveElement
<1> QED BY <1>1, <1>3, <1>4

(* Such a fold exists.                                                     *)
LEMMA FoldExists ==
  ASSUME NEW D, IsFiniteSet(D), NEW V, NEW c \in V, NEW step \in [D \X V -> V]
  PROVE  \E f : IsFold(f, D, V, c, step)
<1> DEFINE n == Cardinality(D)
           Upto(k) == {s \in SUBSET D : Cardinality(s) <= k}
           Runs(k) == {f \in [Upto(k) -> V] : /\ f[{}] = c
                         /\ \A s \in Upto(k) : s # {} => f[s] = step[<<Taken(s), f[s \ {Taken(s)}]>>]}
           K == {k \in 0..n : Runs(k) # {}}
<1>0. n \in Nat /\ \A s \in SUBSET D : Cardinality(s) \in Nat /\ Cardinality(s) <= n
                                       /\ (Cardinality(s) = 0 <=> s = {})
  BY FS_Subset, FS_CardinalityType, FS_EmptySet
<1>1. 0 \in K
  <2>1. Upto(0) = {{}}
    BY <1>0, FS_EmptySet
  <2>2. [s \in Upto(0) |-> c] \in Runs(0)
    <3> HIDE DEF Upto
    <3>1. {} \in Upto(0) /\ \A s \in Upto(0) : s = {}
      BY <2>1
    <3> QED BY <3>1
  <2>3. 0 \in 0..n
    BY <1>0
  <2> HIDE DEF Runs, n
  <2> QED BY <2>2, <2>3
<1>2. ASSUME NEW k \in 0..n, k \in K, k < n PROVE k + 1 \in K
  <2>1. PICK f \in Runs(k) : TRUE
    BY <1>2
  <2> DEFINE g == [s \in Upto(k+1) |-> IF Cardinality(s) = k + 1
                                       THEN step[<<Taken(s), f[s \ {Taken(s)}]>>] ELSE f[s]]
  <2>2. ASSUME NEW s \in Upto(k+1)
        PROVE  /\ s \in SUBSET D
               /\ Cardinality(s) # k + 1 => s \in Upto(k)
               /\ s # {} => s \ {Taken(s)} \in Upto(k) /\ Taken(s) \in D
    <3>1. s \in SUBSET D /\ Cardinality(s) \in Nat /\ Cardinality(s) <= k + 1
      BY <1>0
    <3>2. CASE s = {}
      BY <3>1, <3>2, <1>2
    <3>3. CASE s # {}
      <4>1. Taken(s) \in D /\ s \ {Taken(s)} \in SUBSET D
            /\ Cardinality(s \ {Taken(s)}) = Cardinality(s) - 1
        BY <3>1, <3>3, TakenFacts
      <4> QED BY <3>1, <4>1, <1>2
    <3> QED BY <3>2, <3>3
  <2>3. \A s \in Upto(k) : s \in Upto(k+1) /\ Cardinality(s) # k + 1 /\ g[s] = f[s] /\ f[s] \in V
    <3> SUFFICES ASSUME NEW s \in Upto(k)
                 PROVE s \in Upto(k+1) /\ Cardinality(s) # k + 1 /\ g[s] = f[s] /\ f[s] \in V
      OBVIOUS
    <3>1. Cardinality(s) \in Nat /\ Cardinality(s) <= k /\ s \in SUBSET D
      BY <1>0
    <3>2. s \in Upto(k+1) /\ Cardinality(s) # k + 1
      BY <3>1, <1>2
    <3> QED BY <3>2, <2>1
  <2>4. {} \in Upto(k)
    BY <1>0, <1>2, FS_EmptySet
  <2>5. ASSUME NEW s \in Upto(k+1) PROVE g[s] \in V
    <3>1. CASE Cardinality(s) = k + 1
      <4>1. s # {}
        BY <3>1, <1>0, <1>2, FS_EmptySet
      <4>2. f[s \ {Taken(s)}] \in V /\ Taken(s) \in D
        BY <4>1, <2>2, <2>3
      <4>3. step[<<Taken(s), f[s \ {Taken(s)}]>>] \in V
        BY <4>2
      <4> QED BY <4>3, <3>1
    <3>2. CASE Cardinality(s) # k + 1
      BY <3>2, <2>2, <2>3
    <3> QED BY <3>1, <3>2
  <2>6. ASSUME NEW s \in Upto(k+1), s # {} PROVE g[s] = step[<<Taken(s), g[s \ {Taken(s)}]>>]
    <3>0. g[s \ {Taken(s)}] = f[s \ {Taken(s)}]
      BY <2>2, <2>3, <2>6
    <3>1. CASE Cardinality(s) = k + 1
      BY <3>0, <3>1
    <3>2. CASE Cardinality(s) # k + 1
      <4>1. s \in Upto(k) /\ g[s] = f[s]
        BY <3>2, <2>2, <2>3
      <4>2. f[s] = step[<<Taken(s), f[s \ {Taken(s)}]>>]
        BY <4>1, <2>1, <2>6
      <4> QED BY <4>1, <4>2, <3>0
    <3> QED BY <3>1, <3>2
  <2>7. g \in [Upto(k+1) -> V]
    BY <2>5
  <2>8. g[{}] = c
    BY <2>1, <2>3, <2>4
  <2>9. g \in Runs(k+1)
    <3> HIDE DEF g, Upto
    <3> QED BY <2>6, <2>7, <2>8
  <2>10. k + 1 \in 0..n
    BY <1>0, <1>2
  <2> HIDE DEF Runs, g
  <2> QED BY <2>9, <2>10
<1>3. n \in K
  <2> HIDE DEF K, n
  <2> QED BY <1>0, <1>1, <1>2, UpTo
<1>4. PICK f \in Runs(n) : TRUE
  BY <1>3
<1>5. Upto(n) = SUBSET D
  BY <1>0
<1> QED
  <2> HIDE DEF n, Upto
  <2> QED BY <1>4, <1>5 DEF IsFold

(* f[s] is the sum of W over s.                                            *)
IsTotal(f, W) ==
  /\ f \in [SUBSET DOMAIN W -> Nat] /\ f[{}] = 0
  /\ \A s \in SUBSET DOMAIN W : \A x \in s : f[s] = W[x] + f[s \ {x}]

Total(W, s) == (CHOOSE f : IsTotal(f, W))[s]

LEMMA TotalExists ==
  ASSUME NEW D, IsFiniteSet(D), NEW W \in [D -> Nat]
  PROVE  \E f : IsTotal(f, W)
<1> DEFINE n == Cardinality(D)
           step == [x \in D \X Nat |-> W[x[1]] + x[2]]
           S0 == Nat
           c == 0
<1>0. n \in Nat /\ \A s \in SUBSET D : Cardinality(s) \in Nat /\ Cardinality(s) <= n
  BY FS_Subset, FS_CardinalityType
<1>1. step \in [D \X Nat -> Nat]
  OBVIOUS
<1>2. PICK f : IsFold(f, D, S0, c, step)
  <2>1. c \in S0 /\ step \in [D \X S0 -> S0]
    BY <1>1
  <2> HIDE DEF step, S0, c
  <2> QED BY <2>1, FoldExists
<1>3. f \in [SUBSET D -> Nat] /\ f[{}] = 0
  BY <1>2 DEF IsFold
<1>4. ASSUME NEW s \in SUBSET D, s # {}
      PROVE f[s] = W[Taken(s)] + f[s \ {Taken(s)}] /\ Taken(s) \in s
  <2>1. Taken(s) \in D /\ s \ {Taken(s)} \in SUBSET D /\ Taken(s) \in s
    BY <1>4, TakenFacts
  <2>2. f[s] = step[<<Taken(s), f[s \ {Taken(s)}]>>]
    <3> HIDE DEF step
    <3> QED BY <1>2, <1>4 DEF IsFold
  <2>3. f[s \ {Taken(s)}] \in Nat
    BY <2>1, <1>3
  <2> QED BY <2>1, <2>2, <2>3
<1> DEFINE Any(s) == \A x \in s : f[s] = W[x] + f[s \ {x}]
           K == {k \in 0..n : \A s \in SUBSET D : Cardinality(s) <= k => Any(s)}
<1>5. 0 \in K
  <2>1. ASSUME NEW s \in SUBSET D, Cardinality(s) <= 0 PROVE s = {}
    <3>1. CASE s # {}
      <4>1. Cardinality(s) \in Nat \ {0}
        BY <3>1, TakenFacts
      <4> QED BY <4>1, <2>1
    <3> QED BY <3>1
  <2>2. \A s \in SUBSET D : Cardinality(s) <= 0 => Any(s)
    BY <2>1
  <2> QED BY <2>2, <1>0
<1>6. ASSUME NEW k \in 0..n, k \in K, k < n PROVE k + 1 \in K
  <2>1. ASSUME NEW s \in SUBSET D, Cardinality(s) <= k + 1, NEW x \in s
        PROVE  f[s] = W[x] + f[s \ {x}]
    <3> DEFINE y == Taken(s)
    <3>1. y \in s /\ y \in D /\ f[s] = W[y] + f[s \ {y}]
          /\ Cardinality(s \ {y}) = Cardinality(s) - 1 /\ Cardinality(s) \in Nat
      BY <1>4, TakenFacts
    <3> HIDE DEF y
    <3>2. CASE x = y
      BY <3>1, <3>2, Zenon
    <3>3. CASE x # y
      <4>1. IsFiniteSet(s)
        BY FS_Subset
      <4>2. Cardinality(s \ {x}) = Cardinality(s) - 1
        BY <4>1, FS_RemoveElement
      <4>3. Cardinality(s \ {x}) <= k /\ Cardinality(s \ {y}) <= k
        BY <2>1, <3>1, <4>2
      <4>4. s \ {x} \in SUBSET D /\ s \ {y} \in SUBSET D /\ y \in s \ {x} /\ x \in s \ {y}
        BY <3>1, <3>3
      <4>5. f[s \ {x}] = W[y] + f[(s \ {x}) \ {y}] /\ f[s \ {y}] = W[x] + f[(s \ {y}) \ {x}]
        BY <1>6, <4>3, <4>4
      <4>6. (s \ {x}) \ {y} = (s \ {y}) \ {x} /\ (s \ {y}) \ {x} \in SUBSET D
        OBVIOUS
      <4>7. W[x] \in Nat /\ W[y] \in Nat /\ f[(s \ {y}) \ {x}] \in Nat
        BY <1>3, <3>1, <4>6
      <4>8. f[(s \ {x}) \ {y}] = f[(s \ {y}) \ {x}]
        BY <4>6
      <4>9. f[s] = W[y] + (W[x] + f[(s \ {y}) \ {x}]) /\ f[s \ {x}] = W[y] + f[(s \ {y}) \ {x}]
        BY <3>1, <4>5, <4>8
      <4> QED BY <4>7, <4>9
    <3> QED BY <3>2, <3>3
  <2>2. \A s \in SUBSET D : Cardinality(s) <= k + 1 => Any(s)
    BY <2>1
  <2>3. k + 1 \in 0..n
    BY <1>0, <1>6
  <2> HIDE DEF n, Any
  <2> QED BY <2>2, <2>3
<1>7. n \in K
  <2> HIDE DEF K, n
  <2> QED BY <1>0, <1>5, <1>6, UpTo
<1>8. DOMAIN W = D
  OBVIOUS
<1>9. \A s \in SUBSET D : \A x \in s : f[s] = W[x] + f[s \ {x}]
  BY <1>0, <1>7
<1> QED BY <1>3, <1>8, <1>9 DEF IsTotal

LEMMA TotalFacts ==
  ASSUME NEW D, IsFiniteSet(D), NEW W \in [D -> Nat]
  PROVE  /\ Total(W, {}) = 0
         /\ \A s \in SUBSET D : /\ Total(W, s) \in Nat
                                /\ \A x \in s : Total(W, s) = W[x] + Total(W, s \ {x})
<1> DEFINE f == CHOOSE f : IsTotal(f, W)
<1>1. IsTotal(f, W)
  BY TotalExists
<1>2. DOMAIN W = D /\ \A s : Total(W, s) = f[s]
  BY DEF Total
<1> HIDE DEF f
<1> QED BY <1>1, <1>2 DEF IsTotal

(* A sum depends on the summands only.                                     *)
LEMMA TotalAgrees ==
  ASSUME NEW D, IsFiniteSet(D), NEW W \in [D -> Nat], NEW X \in [D -> Nat],
         NEW s \in SUBSET D, \A x \in s : W[x] = X[x]
  PROVE  Total(W, s) = Total(X, s)
<1> DEFINE K == {t \in SUBSET s : Total(W, t) = Total(X, t)}
<1>1. {} \in K
  BY TotalFacts
<1>2. ASSUME NEW t \in SUBSET s, t # {}, t \ {Taken(t)} \in K PROVE t \in K
  <2>1. Taken(t) \in t
    BY <1>2 DEF Taken
  <2>2. t \in SUBSET D /\ W[Taken(t)] = X[Taken(t)]
    BY <2>1
  <2>3. Total(W, t) = W[Taken(t)] + Total(W, t \ {Taken(t)})
    BY <2>1, <2>2, TotalFacts
  <2>4. Total(X, t) = X[Taken(t)] + Total(X, t \ {Taken(t)})
    BY <2>1, <2>2, TotalFacts
  <2> QED BY <1>2, <2>2, <2>3, <2>4
<1>3. SUBSET s \subseteq K
  <2>1. IsFiniteSet(s)
    BY FS_Subset
  <2> HIDE DEF K
  <2> QED BY <1>1, <1>2, <2>1, SetInduction
<1> QED BY <1>3

(* One element comes, goes or changes.                                     *)
LEMMA TotalAdds ==
  ASSUME NEW D, IsFiniteSet(D), NEW W \in [D -> Nat], NEW X \in [D -> Nat],
         NEW s \in SUBSET D, NEW x \in D \ s, \A y \in s : W[y] = X[y]
  PROVE  Total(X, s \cup {x}) = Total(W, s) + X[x]
<1>1. Total(X, s \cup {x}) = X[x] + Total(X, (s \cup {x}) \ {x})
  <2>1. s \cup {x} \in SUBSET D /\ x \in s \cup {x}
    OBVIOUS
  <2> QED BY <2>1, TotalFacts
<1>2. (s \cup {x}) \ {x} = s
  OBVIOUS
<1>3. Total(W, s) = Total(X, s)
  BY TotalAgrees
<1>4. Total(W, s) \in Nat
  BY TotalFacts
<1> QED BY <1>1, <1>2, <1>3, <1>4

LEMMA TotalRemoves ==
  ASSUME NEW D, IsFiniteSet(D), NEW W \in [D -> Nat], NEW X \in [D -> Nat],
         NEW s \in SUBSET D, NEW x \in s, \A y \in s \ {x} : W[y] = X[y]
  PROVE  Total(X, s \ {x}) = Total(W, s) - W[x] /\ W[x] <= Total(W, s)
<1>1. Total(W, s) = W[x] + Total(W, s \ {x})
  BY TotalFacts
<1>2. Total(W, s \ {x}) = Total(X, s \ {x})
  <2>1. s \ {x} \in SUBSET D
    OBVIOUS
  <2> QED BY <2>1, TotalAgrees
<1>3. Total(W, s \ {x}) \in Nat
  BY TotalFacts
<1> QED BY <1>1, <1>2, <1>3

LEMMA TotalChanges ==
  ASSUME NEW D, IsFiniteSet(D), NEW W \in [D -> Nat], NEW X \in [D -> Nat],
         NEW s \in SUBSET D, NEW x \in s, \A y \in s \ {x} : W[y] = X[y]
  PROVE  Total(X, s) = Total(W, s) - W[x] + X[x] /\ W[x] <= Total(W, s)
<1>1. Total(X, s \ {x}) = Total(W, s) - W[x] /\ W[x] <= Total(W, s)
  BY TotalRemoves
<1>2. Total(X, s) = X[x] + Total(X, s \ {x})
  BY TotalFacts
<1>3. Total(W, s) \in Nat
  BY TotalFacts
<1> QED BY <1>1, <1>2, <1>3

(* What a fold returns is in every set that its step does not leave.       *)
LEMMA FoldStays ==
  ASSUME NEW s, IsFiniteSet(s), NEW V, NEW g, g[{}] \in V,
         \A t \in SUBSET s : t # {} /\ g[t \ {Taken(t)}] \in V => g[t] \in V
  PROVE  g[s] \in V
<1> DEFINE K == {t \in SUBSET s : g[t] \in V}
<1>1. \A t \in SUBSET s : t # {} /\ t \ {Taken(t)} \in K => t \in K
  OBVIOUS
<1>2. {} \in K
  OBVIOUS
<1>3. SUBSET s \subseteq K
  <2> HIDE DEF K
  <2> QED BY <1>1, <1>2, SetInduction
<1> QED BY <1>3

-----------------------------------------------------------------------------
(* The chunks of a file.                                                   *)

(* What the first k chunks hold.                                           *)
Prefix(size, k) == IF k * ChunkBytes < size THEN k * ChunkBytes ELSE size

LEMMA ChunkFacts ==
  ASSUME NEW size \in Nat
  PROVE  /\ T!ChunkCount(size) \in Nat
         /\ \A k \in Nat : k < T!ChunkCount(size) <=> k * ChunkBytes < size
<1> DEFINE B == ChunkBytes
           q == T!ChunkCount(size)
<1>0. B \in Nat \ {0}
  BY FileAssumption
<1>1. q = (size + B - 1) \div B
  BY DEF T!ChunkCount
<1>2. q \in Nat /\ q * B <= size + B - 1 /\ size + B - 1 < (q + 1) * B
  <2> HIDE DEF B, q
  <2>1. size + B - 1 \in Nat
    BY <1>0
  <2> QED BY <1>0, <1>1, <2>1
<1>3. ASSUME NEW k \in Nat PROVE k < q <=> k * B < size
  <2> HIDE DEF B, q
  <2>1. ASSUME k < q PROVE k * B < size
    <3>1. (k + 1) * B <= q * B
      BY <1>0, <1>2, <2>1
    <3> QED BY <1>0, <1>2, <3>1
  <2>2. ASSUME ~ (k < q) PROVE ~ (k * B < size)
    <3>1. q * B <= k * B /\ (q + 1) * B = q * B + B /\ k * B \in Nat /\ q * B \in Nat
      BY <1>0, <1>2, <2>2
    <3>2. size + B - 1 < k * B + B
      BY <1>0, <1>2, <3>1
    <3>3. size <= k * B
      BY <1>0, <3>1, <3>2
    <3> QED BY <3>1, <3>3
  <2> QED BY <2>1, <2>2
<1>4. \A k \in Nat : k < T!ChunkCount(size) <=> k * ChunkBytes < size
  <2> HIDE DEF q
  <2>1. q = T!ChunkCount(size)
    BY DEF q
  <2> HIDE DEF B
  <2>2. \A k \in Nat : k < q <=> k * B < size
    BY <1>3
  <2> USE DEF B
  <2> QED BY <2>1, <2>2, Zenon
<1>5. q \in Nat
  BY <1>2
<1> QED BY <1>4, <1>5

LEMMA PrefixFacts ==
  ASSUME NEW size \in Nat, NEW k \in Nat
  PROVE  /\ Prefix(size, k) \in Nat /\ Prefix(size, k) <= size
         /\ Prefix(size, 0) = 0 /\ Prefix(size, T!ChunkCount(size)) = size
         /\ k < T!ChunkCount(size) =>
              /\ T!ChunkLength(size, k) \in Nat
              /\ Prefix(size, k) + T!ChunkLength(size, k) = Prefix(size, k + 1)
<1>0. ChunkBytes \in Nat \ {0}
  BY FileAssumption
<1>1. T!ChunkCount(size) \in Nat /\ \A i \in Nat : i < T!ChunkCount(size) <=> i * ChunkBytes < size
  BY ChunkFacts
<1>2. k * ChunkBytes \in Nat /\ (k + 1) * ChunkBytes = k * ChunkBytes + ChunkBytes /\ 0 * ChunkBytes = 0
  BY <1>0
<1>3. Prefix(size, k) \in Nat /\ Prefix(size, k) <= size
  BY <1>2 DEF Prefix
<1>4. Prefix(size, 0) = 0
  BY <1>2 DEF Prefix
<1>5. Prefix(size, T!ChunkCount(size)) = size
  BY <1>1 DEF Prefix
<1>6. ASSUME k < T!ChunkCount(size)
      PROVE  /\ T!ChunkLength(size, k) \in Nat
             /\ Prefix(size, k) + T!ChunkLength(size, k) = Prefix(size, k + 1)
  <2>1. k * ChunkBytes < size
    BY <1>1, <1>6
  <2> QED BY <1>0, <1>2, <2>1 DEF Prefix, T!ChunkLength
<1> QED BY <1>3, <1>4, <1>5, <1>6

-----------------------------------------------------------------------------
(* The accounts of a receiver.                                             *)

Got(r) == [id \in T!Ids |-> r.object[id].received]
Due(r) == [id \in T!Ids |-> r.object[id].size - r.object[id].received]

(* The counters are the sums over the map, and within the limits.          *)
Books(r) ==
  /\ \A id \in T!Ids : /\ r.object[id].received <= r.object[id].size
                       /\ id \in r.transfers <=> r.object[id].dropped = FALSE
  /\ r.buffered = Total(Got(r), r.transfers)
  /\ r.outstanding = Total(Due(r), r.transfers)
  /\ r.buffered + r.outstanding <= Budget
  /\ Cardinality(r.transfers) <= MaxTransfers

LEMMA ReceiverFields ==
  ASSUME NEW r \in T!Receivers
  PROVE  /\ r.transfers \in SUBSET T!Ids /\ r.object \in [T!Ids -> T!Transfers]
         /\ r.hashing \in T!Ids \cup {0} /\ r.buffered \in Nat /\ r.outstanding \in Nat
         /\ r.tornDown \in BOOLEAN /\ r.fate \in [T!Ids -> SUBSET T!Fates]
         /\ r.errors \in SUBSET (T!Ids \X T!Errors)
         /\ \A id \in T!Ids : /\ r.object[id].size \in Nat /\ r.object[id].chunks \in SUBSET Nat
                              /\ r.object[id].received \in Nat /\ r.object[id].dropped \in BOOLEAN
<1>1. r.object \in [T!Ids -> T!Transfers]
  BY DEF T!Receivers
<1>2. \A id \in T!Ids : r.object[id] \in T!Transfers
  BY <1>1
<1>3. \A id \in T!Ids : /\ r.object[id].size \in Nat /\ r.object[id].chunks \in SUBSET Nat
                        /\ r.object[id].received \in Nat /\ r.object[id].dropped \in BOOLEAN
  BY <1>2 DEF T!Transfers
<1>4. /\ r.transfers \in SUBSET T!Ids
      /\ r.hashing \in T!Ids \cup {0} /\ r.buffered \in Nat /\ r.outstanding \in Nat
  BY DEF T!Receivers
<1>5. /\ r.tornDown \in BOOLEAN /\ r.fate \in [T!Ids -> SUBSET T!Fates]
      /\ r.errors \in SUBSET (T!Ids \X T!Errors)
  BY DEF T!Receivers
<1> QED BY <1>1, <1>3, <1>4, <1>5

LEMMA IdsFinite == IsFiniteSet(T!Ids)
  BY FS_Interval, FileAssumption DEF T!Ids

LEMMA Counted ==
  ASSUME NEW r \in T!Receivers, Books(r)
  PROVE  Got(r) \in [T!Ids -> Nat] /\ Due(r) \in [T!Ids -> Nat]
<1>1. ASSUME NEW id \in T!Ids
      PROVE  r.object[id].received \in Nat /\ r.object[id].size - r.object[id].received \in Nat
  BY ReceiverFields DEF Books
<1> QED BY <1>1 DEF Got, Due

(* d is r without the transfer, and its objects still hold what they held. *)
Dropped(r, id, d) ==
  /\ d \in T!Receivers /\ d.transfers = r.transfers \ {id}
  /\ d.hashing = r.hashing /\ d.tornDown = r.tornDown
  /\ d.fate = r.fate /\ d.errors = r.errors
  /\ \A k \in T!Ids : /\ d.object[k].size = r.object[k].size
                      /\ d.object[k].chunks = r.object[k].chunks
                      /\ d.object[k].received = r.object[k].received

LEMMA DropFacts ==
  ASSUME NEW r \in T!Receivers, Books(r), NEW id \in T!Ids, NEW d, d = T!Drop(r, id)
  PROVE  Dropped(r, id, d) /\ Books(d)
<1>1. CASE r.object[id].dropped = TRUE
  <2>1. d = r
    BY <1>1 DEF T!Drop
  <2>2. r.transfers \ {id} = r.transfers
    BY <1>1 DEF Books
  <2> QED BY <2>1, <2>2 DEF Dropped
<1>2. CASE r.object[id].dropped = FALSE
  <2> DEFINE o == r.object[id]
  <2>0. id \in r.transfers /\ o.received <= o.size
    BY <1>2 DEF Books
  <2>1. d = [r EXCEPT !.transfers = @ \ {id}, !.object[id].dropped = TRUE,
                    !.buffered = @ - o.received,
                    !.outstanding = @ - (o.size - o.received)]
    BY <1>2 DEF T!Drop
  <2>2. /\ d.transfers = r.transfers \ {id} /\ d.object = [r.object EXCEPT ![id].dropped = TRUE]
        /\ d.buffered = r.buffered - o.received
        /\ d.outstanding = r.outstanding - (o.size - o.received)
        /\ d.hashing = r.hashing /\ d.tornDown = r.tornDown
        /\ d.fate = r.fate /\ d.errors = r.errors
    BY <2>1 DEF T!Receivers
  <2>3. \A k \in T!Ids : /\ d.object[k].size = r.object[k].size
                         /\ d.object[k].chunks = r.object[k].chunks
                         /\ d.object[k].received = r.object[k].received
                         /\ k # id => d.object[k] = r.object[k]
    BY <2>2, ReceiverFields DEF T!Transfers
  <2>4. d.object[id].dropped = TRUE
    BY <2>2, ReceiverFields DEF T!Transfers
  <2>5. Got(r) \in [T!Ids -> Nat] /\ Due(r) \in [T!Ids -> Nat]
    BY Counted
  <2>6. Got(d) = Got(r) /\ Due(d) = Due(r)
    BY <2>3 DEF Got, Due
  <2>7. /\ Total(Got(r), r.transfers \ {id}) = Total(Got(r), r.transfers) - Got(r)[id]
        /\ Got(r)[id] <= Total(Got(r), r.transfers)
        /\ Total(Due(r), r.transfers \ {id}) = Total(Due(r), r.transfers) - Due(r)[id]
        /\ Due(r)[id] <= Total(Due(r), r.transfers)
    <3>1. r.transfers \in SUBSET T!Ids
      BY ReceiverFields
    <3> QED BY <2>0, <2>5, <3>1, IdsFinite, TotalRemoves
  <2>8. Got(r)[id] = o.received /\ Due(r)[id] = o.size - o.received
        /\ o.received \in Nat /\ o.size \in Nat
    BY ReceiverFields DEF Got, Due
  <2>9. d.buffered \in Nat /\ d.outstanding \in Nat
        /\ d.buffered = Total(Got(d), d.transfers) /\ d.outstanding = Total(Due(d), d.transfers)
        /\ d.buffered + d.outstanding <= Budget
    <3>1. r.buffered = Total(Got(r), r.transfers) /\ r.outstanding = Total(Due(r), r.transfers)
          /\ r.buffered + r.outstanding <= Budget /\ r.buffered \in Nat /\ r.outstanding \in Nat
      BY ReceiverFields DEF Books
    <3> HIDE DEF o
    <3> QED BY <2>0, <2>2, <2>6, <2>7, <2>8, <3>1, FileAssumption
  <2>10. d \in T!Receivers
    <3>1. d.object \in [T!Ids -> T!Transfers]
      <4>1. [r.object[id] EXCEPT !.dropped = TRUE] \in T!Transfers
        <5>1. r.object[id] \in T!Transfers
          BY ReceiverFields
        <5> HIDE DEF o
        <5> QED BY <5>1 DEF T!Transfers
      <4>2. r.object \in [T!Ids -> T!Transfers]
        BY ReceiverFields
      <4>3. d.object = [r.object EXCEPT ![id] = [r.object[id] EXCEPT !.dropped = TRUE]]
        BY <2>2
      <4> QED BY <4>1, <4>2, <4>3, Zenon
    <3>2. d = [r EXCEPT !.transfers = d.transfers, !.object = d.object,
                       !.buffered = d.buffered, !.outstanding = d.outstanding]
      BY <2>1 DEF T!Receivers
    <3>3. d.transfers \in SUBSET T!Ids
      BY <2>2, ReceiverFields
    <3> QED BY <2>9, <3>1, <3>2, <3>3 DEF T!Receivers
  <2>11. Cardinality(d.transfers) <= MaxTransfers
    <3>1. IsFiniteSet(r.transfers)
      BY ReceiverFields, IdsFinite, FS_Subset
    <3>2. Cardinality(d.transfers) = Cardinality(r.transfers) - 1 /\ Cardinality(r.transfers) \in Nat
      BY <2>0, <2>2, <3>1, FS_RemoveElement, FS_CardinalityType
    <3> QED BY <3>2, FileAssumption DEF Books
  <2>12. ASSUME NEW k \in T!Ids
         PROVE  d.object[k].received <= d.object[k].size
                /\ (k \in d.transfers <=> d.object[k].dropped = FALSE)
    <3>1. r.object[k].received <= r.object[k].size
          /\ (k \in r.transfers <=> r.object[k].dropped = FALSE)
      BY DEF Books
    <3>2. CASE k = id
      BY <2>2, <2>3, <2>4, <3>1, <3>2
    <3>3. CASE k # id
      BY <2>2, <2>3, <3>1, <3>3
    <3> QED BY <3>2, <3>3
  <2> QED
    <3> HIDE DEF o
    <3>1. Dropped(r, id, d)
      BY <2>2, <2>3, <2>10 DEF Dropped
    <3>2. Books(d)
      BY <2>9, <2>11, <2>12 DEF Books
    <3> QED BY <3>1, <3>2
<1> QED BY <1>1, <1>2, ReceiverFields

LEMMA MetFacts ==
  ASSUME NEW r \in T!Receivers, NEW id \in T!Ids, NEW fate \in T!Fates, NEW d,
         d = T!Met(r, id, fate)
  PROVE  /\ d \in T!Receivers /\ d.transfers = r.transfers /\ d.object = r.object
         /\ d.hashing = r.hashing /\ d.tornDown = r.tornDown /\ d.errors = r.errors
         /\ d.buffered = r.buffered /\ d.outstanding = r.outstanding
         /\ d.fate[id] = r.fate[id] \cup {fate}
         /\ \A k \in T!Ids : k # id => d.fate[k] = r.fate[k]
         /\ Books(r) => Books(d)
<1>1. /\ d.transfers = r.transfers /\ d.object = r.object
      /\ d.hashing = r.hashing /\ d.tornDown = r.tornDown /\ d.errors = r.errors
      /\ d.buffered = r.buffered /\ d.outstanding = r.outstanding
      /\ d.fate = [r.fate EXCEPT ![id] = @ \cup {fate}]
  BY DEF T!Met, T!Receivers
<1>2. d.fate[id] = r.fate[id] \cup {fate} /\ \A k \in T!Ids : k # id => d.fate[k] = r.fate[k]
  BY <1>1, ReceiverFields
<1>3. d \in T!Receivers
  <2>1. d.fate \in [T!Ids -> SUBSET T!Fates]
    BY <1>1, ReceiverFields
  <2>2. d = [r EXCEPT !.fate = d.fate]
    BY <1>1 DEF T!Met, T!Receivers
  <2> QED BY <2>1, <2>2 DEF T!Receivers
<1>4. Got(d) = Got(r) /\ Due(d) = Due(r)
  BY <1>1 DEF Got, Due
<1>5. Books(r) => Books(d)
  BY <1>1, <1>4 DEF Books
<1> QED BY <1>1, <1>2, <1>3, <1>5

LEMMA SameSize == ASSUME NEW S PROVE T!Cardinality(S) = Cardinality(S)
  BY DEF T!Cardinality, Cardinality

LEMMA FrameFields ==
  ASSUME NEW f \in T!Frames
  PROVE  /\ f.id \in T!Ids /\ f.size \in Nat /\ f.chunk \in Nat /\ f.plain.size \in Nat
         /\ f.type \in {"manifest", "chunk", "cancel"}
<1>1. f.plain \in [DOMAIN T!NoPlain -> Nat] /\ "size" \in DOMAIN T!NoPlain
  BY DEF T!Frames, T!NoPlain
<1>2. f.plain.size \in Nat
  BY <1>1
<1>3. f.id \in T!Ids /\ f.size \in Nat /\ f.chunk \in Nat
  BY DEF T!Frames
<1>4. f.type \in {"manifest", "chunk", "cancel"}
  BY DEF T!Frames
<1> QED BY <1>2, <1>3, <1>4

(* The latch of the completion is all that CompleteIfWhole sets.           *)
LEMMA WholeFacts ==
  ASSUME NEW r \in T!Receivers, NEW id \in T!Ids, NEW d, d = T!CompleteIfWhole(r, id)
  PROVE  /\ d \in T!Receivers /\ d.transfers = r.transfers /\ d.object = r.object
         /\ d.tornDown = r.tornDown /\ d.errors = r.errors /\ d.fate = r.fate
         /\ d.hashing = IF Cardinality(r.object[id].chunks) = T!ChunkCount(r.object[id].size)
                        THEN id ELSE r.hashing
         /\ Books(r) => Books(d)
<1>1. CASE Cardinality(r.object[id].chunks) = T!ChunkCount(r.object[id].size)
  <2>1. d = [r EXCEPT !.hashing = id]
    BY <1>1, SameSize DEF T!CompleteIfWhole
  <2>2. /\ d.transfers = r.transfers /\ d.object = r.object /\ d.hashing = id
        /\ d.tornDown = r.tornDown /\ d.errors = r.errors /\ d.fate = r.fate
        /\ d.buffered = r.buffered /\ d.outstanding = r.outstanding
    BY <2>1 DEF T!Receivers
  <2>3. d \in T!Receivers
    BY <2>1 DEF T!Receivers
  <2>4. Got(d) = Got(r) /\ Due(d) = Due(r)
    BY <2>2 DEF Got, Due
  <2>5. Books(r) => Books(d)
    BY <2>2, <2>4 DEF Books
  <2> QED BY <1>1, <2>2, <2>3, <2>5
<1>2. CASE Cardinality(r.object[id].chunks) # T!ChunkCount(r.object[id].size)
  <2>1. d = r
    BY <1>2, SameSize DEF T!CompleteIfWhole
  <2> QED BY <1>2, <2>1
<1> QED BY <1>1, <1>2

LEMMA AdmitFacts ==
  ASSUME NEW r \in T!Receivers, Books(r), NEW f \in T!Frames, T!ManifestError(r, f) = "none",
         NEW d, d = T!Admit(r, f)
  PROVE  /\ d \in T!Receivers /\ Books(d)
         /\ f.id \notin r.transfers /\ d.transfers = r.transfers \cup {f.id}
         /\ d.tornDown = r.tornDown /\ d.errors = r.errors /\ d.fate = r.fate
         /\ d.object[f.id].size = f.plain.size /\ d.object[f.id].chunks = {}
         /\ d.object[f.id].received = 0
         /\ \A k \in T!Ids : k # f.id => d.object[k] = r.object[k]
         /\ d.hashing = IF T!ChunkCount(f.plain.size) = 0 THEN f.id ELSE r.hashing
<1> DEFINE o == [T!NoTransfer EXCEPT !.size = f.plain.size, !.dropped = FALSE]
           e == [r EXCEPT !.transfers = @ \cup {f.id}, !.outstanding = @ + f.plain.size,
                          !.object[f.id] = o]
<1>0. f.id \in T!Ids /\ f.plain.size \in Nat
  BY FrameFields
<1>1. /\ f.id \notin r.transfers /\ Cardinality(r.transfers) < MaxTransfers
      /\ r.buffered + r.outstanding + f.plain.size <= Budget
  <2>1. T!DecodeError(f.plain, f.id) = "none"
    BY DEF T!ManifestError
  <2>2. f.id \notin r.transfers /\ ~ (T!Cardinality(r.transfers) >= MaxTransfers)
        /\ ~ (r.buffered + r.outstanding + f.plain.size > Budget)
    BY <2>1 DEF T!ManifestError
  <2>3. Cardinality(r.transfers) \in Nat
    BY ReceiverFields, IdsFinite, FS_Subset, FS_CardinalityType
  <2> QED BY <2>2, <2>3, SameSize, ReceiverFields, <1>0, FileAssumption
<1>2. d = T!CompleteIfWhole(e, f.id)
  BY DEF T!Admit
<1>3. o.size = f.plain.size /\ o.chunks = {} /\ o.received = 0 /\ o.dropped = FALSE
  BY DEF T!NoTransfer
<1>4. /\ e.transfers = r.transfers \cup {f.id} /\ e.object = [r.object EXCEPT ![f.id] = o]
      /\ e.buffered = r.buffered /\ e.outstanding = r.outstanding + f.plain.size
      /\ e.hashing = r.hashing /\ e.tornDown = r.tornDown /\ e.fate = r.fate /\ e.errors = r.errors
  <2>1. e = [r EXCEPT !.transfers = @ \cup {f.id}, !.outstanding = @ + f.plain.size,
                      !.object = [@ EXCEPT ![f.id] = o]]
    <3> HIDE DEF o
    <3> QED BY Zenon
  <2> HIDE DEF o, e
  <2> QED BY <2>1 DEF T!Receivers
<1>5. o \in T!Transfers
  BY <1>0 DEF T!Transfers, T!NoTransfer
<1>6. e.object \in [T!Ids -> T!Transfers] /\ e.object[f.id] = o
      /\ \A k \in T!Ids : k # f.id => e.object[k] = r.object[k]
  <2> HIDE DEF o, e
  <2>1. r.object \in [T!Ids -> T!Transfers]
    BY ReceiverFields
  <2> QED BY <1>0, <1>4, <1>5, <2>1
<1>7. e \in T!Receivers
  <2>1. e = [r EXCEPT !.transfers = e.transfers, !.object = e.object, !.outstanding = e.outstanding]
    <3> HIDE DEF o
    <3> QED BY <1>4 DEF T!Receivers
  <2>2. e.transfers \in SUBSET T!Ids /\ e.outstanding \in Nat
    BY <1>0, <1>4, ReceiverFields
  <2> HIDE DEF e
  <2> QED BY <1>6, <2>1, <2>2 DEF T!Receivers
<1>8. Books(e)
  <2>1. Got(r) \in [T!Ids -> Nat] /\ Due(r) \in [T!Ids -> Nat]
    BY Counted
  <2>2. Got(e) = [Got(r) EXCEPT ![f.id] = 0] /\ Due(e) = [Due(r) EXCEPT ![f.id] = f.plain.size]
    <3>1. \A k \in T!Ids : k # f.id => e.object[k] = r.object[k]
      BY <1>6
    <3> HIDE DEF e, o
    <3>2. e.object[f.id].received = 0 /\ e.object[f.id].size = f.plain.size
      BY <1>3, <1>6
    <3>3. f.plain.size - 0 = f.plain.size
      BY <1>0
    <3> QED BY <3>1, <3>2, <3>3, <1>0 DEF Got, Due
  <2> HIDE DEF e
  <2> DEFINE G == Got(e)
             H == Due(e)
  <2>3. G \in [T!Ids -> Nat] /\ H \in [T!Ids -> Nat] /\ G[f.id] = 0 /\ H[f.id] = f.plain.size
        /\ \A k \in T!Ids : k # f.id => Got(r)[k] = G[k] /\ Due(r)[k] = H[k]
    BY <2>1, <2>2, <1>0
  <2>4. r.transfers \in SUBSET T!Ids /\ f.id \in T!Ids \ r.transfers
        /\ (\A k \in r.transfers : Got(r)[k] = G[k]) /\ (\A k \in r.transfers : Due(r)[k] = H[k])
    BY <2>3, <1>0, <1>1, ReceiverFields
  <2>5. Total(G, e.transfers) = Total(Got(r), r.transfers) + 0
        /\ Total(H, e.transfers) = Total(Due(r), r.transfers) + f.plain.size
    <3> HIDE DEF G, H
    <3>1. Total(G, r.transfers \cup {f.id}) = Total(Got(r), r.transfers) + G[f.id]
      BY <2>1, <2>3, <2>4, IdsFinite, TotalAdds
    <3>2. Total(H, r.transfers \cup {f.id}) = Total(Due(r), r.transfers) + H[f.id]
      BY <2>1, <2>3, <2>4, IdsFinite, TotalAdds
    <3> QED BY <3>1, <3>2, <2>3, <1>4
  <2>6. r.buffered = Total(Got(r), r.transfers) /\ r.outstanding = Total(Due(r), r.transfers)
    BY DEF Books
  <2>7. e.buffered = Total(G, e.transfers) /\ e.outstanding = Total(H, e.transfers)
        /\ e.buffered + e.outstanding <= Budget
    <3> HIDE DEF G, H
    <3> QED BY <2>5, <2>6, <1>0, <1>1, <1>4, ReceiverFields, FileAssumption
  <2>8. Cardinality(e.transfers) <= MaxTransfers
    <3>1. IsFiniteSet(r.transfers)
      BY ReceiverFields, IdsFinite, FS_Subset
    <3>2. Cardinality(e.transfers) = Cardinality(r.transfers) + 1 /\ Cardinality(r.transfers) \in Nat
      BY <1>1, <1>4, <3>1, FS_AddElement, FS_CardinalityType
    <3> QED BY <1>1, <3>2, FileAssumption
  <2>9. ASSUME NEW k \in T!Ids
        PROVE  e.object[k].received <= e.object[k].size
               /\ (k \in e.transfers <=> e.object[k].dropped = FALSE)
    <3> HIDE DEF o
    <3>1. CASE k = f.id
      BY <3>1, <1>0, <1>3, <1>4, <1>6
    <3>2. CASE k # f.id
      BY <3>2, <1>4, <1>6 DEF Books
    <3> QED BY <3>1, <3>2
  <2> QED BY <2>7, <2>8, <2>9 DEF Books
<1>9. Cardinality(e.object[f.id].chunks) = 0 /\ e.object[f.id].size = f.plain.size
  <2> HIDE DEF e, o
  <2>1. e.object[f.id].chunks = {} /\ e.object[f.id].size = f.plain.size
    BY <1>3, <1>6
  <2> QED BY <2>1, FS_EmptySet
<1> QED
  <2> HIDE DEF e
  <2>1. /\ d \in T!Receivers /\ d.transfers = e.transfers /\ d.object = e.object
        /\ d.tornDown = e.tornDown /\ d.errors = e.errors /\ d.fate = e.fate
        /\ d.hashing = IF Cardinality(e.object[f.id].chunks) = T!ChunkCount(e.object[f.id].size)
                       THEN f.id ELSE e.hashing
        /\ Books(d)
    BY <1>0, <1>2, <1>7, <1>8, WholeFacts
  <2>2. d.hashing = IF T!ChunkCount(f.plain.size) = 0 THEN f.id ELSE r.hashing
    BY <2>1, <1>4, <1>9
  <2> HIDE DEF o
  <2>3. d.object[f.id] = o /\ \A k \in T!Ids : k # f.id => d.object[k] = r.object[k]
    BY <2>1, <1>6
  <2>4. d.transfers = r.transfers \cup {f.id}
        /\ d.tornDown = r.tornDown /\ d.errors = r.errors /\ d.fate = r.fate
    BY <2>1, <1>4
  <2> QED BY <1>1, <1>3, <2>1, <2>2, <2>3, <2>4

(* d is r with the chunk in its transfer.                                  *)
Stored(r, f, d) ==
  /\ d \in T!Receivers /\ Books(d)
  /\ f.id \in r.transfers /\ d.transfers = r.transfers
  /\ d.tornDown = r.tornDown /\ d.errors = r.errors /\ d.fate = r.fate
  /\ d.object[f.id].size = r.object[f.id].size
  /\ d.object[f.id].chunks = r.object[f.id].chunks \cup {f.chunk}
  /\ d.object[f.id].received = r.object[f.id].received + f.size
  /\ \A k \in T!Ids : k # f.id => d.object[k] = r.object[k]
  /\ d.hashing = IF Cardinality(d.object[f.id].chunks) = T!ChunkCount(d.object[f.id].size)
          THEN f.id ELSE r.hashing

LEMMA StoreFacts ==
  ASSUME NEW r \in T!Receivers, Books(r), NEW f \in T!Frames, T!ChunkError(r, f) = "none",
         NEW d, d = T!Store(r, f)
  PROVE  Stored(r, f, d)
<1> DEFINE o == r.object[f.id]
           u == [o EXCEPT !.chunks = @ \cup {f.chunk}, !.received = @ + f.size]
           e == [r EXCEPT !.object[f.id].chunks = @ \cup {f.chunk},
                          !.object[f.id].received = @ + f.size,
                          !.buffered = @ + f.size, !.outstanding = @ - f.size]
<1>0. f.id \in T!Ids /\ f.size \in Nat /\ f.chunk \in Nat
  BY FrameFields
<1>1. o \in T!Transfers /\ o.size \in Nat /\ o.received \in Nat /\ o.chunks \in SUBSET Nat
  BY <1>0, ReceiverFields
<1>2. f.id \in r.transfers /\ o.received + f.size <= o.size /\ o.dropped = FALSE
  <2>1. f.id \in r.transfers /\ ~ (o.received + f.size > o.size \/ r.buffered + f.size > Budget)
    BY DEF T!ChunkError
  <2>2. ~ (o.received + f.size > o.size)
    BY <2>1
  <2>3. o.dropped = FALSE
    BY <2>1, <1>0 DEF Books
  <2> HIDE DEF o
  <2> QED BY <2>1, <2>2, <2>3, <1>0, <1>1
<1>3. d = T!CompleteIfWhole(e, f.id)
  BY DEF T!Store
<1>4. u \in T!Transfers /\ u.size = o.size /\ u.chunks = o.chunks \cup {f.chunk}
      /\ u.received = o.received + f.size /\ u.dropped = o.dropped
  <2> HIDE DEF o
  <2>1. u \in T!Transfers
    <3>1. o.chunks \cup {f.chunk} \in SUBSET Nat /\ o.received + f.size \in Nat
      BY <1>0, <1>1
    <3> DEFINE c == o.chunks \cup {f.chunk}
               g == o.received + f.size
    <3>2. u = [o EXCEPT !.chunks = c, !.received = g]
      BY <1>1 DEF T!Transfers
    <3> HIDE DEF c, g, u
    <3>3. c \in SUBSET Nat /\ g \in Nat
      BY <3>1 DEF c, g
    <3> QED BY <1>1, <3>2, <3>3 DEF T!Transfers
  <2>2. u.size = o.size /\ u.chunks = o.chunks \cup {f.chunk} /\ u.received = o.received + f.size
    BY <1>1 DEF T!Transfers
  <2>3. u.dropped = o.dropped
    BY <1>1 DEF T!Transfers
  <2> QED BY <2>1, <2>2, <2>3
<1>5. /\ e.transfers = r.transfers /\ e.object = [r.object EXCEPT ![f.id] = u]
      /\ e.buffered = r.buffered + f.size /\ e.outstanding = r.outstanding - f.size
      /\ e.hashing = r.hashing /\ e.tornDown = r.tornDown /\ e.fate = r.fate /\ e.errors = r.errors
  <2>0. r.object \in [T!Ids -> T!Transfers]
    BY ReceiverFields
  <2> DEFINE v == [o EXCEPT !.chunks = @ \cup {f.chunk}]
             w == [r.object EXCEPT ![f.id] = v]
  <2>1. [[r.object EXCEPT ![f.id].chunks = @ \cup {f.chunk}] EXCEPT ![f.id].received = @ + f.size]
        = [r.object EXCEPT ![f.id] = u]
    <3>1. u = [v EXCEPT !.received = @ + f.size]
      <4> HIDE DEF o
      <4> QED BY <1>1 DEF T!Transfers
    <3>2. w[f.id] = v
      BY <1>0, <2>0, Zenon
    <3>3. [w EXCEPT ![f.id].received = @ + f.size] = [w EXCEPT ![f.id] = u]
      <4> HIDE DEF w, v, u
      <4> QED BY <3>1, <3>2
    <3>4. [w EXCEPT ![f.id] = u] = [r.object EXCEPT ![f.id] = u]
      <4> HIDE DEF v, u
      <4> QED BY <1>0, <2>0
    <3> QED BY <3>3, <3>4
  <2>2. e.object = [[r.object EXCEPT ![f.id].chunks = @ \cup {f.chunk}] EXCEPT ![f.id].received = @ + f.size]
    BY DEF T!Receivers
  <2>3. /\ e.transfers = r.transfers
      /\ e.buffered = r.buffered + f.size /\ e.outstanding = r.outstanding - f.size
      /\ e.hashing = r.hashing /\ e.tornDown = r.tornDown /\ e.fate = r.fate /\ e.errors = r.errors
    BY DEF T!Receivers
  <2> QED BY <2>1, <2>2, <2>3
<1>6. e.object \in [T!Ids -> T!Transfers] /\ e.object[f.id] = u
      /\ \A k \in T!Ids : k # f.id => e.object[k] = r.object[k]
  <2> HIDE DEF u, e
  <2>1. r.object \in [T!Ids -> T!Transfers]
    BY ReceiverFields
  <2> QED BY <1>0, <1>4, <1>5, <2>1
<1>7. e = [r EXCEPT !.object = e.object, !.buffered = e.buffered, !.outstanding = e.outstanding]
  <2> HIDE DEF o, u
  <2>1. DOMAIN e = DOMAIN r /\ e = [k \in DOMAIN r |-> e[k]]
    OBVIOUS
  <2> QED BY <2>1, <1>5 DEF T!Receivers
<1> HIDE DEF u, e
<1>8. Books(e) /\ e.outstanding \in Nat
  <2>1. Got(r) \in [T!Ids -> Nat] /\ Due(r) \in [T!Ids -> Nat]
    BY Counted
  <2>2. Got(e) = [Got(r) EXCEPT ![f.id] = o.received + f.size]
        /\ Due(e) = [Due(r) EXCEPT ![f.id] = o.size - (o.received + f.size)]
    <3>1. \A k \in T!Ids : k # f.id => e.object[k] = r.object[k]
      BY <1>6
    <3>2. e.object[f.id].received = o.received + f.size /\ e.object[f.id].size = o.size
      BY <1>4, <1>6
    <3> HIDE DEF o
    <3> QED BY <3>1, <3>2, <1>0 DEF Got, Due
  <2>3. Got(r)[f.id] = o.received /\ Due(r)[f.id] = o.size - o.received
    BY <1>0 DEF Got, Due
  <2> DEFINE G == Got(e)
             H == Due(e)
  <2>4. G \in [T!Ids -> Nat] /\ H \in [T!Ids -> Nat]
        /\ G[f.id] = o.received + f.size /\ H[f.id] = o.size - (o.received + f.size)
        /\ (\A k \in T!Ids : k # f.id => Got(r)[k] = G[k])
        /\ (\A k \in T!Ids : k # f.id => Due(r)[k] = H[k])
    <3>1. o.received + f.size \in Nat /\ o.size - (o.received + f.size) \in Nat
      <4> HIDE DEF o
      <4> QED BY <1>0, <1>1, <1>2
    <3> HIDE DEF o
    <3> QED BY <2>1, <2>2, <3>1, <1>0
  <2>5. r.transfers \in SUBSET T!Ids /\ (\A k \in r.transfers \ {f.id} : Got(r)[k] = G[k])
        /\ (\A k \in r.transfers \ {f.id} : Due(r)[k] = H[k])
    BY <2>4, ReceiverFields
  <2>6. Total(G, r.transfers) = Total(Got(r), r.transfers) - Got(r)[f.id] + G[f.id]
        /\ Got(r)[f.id] <= Total(Got(r), r.transfers)
    <3> HIDE DEF G, H
    <3> QED BY <1>2, <2>1, <2>4, <2>5, IdsFinite, TotalChanges
  <2>7. Total(H, r.transfers) = Total(Due(r), r.transfers) - Due(r)[f.id] + H[f.id]
        /\ Due(r)[f.id] <= Total(Due(r), r.transfers)
    <3> HIDE DEF G, H
    <3> QED BY <1>2, <2>1, <2>4, <2>5, IdsFinite, TotalChanges
  <2>8. r.buffered = Total(Got(r), r.transfers) /\ r.outstanding = Total(Due(r), r.transfers)
        /\ r.buffered + r.outstanding <= Budget /\ r.buffered \in Nat /\ r.outstanding \in Nat
    BY ReceiverFields DEF Books
  <2>9. e.buffered = Total(G, e.transfers) /\ e.outstanding = Total(H, e.transfers)
        /\ e.buffered + e.outstanding <= Budget /\ e.outstanding \in Nat
    <3> HIDE DEF G, H, o
    <3> QED BY <2>3, <2>4, <2>6, <2>7, <2>8, <1>0, <1>1, <1>2, <1>5, FileAssumption
  <2>10. ASSUME NEW k \in T!Ids
         PROVE  e.object[k].received <= e.object[k].size
                /\ (k \in e.transfers <=> e.object[k].dropped = FALSE)
    <3>1. CASE k = f.id
      <4> HIDE DEF o
      <4> QED BY <3>1, <1>2, <1>4, <1>5, <1>6
    <3>2. CASE k # f.id
      BY <3>2, <1>5, <1>6 DEF Books
    <3> QED BY <3>1, <3>2
  <2>11. Cardinality(e.transfers) <= MaxTransfers
    BY <1>5 DEF Books
  <2> QED BY <2>9, <2>10, <2>11 DEF Books
<1>9. e \in T!Receivers
  <2>1. e.buffered \in Nat
    BY <1>0, <1>5, ReceiverFields
  <2> QED BY <1>6, <1>7, <1>8, <2>1 DEF T!Receivers
<1> QED
  <2>1. /\ d \in T!Receivers /\ d.transfers = e.transfers /\ d.object = e.object
        /\ d.tornDown = e.tornDown /\ d.errors = e.errors /\ d.fate = e.fate
        /\ d.hashing = IF Cardinality(e.object[f.id].chunks) = T!ChunkCount(e.object[f.id].size)
                       THEN f.id ELSE e.hashing
        /\ Books(d)
    BY <1>0, <1>3, <1>8, <1>9, WholeFacts
  <2>2. d.hashing = IF Cardinality(d.object[f.id].chunks) = T!ChunkCount(d.object[f.id].size)
                    THEN f.id ELSE r.hashing
    BY <2>1, <1>5
  <2>3. d.object[f.id] = u /\ \A k \in T!Ids : k # f.id => d.object[k] = r.object[k]
    BY <2>1, <1>6
  <2>4. d.transfers = r.transfers
        /\ d.tornDown = r.tornDown /\ d.errors = r.errors /\ d.fate = r.fate
    BY <2>1, <1>5
  <2> HIDE DEF u
  <2>5. /\ f.id \in r.transfers /\ d.object[f.id].size = r.object[f.id].size
        /\ d.object[f.id].chunks = r.object[f.id].chunks \cup {f.chunk}
        /\ d.object[f.id].received = r.object[f.id].received + f.size
    BY <1>2, <1>4, <2>3
  <2> QED BY <2>1, <2>2, <2>3, <2>4, <2>5 DEF Stored

(* d is r without some of its transfers.                                   *)
Weeded(r, d) ==
  /\ d \in T!Receivers /\ Books(d) /\ d.transfers \subseteq r.transfers
  /\ d.hashing = r.hashing /\ d.tornDown = r.tornDown /\ d.errors = r.errors
  /\ \A k \in T!Ids : /\ d.object[k].size = r.object[k].size
                      /\ d.object[k].chunks = r.object[k].chunks
                      /\ d.object[k].received = r.object[k].received
                      /\ r.fate[k] \subseteq d.fate[k] /\ d.fate[k] \subseteq r.fate[k] \cup {"timeout"}
                      /\ k \in d.transfers \/ k \notin r.transfers => d.fate[k] = r.fate[k]

LEMMA DropWeeds ==
  ASSUME NEW r \in T!Receivers, NEW t, Weeded(r, t), NEW id \in T!Ids, NEW d, d = T!Drop(t, id)
  PROVE  Weeded(r, d) /\ d.fate = t.fate /\ d.transfers = t.transfers \ {id}
<1>1. Dropped(t, id, d) /\ Books(d)
  BY DropFacts DEF Weeded
<1> QED BY <1>1 DEF Weeded, Dropped

LEMMA MetWeeds ==
  ASSUME NEW r \in T!Receivers, NEW t, Weeded(r, t), NEW id \in T!Ids, id \notin t.transfers,
         id \in r.transfers, NEW d, d = T!Met(t, id, "timeout")
  PROVE  Weeded(r, d) /\ d.transfers = t.transfers /\ "timeout" \in d.fate[id]
         /\ \A k \in T!Ids : t.fate[k] \subseteq d.fate[k]
<1>0. t \in T!Receivers /\ Books(t) /\ "timeout" \in T!Fates
  BY DEF Weeded, T!Fates
<1>1. /\ d \in T!Receivers /\ d.transfers = t.transfers /\ d.object = t.object
      /\ d.hashing = t.hashing /\ d.tornDown = t.tornDown /\ d.errors = t.errors
      /\ d.fate[id] = t.fate[id] \cup {"timeout"}
      /\ \A k \in T!Ids : k # id => d.fate[k] = t.fate[k]
      /\ Books(d)
  <2>1. \A w \in T!Fates : d = T!Met(t, id, w) =>
          /\ d \in T!Receivers /\ d.transfers = t.transfers /\ d.object = t.object
          /\ d.hashing = t.hashing /\ d.tornDown = t.tornDown /\ d.errors = t.errors
          /\ d.fate[id] = t.fate[id] \cup {w}
          /\ \A k \in T!Ids : k # id => d.fate[k] = t.fate[k]
          /\ Books(t) => Books(d)
    BY <1>0, MetFacts, SMTT(30)
  <2> QED BY <1>0, <2>1, Zenon
<1>2. ASSUME NEW k \in T!Ids
      PROVE  /\ t.fate[k] \subseteq d.fate[k] /\ r.fate[k] \subseteq d.fate[k]
             /\ d.fate[k] \subseteq r.fate[k] \cup {"timeout"}
             /\ k \in d.transfers \/ k \notin r.transfers => d.fate[k] = r.fate[k]
  <2>1. r.fate[k] \subseteq t.fate[k] /\ t.fate[k] \subseteq r.fate[k] \cup {"timeout"}
        /\ (k \in t.transfers \/ k \notin r.transfers => t.fate[k] = r.fate[k])
    BY DEF Weeded
  <2>2. CASE k = id
    BY <1>1, <2>1, <2>2
  <2>3. CASE k # id
    BY <1>1, <2>1, <2>3
  <2> QED BY <2>2, <2>3
<1> QED
  BY <1>1, <1>2 DEF Weeded

LEMMA WeededSelf == ASSUME NEW r \in T!Receivers, Books(r) PROVE Weeded(r, r)
  BY DEF Weeded

(* The sweep drops the idle transfers one by one, each for its timeout.    *)
LEMMA SweptFacts ==
  ASSUME NEW r \in T!Receivers, Books(r), NEW idle \in SUBSET r.transfers,
         NEW d, d = T!Swept(r, idle)
  PROVE  Weeded(r, d) /\ \A k \in r.transfers \ d.transfers : "timeout" \in d.fate[k]
<1> DEFINE V == {t \in T!Receivers : Weeded(r, t) /\ \A k \in r.transfers \ t.transfers : "timeout" \in t.fate[k]}
           Step(x, t) == T!Met(T!Drop(t, x), x, "timeout")
           step == [y \in idle \X V |-> Step(y[1], y[2])]
           D(h) == [s \in SUBSET idle |-> IF s = {} THEN r
                                          ELSE Step(Taken(s), h[s \ {Taken(s)}])]
           g == CHOOSE h : h = D(h)
<1>0. IsFiniteSet(idle) /\ idle \subseteq T!Ids
  BY ReceiverFields, IdsFinite, FS_Subset
<1>1. ASSUME NEW x \in idle, NEW t \in V PROVE Step(x, t) \in V
  <2> DEFINE u == T!Drop(t, x)
             v == T!Met(u, x, "timeout")
  <2>1. Weeded(r, u) /\ u.fate = t.fate /\ u.transfers = t.transfers \ {x}
    <3> HIDE DEF V
    <3>1. Weeded(r, t)
      BY DEF V
    <3> QED BY <1>0, <3>1, DropWeeds
  <2>2. Weeded(r, v) /\ v.transfers = u.transfers /\ "timeout" \in v.fate[x]
        /\ \A k \in T!Ids : u.fate[k] \subseteq v.fate[k]
    <3> HIDE DEF u
    <3> QED BY <1>0, <2>1, MetWeeds
  <2> HIDE DEF u, v
  <2>3. \A k \in r.transfers \ v.transfers : "timeout" \in v.fate[k]
    <3>1. r.transfers \subseteq T!Ids
      BY ReceiverFields
    <3> QED BY <2>1, <2>2, <3>1
  <2>4. v \in V
    BY <2>2, <2>3 DEF Weeded
  <2> QED BY <2>4 DEF u, v
<1>2. r \in V
  BY WeededSelf
<1>3. \E f : IsFold(f, idle, V, r, step)
  <2>1. step \in [idle \X V -> V]
    BY <1>1
  <2> HIDE DEF V, step
  <2> QED BY <1>0, <1>2, <2>1, FoldExists
<1>4. PICK f : f = D(f)
  <2>1. PICK f : IsFold(f, idle, V, r, step)
    BY <1>3
  <2> HIDE DEF V, Step
  <2>2. ASSUME NEW s \in SUBSET idle PROVE f[s] = D(f)[s]
    <3>1. CASE s = {}
      BY <2>1, <3>1 DEF IsFold
    <3>2. CASE s # {}
      <4>1. Taken(s) \in idle /\ s \ {Taken(s)} \in SUBSET idle
        BY <1>0, <3>2, TakenFacts
      <4>2. f[s \ {Taken(s)}] \in V
        BY <2>1, <4>1 DEF IsFold
      <4>3. f[s] = step[<<Taken(s), f[s \ {Taken(s)}]>>]
        <5> HIDE DEF step
        <5> QED BY <2>1, <3>2 DEF IsFold
      <4> QED BY <3>2, <4>1, <4>2, <4>3
    <3> QED BY <3>1, <3>2
  <2>3. f = [s \in SUBSET idle |-> f[s]]
    BY <2>1 DEF IsFold
  <2>4. D(f) = [s \in SUBSET idle |-> D(f)[s]]
    OBVIOUS
  <2> HIDE DEF D
  <2>5. f = D(f)
    BY <2>2, <2>3, <2>4
  <2> QED BY <2>5
<1>5. g = D(g)
  <2> HIDE DEF D
  <2> QED BY <1>4
<1>6. d = g[idle]
  BY DEF T!Swept, T!FoldSet, T!MapThenFoldSet, Taken
<1>7. g[idle] \in V
  <2> HIDE DEF g
  <2>1. g[{}] = r /\ \A t \in SUBSET idle : t # {} => g[t] = Step(Taken(t), g[t \ {Taken(t)}])
    <3> HIDE DEF Step
    <3>1. \A s \in SUBSET idle : g[s] = D(g)[s]
      <4> HIDE DEF D
      <4> QED BY <1>5
    <3> QED BY <3>1
  <2> HIDE DEF V, Step
  <2>2. ASSUME NEW t \in SUBSET idle, t # {}, g[t \ {Taken(t)}] \in V PROVE g[t] \in V
    <3>1. Taken(t) \in idle
      BY <1>0, <2>2, TakenFacts
    <3> QED BY <1>1, <2>1, <2>2, <3>1
  <2> QED BY <1>0, <1>2, <2>1, <2>2, FoldStays
<1> QED
  <2> HIDE DEF g
  <2> QED BY <1>6, <1>7

(* teardown() drops them all, and latches.                                 *)
LEMMA TornFacts ==
  ASSUME NEW r \in T!Receivers, Books(r), NEW d, d = T!ReceiverTeardown(r)
  PROVE  /\ d \in T!Receivers /\ Books(d) /\ d.transfers \subseteq r.transfers
         /\ d.hashing = r.hashing /\ d.tornDown = TRUE /\ d.errors = r.errors
         /\ \A k \in T!Ids : /\ d.object[k].size = r.object[k].size
                             /\ d.object[k].chunks = r.object[k].chunks
                             /\ d.object[k].received = r.object[k].received
                             /\ d.fate[k] = r.fate[k]
<1> DEFINE S0 == r.transfers
           V == {t \in T!Receivers : Weeded(r, t) /\ t.fate = r.fate}
           Step(x, t) == T!Drop(t, x)
           step == [y \in S0 \X V |-> Step(y[1], y[2])]
           D(h) == [s \in SUBSET S0 |-> IF s = {} THEN r ELSE Step(Taken(s), h[s \ {Taken(s)}])]
           g == CHOOSE h : h = D(h)
<1>0. IsFiniteSet(S0) /\ S0 \subseteq T!Ids
  BY ReceiverFields, IdsFinite, FS_Subset
<1>1. ASSUME NEW x \in S0, NEW t \in V PROVE Step(x, t) \in V
  <2> DEFINE u == T!Drop(t, x)
  <2>1. Weeded(r, t) /\ t.fate = r.fate
    OBVIOUS
  <2>2. Weeded(r, u) /\ u.fate = t.fate
    BY <1>0, <2>1, DropWeeds
  <2> HIDE DEF u
  <2>3. u \in V
    BY <2>1, <2>2 DEF Weeded
  <2> QED BY <2>3 DEF u
<1>2. r \in V
  BY WeededSelf
<1>3. \E f : IsFold(f, S0, V, r, step)
  <2>1. step \in [S0 \X V -> V]
    BY <1>1
  <2> HIDE DEF V, step, S0
  <2> QED BY <1>0, <1>2, <2>1, FoldExists
<1>4. PICK f : f = D(f)
  <2>1. PICK f : IsFold(f, S0, V, r, step)
    BY <1>3
  <2> HIDE DEF V, Step, S0
  <2>2. ASSUME NEW s \in SUBSET S0 PROVE f[s] = D(f)[s]
    <3>1. CASE s = {}
      BY <2>1, <3>1 DEF IsFold
    <3>2. CASE s # {}
      <4>1. Taken(s) \in S0 /\ s \ {Taken(s)} \in SUBSET S0
        BY <1>0, <3>2, TakenFacts
      <4>2. f[s \ {Taken(s)}] \in V
        BY <2>1, <4>1 DEF IsFold
      <4>3. f[s] = step[<<Taken(s), f[s \ {Taken(s)}]>>]
        <5> HIDE DEF step
        <5> QED BY <2>1, <3>2 DEF IsFold
      <4> QED BY <3>2, <4>1, <4>2, <4>3
    <3> QED BY <3>1, <3>2
  <2>3. f = [s \in SUBSET S0 |-> f[s]]
    BY <2>1 DEF IsFold
  <2>4. D(f) = [s \in SUBSET S0 |-> D(f)[s]]
    OBVIOUS
  <2> HIDE DEF D
  <2>5. f = D(f)
    BY <2>2, <2>3, <2>4
  <2> QED BY <2>5
<1>5. g = D(g)
  <2> HIDE DEF D
  <2> QED BY <1>4
<1>6. d = [g[S0] EXCEPT !.tornDown = TRUE]
  BY DEF T!ReceiverTeardown, T!FoldSet, T!MapThenFoldSet, Taken
<1>7. g[S0] \in V
  <2> HIDE DEF g
  <2>1. g[{}] = r /\ \A t \in SUBSET S0 : t # {} => g[t] = Step(Taken(t), g[t \ {Taken(t)}])
    <3> HIDE DEF Step
    <3>1. \A s \in SUBSET S0 : g[s] = D(g)[s]
      <4> HIDE DEF D
      <4> QED BY <1>5
    <3> QED BY <3>1
  <2> HIDE DEF V, Step
  <2>2. ASSUME NEW t \in SUBSET S0, t # {}, g[t \ {Taken(t)}] \in V PROVE g[t] \in V
    <3>1. Taken(t) \in S0
      BY <1>0, <2>2, TakenFacts
    <3> HIDE DEF S0
    <3> QED BY <1>1, <2>1, <2>2, <3>1
  <2> HIDE DEF S0
  <2> QED BY <1>0, <1>2, <2>1, <2>2, FoldStays
<1> QED
  <2> HIDE DEF g
  <2> DEFINE e == g[S0]
  <2>1. Weeded(r, e) /\ e.fate = r.fate /\ e \in T!Receivers /\ Books(e)
    BY <1>7 DEF Weeded
  <2>2. d = [e EXCEPT !.tornDown = TRUE]
    BY <1>6
  <2> HIDE DEF e
  <2>3. /\ d.transfers = e.transfers /\ d.object = e.object /\ d.hashing = e.hashing
        /\ d.buffered = e.buffered /\ d.outstanding = e.outstanding
        /\ d.errors = e.errors /\ d.fate = e.fate
    BY <2>1, <2>2 DEF T!Receivers
  <2>4. d.tornDown = TRUE
    BY <2>1, <2>2 DEF T!Receivers
  <2>5. d \in T!Receivers
    BY <2>1, <2>2 DEF T!Receivers
  <2>6. Got(d) = Got(e) /\ Due(d) = Due(e)
    BY <2>3 DEF Got, Due
  <2>7. Books(d)
    BY <2>1, <2>3, <2>6 DEF Books
  <2> QED BY <2>1, <2>3, <2>4, <2>5, <2>7 DEF Weeded

(* The sums of CommittedBytes are these totals.                            *)
LEMMA ReceivedSum ==
  ASSUME NEW r \in T!Receivers, Books(r)
  PROVE  T!MapThenSumSet(LAMBDA id : r.object[id].received, r.transfers) = r.buffered
<1> DEFINE S0 == r.transfers
           Tot(s) == Total(Got(r), s)
           D(h) == [s \in SUBSET S0 |-> IF s = {} THEN 0
                       ELSE r.object[Taken(s)].received + h[s \ {Taken(s)}]]
           f == [s \in SUBSET S0 |-> Tot(s)]
           g == CHOOSE h : h = D(h)
           K == {s \in SUBSET S0 : g[s] = Tot(s)}
<1>0. IsFiniteSet(S0) /\ S0 \subseteq T!Ids
  BY ReceiverFields, IdsFinite, FS_Subset
<1>1. Tot({}) = 0 /\ \A s \in SUBSET S0 : \A x \in s : Tot(s) = r.object[x].received + Tot(s \ {x})
  <2>1. Got(r) \in [T!Ids -> Nat] /\ \A x \in T!Ids : Got(r)[x] = r.object[x].received
    <3>1. Got(r) \in [T!Ids -> Nat]
      BY Counted
    <3>2. \A x \in T!Ids : Got(r)[x] = r.object[x].received
      BY DEF Got
    <3> QED BY <3>1, <3>2
  <2>2. \A s \in SUBSET T!Ids : \A x \in s : Tot(s) = Got(r)[x] + Tot(s \ {x})
    <3>1. \A s \in SUBSET T!Ids : /\ Total(Got(r), s) \in Nat
             /\ \A x \in s : Total(Got(r), s) = Got(r)[x] + Total(Got(r), s \ {x})
      BY <2>1, IdsFinite, TotalFacts
    <3> QED BY <3>1, Zenon
  <2>3. Tot({}) = 0
    BY <2>1, IdsFinite, TotalFacts
  <2> HIDE DEF Tot, S0
  <2>4. ASSUME NEW s \in SUBSET S0, NEW x \in s PROVE Tot(s) = r.object[x].received + Tot(s \ {x})
    <3>1. s \in SUBSET T!Ids /\ x \in T!Ids
      BY <1>0
    <3> QED BY <2>1, <2>2, <3>1
  <2> QED BY <2>3, <2>4
<1> HIDE DEF Tot, S0
<1>2. ASSUME NEW s \in SUBSET S0, s # {} PROVE Taken(s) \in s /\ s \ {Taken(s)} \in SUBSET S0
  BY <1>0, <1>2, TakenFacts
<1>3. f = D(f)
  <2>1. ASSUME NEW s \in SUBSET S0 PROVE f[s] = D(f)[s]
    <3>1. CASE s = {}
      BY <1>1, <3>1
    <3>2. CASE s # {}
      BY <1>1, <1>2, <3>2
    <3> QED BY <3>1, <3>2
  <2>2. f = [s \in SUBSET S0 |-> f[s]] /\ D(f) = [s \in SUBSET S0 |-> D(f)[s]]
    OBVIOUS
  <2> HIDE DEF D, f
  <2> QED BY <2>1, <2>2
<1>4. g = D(g)
  <2> HIDE DEF D, f
  <2> QED BY <1>3
<1>5. T!MapThenSumSet(LAMBDA id : r.object[id].received, r.transfers) = g[S0]
  BY DEF T!MapThenSumSet, T!MapThenFoldSet, Taken, S0
<1>6. S0 \in K
  <2> HIDE DEF g
  <2>1. {} \in K
    BY <1>1, <1>4
  <2>2. ASSUME NEW s \in SUBSET S0, s # {}, s \ {Taken(s)} \in K PROVE s \in K
    <3>1. g[s] = r.object[Taken(s)].received + g[s \ {Taken(s)}]
      BY <1>4, <2>2
    <3> QED BY <1>1, <1>2, <2>2, <3>1
  <2> HIDE DEF K
  <2>3. SUBSET S0 \subseteq K
    BY <1>0, <2>1, <2>2, SetInduction
  <2> QED BY <2>3
<1>7. r.buffered = Tot(S0)
  BY DEF Books, Tot, S0
<1> HIDE DEF g
<1> QED BY <1>5, <1>6, <1>7

LEMMA DueSum ==
  ASSUME NEW r \in T!Receivers, Books(r)
  PROVE  T!MapThenSumSet(LAMBDA id : r.object[id].size - r.object[id].received, r.transfers) = r.outstanding
<1> DEFINE S0 == r.transfers
           Tot(s) == Total(Due(r), s)
           D(h) == [s \in SUBSET S0 |-> IF s = {} THEN 0
                       ELSE (r.object[Taken(s)].size - r.object[Taken(s)].received) + h[s \ {Taken(s)}]]
           f == [s \in SUBSET S0 |-> Tot(s)]
           g == CHOOSE h : h = D(h)
           K == {s \in SUBSET S0 : g[s] = Tot(s)}
<1>0. IsFiniteSet(S0) /\ S0 \subseteq T!Ids
  BY ReceiverFields, IdsFinite, FS_Subset
<1>1. Tot({}) = 0 /\ \A s \in SUBSET S0 : \A x \in s : Tot(s) = (r.object[x].size - r.object[x].received) + Tot(s \ {x})
  <2>1. Due(r) \in [T!Ids -> Nat] /\ \A x \in T!Ids : Due(r)[x] = r.object[x].size - r.object[x].received
    <3>1. Due(r) \in [T!Ids -> Nat]
      BY Counted
    <3>2. \A x \in T!Ids : Due(r)[x] = r.object[x].size - r.object[x].received
      BY DEF Due
    <3> QED BY <3>1, <3>2
  <2>2. \A s \in SUBSET T!Ids : \A x \in s : Tot(s) = Due(r)[x] + Tot(s \ {x})
    <3>1. \A s \in SUBSET T!Ids : /\ Total(Due(r), s) \in Nat
             /\ \A x \in s : Total(Due(r), s) = Due(r)[x] + Total(Due(r), s \ {x})
      BY <2>1, IdsFinite, TotalFacts
    <3> QED BY <3>1, Zenon
  <2>3. Tot({}) = 0
    BY <2>1, IdsFinite, TotalFacts
  <2> HIDE DEF Tot, S0
  <2>4. ASSUME NEW s \in SUBSET S0, NEW x \in s PROVE Tot(s) = (r.object[x].size - r.object[x].received) + Tot(s \ {x})
    <3>1. s \in SUBSET T!Ids /\ x \in T!Ids
      BY <1>0
    <3> QED BY <2>1, <2>2, <3>1
  <2> QED BY <2>3, <2>4
<1> HIDE DEF Tot, S0
<1>2. ASSUME NEW s \in SUBSET S0, s # {} PROVE Taken(s) \in s /\ s \ {Taken(s)} \in SUBSET S0
  BY <1>0, <1>2, TakenFacts
<1>3. f = D(f)
  <2>1. ASSUME NEW s \in SUBSET S0 PROVE f[s] = D(f)[s]
    <3>1. CASE s = {}
      BY <1>1, <3>1
    <3>2. CASE s # {}
      BY <1>1, <1>2, <3>2
    <3> QED BY <3>1, <3>2
  <2>2. f = [s \in SUBSET S0 |-> f[s]] /\ D(f) = [s \in SUBSET S0 |-> D(f)[s]]
    OBVIOUS
  <2> HIDE DEF D, f
  <2> QED BY <2>1, <2>2
<1>4. g = D(g)
  <2> HIDE DEF D, f
  <2> QED BY <1>3
<1>5. T!MapThenSumSet(LAMBDA id : r.object[id].size - r.object[id].received, r.transfers) = g[S0]
  BY DEF T!MapThenSumSet, T!MapThenFoldSet, Taken, S0
<1>6. S0 \in K
  <2> HIDE DEF g
  <2>1. {} \in K
    BY <1>1, <1>4
  <2>2. ASSUME NEW s \in SUBSET S0, s # {}, s \ {Taken(s)} \in K PROVE s \in K
    <3>1. g[s] = (r.object[Taken(s)].size - r.object[Taken(s)].received) + g[s \ {Taken(s)}]
      BY <1>4, <2>2
    <3> QED BY <1>1, <1>2, <2>2, <3>1
  <2> HIDE DEF K
  <2>3. SUBSET S0 \subseteq K
    BY <1>0, <2>1, <2>2, SetInduction
  <2> QED BY <2>3
<1>7. r.outstanding = Tot(S0)
  BY DEF Books, Tot, S0
<1> HIDE DEF g
<1> QED BY <1>5, <1>6, <1>7

-----------------------------------------------------------------------------
(* The reservations of a sender.                                           *)

Reserved(s) ==
  \A id \in T!Ids :
    /\ id \in s.active \cup s.cancelled \cup s.announced => s.sends[id].at \in T!Awaiting
    /\ id \notin s.active \cap s.cancelled
    /\ s.sends[id].at \in T!Awaiting /\ ~s.tearingDown => id \in s.active \cup s.cancelled

(* The ids up to n are allocated.                                          *)
Prefixed(s, n) == \A id \in T!Ids : s.sends[id].at # "none" <=> id <= n

(* A transfer has sent no more than its frames, and only what encodes.     *)
Sound(e)  == /\ e.next <= T!ChunkCount(e.file.size) + 1
             /\ e.next > 0 => T!EncodeError(e.file) = "none"
(* ... and one that seals or waits has a frame left to send.               *)
Placed(e) == /\ Sound(e)
             /\ e.at \in {"none", "hash"} => e.next = 0
             /\ e.at \in {"seal", "drain"} => /\ e.next <= T!ChunkCount(e.file.size)
                                              /\ T!EncodeError(e.file) = "none"
             /\ e.at = "drain" => e.next > 0

(* The invariant of a sender, but for where the coroutine of id is.        *)
Core(s, id) == /\ s \in T!Senders /\ Reserved(s)
               /\ \E n \in 0..MaxSends : Prefixed(s, n)
               /\ \A k \in T!Ids : k # id => Placed(s.sends[k])
               /\ Sound(s.sends[id])
SendInv(s) == /\ s \in T!Senders /\ Reserved(s)
              /\ \E n \in 0..MaxSends : Prefixed(s, n)
              /\ \A k \in T!Ids : Placed(s.sends[k])

(* d has allocated and sent what s has.                                    *)
Same(s, d) == \A k \in T!Ids : /\ d.sends[k].next = s.sends[k].next
                               /\ d.sends[k].file = s.sends[k].file
                               /\ d.sends[k].at = "none" <=> s.sends[k].at = "none"

LEMMA SenderFields ==
  ASSUME NEW s \in T!Senders
  PROVE  /\ s.sends \in [T!Ids -> T!Sends] /\ s.active \in SUBSET T!Ids
         /\ s.cancelled \in SUBSET T!Ids /\ s.announced \in SUBSET T!Ids
         /\ s.aborts \in SUBSET T!Ids /\ s.sequence \in 0..(MaxFrames + 1)
         /\ s.tearingDown \in BOOLEAN
         /\ \A id \in T!Ids : /\ s.sends[id] \in T!Sends
                              /\ s.sends[id].at \in T!Running \cup {"none", "done"}
                              /\ s.sends[id].file \in [DOMAIN T!NoFile -> Nat]
                              /\ s.sends[id].file.size \in Nat
                              /\ s.sends[id].next \in Nat
                              /\ s.sends[id].ended \in T!Endings \cup {"none"}
<1>1. s.sends \in [T!Ids -> T!Sends]
  BY DEF T!Senders
<1>2. \A id \in T!Ids : s.sends[id] \in T!Sends
  BY <1>1
<1>3. \A id \in T!Ids : /\ s.sends[id].at \in T!Running \cup {"none", "done"}
                        /\ s.sends[id].file \in [DOMAIN T!NoFile -> Nat]
                        /\ s.sends[id].next \in Nat
                        /\ s.sends[id].ended \in T!Endings \cup {"none"}
  BY <1>2 DEF T!Sends
<1>4. "size" \in DOMAIN T!NoFile
  BY DEF T!NoFile
<1>5. \A id \in T!Ids : s.sends[id].file.size \in Nat
  BY <1>3, <1>4
<1>6. /\ s.active \in SUBSET T!Ids
      /\ s.cancelled \in SUBSET T!Ids /\ s.announced \in SUBSET T!Ids
      /\ s.aborts \in SUBSET T!Ids /\ s.sequence \in 0..(MaxFrames + 1)
  BY DEF T!Senders
<1>7. s.tearingDown \in BOOLEAN
  BY DEF T!Senders
<1> QED BY <1>1, <1>2, <1>3, <1>5, <1>6, <1>7

LEMMA SendCore == ASSUME NEW s, SendInv(s), NEW id \in T!Ids PROVE Core(s, id)
  BY DEF SendInv, Core, Placed

(* sendFile settles: nothing of its reservation is left.                   *)
LEMMA ReturnFacts ==
  ASSUME NEW s, NEW id \in T!Ids, Core(s, id), s.sends[id].at # "none",
         NEW ended \in T!Endings, NEW d, d = T!Return(s, id, ended)
  PROVE  /\ SendInv(d) /\ Same(s, d)
         /\ d.tearingDown = s.tearingDown /\ d.sequence = s.sequence /\ d.aborts = s.aborts
         /\ \A k \in T!Ids : k # id => d.sends[k] = s.sends[k]
<1> DEFINE e == [s.sends[id] EXCEPT !.at = "returning", !.ended = ended]
<1>0. s \in T!Senders
  BY DEF Core
<1>1. s.sends \in [T!Ids -> T!Sends] /\ s.sends[id] \in T!Sends
  BY <1>0, SenderFields
<1>2. e \in T!Sends /\ e.at = "returning" /\ e.next = s.sends[id].next /\ e.file = s.sends[id].file
  <2>1. "returning" \in T!Running
    BY DEF T!Running
  <2>2. e \in T!Sends
    BY <1>1, <2>1 DEF T!Sends
  <2>3. e.at = "returning" /\ e.next = s.sends[id].next /\ e.file = s.sends[id].file
    BY <1>1 DEF T!Sends
  <2> QED BY <2>2, <2>3
<1>3. /\ d.sends = [s.sends EXCEPT ![id] = e]
      /\ d.active = s.active \ {id} /\ d.cancelled = s.cancelled \ {id}
      /\ d.announced = s.announced \ {id} /\ d.aborts = s.aborts
      /\ d.sequence = s.sequence /\ d.tearingDown = s.tearingDown
  <2>1. [[s.sends EXCEPT ![id].at = "returning"] EXCEPT ![id].ended = ended]
        = [s.sends EXCEPT ![id] = e]
    <3> DEFINE v == [s.sends[id] EXCEPT !.at = "returning"]
               w == [s.sends EXCEPT ![id] = v]
    <3>1. e = [v EXCEPT !.ended = ended]
      BY <1>1 DEF T!Sends
    <3>2. w[id] = v
      BY <1>1, Zenon
    <3>3. [w EXCEPT ![id].ended = ended] = [w EXCEPT ![id] = e]
      <4> HIDE DEF w, v, e
      <4> QED BY <3>1, <3>2
    <3>4. [w EXCEPT ![id] = e] = [s.sends EXCEPT ![id] = e]
      <4> HIDE DEF v, e
      <4> QED BY <1>1
    <3> QED BY <3>3, <3>4
  <2>2. d.sends = [[s.sends EXCEPT ![id].at = "returning"] EXCEPT ![id].ended = ended]
    BY <1>0 DEF T!Return, T!Senders
  <2>3. /\ d.active = s.active \ {id} /\ d.cancelled = s.cancelled \ {id}
        /\ d.announced = s.announced \ {id} /\ d.aborts = s.aborts
        /\ d.sequence = s.sequence /\ d.tearingDown = s.tearingDown
    BY <1>0 DEF T!Return, T!Senders
  <2> QED BY <2>1, <2>2, <2>3
<1>4. d = [s EXCEPT !.sends = d.sends, !.active = d.active, !.cancelled = d.cancelled,
                    !.announced = d.announced]
  <2>1. DOMAIN d = DOMAIN s /\ d = [k \in DOMAIN s |-> d[k]]
    BY ZenonT(30) DEF T!Return
  <2> HIDE DEF e
  <2> QED BY <1>0, <1>3, <2>1 DEF T!Senders
<1> HIDE DEF e
<1>5. d.sends \in [T!Ids -> T!Sends] /\ d.sends[id] = e
      /\ \A k \in T!Ids : k # id => d.sends[k] = s.sends[k]
  BY <1>1, <1>2, <1>3
<1>6. d \in T!Senders
  <2>1. d.active \in SUBSET T!Ids /\ d.cancelled \in SUBSET T!Ids /\ d.announced \in SUBSET T!Ids
    BY <1>0, <1>3, SenderFields
  <2> QED BY <1>0, <1>4, <1>5, <2>1 DEF T!Senders
<1>7. Same(s, d)
  <2>1. ASSUME NEW k \in T!Ids
        PROVE  /\ d.sends[k].next = s.sends[k].next /\ d.sends[k].file = s.sends[k].file
               /\ d.sends[k].at = "none" <=> s.sends[k].at = "none"
    BY <1>2, <1>5
  <2> QED BY <2>1 DEF Same
<1>8. "returning" \notin T!Awaiting
  BY DEF T!Awaiting
<1>9. Reserved(d)
  <2>1. ASSUME NEW k \in T!Ids
        PROVE /\ k \in d.active \cup d.cancelled \cup d.announced => d.sends[k].at \in T!Awaiting
              /\ k \notin d.active \cap d.cancelled
              /\ d.sends[k].at \in T!Awaiting /\ ~d.tearingDown => k \in d.active \cup d.cancelled
    <3>1. CASE k = id
      BY <1>2, <1>3, <1>5, <1>8, <3>1
    <3>2. CASE k # id
      <4>1. /\ k \in s.active \cup s.cancelled \cup s.announced => s.sends[k].at \in T!Awaiting
            /\ k \notin s.active \cap s.cancelled
            /\ s.sends[k].at \in T!Awaiting /\ ~s.tearingDown => k \in s.active \cup s.cancelled
        BY DEF Core, Reserved
      <4> QED BY <1>3, <1>5, <3>2, <4>1
    <3> QED BY <3>1, <3>2
  <2> QED BY <2>1 DEF Reserved
<1>10. \E n \in 0..MaxSends : Prefixed(d, n)
  <2>1. PICK n \in 0..MaxSends : Prefixed(s, n)
    BY DEF Core
  <2>2. Prefixed(d, n)
    BY <1>7, <2>1 DEF Prefixed, Same
  <2> QED BY <2>2
<1>11. ASSUME NEW k \in T!Ids PROVE Placed(d.sends[k])
  <2>1. CASE k = id
    <3>1. Sound(s.sends[id])
      BY DEF Core
    <3> QED BY <1>2, <1>5, <2>1, <3>1 DEF Placed, Sound
  <2>2. CASE k # id
    BY <1>5, <2>2 DEF Core
  <2> QED BY <2>1, <2>2
<1>12. SendInv(d)
  BY <1>6, <1>9, <1>10, <1>11 DEF SendInv
<1> QED BY <1>3, <1>5, <1>7, <1>12

(* d moved on with what is next, which is there to be sent.                *)
Ready(s, id) == /\ Core(s, id) /\ s.sends[id].at \in T!Awaiting
                /\ s.sends[id].next <= T!ChunkCount(s.sends[id].file.size)
                /\ T!EncodeError(s.sends[id].file) = "none"

PutAt(sends, id, at) == [sends EXCEPT ![id].at = at]

(* What every step of the coroutine of id keeps.                           *)
Moved(s, id, d) == /\ SendInv(d) /\ Same(s, d) /\ d.tearingDown = s.tearingDown
                   /\ \A k \in T!Ids : k # id => d.sends[k] = s.sends[k]

LEMMA WaitFacts ==
  ASSUME NEW s, NEW id \in T!Ids, Ready(s, id), NEW at \in {"seal", "drain"},
         at = "drain" => s.sends[id].next > 0,
         NEW d \in T!Senders, d.sends = PutAt(s.sends, id, at),
         d.active = s.active, d.cancelled = s.cancelled, d.announced = s.announced,
         d.tearingDown = s.tearingDown
  PROVE  Moved(s, id, d)
<1> DEFINE e == [s.sends[id] EXCEPT !.at = at]
<1>0. s \in T!Senders
  BY DEF Ready, Core
<1>1. s.sends \in [T!Ids -> T!Sends] /\ s.sends[id] \in T!Sends
  BY <1>0, SenderFields
<1>2. e.at = at /\ e.next = s.sends[id].next /\ e.file = s.sends[id].file
  BY <1>1 DEF T!Sends
<1>3. d.sends[id] = e /\ \A k \in T!Ids : k # id => d.sends[k] = s.sends[k]
  BY <1>1 DEF PutAt
<1> HIDE DEF e
<1>4. at \in T!Awaiting /\ "none" \notin T!Awaiting /\ at # "none" /\ at # "hash"
  BY DEF T!Awaiting
<1>5. Same(s, d)
  <2>1. ASSUME NEW k \in T!Ids
        PROVE  /\ d.sends[k].next = s.sends[k].next /\ d.sends[k].file = s.sends[k].file
               /\ d.sends[k].at = "none" <=> s.sends[k].at = "none"
    BY <1>2, <1>3, <1>4 DEF Ready
  <2> QED BY <2>1 DEF Same
<1>6. Reserved(d)
  <2>1. ASSUME NEW k \in T!Ids
        PROVE /\ k \in d.active \cup d.cancelled \cup d.announced => d.sends[k].at \in T!Awaiting
              /\ k \notin d.active \cap d.cancelled
              /\ d.sends[k].at \in T!Awaiting /\ ~d.tearingDown => k \in d.active \cup d.cancelled
    <3>1. /\ k \in s.active \cup s.cancelled \cup s.announced => s.sends[k].at \in T!Awaiting
          /\ k \notin s.active \cap s.cancelled
          /\ s.sends[k].at \in T!Awaiting /\ ~s.tearingDown => k \in s.active \cup s.cancelled
      BY DEF Ready, Core, Reserved
    <3>2. s.sends[id].at \in T!Awaiting
      BY DEF Ready
    <3>3. d.sends[k].at \in T!Awaiting <=> s.sends[k].at \in T!Awaiting
      <4>1. CASE k = id
        BY <1>2, <1>3, <1>4, <3>2, <4>1
      <4>2. CASE k # id
        BY <1>3, <4>2
      <4> QED BY <4>1, <4>2
    <3> QED BY <3>1, <3>3
  <2> QED BY <2>1 DEF Reserved
<1>7. \E n \in 0..MaxSends : Prefixed(d, n)
  <2>1. PICK n \in 0..MaxSends : Prefixed(s, n)
    BY DEF Ready, Core
  <2>2. Prefixed(d, n)
    BY <1>5, <2>1 DEF Prefixed, Same
  <2> QED BY <2>2
<1>8. ASSUME NEW k \in T!Ids PROVE Placed(d.sends[k])
  <2>1. CASE k = id
    <3>1. Sound(s.sends[id]) /\ s.sends[id].next <= T!ChunkCount(s.sends[id].file.size)
          /\ T!EncodeError(s.sends[id].file) = "none"
      BY DEF Ready, Core
    <3>2. Sound(e)
      BY <1>2, <3>1 DEF Sound
    <3>3. e.next <= T!ChunkCount(e.file.size) /\ T!EncodeError(e.file) = "none"
      BY <1>2, <3>1
    <3>4. e.at \notin {"none", "hash"} /\ (e.at = "drain" => e.next > 0)
      BY <1>2, <1>4
    <3> QED BY <1>3, <2>1, <3>2, <3>3, <3>4 DEF Placed
  <2>2. CASE k # id
    BY <1>3, <2>2 DEF Ready, Core
  <2> QED BY <2>1, <2>2
<1>9. SendInv(d)
  BY <1>6, <1>7, <1>8 DEF SendInv
<1> QED BY <1>3, <1>5, <1>9 DEF Moved

LEMMA ReturnMoves ==
  ASSUME NEW s, NEW id \in T!Ids, Core(s, id), s.sends[id].at # "none",
         NEW ended \in T!Endings, NEW d, d = T!Return(s, id, ended)
  PROVE  Moved(s, id, d)
BY ReturnFacts DEF Moved

LEMMA EndingsFacts == "complete" \in T!Endings /\ "cancelled" \in T!Endings /\ "error" \in T!Endings
BY DEF T!Endings

LEMMA AwaitingFacts == "none" \notin T!Awaiting /\ T!Awaiting = {"hash", "seal", "drain"}
                       /\ T!Running = {"hash", "seal", "drain", "returning"}
BY DEF T!Awaiting, T!Running

(* A coroutine parks for the encryption or for the drain.                  *)
Parked(s, id, at, n) == [s EXCEPT !.sequence = n, !.sends[id].at = at]

LEMMA AtSenders ==
  ASSUME NEW s \in T!Senders, NEW id \in T!Ids, NEW at \in {"seal", "drain"}, NEW d,
         NEW n \in 0..(MaxFrames + 1), d = Parked(s, id, at, n)
  PROVE  /\ d \in T!Senders /\ d.sends = PutAt(s.sends, id, at)
         /\ d.active = s.active /\ d.cancelled = s.cancelled /\ d.announced = s.announced
         /\ d.tearingDown = s.tearingDown
<1> DEFINE e == [s.sends EXCEPT ![id].at = at]
<1>1. e \in [T!Ids -> T!Sends]
  <2>1. s.sends \in [T!Ids -> T!Sends] /\ s.sends[id] \in T!Sends
    BY SenderFields
  <2>2. at \in T!Running \cup {"none", "done"}
    BY AwaitingFacts
  <2>3. [s.sends[id] EXCEPT !.at = at] \in T!Sends
    BY <2>1, <2>2 DEF T!Sends
  <2>4. e = [s.sends EXCEPT ![id] = [s.sends[id] EXCEPT !.at = at]]
    OBVIOUS
  <2> QED BY <2>1, <2>3, <2>4, Zenon
<1>2. d.sends = e /\ d.sequence = n
      /\ d.active = s.active /\ d.cancelled = s.cancelled /\ d.announced = s.announced
      /\ d.tearingDown = s.tearingDown
  BY DEF T!Senders, Parked
<1>3. d = [s EXCEPT !.sequence = n, !.sends = e]
  BY DEF Parked
<1> HIDE DEF e
<1>4. d \in T!Senders
  BY <1>1, <1>3 DEF T!Senders
<1> QED BY <1>2, <1>4 DEF e, PutAt

LEMMA SealFacts ==
  ASSUME NEW s, NEW id \in T!Ids, Ready(s, id), NEW d, d = T!Seal(s, id)
  PROVE  Moved(s, id, d)
<1>0. s \in T!Senders /\ Core(s, id) /\ s.sends[id].at # "none"
  BY AwaitingFacts DEF Ready, Core
<1>1. CASE s.sequence > MaxFrames
  <2>1. d = T!Return(s, id, "error")
    BY <1>1 DEF T!Seal
  <2> QED BY <1>0, <2>1, ReturnMoves, EndingsFacts
<1>2. CASE ~ (s.sequence > MaxFrames)
  <2> DEFINE n == s.sequence + 1
  <2>1. d = Parked(s, id, "seal", n)
    BY <1>2 DEF T!Seal, Parked
  <2>2. n \in 0..(MaxFrames + 1)
    BY <1>0, <1>2, SenderFields, FileAssumption
  <2> HIDE DEF n
  <2>3. \A at \in {"seal", "drain"} : d = Parked(s, id, at, n) =>
          /\ d \in T!Senders /\ d.sends = PutAt(s.sends, id, at)
          /\ d.active = s.active /\ d.cancelled = s.cancelled /\ d.announced = s.announced
          /\ d.tearingDown = s.tearingDown
    BY <1>0, <2>2, AtSenders
  <2>4. /\ d \in T!Senders /\ d.sends = PutAt(s.sends, id, "seal")
        /\ d.active = s.active /\ d.cancelled = s.cancelled /\ d.announced = s.announced
        /\ d.tearingDown = s.tearingDown
    BY <2>1, <2>3, Zenon
  <2>5. \A at \in {"seal", "drain"} :
          d.sends = PutAt(s.sends, id, at) /\ at # "drain" => Moved(s, id, d)
    BY <2>4, WaitFacts
  <2> QED BY <2>4, <2>5, Zenon
<1> QED BY <1>1, <1>2

LEMMA DrainMoves ==
  ASSUME NEW s, NEW id \in T!Ids, Ready(s, id), s.sends[id].next > 0,
         NEW d, d = Parked(s, id, "drain", s.sequence)
  PROVE  Moved(s, id, d)
<1> DEFINE n == s.sequence
<1>0. s \in T!Senders /\ n \in 0..(MaxFrames + 1)
  BY SenderFields DEF Ready, Core
<1>1. d = Parked(s, id, "drain", n)
  OBVIOUS
<1> HIDE DEF n
<1>2. \A at \in {"seal", "drain"} : d = Parked(s, id, at, n) =>
        /\ d \in T!Senders /\ d.sends = PutAt(s.sends, id, at)
        /\ d.active = s.active /\ d.cancelled = s.cancelled /\ d.announced = s.announced
        /\ d.tearingDown = s.tearingDown
  BY <1>0, AtSenders
<1>3. /\ d \in T!Senders /\ d.sends = PutAt(s.sends, id, "drain")
      /\ d.active = s.active /\ d.cancelled = s.cancelled /\ d.announced = s.announced
      /\ d.tearingDown = s.tearingDown
  BY <1>1, <1>2, Zenon
<1>4. \A at \in {"seal", "drain"} :
        d.sends = PutAt(s.sends, id, at) /\ (at = "drain" => s.sends[id].next > 0)
          => Moved(s, id, d)
  BY <1>3, WaitFacts
<1> QED BY <1>3, <1>4, Zenon

(* The chunk loop.                                                         *)
LEMMA LoopFacts ==
  ASSUME NEW s, NEW id \in T!Ids, Core(s, id), s.sends[id].at \in T!Awaiting,
         s.sends[id].next > 0, NEW b, NEW d, d = T!Loop(s, id, b)
  PROVE  Moved(s, id, d)
<1>0. s.sends[id].at # "none"
  BY AwaitingFacts
<1>1. CASE s.sends[id].next = T!ChunkCount(s.sends[id].file.size) + 1
  <2>1. d = T!Return(s, id, "complete")
    BY <1>1 DEF T!Loop
  <2> QED BY <1>0, <2>1, ReturnMoves, EndingsFacts
<1>2. CASE s.sends[id].next # T!ChunkCount(s.sends[id].file.size) + 1
  <2>1. Ready(s, id)
    <3>1. s.sends[id].next \in Nat /\ s.sends[id].file.size \in Nat
      BY SenderFields DEF Core
    <3>2. T!ChunkCount(s.sends[id].file.size) \in Nat
      BY <3>1, ChunkFacts
    <3>3. Sound(s.sends[id])
      BY DEF Core
    <3>4. s.sends[id].next <= T!ChunkCount(s.sends[id].file.size)
      BY <1>2, <3>1, <3>2, <3>3 DEF Sound
    <3> QED BY <3>3, <3>4 DEF Ready, Sound
  <2>2. CASE s.tearingDown
    <3>1. d = T!Return(s, id, "error")
      BY <1>2, <2>2 DEF T!Loop, T!Proceed
    <3> QED BY <1>0, <3>1, ReturnMoves, EndingsFacts
  <2>3. CASE ~s.tearingDown /\ id \in s.cancelled
    <3>1. d = T!Return(s, id, "cancelled")
      BY <1>2, <2>3 DEF T!Loop, T!Proceed
    <3> QED BY <1>0, <3>1, ReturnMoves, EndingsFacts
  <2>4. CASE ~s.tearingDown /\ id \notin s.cancelled /\ b
    <3>1. d = Parked(s, id, "drain", s.sequence)
      <4>1. s = [s EXCEPT !.sequence = s.sequence]
        BY DEF Core, T!Senders
      <4>2. d = [s EXCEPT !.sends[id].at = "drain"]
        BY <1>2, <2>4 DEF T!Loop, T!Proceed
      <4> QED BY <4>1, <4>2 DEF Parked
    <3> QED BY <2>1, <3>1, DrainMoves
  <2>5. CASE ~s.tearingDown /\ id \notin s.cancelled /\ ~b
    <3>1. d = T!Seal(s, id)
      BY <1>2, <2>5 DEF T!Loop, T!Proceed
    <3> QED BY <2>1, <3>1, SealFacts
  <2> QED BY <2>2, <2>3, <2>4, <2>5
<1> QED BY <1>1, <1>2

(* The hash is there.                                                      *)
LEMMA HashedFacts ==
  ASSUME NEW s, NEW id \in T!Ids, SendInv(s), s.sends[id].at = "hash",
         NEW d, d = T!Hashed(s, id)
  PROVE  Moved(s, id, d)
<1>0. Core(s, id) /\ s.sends[id].at # "none" /\ s.sends[id].at \in T!Awaiting
  BY SendCore, AwaitingFacts
<1>1. CASE s.tearingDown
  <2>1. d = T!Return(s, id, "error")
    BY <1>1 DEF T!Hashed, T!Proceed
  <2> QED BY <1>0, <2>1, ReturnMoves, EndingsFacts
<1>2. CASE ~s.tearingDown /\ id \in s.cancelled
  <2>1. d = T!Return(s, id, "cancelled")
    BY <1>2 DEF T!Hashed, T!Proceed
  <2> QED BY <1>0, <2>1, ReturnMoves, EndingsFacts
<1>3. CASE ~s.tearingDown /\ id \notin s.cancelled /\ T!EncodeError(s.sends[id].file) # "none"
  <2>1. d = T!Return(s, id, "error")
    BY <1>3 DEF T!Hashed, T!Proceed
  <2> QED BY <1>0, <2>1, ReturnMoves, EndingsFacts
<1>4. CASE ~s.tearingDown /\ id \notin s.cancelled /\ T!EncodeError(s.sends[id].file) = "none"
  <2> DEFINE e == [s EXCEPT !.announced = @ \cup {id}]
  <2>1. d = T!Seal(e, id)
    BY <1>4 DEF T!Hashed, T!Proceed
  <2>2. s \in T!Senders /\ s.announced \in SUBSET T!Ids
    BY SenderFields DEF SendInv
  <2>3. /\ e.sends = s.sends /\ e.active = s.active /\ e.cancelled = s.cancelled
        /\ e.announced = s.announced \cup {id} /\ e.tearingDown = s.tearingDown
    BY <2>2 DEF T!Senders
  <2>4. e \in T!Senders
    BY <2>2 DEF T!Senders
  <2> HIDE DEF e
  <2>5. Reserved(e)
    BY <1>0, <2>3 DEF SendInv, Reserved
  <2>6. Core(e, id)
    BY <1>0, <2>3, <2>4, <2>5 DEF Core, Prefixed
  <2>7. Ready(e, id)
    <3>1. s.sends[id].next = 0
      BY DEF SendInv, Placed
    <3>2. T!ChunkCount(s.sends[id].file.size) \in Nat
      BY <2>2, SenderFields, ChunkFacts
    <3> QED BY <1>0, <1>4, <2>3, <2>6, <3>1, <3>2 DEF Ready
  <2>8. Moved(e, id, d)
    BY <2>1, <2>7, SealFacts
  <2> QED BY <2>3, <2>8 DEF Moved, Same
<1> QED BY <1>1, <1>2, <1>3, <1>4

(* A frame went out, and the loop goes on.                                 *)
LEMMA SentFacts ==
  ASSUME NEW s, NEW id \in T!Ids, SendInv(s), s.sends[id].at = "seal", NEW b,
         NEW d, d = T!Sent(s, id, b)
  PROVE  /\ SendInv(d) /\ d.tearingDown = s.tearingDown
         /\ \A k \in T!Ids : k # id => d.sends[k] = s.sends[k]
         /\ d.sends[id].next = s.sends[id].next + 1 /\ d.sends[id].file = s.sends[id].file
         /\ \A k \in T!Ids : d.sends[k].at = "none" <=> s.sends[k].at = "none"
<1> DEFINE e == [s EXCEPT !.sends[id].next = @ + 1]
           v == [s.sends[id] EXCEPT !.next = @ + 1]
<1>0. s \in T!Senders /\ s.sends \in [T!Ids -> T!Sends] /\ s.sends[id] \in T!Sends
      /\ s.sends[id].next \in Nat /\ s.sends[id].file.size \in Nat
  BY SenderFields DEF SendInv
<1>1. d = T!Loop(e, id, b)
  BY DEF T!Sent
<1>2. v \in T!Sends /\ v.next = s.sends[id].next + 1 /\ v.file = s.sends[id].file
      /\ v.at = s.sends[id].at
  BY <1>0 DEF T!Sends
<1>3. /\ e.sends = [s.sends EXCEPT ![id] = v]
      /\ e.active = s.active /\ e.cancelled = s.cancelled
      /\ e.announced = s.announced /\ e.tearingDown = s.tearingDown
  BY <1>0 DEF T!Senders
<1>4. e = [s EXCEPT !.sends = [s.sends EXCEPT ![id] = v]]
  OBVIOUS
<1> HIDE DEF v
<1>5. e.sends \in [T!Ids -> T!Sends] /\ e.sends[id] = v
      /\ \A k \in T!Ids : k # id => e.sends[k] = s.sends[k]
  <2> HIDE DEF e
  <2> QED BY <1>0, <1>2, <1>3
<1>6. e \in T!Senders
  <2> DEFINE x == [s.sends EXCEPT ![id] = v]
  <2>1. x \in [T!Ids -> T!Sends]
    BY <1>0, <1>2
  <2>2. e = [s EXCEPT !.sends = x]
    BY <1>4
  <2> HIDE DEF e, x
  <2> QED BY <1>0, <2>1, <2>2 DEF T!Senders
<1> HIDE DEF e
<1>7. \A k \in T!Ids : e.sends[k].at = s.sends[k].at
  BY <1>2, <1>5
<1>8. Core(e, id)
  <2>1. Reserved(e)
    BY <1>3, <1>7 DEF SendInv, Reserved
  <2>2. \E n \in 0..MaxSends : Prefixed(e, n)
    BY <1>7 DEF SendInv, Prefixed
  <2>3. \A k \in T!Ids : k # id => Placed(e.sends[k])
    BY <1>5 DEF SendInv
  <2>4. Sound(e.sends[id])
    <3>1. Placed(s.sends[id])
      BY DEF SendInv
    <3>2. T!ChunkCount(s.sends[id].file.size) \in Nat
      BY <1>0, ChunkFacts
    <3> QED BY <1>0, <1>2, <1>5, <3>1, <3>2 DEF Placed, Sound
  <2> QED BY <1>6, <2>1, <2>2, <2>3, <2>4 DEF Core
<1>9. Moved(e, id, d)
  <2>1. e.sends[id].at \in T!Awaiting /\ e.sends[id].next > 0
    BY <1>0, <1>2, <1>5, AwaitingFacts
  <2> QED BY <1>1, <1>8, <2>1, LoopFacts
<1> QED
  <2>1. SendInv(d) /\ d.tearingDown = s.tearingDown
    BY <1>3, <1>9 DEF Moved
  <2>2. \A k \in T!Ids : k # id => d.sends[k] = s.sends[k]
    BY <1>5, <1>9 DEF Moved
  <2>3. d.sends[id].next = s.sends[id].next + 1 /\ d.sends[id].file = s.sends[id].file
    BY <1>2, <1>5, <1>9 DEF Moved, Same
  <2>4. \A k \in T!Ids : d.sends[k].at = "none" <=> s.sends[k].at = "none"
    BY <1>7, <1>9 DEF Moved, Same
  <2> QED BY <2>1, <2>2, <2>3, <2>4

LEMMA AllocatedFacts ==
  ASSUME NEW s, NEW n \in 0..MaxSends, Prefixed(s, n)
  PROVE  T!Allocated(s) = 1..n /\ T!Cardinality(T!Allocated(s)) = n
<1>1. T!Allocated(s) = 1..n
  BY FileAssumption DEF T!Allocated, T!Ids, Prefixed
<1>2. Cardinality(1..n) = n
  BY FS_Interval
<1> QED BY <1>1, <1>2, SameSize

LEMMA KeepsPlaces ==
  ASSUME NEW s, SendInv(s), NEW d \in T!Senders, d.sends = s.sends, Reserved(d)
  PROVE  SendInv(d) /\ Same(s, d)
BY DEF SendInv, Same, Prefixed

(* beginFileTransfer takes the next id.                                    *)
LEMMA BeginFacts ==
  ASSUME NEW s, SendInv(s), NEW file \in [DOMAIN T!NoFile -> Nat],
         T!Cardinality(T!Allocated(s)) < MaxSends, NEW d, d = T!Begin(s, file)
  PROVE  /\ SendInv(d) /\ d.tearingDown = s.tearingDown
         /\ \A k \in T!Ids : s.sends[k].at # "none" => d.sends[k] = s.sends[k]
         /\ \A k \in T!Ids : /\ d.sends[k].next = s.sends[k].next
                             /\ d.sends[k].file = s.sends[k].file \/ s.sends[k].next = 0
         /\ T!Cardinality(T!Allocated(d)) = T!Cardinality(T!Allocated(s)) + 1
<1> DEFINE id == T!Cardinality(T!Allocated(s)) + 1
           e == [T!Unsent EXCEPT !.at = "hash", !.file = file]
           t == [s EXCEPT !.sends[id] = e, !.active = @ \cup {id}]
<1>0. s \in T!Senders /\ s.sends \in [T!Ids -> T!Sends] /\ s.active \in SUBSET T!Ids
      /\ s.cancelled \in SUBSET T!Ids /\ s.announced \in SUBSET T!Ids
  BY SenderFields DEF SendInv
<1>1. PICK n \in 0..MaxSends : Prefixed(s, n)
  BY DEF SendInv
<1>2. id = n + 1 /\ n < MaxSends /\ id \in T!Ids
  BY <1>1, AllocatedFacts, FileAssumption DEF T!Ids
<1>3. s.sends[id].at = "none" /\ s.sends[id].next = 0
  <2>1. ~ (n + 1 <= n)
    BY <1>2
  <2> HIDE DEF id
  <2>2. s.sends[id].at = "none"
    BY <1>1, <1>2, <2>1 DEF Prefixed
  <2> QED BY <1>2, <2>2 DEF SendInv, Placed
<1>4. e \in T!Sends /\ e.at = "hash" /\ e.file = file /\ e.next = 0
  <2>1. e.at = "hash" /\ e.file = file /\ e.next = 0
    BY DEF T!Unsent
  <2>2. "hash" \in T!Running
    BY AwaitingFacts
  <2>3. e \in T!Sends
    BY <2>2 DEF T!Unsent, T!Sends
  <2> QED BY <2>1, <2>3
<1> HIDE DEF id, e
<1>5. /\ t.sends = [s.sends EXCEPT ![id] = e] /\ t.active = s.active \cup {id}
      /\ t.cancelled = s.cancelled /\ t.announced = s.announced /\ t.tearingDown = s.tearingDown
  BY <1>0 DEF T!Senders
<1>6. t.sends \in [T!Ids -> T!Sends] /\ t.sends[id] = e
      /\ \A k \in T!Ids : k # id => t.sends[k] = s.sends[k]
  <2> HIDE DEF t
  <2> QED BY <1>0, <1>2, <1>4, <1>5
<1>7. t \in T!Senders
  <2>1. t = [s EXCEPT !.sends = t.sends, !.active = t.active]
    BY <1>0 DEF T!Senders
  <2>2. t.active \in SUBSET T!Ids
    BY <1>0, <1>2, <1>5
  <2> HIDE DEF t
  <2> QED BY <1>0, <1>6, <2>1, <2>2 DEF T!Senders
<1>8. d = IF file.size > Budget THEN T!Return(t, id, "error") ELSE t
  BY DEF T!Begin, id, e
<1> HIDE DEF t
<1>9. Reserved(t)
  <2>1. ASSUME NEW k \in T!Ids
        PROVE /\ k \in t.active \cup t.cancelled \cup t.announced => t.sends[k].at \in T!Awaiting
              /\ k \notin t.active \cap t.cancelled
              /\ t.sends[k].at \in T!Awaiting /\ ~t.tearingDown => k \in t.active \cup t.cancelled
    <3>1. /\ k \in s.active \cup s.cancelled \cup s.announced => s.sends[k].at \in T!Awaiting
          /\ k \notin s.active \cap s.cancelled
          /\ s.sends[k].at \in T!Awaiting /\ ~s.tearingDown => k \in s.active \cup s.cancelled
      BY DEF SendInv, Reserved
    <3>2. CASE k = id
      BY <1>3, <1>4, <1>5, <1>6, <3>1, <3>2, AwaitingFacts
    <3>3. CASE k # id
      BY <1>5, <1>6, <3>1, <3>3
    <3> QED BY <3>2, <3>3
  <2> QED BY <2>1 DEF Reserved
<1>10. n + 1 \in 0..MaxSends /\ Prefixed(t, n + 1)
  <2>1. n + 1 \in 0..MaxSends
    BY <1>2, FileAssumption
  <2>2. ASSUME NEW k \in T!Ids PROVE t.sends[k].at # "none" <=> k <= n + 1
    <3>1. k \in Nat
      BY DEF T!Ids
    <3>2. CASE k = id
      BY <1>2, <1>4, <1>6, <3>2
    <3>3. CASE k # id
      <4>1. s.sends[k].at # "none" <=> k <= n
        BY <1>1 DEF Prefixed
      <4>2. k <= n <=> k <= n + 1
        BY <1>2, <3>1, <3>3
      <4> QED BY <1>6, <3>3, <4>1, <4>2
    <3> QED BY <3>2, <3>3
  <2> QED BY <2>1, <2>2 DEF Prefixed
<1>11. ASSUME NEW k \in T!Ids PROVE Placed(t.sends[k])
  <2>1. CASE k = id
    <3>1. file.size \in Nat /\ T!ChunkCount(file.size) \in Nat
      <4>1. file.size \in Nat
        BY DEF T!NoFile
      <4> QED BY <4>1, ChunkFacts
    <3> QED BY <1>4, <1>6, <2>1, <3>1 DEF Placed, Sound
  <2>2. CASE k # id
    BY <1>6, <2>2 DEF SendInv
  <2> QED BY <2>1, <2>2
<1>12. SendInv(t)
  BY <1>7, <1>9, <1>10, <1>11 DEF SendInv
<1>13. SendInv(d) /\ Same(t, d) /\ d.tearingDown = s.tearingDown
       /\ \A k \in T!Ids : k # id => d.sends[k] = t.sends[k]
  <2>1. CASE file.size > Budget
    <3>1. d = T!Return(t, id, "error") /\ Core(t, id) /\ t.sends[id].at # "none"
      BY <1>2, <1>4, <1>6, <1>8, <1>12, <2>1, SendCore
    <3>2. Moved(t, id, d)
      BY <1>2, <3>1, ReturnMoves, EndingsFacts
    <3> QED BY <1>5, <3>2 DEF Moved
  <2>2. CASE ~ (file.size > Budget)
    BY <1>5, <1>8, <1>12, <2>2 DEF Same
  <2> QED BY <2>1, <2>2
<1>14. T!Cardinality(T!Allocated(d)) = T!Cardinality(T!Allocated(s)) + 1
  <2>1. Prefixed(d, n + 1)
    BY <1>10, <1>13 DEF Same, Prefixed
  <2> QED BY <1>1, <1>10, <2>1, AllocatedFacts
<1>15. ASSUME NEW k \in T!Ids
       PROVE  /\ s.sends[k].at # "none" => d.sends[k] = s.sends[k]
              /\ d.sends[k].next = s.sends[k].next
              /\ d.sends[k].file = s.sends[k].file \/ s.sends[k].next = 0
  <2>1. CASE k = id
    BY <1>3, <1>4, <1>6, <1>13, <2>1 DEF Same
  <2>2. CASE k # id
    BY <1>6, <1>13, <2>2
  <2> QED BY <2>1, <2>2
<1> QED BY <1>13, <1>14, <1>15

(* cancelTransfer: the mark replaces the reservation, and a waiter wakes.  *)
LEMMA CancelFacts ==
  ASSUME NEW s, SendInv(s), NEW id \in T!Ids, id \in s.active, NEW d, d = T!CancelTransfer(s, id)
  PROVE  SendInv(d) /\ Same(s, d) /\ d.tearingDown = s.tearingDown
<1> DEFINE t == [s EXCEPT !.active = @ \ {id}, !.cancelled = @ \cup {id}]
           u == IF id \in T!Waiters(s) THEN T!Return(t, id, "cancelled") ELSE t
<1>0. s \in T!Senders /\ s.active \in SUBSET T!Ids
      /\ s.cancelled \in SUBSET T!Ids /\ s.announced \in SUBSET T!Ids /\ s.aborts \in SUBSET T!Ids
  BY SenderFields DEF SendInv
<1>1. /\ t.sends = s.sends /\ t.active = s.active \ {id} /\ t.cancelled = s.cancelled \cup {id}
      /\ t.announced = s.announced /\ t.tearingDown = s.tearingDown
      /\ t.sequence = s.sequence /\ t.aborts = s.aborts
  BY <1>0 DEF T!Senders
<1>2. t \in T!Senders
  <2>1. t.active \in SUBSET T!Ids /\ t.cancelled \in SUBSET T!Ids
    BY <1>0, <1>1
  <2>2. t = [s EXCEPT !.active = t.active, !.cancelled = t.cancelled]
    BY <1>0 DEF T!Senders
  <2> HIDE DEF t
  <2> QED BY <1>0, <2>1, <2>2 DEF T!Senders
<1>3. d = IF id \in s.announced /\ s.sequence <= MaxFrames
          THEN [u EXCEPT !.aborts = @ \cup {id}, !.sequence = @ + 1] ELSE u
  BY DEF T!CancelTransfer
<1>4. Reserved(t)
  <2>1. s.sends[id].at \in T!Awaiting
    BY DEF SendInv, Reserved
  <2> HIDE DEF t
  <2>2. ASSUME NEW k \in T!Ids
        PROVE /\ k \in t.active \cup t.cancelled \cup t.announced => t.sends[k].at \in T!Awaiting
              /\ k \notin t.active \cap t.cancelled
              /\ t.sends[k].at \in T!Awaiting /\ ~t.tearingDown => k \in t.active \cup t.cancelled
    <3>1. /\ k \in s.active \cup s.cancelled \cup s.announced => s.sends[k].at \in T!Awaiting
          /\ k \notin s.active \cap s.cancelled
          /\ s.sends[k].at \in T!Awaiting /\ ~s.tearingDown => k \in s.active \cup s.cancelled
      BY DEF SendInv, Reserved
    <3>2. CASE k = id
      BY <1>1, <2>1, <3>2
    <3>3. CASE k # id
      BY <1>1, <3>1, <3>3
    <3> QED BY <3>2, <3>3
  <2> QED BY <2>2 DEF Reserved
<1> HIDE DEF t
<1>5. SendInv(t) /\ Same(s, t)
  BY <1>1, <1>2, <1>4, KeepsPlaces
<1>6. SendInv(u) /\ Same(s, u) /\ u.tearingDown = s.tearingDown /\ u.sequence = s.sequence
      /\ u.aborts = s.aborts
  <2>1. CASE id \in T!Waiters(s)
    <3>1. t.sends[id].at # "none" /\ Core(t, id)
      BY <1>1, <1>5, <2>1, SendCore DEF T!Waiters
    <3> DEFINE x == T!Return(t, id, "cancelled")
    <3>2. \A end \in T!Endings : x = T!Return(t, id, end) =>
            SendInv(x) /\ Same(t, x) /\ x.tearingDown = t.tearingDown /\ x.sequence = t.sequence
            /\ x.aborts = t.aborts
      <4> HIDE DEF x
      <4> QED BY <3>1, ReturnFacts
    <3>3. SendInv(x) /\ Same(t, x) /\ x.tearingDown = t.tearingDown /\ x.sequence = t.sequence
          /\ x.aborts = t.aborts
      BY <3>2, EndingsFacts
    <3>4. u = x
      BY <2>1
    <3> HIDE DEF x, u
    <3> QED BY <1>1, <1>5, <3>3, <3>4 DEF Same
  <2>2. CASE id \notin T!Waiters(s)
    BY <1>1, <1>5, <2>2
  <2> QED BY <2>1, <2>2
<1> HIDE DEF u
<1>7. CASE id \in s.announced /\ s.sequence <= MaxFrames
  <2>0. u \in T!Senders /\ u.sequence + 1 \in 0..(MaxFrames + 1) /\ u.aborts \cup {id} \in SUBSET T!Ids
    <3>1. s.sequence \in 0..(MaxFrames + 1)
      BY <1>0, SenderFields
    <3> QED BY <1>0, <1>6, <1>7, <3>1, FileAssumption DEF SendInv
  <2>1. d = [u EXCEPT !.aborts = @ \cup {id}, !.sequence = @ + 1]
    BY <1>3, <1>7
  <2>2. /\ d.sends = u.sends /\ d.active = u.active /\ d.cancelled = u.cancelled
        /\ d.announced = u.announced /\ d.tearingDown = u.tearingDown
    BY <2>0, <2>1 DEF T!Senders
  <2>3. d \in T!Senders
    BY <2>0, <2>1 DEF T!Senders
  <2>4. Reserved(d)
    BY <1>6, <2>2 DEF SendInv, Reserved
  <2>5. SendInv(d) /\ Same(u, d)
    BY <1>6, <2>2, <2>3, <2>4, KeepsPlaces
  <2> QED BY <1>6, <2>2, <2>5 DEF Same
<1>8. CASE ~ (id \in s.announced /\ s.sequence <= MaxFrames)
  BY <1>3, <1>6, <1>8
<1> QED BY <1>7, <1>8

(* d is s after steps of the coroutines in W.                              *)
Resumed(s, W, d) == /\ SendInv(d) /\ Same(s, d) /\ d.tearingDown = s.tearingDown
                    /\ \A k \in T!Ids : k \notin W => d.sends[k] = s.sends[k]

LEMMA ResumedStep ==
  ASSUME NEW s, NEW W, NEW t, Resumed(s, W, t), NEW x \in W, x \in T!Ids, NEW d, Moved(t, x, d)
  PROVE  Resumed(s, W, d)
<1>1. SendInv(d) /\ d.tearingDown = s.tearingDown
  BY DEF Resumed, Moved
<1>2. Same(s, d)
  BY DEF Resumed, Moved, Same
<1>3. ASSUME NEW k \in T!Ids, k \notin W PROVE d.sends[k] = s.sends[k]
  <2>1. k # x
    BY <1>3
  <2> QED BY <1>3, <2>1 DEF Resumed, Moved
<1> QED BY <1>1, <1>2, <1>3 DEF Resumed

(* Each of the waiters tests the buffer again.                             *)
LEMMA DrainedFacts ==
  ASSUME NEW s, SendInv(s), NEW b, NEW d, d = T!Drained(s, b)
  PROVE  SendInv(d) /\ Same(s, d) /\ d.tearingDown = s.tearingDown
<1> DEFINE W == T!Waiters(s)
           V == {t \in T!Senders : Resumed(s, W, t)}
           Still(x, t) == t.sends[x] = s.sends[x]
           Step(x, t) == T!Loop(t, x, b)
           step == [y \in W \X V |-> IF Still(y[1], y[2]) THEN Step(y[1], y[2]) ELSE y[2]]
           D(h) == [a \in SUBSET W |-> IF a = {} THEN s ELSE Step(Taken(a), h[a \ {Taken(a)}])]
           g == CHOOSE h : h = D(h)
           Left(a, t) == \A k \in W : k \notin a => Still(k, t)
<1>0. IsFiniteSet(W) /\ W \subseteq T!Ids /\ \A x \in W : s.sends[x].at = "drain"
  <2>1. W \subseteq T!Ids /\ \A x \in W : s.sends[x].at = "drain"
    BY DEF T!Waiters
  <2> HIDE DEF W
  <2> QED BY <2>1, IdsFinite, FS_Subset
<1> HIDE DEF W
<1>1. ASSUME NEW x \in W, NEW t \in V, Still(x, t)
      PROVE  Step(x, t) \in V /\ \A k \in T!Ids : k # x => Step(x, t).sends[k] = t.sends[k]
  <2> DEFINE u == T!Loop(t, x, b)
  <2>1. SendInv(t) /\ x \in T!Ids /\ t.sends[x].at = "drain"
    BY <1>0, <1>1 DEF Resumed
  <2>2. Core(t, x) /\ t.sends[x].at \in T!Awaiting /\ t.sends[x].next > 0
    BY <2>1, SendCore, AwaitingFacts DEF SendInv, Placed
  <2>3. Moved(t, x, u)
    BY <2>1, <2>2, LoopFacts
  <2> HIDE DEF u
  <2>4. Resumed(s, W, t)
    OBVIOUS
  <2>5. Resumed(s, W, u)
    BY <2>1, <2>3, <2>4, ResumedStep
  <2>6. u \in V /\ \A k \in T!Ids : k # x => u.sends[k] = t.sends[k]
    BY <2>3, <2>5 DEF Resumed, Moved, SendInv
  <2> QED BY <2>6 DEF u
<1>2. s \in V
  BY DEF Resumed, Same, SendInv
<1> HIDE DEF V, Step
<1>3. PICK f : IsFold(f, W, V, s, step)
  <2>1. step \in [W \X V -> V]
    BY <1>1
  <2> HIDE DEF step
  <2> QED BY <1>0, <1>2, <2>1, FoldExists
<1>4. ASSUME NEW a \in SUBSET W, a # {}
      PROVE  /\ Taken(a) \in W /\ Taken(a) \in a /\ a \ {Taken(a)} \in SUBSET W
             /\ Taken(a) \in T!Ids
  BY <1>0, <1>4, TakenFacts
<1>5. \A a \in SUBSET W : f[a] \in V
  BY <1>3 DEF IsFold
<1>6. ASSUME NEW a \in SUBSET W, a # {}
      PROVE  f[a] = IF Still(Taken(a), f[a \ {Taken(a)}])
                    THEN Step(Taken(a), f[a \ {Taken(a)}]) ELSE f[a \ {Taken(a)}]
  <2>1. f[a] = step[<<Taken(a), f[a \ {Taken(a)}]>>]
    <3> HIDE DEF step
    <3> QED BY <1>3, <1>6 DEF IsFold
  <2>2. Taken(a) \in W /\ f[a \ {Taken(a)}] \in V
    BY <1>4, <1>5, <1>6
  <2> QED BY <2>1, <2>2
<1>7. ASSUME NEW a \in SUBSET W, a # {}, NEW t \in V, Left(a \ {Taken(a)}, t)
      PROVE  Still(Taken(a), t) /\ Left(a, Step(Taken(a), t)) /\ Step(Taken(a), t) \in V
  <2>1. Taken(a) \in W /\ Taken(a) \in a /\ Taken(a) \notin a \ {Taken(a)}
    BY <1>4, <1>7
  <2>2. Still(Taken(a), t)
    BY <1>7, <2>1
  <2>3. Step(Taken(a), t) \in V /\ \A k \in T!Ids : k # Taken(a) => Step(Taken(a), t).sends[k] = t.sends[k]
    BY <1>1, <2>1, <2>2
  <2>4. ASSUME NEW k \in W, k \notin a PROVE Still(k, Step(Taken(a), t))
    BY <1>0, <1>7, <2>1, <2>3, <2>4
  <2> QED BY <2>2, <2>3, <2>4
<1>8. \A a \in SUBSET W : Left(a, f[a])
  <2> DEFINE K == {a \in SUBSET W : Left(a, f[a])}
  <2>1. {} \in K
    BY <1>3 DEF IsFold
  <2>2. ASSUME NEW a \in SUBSET W, a # {}, a \ {Taken(a)} \in K PROVE a \in K
    <3> DEFINE t == f[a \ {Taken(a)}]
    <3>1. t \in V /\ Left(a \ {Taken(a)}, t)
      BY <1>4, <1>5, <2>2
    <3>2. Still(Taken(a), t) /\ Left(a, Step(Taken(a), t))
      <4> HIDE DEF t, Left, Still
      <4> QED BY <1>7, <2>2, <3>1
    <3>3. f[a] = Step(Taken(a), t)
      BY <1>6, <2>2, <3>2
    <3> QED BY <3>2, <3>3
  <2>3. SUBSET W \subseteq K
    <3> HIDE DEF K
    <3> QED BY <1>0, <2>1, <2>2, SetInduction
  <2> QED BY <2>3
<1>9. f = D(f)
  <2>1. ASSUME NEW a \in SUBSET W PROVE f[a] = D(f)[a]
    <3>1. CASE a = {}
      BY <1>3, <3>1 DEF IsFold
    <3>2. CASE a # {}
      <4>1. Still(Taken(a), f[a \ {Taken(a)}])
        BY <1>4, <1>8, <3>2
      <4> QED BY <1>6, <3>2, <4>1
    <3> QED BY <3>1, <3>2
  <2>2. f = [a \in SUBSET W |-> f[a]] /\ D(f) = [a \in SUBSET W |-> D(f)[a]]
    BY <1>3 DEF IsFold
  <2> HIDE DEF D
  <2> QED BY <2>1, <2>2
<1>10. g = D(g)
  <2> HIDE DEF D
  <2> QED BY <1>9
<1>11. d = g[W]
  BY DEF T!Drained, T!FoldSet, T!MapThenFoldSet, Taken, W, Step
<1> HIDE DEF g
<1>12. g[{}] = s /\ \A a \in SUBSET W : a # {} => g[a] = Step(Taken(a), g[a \ {Taken(a)}])
  <2>1. \A a \in SUBSET W : g[a] = D(g)[a]
    <3> HIDE DEF D
    <3> QED BY <1>10
  <2> QED BY <2>1
<1>13. g[W] \in V
  <2> DEFINE K == {a \in SUBSET W : g[a] \in V /\ Left(a, g[a])}
  <2>1. {} \in K
    BY <1>2, <1>12
  <2>2. ASSUME NEW a \in SUBSET W, a # {}, a \ {Taken(a)} \in K PROVE a \in K
    <3> DEFINE t == g[a \ {Taken(a)}]
    <3>1. t \in V /\ Left(a \ {Taken(a)}, t)
      BY <2>2
    <3>2. Left(a, Step(Taken(a), t)) /\ Step(Taken(a), t) \in V
      <4> HIDE DEF t, Left, Still
      <4> QED BY <1>7, <2>2, <3>1
    <3>3. g[a] = Step(Taken(a), t)
      BY <1>12, <2>2
    <3> QED BY <3>2, <3>3
  <2>3. SUBSET W \subseteq K
    <3> HIDE DEF K
    <3> QED BY <1>0, <2>1, <2>2, SetInduction
  <2> QED BY <2>3
<1> QED
  BY <1>11, <1>13 DEF V, Resumed

(* teardown() ends every waiter and clears the reservations.               *)
LEMMA TeardownFacts ==
  ASSUME NEW s, SendInv(s), NEW d, d = T!SenderTeardown(s)
  PROVE  SendInv(d) /\ Same(s, d)
<1> DEFINE W == T!Waiters(s)
           V == {t \in T!Senders : Resumed(s, W, t)}
           Step(x, t) == T!Return(t, x, "error")
           step == [y \in W \X V |-> Step(y[1], y[2])]
           D(h) == [a \in SUBSET W |-> IF a = {} THEN s ELSE Step(Taken(a), h[a \ {Taken(a)}])]
           g == CHOOSE h : h = D(h)
<1>0. IsFiniteSet(W) /\ W \subseteq T!Ids /\ \A x \in W : s.sends[x].at # "none"
  <2>1. W \subseteq T!Ids /\ \A x \in W : s.sends[x].at # "none"
    BY DEF T!Waiters
  <2> HIDE DEF W
  <2> QED BY <2>1, IdsFinite, FS_Subset
<1> HIDE DEF W
<1>1. ASSUME NEW x \in W, NEW t \in V PROVE Step(x, t) \in V
  <2> DEFINE u == T!Return(t, x, "error")
  <2>1. SendInv(t) /\ x \in T!Ids /\ t.sends[x].at # "none" /\ Resumed(s, W, t)
    BY <1>0 DEF Resumed, Same
  <2>2. Core(t, x)
    BY <2>1, SendCore
  <2>3. \A end \in T!Endings : u = T!Return(t, x, end) => Moved(t, x, u)
    <3> HIDE DEF u
    <3> QED BY <2>1, <2>2, ReturnMoves
  <2>4. Moved(t, x, u)
    BY <2>3, EndingsFacts
  <2> HIDE DEF u
  <2>5. Resumed(s, W, u)
    BY <2>1, <2>4, ResumedStep
  <2>6. u \in V
    BY <2>5 DEF Resumed, SendInv
  <2> QED BY <2>6 DEF u
<1>2. s \in V
  BY DEF Resumed, Same, SendInv
<1> HIDE DEF V, Step
<1>3. PICK f : IsFold(f, W, V, s, step)
  <2>1. step \in [W \X V -> V]
    BY <1>1
  <2> HIDE DEF step
  <2> QED BY <1>0, <1>2, <2>1, FoldExists
<1>4. ASSUME NEW a \in SUBSET W, a # {}
      PROVE  Taken(a) \in W /\ a \ {Taken(a)} \in SUBSET W
  BY <1>0, <1>4, TakenFacts
<1>5. f = D(f)
  <2>1. ASSUME NEW a \in SUBSET W PROVE f[a] = D(f)[a]
    <3>1. CASE a = {}
      BY <1>3, <3>1 DEF IsFold
    <3>2. CASE a # {}
      <4>1. f[a] = step[<<Taken(a), f[a \ {Taken(a)}]>>]
        <5> HIDE DEF step
        <5> QED BY <1>3, <3>2 DEF IsFold
      <4>2. Taken(a) \in W /\ f[a \ {Taken(a)}] \in V
        BY <1>3, <1>4, <3>2 DEF IsFold
      <4> QED BY <3>2, <4>1, <4>2
    <3> QED BY <3>1, <3>2
  <2>2. f = [a \in SUBSET W |-> f[a]] /\ D(f) = [a \in SUBSET W |-> D(f)[a]]
    BY <1>3 DEF IsFold
  <2> HIDE DEF D
  <2> QED BY <2>1, <2>2
<1>6. g = D(g)
  <2> HIDE DEF D
  <2> QED BY <1>5
<1>7. d = [g[W] EXCEPT !.tearingDown = TRUE, !.active = {}, !.announced = {}]
  BY DEF T!SenderTeardown, T!FoldSet, T!MapThenFoldSet, Taken, W, Step
<1> HIDE DEF g
<1>8. g[W] \in V
  <2>1. \A a \in SUBSET W : g[a] = D(g)[a]
    <3> HIDE DEF D
    <3> QED BY <1>6
  <2>2. g[{}] = s /\ \A a \in SUBSET W : a # {} => g[a] = Step(Taken(a), g[a \ {Taken(a)}])
    BY <2>1
  <2>3. ASSUME NEW a \in SUBSET W, a # {}, g[a \ {Taken(a)}] \in V PROVE g[a] \in V
    BY <1>1, <1>4, <2>2, <2>3
  <2> QED BY <1>0, <1>2, <2>2, <2>3, FoldStays
<1> DEFINE e == g[W]
<1>9. SendInv(e) /\ Same(s, e) /\ e \in T!Senders
  BY <1>8 DEF V, Resumed
<1>10. d = [e EXCEPT !.tearingDown = TRUE, !.active = {}, !.announced = {}]
  BY <1>7
<1> HIDE DEF e
<1>11. /\ d.sends = e.sends /\ d.active = {} /\ d.cancelled = e.cancelled /\ d.announced = {}
  BY <1>9, <1>10 DEF T!Senders
<1>12. d.tearingDown = TRUE
  BY <1>9, <1>10 DEF T!Senders
<1>13. d \in T!Senders
  BY <1>9, <1>10 DEF T!Senders
<1>14. Reserved(d)
  <2>1. ASSUME NEW k \in T!Ids PROVE k \in e.cancelled => e.sends[k].at \in T!Awaiting
    BY <1>9 DEF SendInv, Reserved
  <2> QED BY <1>11, <1>12, <2>1 DEF Reserved
<1>15. SendInv(d) /\ Same(e, d)
  BY <1>9, <1>11, <1>13, <1>14, KeepsPlaces
<1> QED BY <1>9, <1>15 DEF Same

-----------------------------------------------------------------------------
(* The frames of the transfers on the wire.                                *)

(* The frames of a transfer are numbered, the manifest first.              *)
Number(f) == IF f.type = "manifest" THEN 0 ELSE f.chunk + 1
FrameAt(id, file, m) == IF m = 0 THEN T!ManifestFrame(id, file)
                         ELSE T!ChunkFrame(id, m - 1, T!ChunkLength(file.size, m - 1))
(* f is frame m of the transfer.                                           *)
IsFrame(f, id, m) == f.type # "cancel" /\ f.id = id /\ Number(f) = m

(* k[id] counts the frames of a transfer that are taken from the wire: the *)
(* others, up to what was sent, are on it, each once and in order.         *)
Wire(S, w, k) ==
  /\ w \in Seq(T!Frames) /\ k \in [T!Ids -> Nat]
  /\ \A i \in 1..Len(w) : w[i].type # "cancel" =>
       /\ k[w[i].id] <= Number(w[i]) /\ Number(w[i]) < S[w[i].id].next
       /\ w[i] = FrameAt(w[i].id, S[w[i].id].file, Number(w[i]))
  /\ \A id \in T!Ids : \A m \in Nat : k[id] <= m /\ m < S[id].next =>
       \E i \in 1..Len(w) : IsFrame(w[i], id, m)
  /\ \A i, j \in 1..Len(w) : /\ i < j /\ w[i].id = w[j].id
                             /\ w[i].type # "cancel" /\ w[j].type # "cancel"
                             => Number(w[i]) < Number(w[j])
  /\ \A id \in T!Ids : k[id] <= S[id].next

LEMMA FileFields ==
  ASSUME NEW file \in [DOMAIN T!NoFile -> Nat]
  PROVE  file.size \in Nat /\ file.name \in Nat /\ file.mime \in Nat
BY DEF T!NoFile

(* A manifest that encodes decodes.                                        *)
LEMMA DecodeFacts ==
  ASSUME NEW file \in [DOMAIN T!NoFile -> Nat], T!EncodeError(file) = "none", NEW id \in T!Ids,
         NEW plain, plain = T!Encoded(id, file)
  PROVE  T!DecodeError(plain, id) = "none" /\ plain.size = file.size
<1>1. file.size \in Nat /\ file.name \in Nat /\ file.mime \in Nat
  BY FileFields
<1>2. /\ file.name <= NameCap /\ file.name # 0 /\ file.mime <= MimeCap /\ file.size <= Budget
  <2>1. ~ (file.name > NameCap) /\ ~ (file.name = 0) /\ ~ (file.mime > MimeCap) /\ ~ (file.size > Budget)
    BY DEF T!EncodeError
  <2> QED BY <1>1, <2>1, FileAssumption
<1>3. file.name % 256 = file.name /\ file.mime % 256 = file.mime
  BY <1>1, <1>2, FileAssumption
<1>4. /\ plain.id = id /\ plain.name = file.name /\ plain.mime = file.mime /\ plain.size = file.size
      /\ plain.chunks = T!ChunkCount(file.size)
      /\ plain.length = 4 + 1 + file.name + 1 + file.mime + (4 + 4 + 32)
  BY <1>3 DEF T!Encoded, T!IdBytes, T!TailBytes
<1>5. T!DecodeError(plain, id) = "none"
  <2> DEFINE mimeAt == 4 + 1 + plain.name
             tailAt == mimeAt + 1 + plain.mime
  <2>1. ~ (plain.length < 4 + 2 \/ plain.id # id)
    BY <1>1, <1>4
  <2>2. ~ (mimeAt > plain.length \/ plain.name = 0) /\ ~ (plain.name > NameCap)
    BY <1>1, <1>2, <1>4, FileAssumption
  <2>3. ~ (mimeAt = plain.length \/ tailAt > plain.length) /\ ~ (plain.mime > MimeCap)
    BY <1>1, <1>2, <1>4, FileAssumption
  <2>4. ~ (tailAt + (4 + 4 + 32) # plain.length) /\ ~ (plain.size > Budget)
        /\ ~ (plain.chunks # T!ChunkCount(plain.size))
    BY <1>1, <1>2, <1>4, FileAssumption
  <2> QED
    BY <2>1, <2>2, <2>3, <2>4 DEF T!DecodeError, T!IdBytes, T!TailBytes
<1> QED BY <1>4, <1>5

LEMMA FrameAtFacts ==
  ASSUME NEW id \in T!Ids, NEW file \in [DOMAIN T!NoFile -> Nat], NEW m \in Nat,
         m <= T!ChunkCount(file.size), NEW f, f = FrameAt(id, file, m)
  PROVE  f \in T!Frames /\ IsFrame(f, id, m)
<1>1. file.size \in Nat /\ file.name \in Nat /\ file.mime \in Nat
      /\ T!ChunkCount(file.size) \in Nat
  BY FileFields, ChunkFacts
<1>2. CASE m = 0
  <2> DEFINE plain == T!Encoded(id, file)
  <2>1. f = T!ManifestFrame(id, file)
    BY <1>2 DEF FrameAt
  <2>2. plain \in [DOMAIN T!NoPlain -> Nat]
    <3>1. id \in Nat
      BY DEF T!Ids
    <3>2. file.name % 256 \in Nat /\ file.mime % 256 \in Nat
          /\ 4 + 1 + file.name + 1 + file.mime + (4 + 4 + 32) \in Nat
      BY <1>1
    <3> QED BY <1>1, <3>1, <3>2 DEF T!Encoded, T!NoPlain, T!IdBytes, T!TailBytes
  <2> HIDE DEF plain
  <2>3. f = [type |-> "manifest", id |-> id, size |-> file.size, chunk |-> 0, plain |-> plain]
    BY <2>1 DEF T!ManifestFrame, plain
  <2>4. f \in T!Frames
    BY <1>1, <2>2, <2>3 DEF T!Frames
  <2>5. IsFrame(f, id, m)
    BY <1>2, <2>3 DEF IsFrame, Number
  <2> QED BY <2>4, <2>5
<1>3. CASE m # 0
  <2> DEFINE n == T!ChunkLength(file.size, m - 1)
             plain == T!NoPlain
  <2>1. f = T!ChunkFrame(id, m - 1, n)
    BY <1>3 DEF FrameAt
  <2>2. n \in Nat /\ m - 1 \in Nat
    <3>1. m - 1 \in Nat /\ m - 1 < T!ChunkCount(file.size)
      BY <1>1, <1>3
    <3> QED BY <1>1, <3>1, PrefixFacts
  <2>3. plain \in [DOMAIN T!NoPlain -> Nat]
    BY DEF T!NoPlain
  <2>4. f = [type |-> "chunk", id |-> id, size |-> n, chunk |-> m - 1, plain |-> plain]
    BY <2>1 DEF T!ChunkFrame
  <2> HIDE DEF n, plain
  <2>5. f \in T!Frames
    BY <2>2, <2>3, <2>4 DEF T!Frames
  <2>6. f.type = "chunk" /\ f.id = id /\ f.chunk = m - 1
    BY <2>4
  <2>7. IsFrame(f, id, m)
    BY <1>3, <2>6 DEF IsFrame, Number
  <2> QED BY <2>5, <2>7
<1> QED BY <1>2, <1>3

-----------------------------------------------------------------------------
(* The two ends of a transfer.                                             *)

(* Why a receiver may have given a transfer up before its last frame.      *)
Excused(r, id) == \/ r.fate[id] \cap {"cancelled", "timeout"} # {}
                  \/ <<id, "ConcurrentTransfersExceeded">> \in r.errors
                  \/ <<id, "SizeExceeded">> \in r.errors

Broken == {"TransferInactive", "ChunkOutOfRange", "Malformed", "DuplicateChunk",
           "NameExceeded", "MimeExceeded"}
Honest(r) == \A e \in r.errors : /\ e[2] \notin Broken
                                 /\ e[2] = "UnknownTransfer" => Excused(r, e[1])

RecvInv(r) == r \in T!Receivers /\ Books(r) /\ Honest(r)

(* What the receiver holds of a file of which j frames were taken: their   *)
(* chunks, all of the file when it hashes, and none only with a reason.    *)
Held(r, id, size, j) ==
  /\ id \in r.transfers => /\ j > 0 /\ r.object[id].size = size
                           /\ r.object[id].chunks = 0..(j - 2)
                           /\ r.object[id].received = Prefix(size, j - 1)
                           /\ r.fate[id] = {}
  /\ j = 0 => r.fate[id] = {}
  /\ r.hashing = id => j = T!ChunkCount(size) + 1
  /\ j > 0 /\ id \notin r.transfers /\ r.tornDown = FALSE =>
       Excused(r, id) \/ j = T!ChunkCount(size) + 1

(* d knows of the transfer what r does, or has given it up for a reason.   *)
Faithful(r, d, id) ==
  /\ id \in d.transfers => /\ id \in r.transfers
                           /\ d.object[id].size = r.object[id].size
                           /\ d.object[id].chunks = r.object[id].chunks
                           /\ d.object[id].received = r.object[id].received
  /\ d.hashing = id => r.hashing = id
  /\ d.tornDown = FALSE => r.tornDown = FALSE
  /\ id \in d.transfers \/ id \notin r.transfers => d.fate[id] = r.fate[id]
  /\ Excused(r, id) => Excused(d, id)
  /\ id \in r.transfers /\ id \notin d.transfers /\ d.tornDown = FALSE => Excused(d, id)

LEMMA HeldStays ==
  ASSUME NEW r, NEW d, NEW id, NEW size, NEW j, Faithful(r, d, id), Held(r, id, size, j),
         j \in Nat
  PROVE  Held(d, id, size, j)
<1>1. id \in d.transfers => /\ j > 0 /\ d.object[id].size = size
                            /\ d.object[id].chunks = 0..(j - 2)
                            /\ d.object[id].received = Prefix(size, j - 1)
                            /\ d.fate[id] = {}
  BY DEF Faithful, Held
<1>2. j = 0 => d.fate[id] = {}
  BY DEF Faithful, Held
<1>3. d.hashing = id => j = T!ChunkCount(size) + 1
  BY DEF Faithful, Held
<1>4. j > 0 /\ id \notin d.transfers /\ d.tornDown = FALSE =>
        Excused(d, id) \/ j = T!ChunkCount(size) + 1
  BY DEF Faithful, Held
<1> QED BY <1>1, <1>2, <1>3, <1>4 DEF Held

(* Without new errors an honest receiver stays one.                        *)
LEMMA HonestStays ==
  ASSUME NEW r, NEW d, Honest(r), d.errors = r.errors, r.errors \subseteq T!Ids \X T!Errors,
         \A id \in T!Ids : Excused(r, id) => Excused(d, id)
  PROVE  Honest(d)
<1>1. ASSUME NEW e \in d.errors
      PROVE  e[2] \notin Broken /\ (e[2] = "UnknownTransfer" => Excused(d, e[1]))
  <2>1. e[1] \in T!Ids
    OBVIOUS
  <2> QED BY <2>1 DEF Honest
<1> QED BY <1>1 DEF Honest

LEMMA ExcusedStays ==
  ASSUME NEW r, NEW d, NEW id, Excused(r, id), r.fate[id] \subseteq d.fate[id],
         r.errors \subseteq d.errors
  PROVE  Excused(d, id)
BY DEF Excused

(* A receiver without a transfer holds nothing of it, whatever its size.   *)
LEMMA HeldFree ==
  ASSUME NEW r, NEW id, NEW size \in Nat, NEW other \in Nat, Held(r, id, size, 0)
  PROVE  Held(r, id, other, 0)
<1>1. T!ChunkCount(size) \in Nat
  BY ChunkFacts
<1> QED BY <1>1 DEF Held

-----------------------------------------------------------------------------
(* What a frame does to the receiver.                                      *)

(* d took frame j of a transfer, and of the others it knows what r does.   *)
Took(r, id, size, j, d) ==
  /\ RecvInv(d) /\ d.tornDown = r.tornDown /\ d.fate = r.fate
  /\ Held(d, id, size, j + 1)
  /\ \A k \in T!Ids : k # id => Faithful(r, d, k)

Refused(r, id, error) == [r EXCEPT !.errors = @ \cup {<<id, error>>}]

LEMMA RefusedFields ==
  ASSUME NEW r \in T!Receivers, NEW id \in T!Ids, NEW error \in T!Errors,
         NEW d, d = Refused(r, id, error)
  PROVE  /\ d \in T!Receivers /\ d.errors = r.errors \cup {<<id, error>>}
         /\ d.transfers = r.transfers /\ d.object = r.object /\ d.hashing = r.hashing
         /\ d.tornDown = r.tornDown /\ d.fate = r.fate
         /\ d.buffered = r.buffered /\ d.outstanding = r.outstanding
<1>1. /\ d.errors = r.errors \cup {<<id, error>>}
      /\ d.transfers = r.transfers /\ d.object = r.object /\ d.hashing = r.hashing
      /\ d.tornDown = r.tornDown /\ d.fate = r.fate
      /\ d.buffered = r.buffered /\ d.outstanding = r.outstanding
  BY DEF Refused, T!Receivers
<1>2. d.errors \in SUBSET (T!Ids \X T!Errors)
  BY <1>1, ReceiverFields
<1>3. d = [r EXCEPT !.errors = d.errors]
  BY <1>1 DEF Refused
<1>4. d \in T!Receivers
  BY <1>2, <1>3 DEF T!Receivers
<1> QED BY <1>1, <1>4

(* A frame of a transfer that was refused, or given up for a reason.       *)
LEMMA RefusedFacts ==
  ASSUME NEW r, RecvInv(r), NEW id \in T!Ids, NEW error \in T!Errors, NEW size \in Nat,
         NEW j \in Nat, id \notin r.transfers, r.hashing = 0,
         \/ error \in {"ConcurrentTransfersExceeded", "SizeExceeded"}
         \/ error = "UnknownTransfer" /\ Excused(r, id),
         NEW d, d = Refused(r, id, error)
  PROVE  Took(r, id, size, j, d)
<1>0. r \in T!Receivers /\ Books(r) /\ Honest(r)
  BY DEF RecvInv
<1>1. /\ d \in T!Receivers /\ d.errors = r.errors \cup {<<id, error>>}
      /\ d.transfers = r.transfers /\ d.object = r.object /\ d.hashing = r.hashing
      /\ d.tornDown = r.tornDown /\ d.fate = r.fate
      /\ d.buffered = r.buffered /\ d.outstanding = r.outstanding
  BY <1>0, RefusedFields
<1>2. Books(d)
  BY <1>0, <1>1 DEF Books, Got, Due
<1>3. \A k \in T!Ids : Excused(r, k) => Excused(d, k)
  BY <1>1 DEF Excused
<1>4. Excused(d, id)
  <2>1. CASE error = "ConcurrentTransfersExceeded"
    BY <1>1, <2>1 DEF Excused
  <2>2. CASE error = "SizeExceeded"
    BY <1>1, <2>2 DEF Excused
  <2>3. CASE error = "UnknownTransfer" /\ Excused(r, id)
    BY <1>3, <2>3
  <2> QED BY <2>1, <2>2, <2>3
<1>5. Honest(d)
  <2>1. ASSUME NEW e \in d.errors
        PROVE  e[2] \notin Broken /\ (e[2] = "UnknownTransfer" => Excused(d, e[1]))
    <3>1. CASE e \in r.errors
      <4>1. e[1] \in T!Ids
        BY <1>0, <3>1, ReceiverFields
      <4> QED BY <1>0, <1>3, <3>1, <4>1 DEF Honest
    <3>2. CASE e = <<id, error>>
      <4>1. e[1] = id /\ e[2] = error
        BY <3>2
      <4>2. error \notin Broken
        BY DEF Broken
      <4> QED BY <1>4, <4>1, <4>2
    <3> QED BY <1>1, <3>1, <3>2
  <2> QED BY <2>1 DEF Honest
<1>6. ASSUME NEW k \in T!Ids
      PROVE  Faithful(r, d, k)
  BY <1>1, <1>3 DEF Faithful
<1>7. Held(d, id, size, j + 1)
  <2>1. d.hashing # id
    BY <1>1 DEF T!Ids
  <2>2. j + 1 # 0
    OBVIOUS
  <2> QED BY <1>1, <1>4, <2>1, <2>2 DEF Held
<1> QED BY <1>1, <1>2, <1>5, <1>6, <1>7 DEF Took, RecvInv

(* A manifest.                                                             *)
LEMMA ManifestTaken ==
  ASSUME NEW r, RecvInv(r), r.hashing = 0,
         NEW id \in T!Ids, NEW file \in [DOMAIN T!NoFile -> Nat], T!EncodeError(file) = "none",
         Held(r, id, file.size, 0),
         NEW f, f = T!ManifestFrame(id, file), NEW d, d = T!Ingested(r, f)
  PROVE  Took(r, id, file.size, 0, d)
<1>0. r \in T!Receivers /\ Books(r) /\ Honest(r)
  BY DEF RecvInv
<1>1. file.size \in Nat /\ T!ChunkCount(file.size) \in Nat
  BY FileFields, ChunkFacts
<1>2. f \in T!Frames
  <2>1. f = FrameAt(id, file, 0) /\ 0 \in Nat /\ 0 <= T!ChunkCount(file.size)
    BY <1>1 DEF FrameAt
  <2> QED BY <2>1, FrameAtFacts
<1>3. f.type = "manifest" /\ f.id = id /\ f.plain = T!Encoded(id, file)
  BY DEF T!ManifestFrame
<1>4. T!DecodeError(f.plain, f.id) = "none" /\ f.plain.size = file.size
  BY <1>3, DecodeFacts
<1>5. id \notin r.transfers /\ r.fate[id] = {}
  BY DEF Held
<1>6. T!ErrorOf(r, f) = T!ManifestError(r, f)
  BY <1>3 DEF T!ErrorOf
<1>7. T!ManifestError(r, f) \in {"none", "ConcurrentTransfersExceeded", "SizeExceeded"}
  BY <1>3, <1>4, <1>5 DEF T!ManifestError
<1>8. CASE T!ManifestError(r, f) = "none"
  <2>1. d = T!Admit(r, f)
    BY <1>3, <1>6, <1>8 DEF T!Ingested
  <2>2. /\ d \in T!Receivers /\ Books(d)
        /\ f.id \notin r.transfers /\ d.transfers = r.transfers \cup {f.id}
        /\ d.tornDown = r.tornDown /\ d.errors = r.errors /\ d.fate = r.fate
        /\ d.object[f.id].size = f.plain.size /\ d.object[f.id].chunks = {}
        /\ d.object[f.id].received = 0
        /\ \A k \in T!Ids : k # f.id => d.object[k] = r.object[k]
        /\ d.hashing = IF T!ChunkCount(f.plain.size) = 0 THEN f.id ELSE r.hashing
    BY <1>0, <1>2, <1>8, <2>1, AdmitFacts
  <2>3. Honest(d)
    BY <1>0, <2>2 DEF Honest, Excused
  <2>4. ASSUME NEW k \in T!Ids, k # id
        PROVE  Faithful(r, d, k)
    <3>1. d.object[k] = r.object[k] /\ (k \in d.transfers <=> k \in r.transfers)
          /\ (d.hashing = k => r.hashing = k) /\ d.fate[k] = r.fate[k]
          /\ (Excused(r, k) => Excused(d, k)) /\ d.tornDown = r.tornDown
      BY <1>3, <2>2, <2>4 DEF Excused
    <3> QED BY <3>1 DEF Faithful
  <2>5. Held(d, id, file.size, 0 + 1)
    <3>1. 0..(1 - 2) = {} /\ Prefix(file.size, 1 - 1) = 0 /\ 0 + 1 = 1
      BY <1>1, PrefixFacts
    <3>2. id \in d.transfers /\ d.object[id].size = file.size /\ d.object[id].chunks = {}
          /\ d.object[id].received = 0 /\ d.fate[id] = {}
      BY <1>3, <1>4, <1>5, <2>2
    <3>3. d.hashing = id => 1 = T!ChunkCount(file.size) + 1
      <4>1. r.hashing # id
        BY DEF T!Ids
      <4> QED BY <1>1, <1>4, <2>2, <4>1
    <3> QED BY <3>1, <3>2, <3>3 DEF Held
  <2> QED BY <2>2, <2>3, <2>4, <2>5 DEF Took, RecvInv
<1>9. CASE T!ManifestError(r, f) # "none"
  <2> DEFINE error == T!ManifestError(r, f)
  <2>1. d = Refused(r, id, error)
    BY <1>3, <1>6, <1>9 DEF T!Ingested, Refused
  <2>2. error \in {"ConcurrentTransfersExceeded", "SizeExceeded"}
    BY <1>7, <1>9
  <2>3. error \in T!Errors
    BY <2>2 DEF T!Errors
  <2> HIDE DEF error
  <2> QED BY <1>1, <1>5, <2>1, <2>2, <2>3, RefusedFacts
<1> QED BY <1>8, <1>9

(* What is declared and not there yet counts for the budget.               *)
LEMMA RoomLeft ==
  ASSUME NEW r \in T!Receivers, Books(r), NEW id \in r.transfers, NEW n \in Nat,
         r.object[id].received + n <= r.object[id].size
  PROVE  r.buffered + n <= Budget
<1>1. Due(r) \in [T!Ids -> Nat] /\ r.transfers \in SUBSET T!Ids /\ id \in T!Ids
  BY Counted, ReceiverFields
<1>2. Due(r)[id] <= Total(Due(r), r.transfers)
  BY <1>1, IdsFinite, TotalRemoves
<1>3. Due(r)[id] = r.object[id].size - r.object[id].received
      /\ r.object[id].size \in Nat /\ r.object[id].received \in Nat
      /\ r.buffered \in Nat /\ r.outstanding \in Nat
  BY <1>1, ReceiverFields DEF Due
<1>4. r.outstanding = Total(Due(r), r.transfers) /\ r.buffered + r.outstanding <= Budget
  BY DEF Books
<1> QED BY <1>2, <1>3, <1>4, FileAssumption

LEMMA Interval ==
  ASSUME NEW m \in Nat
  PROVE  0..(m - 1) \cup {m} = 0..m /\ Cardinality(0..m) = m + 1
<1>1. 0..(m - 1) \cup {m} = 0..m
  OBVIOUS
<1>2. Cardinality(0..m) = m - 0 + 1
  BY FS_Interval
<1> QED BY <1>1, <1>2

(* A chunk.                                                                *)
LEMMA ChunkTaken ==
  ASSUME NEW r, RecvInv(r), r.hashing = 0, r.tornDown = FALSE,
         NEW id \in T!Ids, NEW file \in [DOMAIN T!NoFile -> Nat],
         NEW m \in Nat, m < T!ChunkCount(file.size), Held(r, id, file.size, m + 1),
         NEW f, f = T!ChunkFrame(id, m, T!ChunkLength(file.size, m)), NEW d, d = T!Ingested(r, f)
  PROVE  Took(r, id, file.size, m + 1, d)
<1> DEFINE size == file.size
           n == T!ChunkLength(size, m)
<1>0. r \in T!Receivers /\ Books(r) /\ Honest(r)
  BY DEF RecvInv
<1>1. size \in Nat /\ T!ChunkCount(size) \in Nat /\ n \in Nat
      /\ Prefix(size, m) + n = Prefix(size, m + 1) /\ Prefix(size, m + 1) <= size
      /\ Prefix(size, m) \in Nat
  <2>1. size \in Nat
    BY FileFields
  <2>2. T!ChunkCount(size) \in Nat /\ m + 1 \in Nat
    BY <2>1, ChunkFacts
  <2>3. n \in Nat /\ Prefix(size, m) + n = Prefix(size, m + 1) /\ Prefix(size, m) \in Nat
    BY <2>1, PrefixFacts
  <2>4. Prefix(size, m + 1) <= size
    BY <2>1, <2>2, PrefixFacts
  <2> QED BY <2>1, <2>2, <2>3, <2>4
<1>2. f \in T!Frames
  <2>1. f = FrameAt(id, file, m + 1) /\ m + 1 \in Nat /\ m + 1 <= T!ChunkCount(file.size)
    BY <1>1 DEF FrameAt
  <2> QED BY <2>1, FrameAtFacts
<1>3. f.type = "chunk" /\ f.id = id /\ f.chunk = m /\ f.size = n
  BY DEF T!ChunkFrame
<1> HIDE DEF n, size
<1>4. T!ErrorOf(r, f) = T!ChunkError(r, f)
  BY <1>3 DEF T!ErrorOf
<1>5. CASE id \notin r.transfers
  <2>1. T!ChunkError(r, f) = "UnknownTransfer"
    BY <1>3, <1>5 DEF T!ChunkError
  <2>2. d = Refused(r, id, "UnknownTransfer")
    BY <1>3, <1>4, <2>1 DEF T!Ingested, Refused
  <2>3. Excused(r, id)
    <3>1. m + 1 # T!ChunkCount(size) + 1
      BY <1>1 DEF size
    <3> QED BY <1>5, <3>1 DEF Held, size
  <2>4. "UnknownTransfer" \in T!Errors
    BY DEF T!Errors
  <2>5. m + 1 \in Nat
    OBVIOUS
  <2> QED BY <1>1, <1>5, <2>2, <2>3, <2>4, <2>5, RefusedFacts DEF size
<1>6. CASE id \in r.transfers
  <2>1. r.object[id].size = size /\ r.object[id].chunks = 0..(m - 1)
        /\ r.object[id].received = Prefix(size, m) /\ r.fate[id] = {}
    <3>1. (m + 1) - 2 = m - 1 /\ (m + 1) - 1 = m
      OBVIOUS
    <3> QED BY <1>6, <3>1 DEF Held, size
  <2>2. m < T!ChunkCount(size)
    BY DEF size
  <2>3. r.object[id].received + n <= r.object[id].size
    BY <1>1, <2>1
  <2>4. r.buffered + n <= Budget
    BY <1>0, <1>1, <1>6, <2>3, RoomLeft
  <2>5. T!ChunkError(r, f) = "none"
    <3>1. ~ (m >= T!ChunkCount(size)) /\ ~ (m \in 0..(m - 1))
      BY <1>1, <2>2
    <3>2. ~ (r.object[id].received + n > r.object[id].size \/ r.buffered + n > Budget)
      BY <1>0, <1>1, <2>1, <2>3, <2>4, ReceiverFields, FileAssumption
    <3>3. n = T!ChunkLength(size, m)
      BY DEF n
    <3> QED BY <1>3, <1>6, <2>1, <3>1, <3>2, <3>3 DEF T!ChunkError
  <2>6. d = T!Store(r, f)
    BY <1>3, <1>4, <2>5 DEF T!Ingested
  <2>7. Stored(r, f, d)
    BY <1>0, <1>2, <2>5, <2>6, StoreFacts
  <2>70. /\ d \in T!Receivers /\ Books(d) /\ d.transfers = r.transfers
         /\ d.tornDown = r.tornDown /\ d.errors = r.errors /\ d.fate = r.fate
         /\ d.object[id].size = r.object[id].size
         /\ d.object[id].chunks = r.object[id].chunks \cup {m}
         /\ d.object[id].received = r.object[id].received + n
    BY <1>3, <2>7 DEF Stored
  <2>71. /\ \A k \in T!Ids : k # id => d.object[k] = r.object[k]
         /\ d.hashing = IF Cardinality(d.object[id].chunks) = T!ChunkCount(d.object[id].size)
                        THEN id ELSE r.hashing
    BY <1>3, <2>7, Zenon DEF Stored
  <2>8. Honest(d)
    BY <1>0, <2>70 DEF Honest, Excused
  <2>9. ASSUME NEW k \in T!Ids, k # id
        PROVE  Faithful(r, d, k)
    <3>1. d.object[k] = r.object[k] /\ (k \in d.transfers <=> k \in r.transfers)
          /\ (d.hashing = k => r.hashing = k) /\ d.fate[k] = r.fate[k]
          /\ (Excused(r, k) => Excused(d, k)) /\ d.tornDown = r.tornDown
      BY <2>70, <2>71, <2>9 DEF Excused
    <3> QED BY <3>1 DEF Faithful
  <2>10. Held(d, id, size, (m + 1) + 1)
    <3>1. ((m + 1) + 1) - 2 = m /\ ((m + 1) + 1) - 1 = m + 1 /\ (m + 1) + 1 > 0 /\ (m + 1) + 1 # 0
      OBVIOUS
    <3>2. d.object[id].chunks = 0..m /\ Cardinality(0..m) = m + 1
      BY <2>1, <2>70, Interval
    <3>3. d.object[id].size = size /\ d.object[id].received = Prefix(size, m + 1)
          /\ d.fate[id] = {} /\ id \in d.transfers
      BY <1>1, <1>6, <2>1, <2>70
    <3>4. d.hashing = id => (m + 1) + 1 = T!ChunkCount(size) + 1
      <4>1. r.hashing # id
        BY DEF T!Ids
      <4>2. d.hashing = IF Cardinality(0..m) = T!ChunkCount(size) THEN id ELSE r.hashing
        BY <2>71, <3>2, <3>3, Zenon
      <4> QED BY <3>2, <4>1, <4>2
    <3> QED BY <3>1, <3>2, <3>3, <3>4 DEF Held
  <2> QED BY <2>70, <2>8, <2>9, <2>10 DEF Took, RecvInv, size
<1> QED BY <1>5, <1>6

(* d is r after something that ends transfers and takes no frame.          *)
Settled(r, d) == RecvInv(d) /\ \A k \in T!Ids : Faithful(r, d, k)

(* The TransferCancel of the peer.                                         *)
LEMMA CancelTaken ==
  ASSUME NEW r, RecvInv(r), NEW f \in T!Frames, f.type = "cancel", NEW d, d = T!Ingested(r, f)
  PROVE  Settled(r, d) /\ d.tornDown = r.tornDown
         /\ \A k \in T!Ids : "file" \in d.fate[k] => "file" \in r.fate[k]
<1>0. r \in T!Receivers /\ Books(r) /\ Honest(r) /\ f.id \in T!Ids
  BY FrameFields DEF RecvInv
<1>1. T!ErrorOf(r, f) = "none"
  BY DEF T!ErrorOf
<1>2. CASE f.id \notin r.transfers
  <2>1. d = r
    BY <1>1, <1>2 DEF T!Ingested
  <2> QED BY <2>1 DEF Settled, Faithful
<1>3. CASE f.id \in r.transfers
  <2> DEFINE t == T!Drop(r, f.id)
  <2>1. d = T!Met(t, f.id, "cancelled")
    BY <1>1, <1>3 DEF T!Ingested
  <2>2. Dropped(r, f.id, t) /\ Books(t)
    BY <1>0, DropFacts
  <2>3. t \in T!Receivers
    BY <2>2 DEF Dropped
  <2> HIDE DEF t
  <2>4. "cancelled" \in T!Fates
    BY DEF T!Fates
  <2>5. /\ d \in T!Receivers /\ d.transfers = t.transfers /\ d.object = t.object
        /\ d.hashing = t.hashing /\ d.tornDown = t.tornDown /\ d.errors = t.errors
        /\ d.fate[f.id] = t.fate[f.id] \cup {"cancelled"}
        /\ \A k \in T!Ids : k # f.id => d.fate[k] = t.fate[k]
        /\ Books(d)
    BY <1>0, <2>1, <2>2, <2>3, <2>4, MetFacts
  <2>6. \A k \in T!Ids : r.fate[k] \subseteq d.fate[k]
    BY <2>2, <2>5 DEF Dropped
  <2>7. d.errors = r.errors /\ d.tornDown = r.tornDown /\ d.transfers = r.transfers \ {f.id}
        /\ d.hashing = r.hashing
    BY <2>2, <2>5 DEF Dropped
  <2>8. \A k \in T!Ids : Excused(r, k) => Excused(d, k)
    BY <2>6, <2>7, ExcusedStays
  <2>9. Honest(d)
    BY <1>0, <2>7, <2>8, ReceiverFields, HonestStays
  <2>10. Excused(d, f.id)
    BY <2>5 DEF Excused
  <2>11. ASSUME NEW k \in T!Ids
         PROVE  Faithful(r, d, k)
    <3>1. /\ d.object[k].size = r.object[k].size
          /\ d.object[k].chunks = r.object[k].chunks
          /\ d.object[k].received = r.object[k].received
      BY <2>2, <2>5 DEF Dropped
    <3>2. k # f.id => d.fate[k] = r.fate[k]
      BY <2>2, <2>5 DEF Dropped
    <3> QED BY <1>3, <2>7, <2>8, <2>10, <3>1, <3>2 DEF Faithful
  <2>12. \A k \in T!Ids : "file" \in d.fate[k] => "file" \in r.fate[k]
    BY <2>2, <2>5 DEF Dropped
  <2> QED BY <2>5, <2>7, <2>9, <2>11, <2>12 DEF Settled, RecvInv
<1> QED BY <1>2, <1>3

(* The completion is over.                                                 *)
Unlatched(t) == [t EXCEPT !.hashing = 0]

LEMMA UnlatchedFields ==
  ASSUME NEW t \in T!Receivers, Books(t), NEW d, d = Unlatched(t)
  PROVE  /\ d \in T!Receivers /\ Books(d) /\ d.hashing = 0
         /\ d.transfers = t.transfers /\ d.object = t.object /\ d.tornDown = t.tornDown
         /\ d.fate = t.fate /\ d.errors = t.errors
<1>1. /\ d.hashing = 0
      /\ d.transfers = t.transfers /\ d.object = t.object /\ d.tornDown = t.tornDown
      /\ d.fate = t.fate /\ d.errors = t.errors
      /\ d.buffered = t.buffered /\ d.outstanding = t.outstanding
  BY DEF Unlatched, T!Receivers
<1>2. d \in T!Receivers
  BY DEF Unlatched, T!Receivers
<1>3. Books(d)
  BY <1>1 DEF Books, Got, Due
<1> QED BY <1>1, <1>2, <1>3

(* completeTransfer is through with the hash of id.                        *)
Finished(r, id, d) ==
  /\ d \in T!Receivers /\ Books(d) /\ d.transfers = r.transfers \ {id} /\ d.hashing = 0
  /\ d.tornDown = r.tornDown /\ d.errors = r.errors
  /\ r.fate[id] \subseteq d.fate[id]
  /\ \A k \in T!Ids : /\ d.object[k].size = r.object[k].size
                      /\ d.object[k].chunks = r.object[k].chunks
                      /\ d.object[k].received = r.object[k].received
                      /\ k # id => d.fate[k] = r.fate[k]

LEMMA MetEnds ==
  ASSUME NEW r \in T!Receivers, Books(r), NEW id \in T!Ids, NEW fate \in T!Fates, NEW d,
         d = Unlatched(T!Met(T!Drop(r, id), id, fate))
  PROVE  Finished(r, id, d) /\ d.fate[id] = r.fate[id] \cup {fate}
<1> DEFINE t == T!Drop(r, id)
           u == T!Met(t, id, fate)
<1>1. Dropped(r, id, t) /\ Books(t)
  BY DropFacts
<1>2. t \in T!Receivers
  BY <1>1 DEF Dropped
<1> HIDE DEF t
<1>3. /\ u \in T!Receivers /\ u.transfers = t.transfers /\ u.object = t.object
      /\ u.hashing = t.hashing /\ u.tornDown = t.tornDown /\ u.errors = t.errors
      /\ u.fate[id] = t.fate[id] \cup {fate}
      /\ \A k \in T!Ids : k # id => u.fate[k] = t.fate[k]
      /\ Books(u)
  BY <1>1, <1>2, MetFacts
<1>4. d = Unlatched(u)
  BY DEF t
<1> HIDE DEF u
<1>5. /\ d \in T!Receivers /\ Books(d) /\ d.hashing = 0
      /\ d.transfers = u.transfers /\ d.object = u.object /\ d.tornDown = u.tornDown
      /\ d.fate = u.fate /\ d.errors = u.errors
  BY <1>3, <1>4, UnlatchedFields
<1>6. d.fate[id] = r.fate[id] \cup {fate}
  BY <1>1, <1>3, <1>5 DEF Dropped
<1>7. /\ d.transfers = r.transfers \ {id} /\ d.tornDown = r.tornDown /\ d.errors = r.errors
      /\ r.fate[id] \subseteq d.fate[id]
  BY <1>1, <1>3, <1>5, <1>6 DEF Dropped
<1>8. \A k \in T!Ids : /\ d.object[k].size = r.object[k].size
                       /\ d.object[k].chunks = r.object[k].chunks
                       /\ d.object[k].received = r.object[k].received
                       /\ k # id => d.fate[k] = r.fate[k]
  BY <1>1, <1>3, <1>5 DEF Dropped
<1> QED BY <1>5, <1>6, <1>7, <1>8 DEF Finished

LEMMA DropEnds ==
  ASSUME NEW r \in T!Receivers, Books(r), NEW id \in T!Ids, NEW d,
         d = Unlatched(T!Drop(r, id))
  PROVE  Finished(r, id, d) /\ d.fate[id] = r.fate[id]
<1> DEFINE t == T!Drop(r, id)
<1>1. Dropped(r, id, t) /\ Books(t)
  BY DropFacts
<1>2. t \in T!Receivers
  BY <1>1 DEF Dropped
<1> HIDE DEF t
<1>5. /\ d \in T!Receivers /\ Books(d) /\ d.hashing = 0
      /\ d.transfers = t.transfers /\ d.object = t.object /\ d.tornDown = t.tornDown
      /\ d.fate = t.fate /\ d.errors = t.errors
  <2>1. d = Unlatched(t)
    BY DEF t
  <2> QED BY <1>1, <1>2, <2>1, UnlatchedFields
<1> QED BY <1>1, <1>5 DEF Finished, Dropped

LEMMA FinishedStays ==
  ASSUME NEW r, RecvInv(r), NEW id \in T!Ids, r.hashing = id, NEW size \in Nat, NEW j \in Nat,
         Held(r, id, size, j), NEW d, Finished(r, id, d)
  PROVE  /\ RecvInv(d) /\ d.tornDown = r.tornDown /\ Held(d, id, size, j)
         /\ \A k \in T!Ids : k # id => Faithful(r, d, k)
<1>0. r \in T!Receivers /\ Books(r) /\ Honest(r)
  BY DEF RecvInv
<1>1. \A k \in T!Ids : r.fate[k] \subseteq d.fate[k]
  BY DEF Finished
<1>2. \A k \in T!Ids : Excused(r, k) => Excused(d, k)
  BY <1>1, ExcusedStays DEF Finished
<1>3. Honest(d)
  BY <1>0, <1>2, ReceiverFields, HonestStays DEF Finished
<1>4. ASSUME NEW k \in T!Ids, k # id
      PROVE  Faithful(r, d, k)
  <2>1. d.hashing # k
    BY DEF Finished, T!Ids
  <2> QED BY <1>2, <1>4, <2>1 DEF Finished, Faithful
<1>5. Held(d, id, size, j)
  <2>1. j = T!ChunkCount(size) + 1 /\ T!ChunkCount(size) \in Nat
    BY ChunkFacts DEF Held
  <2>2. id \notin d.transfers /\ d.hashing # id
    BY DEF Finished, T!Ids
  <2> QED BY <2>1, <2>2 DEF Held
<1> QED BY <1>3, <1>4, <1>5 DEF Finished, RecvInv

(* A file is surfaced whole, from a transfer in the map of a live session. *)
Surfaced(r, d) ==
  \A k \in T!Ids : "file" \in d.fate[k] \ r.fate[k] =>
    /\ r.fate[k] = {} /\ r.tornDown = FALSE /\ k \in r.transfers
    /\ r.object[k].received = r.object[k].size

LEMMA CompletedFacts ==
  ASSUME NEW r, RecvInv(r), NEW id \in T!Ids, r.hashing = id, NEW size \in Nat, NEW j \in Nat,
         Held(r, id, size, j), NEW matches \in BOOLEAN, NEW d, d = T!Completed(r, matches)
  PROVE  /\ RecvInv(d) /\ d.tornDown = r.tornDown /\ Held(d, id, size, j)
         /\ \A k \in T!Ids : k # id => Faithful(r, d, k)
         /\ Surfaced(r, d)
<1>0. r \in T!Receivers /\ Books(r) /\ Honest(r)
  BY DEF RecvInv
<1>1. "hash" \in T!Fates /\ "file" \in T!Fates
  BY DEF T!Fates
<1>2. CASE matches = FALSE
  <2>1. d = Unlatched(T!Met(T!Drop(r, id), id, "hash"))
    BY <1>2 DEF T!Completed, Unlatched
  <2>2. Finished(r, id, d) /\ d.fate[id] = r.fate[id] \cup {"hash"}
    BY <1>0, <1>1, <2>1, MetEnds
  <2>3. \A k \in T!Ids : ~ ("file" \in d.fate[k] \ r.fate[k])
    BY <2>2 DEF Finished
  <2>9. Surfaced(r, d)
    BY <2>3 DEF Surfaced
  <2> QED BY <2>2, <2>9, FinishedStays
<1>3. CASE matches = TRUE /\ r.tornDown = FALSE /\ id \in r.transfers
  <2>1. d = Unlatched(T!Met(T!Drop(r, id), id, "file"))
    BY <1>3 DEF T!Completed, Unlatched
  <2>2. Finished(r, id, d) /\ d.fate[id] = r.fate[id] \cup {"file"}
    BY <1>0, <1>1, <2>1, MetEnds
  <2>3. \A k \in T!Ids : "file" \in d.fate[k] \ r.fate[k] => k = id
    BY <2>2 DEF Finished
  <2>4. r.fate[id] = {} /\ r.object[id].received = r.object[id].size
    <3>1. j = T!ChunkCount(size) + 1 /\ T!ChunkCount(size) \in Nat
      BY ChunkFacts DEF Held
    <3>2. j - 1 = T!ChunkCount(size)
      BY <3>1
    <3>3. Prefix(size, j - 1) = size
      BY <3>2, ChunkFacts, PrefixFacts
    <3> QED BY <1>3, <3>3 DEF Held
  <2>5. \A k \in T!Ids : "file" \in d.fate[k] \ r.fate[k] =>
              /\ r.fate[k] = {} /\ r.tornDown = FALSE /\ k \in r.transfers
              /\ r.object[k].received = r.object[k].size
    BY <1>3, <2>3, <2>4
  <2>9. Surfaced(r, d)
    BY <2>5 DEF Surfaced
  <2> QED BY <2>2, <2>9, FinishedStays
<1>4. CASE matches = TRUE /\ ~ (r.tornDown = FALSE /\ id \in r.transfers)
  <2>0. r.tornDown \in BOOLEAN
    BY <1>0, ReceiverFields
  <2>1. d = Unlatched(T!Drop(r, id))
    BY <1>4, <2>0 DEF T!Completed, Unlatched
  <2>2. Finished(r, id, d) /\ d.fate[id] = r.fate[id]
    BY <1>0, <2>1, DropEnds
  <2>3. \A k \in T!Ids : ~ ("file" \in d.fate[k] \ r.fate[k])
    BY <2>2 DEF Finished
  <2>9. Surfaced(r, d)
    BY <2>3 DEF Surfaced
  <2> QED BY <2>2, <2>9, FinishedStays
<1> QED BY <1>2, <1>3, <1>4

(* The sweep.                                                              *)
LEMMA SweptStays ==
  ASSUME NEW r, RecvInv(r), NEW idle \in SUBSET r.transfers, NEW d, d = T!Swept(r, idle)
  PROVE  /\ Settled(r, d) /\ d.tornDown = r.tornDown
         /\ \A k \in T!Ids : "file" \in d.fate[k] => "file" \in r.fate[k]
<1>0. r \in T!Receivers /\ Books(r) /\ Honest(r)
  BY DEF RecvInv
<1>1. Weeded(r, d) /\ \A k \in r.transfers \ d.transfers : "timeout" \in d.fate[k]
  BY <1>0, SweptFacts
<1>2. \A k \in T!Ids : Excused(r, k) => Excused(d, k)
  BY <1>1, ExcusedStays DEF Weeded
<1>3. Honest(d)
  BY <1>0, <1>1, <1>2, ReceiverFields, HonestStays DEF Weeded
<1>4. ASSUME NEW k \in T!Ids
      PROVE  Faithful(r, d, k)
  <2>1. k \in r.transfers /\ k \notin d.transfers => Excused(d, k)
    BY <1>1 DEF Excused
  <2> QED BY <1>1, <1>2, <2>1 DEF Weeded, Faithful
<1>5. \A k \in T!Ids : "file" \in d.fate[k] => "file" \in r.fate[k]
  BY <1>1 DEF Weeded
<1> QED BY <1>1, <1>3, <1>4, <1>5 DEF Settled, RecvInv, Weeded

(* teardown() of the receiver.                                             *)
LEMMA TornStays ==
  ASSUME NEW r, RecvInv(r), NEW d, d = T!ReceiverTeardown(r)
  PROVE  /\ Settled(r, d) /\ d.tornDown = TRUE
         /\ \A k \in T!Ids : "file" \in d.fate[k] => "file" \in r.fate[k]
<1>0. r \in T!Receivers /\ Books(r) /\ Honest(r)
  BY DEF RecvInv
<1>1. /\ d \in T!Receivers /\ Books(d) /\ d.transfers \subseteq r.transfers
      /\ d.hashing = r.hashing /\ d.tornDown = TRUE /\ d.errors = r.errors
      /\ \A k \in T!Ids : /\ d.object[k].size = r.object[k].size
                          /\ d.object[k].chunks = r.object[k].chunks
                          /\ d.object[k].received = r.object[k].received
                          /\ d.fate[k] = r.fate[k]
  BY <1>0, TornFacts, ZenonT(30)
<1>2. ASSUME NEW k \in T!Ids, Excused(r, k)
      PROVE  Excused(d, k)
  <2>1. d.errors = r.errors /\ d.fate[k] = r.fate[k]
    BY <1>1
  <2> QED BY <1>2, <2>1 DEF Excused
<1>3. Honest(d)
  BY <1>0, <1>1, <1>2, ReceiverFields, HonestStays
<1>4. d.tornDown # FALSE
  BY <1>1
<1>5. ASSUME NEW k \in T!Ids
      PROVE  Faithful(r, d, k)
  BY <1>1, <1>2, <1>4 DEF Faithful
<1> QED BY <1>1, <1>3, <1>5 DEF Settled, RecvInv

-----------------------------------------------------------------------------
(* The wire from step to step.                                             *)

(* Nothing of a transfer is on the wire before its manifest is sent.       *)
LEMMA WireKeeps ==
  ASSUME NEW S, NEW Z, NEW w, NEW k, Wire(S, w, k), \A id \in T!Ids : S[id].next \in Nat,
         \A id \in T!Ids : /\ Z[id].next = S[id].next
                           /\ Z[id].file = S[id].file \/ S[id].next = 0
  PROVE  Wire(Z, w, k)
<1>1. ASSUME NEW i \in 1..Len(w), w[i].type # "cancel"
      PROVE  /\ k[w[i].id] <= Number(w[i]) /\ Number(w[i]) < Z[w[i].id].next
             /\ w[i] = FrameAt(w[i].id, Z[w[i].id].file, Number(w[i]))
  <2>1. w[i] \in T!Frames
    BY DEF Wire
  <2>2. w[i].id \in T!Ids /\ Number(w[i]) \in Nat
    BY <2>1, FrameFields DEF Number
  <2>3. /\ k[w[i].id] <= Number(w[i]) /\ Number(w[i]) < S[w[i].id].next
        /\ w[i] = FrameAt(w[i].id, S[w[i].id].file, Number(w[i]))
    BY <1>1 DEF Wire
  <2>4. S[w[i].id].next # 0
    BY <2>2, <2>3
  <2>5. Z[w[i].id].next = S[w[i].id].next /\ Z[w[i].id].file = S[w[i].id].file
    BY <2>2, <2>4
  <2> QED BY <2>3, <2>5
<1>2. ASSUME NEW id \in T!Ids, NEW m \in Nat, k[id] <= m /\ m < Z[id].next
      PROVE  \E i \in 1..Len(w) : IsFrame(w[i], id, m)
  <2>1. k[id] <= m /\ m < S[id].next
    BY <1>2
  <2> QED BY <2>1 DEF Wire
<1>3. \A id \in T!Ids : k[id] <= Z[id].next
  BY DEF Wire
<1>4. /\ w \in Seq(T!Frames) /\ k \in [T!Ids -> Nat]
      /\ \A i, j \in 1..Len(w) : /\ i < j /\ w[i].id = w[j].id
                                 /\ w[i].type # "cancel" /\ w[j].type # "cancel"
                                 => Number(w[i]) < Number(w[j])
  BY DEF Wire
<1> QED BY <1>1, <1>2, <1>3, <1>4 DEF Wire

LEMMA AppendFacts ==
  ASSUME NEW F, NEW w \in Seq(F), NEW f \in F, NEW v, v = Append(w, f)
  PROVE  /\ v \in Seq(F) /\ Len(v) = Len(w) + 1 /\ v[Len(v)] = f /\ Len(w) \in Nat
         /\ \A i \in 1..Len(w) : v[i] = w[i]
OBVIOUS

LEMMA TailFacts ==
  ASSUME NEW F, NEW w \in Seq(F), w # <<>>, NEW v, v = Tail(w)
  PROVE  /\ v \in Seq(F) /\ Len(v) = Len(w) - 1 /\ Len(w) \in Nat /\ Len(w) > 0
         /\ Head(w) = w[1] /\ w[1] \in F
         /\ \A i \in 1..Len(v) : v[i] = w[i + 1] /\ i + 1 \in 1..Len(w)
OBVIOUS

(* The next frame of a transfer goes out.                                  *)
LEMMA WireSends ==
  ASSUME NEW S, NEW Z, NEW w, NEW k, Wire(S, w, k), \A x \in T!Ids : S[x].next \in Nat,
         NEW id \in T!Ids, NEW f \in T!Frames, f = FrameAt(id, S[id].file, S[id].next),
         IsFrame(f, id, S[id].next),
         Z[id].next = S[id].next + 1, Z[id].file = S[id].file,
         \A x \in T!Ids : x # id => Z[x].next = S[x].next /\ Z[x].file = S[x].file,
         NEW v, v = Append(w, f)
  PROVE  Wire(Z, v, k)
<1>0. w \in Seq(T!Frames) /\ k \in [T!Ids -> Nat]
  BY DEF Wire
<1>1. /\ v \in Seq(T!Frames) /\ Len(v) = Len(w) + 1 /\ v[Len(v)] = f /\ Len(w) \in Nat
      /\ \A i \in 1..Len(w) : v[i] = w[i]
  BY <1>0, AppendFacts
<1>2. f.id = id /\ Number(f) = S[id].next /\ f.type # "cancel" /\ k[id] <= S[id].next
      /\ k[id] \in Nat /\ S[id].next \in Nat
  BY <1>0 DEF IsFrame, Wire
<1>3. ASSUME NEW i \in 1..Len(w)
      PROVE  w[i] \in T!Frames /\ w[i].id \in T!Ids /\ Number(w[i]) \in Nat
  <2>1. w[i] \in T!Frames
    BY <1>0
  <2> QED BY <2>1, FrameFields DEF Number
<1>4. ASSUME NEW i \in 1..Len(v), v[i].type # "cancel"
      PROVE  /\ k[v[i].id] <= Number(v[i]) /\ Number(v[i]) < Z[v[i].id].next
             /\ v[i] = FrameAt(v[i].id, Z[v[i].id].file, Number(v[i]))
  <2>1. CASE i \in 1..Len(w)
    <3>1. v[i] = w[i]
      BY <1>1, <2>1
    <3>2. /\ k[w[i].id] <= Number(w[i]) /\ Number(w[i]) < S[w[i].id].next
          /\ w[i] = FrameAt(w[i].id, S[w[i].id].file, Number(w[i]))
      <4>1. w[i].type # "cancel"
        BY <1>4, <3>1
      <4>2. \A x \in 1..Len(w) : w[x].type # "cancel" =>
              /\ k[w[x].id] <= Number(w[x]) /\ Number(w[x]) < S[w[x].id].next
              /\ w[x] = FrameAt(w[x].id, S[w[x].id].file, Number(w[x]))
        BY Zenon DEF Wire
      <4> QED BY <2>1, <4>1, <4>2, Zenon
    <3>3. w[i].id \in T!Ids /\ Number(w[i]) \in Nat
      BY <1>3, <2>1
    <3>4. Z[w[i].id].file = S[w[i].id].file /\ S[w[i].id].next <= Z[w[i].id].next
          /\ S[w[i].id].next \in Nat /\ Z[w[i].id].next \in Nat
      <4>1. ASSUME NEW x \in T!Ids
            PROVE  /\ Z[x].file = S[x].file /\ S[x].next <= Z[x].next
                   /\ S[x].next \in Nat /\ Z[x].next \in Nat
        <5>1. S[x].next \in Nat
          OBVIOUS
        <5>2. CASE x = id
          BY <5>1, <5>2
        <5>3. CASE x # id
          BY <5>1, <5>3
        <5> QED BY <5>2, <5>3
      <4> QED BY <3>3, <4>1, Zenon
    <3> QED BY <3>1, <3>2, <3>3, <3>4
  <2>2. CASE i = Len(v)
    <3>1. v[i] = f
      BY <1>1, <2>2
    <3>2. Number(f) < Z[id].next
      BY <1>2
    <3> QED BY <1>2, <3>1, <3>2
  <2> QED BY <1>1, <2>1, <2>2
<1>5. ASSUME NEW x \in T!Ids, NEW m \in Nat, k[x] <= m /\ m < Z[x].next
      PROVE  \E i \in 1..Len(v) : IsFrame(v[i], x, m)
  <2>1. CASE m < S[x].next
    <3>1. \E i \in 1..Len(w) : IsFrame(w[i], x, m)
      BY <1>5, <2>1 DEF Wire
    <3>2. PICK i \in 1..Len(w) : IsFrame(w[i], x, m)
      BY <3>1
    <3>3. v[i] = w[i] /\ i \in 1..Len(v)
      BY <1>1, <3>2
    <3> QED BY <3>2, <3>3
  <2>2. CASE ~ (m < S[x].next)
    <3>1. x = id
      BY <1>5, <2>2
    <3>2. m = S[id].next
      BY <1>2, <1>5, <2>2, <3>1
    <3>3. IsFrame(v[Len(v)], x, m) /\ Len(v) \in 1..Len(v)
      BY <1>1, <3>1, <3>2
    <3> QED BY <3>3
  <2> QED BY <2>1, <2>2
<1>6. ASSUME NEW i \in 1..Len(v), NEW j \in 1..Len(v), i < j, v[i].id = v[j].id,
             v[i].type # "cancel", v[j].type # "cancel"
      PROVE  Number(v[i]) < Number(v[j])
  <2>1. i \in 1..Len(w) /\ v[i] = w[i]
    BY <1>1, <1>6
  <2>2. CASE j \in 1..Len(w)
    <3>1. v[j] = w[j]
      BY <1>1, <2>2
    <3> QED BY <1>6, <2>1, <2>2, <3>1 DEF Wire
  <2>3. CASE j = Len(v)
    <3>1. v[j] = f /\ w[i].id = id
      BY <1>1, <1>2, <1>6, <2>1, <2>3
    <3>2. Number(w[i]) < S[w[i].id].next
      BY <1>6, <2>1 DEF Wire
    <3> QED BY <1>2, <2>1, <3>1, <3>2
  <2> QED BY <1>1, <2>2, <2>3
<1>7. ASSUME NEW x \in T!Ids
      PROVE  k[x] <= Z[x].next
  <2>1. k[x] <= S[x].next /\ k[x] \in Nat /\ S[x].next \in Nat
    BY <1>0 DEF Wire
  <2>2. CASE x = id
    BY <2>1, <2>2
  <2>3. CASE x # id
    BY <2>1, <2>3
  <2> QED BY <2>2, <2>3
<1> QED BY <1>0, <1>1, <1>4, <1>5, <1>6, <1>7, SMTT(60) DEF Wire

(* A TransferCancel goes out.                                              *)
LEMMA WireCancels ==
  ASSUME NEW S, NEW w, NEW k, Wire(S, w, k), NEW f \in T!Frames, f.type = "cancel",
         NEW v, v = Append(w, f)
  PROVE  Wire(S, v, k)
<1>0. w \in Seq(T!Frames) /\ k \in [T!Ids -> Nat]
  BY DEF Wire
<1>1. /\ v \in Seq(T!Frames) /\ Len(v) = Len(w) + 1 /\ v[Len(v)] = f /\ Len(w) \in Nat
      /\ \A i \in 1..Len(w) : v[i] = w[i]
  BY <1>0, AppendFacts
<1>2. ASSUME NEW i \in 1..Len(v), v[i].type # "cancel"
      PROVE  i \in 1..Len(w) /\ v[i] = w[i]
  <2>1. i # Len(v)
    BY <1>1, <1>2
  <2>2. i \in 1..Len(w)
    BY <1>1, <2>1
  <2> QED BY <1>1, <2>2
<1>3. ASSUME NEW i \in 1..Len(v), v[i].type # "cancel"
      PROVE  /\ k[v[i].id] <= Number(v[i]) /\ Number(v[i]) < S[v[i].id].next
             /\ v[i] = FrameAt(v[i].id, S[v[i].id].file, Number(v[i]))
  <2>1. i \in 1..Len(w) /\ v[i] = w[i]
    BY <1>2, <1>3
  <2> QED BY <1>3, <2>1 DEF Wire
<1>4. ASSUME NEW x \in T!Ids, NEW m \in Nat, k[x] <= m /\ m < S[x].next
      PROVE  \E i \in 1..Len(v) : IsFrame(v[i], x, m)
  <2>1. PICK i \in 1..Len(w) : IsFrame(w[i], x, m)
    BY <1>4 DEF Wire
  <2>2. v[i] = w[i] /\ i \in 1..Len(v)
    BY <1>1, <2>1
  <2> QED BY <2>1, <2>2
<1>5. ASSUME NEW i \in 1..Len(v), NEW j \in 1..Len(v), i < j, v[i].id = v[j].id,
             v[i].type # "cancel", v[j].type # "cancel"
      PROVE  Number(v[i]) < Number(v[j])
  <2>1. i \in 1..Len(w) /\ v[i] = w[i] /\ j \in 1..Len(w) /\ v[j] = w[j]
    BY <1>2, <1>5
  <2> QED BY <1>5, <2>1 DEF Wire
<1>6. \A x \in T!Ids : k[x] <= S[x].next
  BY DEF Wire
<1> QED BY <1>0, <1>1, <1>3, <1>4, <1>5, <1>6 DEF Wire

(* The frame at the head is the next one of its transfer.                  *)
LEMMA HeadFacts ==
  ASSUME NEW S, NEW w, NEW k, Wire(S, w, k), \A x \in T!Ids : S[x].next \in Nat,
         w # <<>>, w[1].type # "cancel"
  PROVE  /\ w[1] \in T!Frames /\ w[1].id \in T!Ids /\ Number(w[1]) = k[w[1].id]
         /\ k[w[1].id] < S[w[1].id].next
         /\ w[1] = FrameAt(w[1].id, S[w[1].id].file, k[w[1].id])
<1>0. w \in Seq(T!Frames) /\ k \in [T!Ids -> Nat]
  BY DEF Wire
<1>1. 1 \in 1..Len(w) /\ w[1] \in T!Frames
  BY <1>0
<1>2. w[1].id \in T!Ids /\ Number(w[1]) \in Nat
  BY <1>1, FrameFields DEF Number
<1>3. /\ k[w[1].id] <= Number(w[1]) /\ Number(w[1]) < S[w[1].id].next
      /\ w[1] = FrameAt(w[1].id, S[w[1].id].file, Number(w[1]))
  BY <1>1 DEF Wire
<1>4. Number(w[1]) = k[w[1].id]
  <2> DEFINE id == w[1].id
  <2>1. k[id] \in Nat
    BY <1>0, <1>2
  <2>2. SUFFICES ASSUME k[id] < Number(w[1])
                 PROVE  FALSE
    BY <1>2, <1>3, <2>1
  <2>4. \A x \in T!Ids : \A m \in Nat : k[x] <= m /\ m < S[x].next =>
          \E i \in 1..Len(w) : IsFrame(w[i], x, m)
    BY DEF Wire
  <2>5. k[id] < S[id].next
    BY <1>2, <1>3, <2>1, <2>2
  <2>6. k[id] <= k[id]
    BY <2>1
  <2>7. PICK i \in 1..Len(w) : IsFrame(w[i], id, k[id])
    BY <1>2, <2>1, <2>4, <2>5, <2>6
  <2>8. i # 1
    BY <2>2, <2>1, <2>7 DEF IsFrame
  <2>9. 1 < i /\ w[1].id = w[i].id /\ w[i].type # "cancel"
    BY <2>7, <2>8 DEF IsFrame
  <2>10. Number(w[1]) < Number(w[i])
    BY <1>1, <2>9 DEF Wire
  <2> QED BY <1>2, <2>1, <2>2, <2>7, <2>10 DEF IsFrame
<1> QED BY <1>1, <1>2, <1>3, <1>4

Advanced(k, id) == [k EXCEPT ![id] = @ + 1]

(* It is taken.                                                            *)
LEMMA WireTakes ==
  ASSUME NEW S, NEW w, NEW k, Wire(S, w, k), \A x \in T!Ids : S[x].next \in Nat,
         w # <<>>, w[1].type # "cancel", NEW v, v = Tail(w),
         NEW l, l = Advanced(k, w[1].id)
  PROVE  Wire(S, v, l)
<1> DEFINE id == w[1].id
<1>0. w \in Seq(T!Frames) /\ k \in [T!Ids -> Nat]
  BY DEF Wire
<1>1. /\ w[1] \in T!Frames /\ id \in T!Ids /\ Number(w[1]) = k[id] /\ k[id] < S[id].next
  BY HeadFacts
<1>2. l \in [T!Ids -> Nat] /\ l[id] = k[id] + 1 /\ k[id] \in Nat
      /\ \A x \in T!Ids : x # id => l[x] = k[x]
  BY <1>0, <1>1 DEF Advanced
<1> HIDE DEF id
<1>3. /\ v \in Seq(T!Frames) /\ Len(v) = Len(w) - 1 /\ Len(w) \in Nat /\ Len(w) > 0
      /\ \A i \in 1..Len(v) : v[i] = w[i + 1] /\ i + 1 \in 1..Len(w)
  BY <1>0, TailFacts
<1>4. ASSUME NEW i \in 1..Len(v)
      PROVE  /\ v[i] = w[i + 1] /\ i + 1 \in 1..Len(w)
             /\ v[i].id \in T!Ids /\ Number(v[i]) \in Nat
  <2>1. v[i] = w[i + 1] /\ i + 1 \in 1..Len(w) /\ v[i] \in T!Frames
    BY <1>3
  <2> QED BY <2>1, FrameFields DEF Number
<1>5. ASSUME NEW i \in 1..Len(v), v[i].type # "cancel"
      PROVE  /\ l[v[i].id] <= Number(v[i]) /\ Number(v[i]) < S[v[i].id].next
             /\ v[i] = FrameAt(v[i].id, S[v[i].id].file, Number(v[i]))
  <2>1. v[i] = w[i + 1] /\ i + 1 \in 1..Len(w) /\ v[i].id \in T!Ids /\ Number(v[i]) \in Nat
    BY <1>4
  <2>2. /\ k[v[i].id] <= Number(v[i]) /\ Number(v[i]) < S[v[i].id].next
        /\ v[i] = FrameAt(v[i].id, S[v[i].id].file, Number(v[i]))
    BY <1>5, <2>1 DEF Wire
  <2>3. CASE v[i].id = id
    <3>1. 1 \in 1..Len(w) /\ 1 < i + 1
      BY <1>3
    <3>2. Number(w[1]) < Number(w[i + 1])
      BY <1>5, <2>1, <2>3, <3>1 DEF Wire, id
    <3> QED BY <1>1, <1>2, <2>1, <2>2, <2>3, <3>2
  <2>4. CASE v[i].id # id
    BY <1>2, <2>1, <2>2, <2>4
  <2> QED BY <2>3, <2>4
<1>6. ASSUME NEW x \in T!Ids, NEW m \in Nat, l[x] <= m /\ m < S[x].next
      PROVE  \E i \in 1..Len(v) : IsFrame(v[i], x, m)
  <2>1. k[x] <= m /\ (x = id => m # k[id])
    BY <1>0, <1>2, <1>6
  <2>2. PICK i \in 1..Len(w) : IsFrame(w[i], x, m)
    BY <1>6, <2>1 DEF Wire
  <2>3. i # 1
    BY <1>1, <2>1, <2>2 DEF IsFrame, id
  <2>4. i - 1 \in 1..Len(v) /\ (i - 1) + 1 = i
    BY <1>3, <2>3
  <2>5. v[i - 1] = w[i]
    BY <1>3, <2>4
  <2> QED BY <2>2, <2>4, <2>5
<1>7. ASSUME NEW i \in 1..Len(v), NEW j \in 1..Len(v), i < j, v[i].id = v[j].id,
             v[i].type # "cancel", v[j].type # "cancel"
      PROVE  Number(v[i]) < Number(v[j])
  <2>1. v[i] = w[i + 1] /\ i + 1 \in 1..Len(w) /\ v[j] = w[j + 1] /\ j + 1 \in 1..Len(w)
    BY <1>4
  <2>2. i + 1 < j + 1
    BY <1>7
  <2> QED BY <1>7, <2>1, <2>2 DEF Wire
<1>8. ASSUME NEW x \in T!Ids
      PROVE  l[x] <= S[x].next
  <2>1. k[x] <= S[x].next
    BY DEF Wire
  <2>2. CASE x = id
    BY <1>1, <1>2, <2>2
  <2>3. CASE x # id
    BY <1>2, <2>1, <2>3
  <2> QED BY <2>2, <2>3
<1> QED BY <1>2, <1>3, <1>5, <1>6, <1>7, <1>8 DEF Wire

(* A TransferCancel is taken.                                              *)
LEMMA WireDrops ==
  ASSUME NEW S, NEW w, NEW k, Wire(S, w, k), w # <<>>, w[1].type = "cancel",
         NEW v, v = Tail(w)
  PROVE  Wire(S, v, k)
<1>0. w \in Seq(T!Frames) /\ k \in [T!Ids -> Nat]
  BY DEF Wire
<1>3. /\ v \in Seq(T!Frames) /\ Len(v) = Len(w) - 1 /\ Len(w) \in Nat /\ Len(w) > 0
      /\ \A i \in 1..Len(v) : v[i] = w[i + 1] /\ i + 1 \in 1..Len(w)
  BY <1>0, TailFacts
<1>5. ASSUME NEW i \in 1..Len(v), v[i].type # "cancel"
      PROVE  /\ k[v[i].id] <= Number(v[i]) /\ Number(v[i]) < S[v[i].id].next
             /\ v[i] = FrameAt(v[i].id, S[v[i].id].file, Number(v[i]))
  <2>1. v[i] = w[i + 1] /\ i + 1 \in 1..Len(w)
    BY <1>3
  <2> QED BY <1>5, <2>1 DEF Wire
<1>6. ASSUME NEW x \in T!Ids, NEW m \in Nat, k[x] <= m /\ m < S[x].next
      PROVE  \E i \in 1..Len(v) : IsFrame(v[i], x, m)
  <2>2. PICK i \in 1..Len(w) : IsFrame(w[i], x, m)
    BY <1>6 DEF Wire
  <2>3. i # 1
    BY <2>2 DEF IsFrame
  <2>4. i - 1 \in 1..Len(v) /\ (i - 1) + 1 = i
    BY <1>3, <2>3
  <2>5. v[i - 1] = w[i]
    BY <1>3, <2>4
  <2> QED BY <2>2, <2>4, <2>5
<1>7. ASSUME NEW i \in 1..Len(v), NEW j \in 1..Len(v), i < j, v[i].id = v[j].id,
             v[i].type # "cancel", v[j].type # "cancel"
      PROVE  Number(v[i]) < Number(v[j])
  <2>1. v[i] = w[i + 1] /\ i + 1 \in 1..Len(w) /\ v[j] = w[j + 1] /\ j + 1 \in 1..Len(w)
    BY <1>3
  <2>2. i + 1 < j + 1
    BY <1>7
  <2> QED BY <1>7, <2>1, <2>2 DEF Wire
<1>8. \A x \in T!Ids : k[x] <= S[x].next
  BY DEF Wire
<1> QED BY <1>0, <1>3, <1>5, <1>6, <1>7, <1>8 DEF Wire

-----------------------------------------------------------------------------
(* From the sender over the wire to the receiver.                          *)

(* The frames that were taken tell what the receiver holds.                *)
Linked(S, w, r) == \E k \in [T!Ids -> Nat] :
  Wire(S, w, k) /\ \A id \in T!Ids : Held(r, id, S[id].file.size, k[id])

(* Sends that are still to come may be given their file.                   *)
Extends(S, Z) == \A id \in T!Ids : /\ Z[id].next = S[id].next
                                   /\ Z[id].file = S[id].file \/ S[id].next = 0

LEMMA LinkedExtends ==
  ASSUME NEW S \in [T!Ids -> T!Sends], NEW Z \in [T!Ids -> T!Sends], Extends(S, Z),
         NEW w, NEW r, Linked(S, w, r)
  PROVE  Linked(Z, w, r)
<1>1. PICK k \in [T!Ids -> Nat] :
        Wire(S, w, k) /\ \A id \in T!Ids : Held(r, id, S[id].file.size, k[id])
  BY DEF Linked
<1>2. \A id \in T!Ids : S[id].next \in Nat /\ S[id].file.size \in Nat /\ Z[id].file.size \in Nat
  <2>1. ASSUME NEW e \in T!Sends
        PROVE  e.next \in Nat /\ e.file \in [DOMAIN T!NoFile -> Nat]
    BY DEF T!Sends
  <2>2. ASSUME NEW e \in T!Sends
        PROVE  e.file.size \in Nat
    BY <2>1, FileFields
  <2> QED BY <2>1, <2>2
<1>3. Wire(Z, w, k)
  BY <1>1, <1>2, WireKeeps DEF Extends
<1>4. ASSUME NEW id \in T!Ids
      PROVE  Held(r, id, Z[id].file.size, k[id])
  <2>1. CASE Z[id].file = S[id].file
    BY <1>1, <2>1
  <2>2. CASE S[id].next = 0
    <3>1. k[id] = 0
      BY <1>1, <2>2 DEF Wire
    <3> QED BY <1>1, <1>2, <3>1, HeldFree
  <2> QED BY <2>1, <2>2 DEF Extends
<1> QED BY <1>3, <1>4 DEF Linked

(* A frame of id was sent.                                                 *)
Advances(S, Z, id) ==
  /\ Z[id].next = S[id].next + 1 /\ Z[id].file = S[id].file
  /\ \A x \in T!Ids : x # id => Z[x].next = S[x].next /\ Z[x].file = S[x].file

(* ... and f was that frame.                                               *)
Outgoing(S, Z, id, f) == /\ S[id].next <= T!ChunkCount(S[id].file.size)
                         /\ f = FrameAt(id, S[id].file, S[id].next)
                         /\ Advances(S, Z, id)

LEMMA LinkedSends ==
  ASSUME NEW S \in [T!Ids -> T!Sends], NEW Z \in [T!Ids -> T!Sends], NEW id \in T!Ids,
         NEW f, Outgoing(S, Z, id, f), NEW w, NEW r, Linked(S, w, r)
  PROVE  Linked(Z, Append(w, f), r) /\ f \in T!Frames
<1> DEFINE v == Append(w, f)
<1>1. PICK k \in [T!Ids -> Nat] :
        Wire(S, w, k) /\ \A x \in T!Ids : Held(r, x, S[x].file.size, k[x])
  BY DEF Linked
<1>2. \A x \in T!Ids : S[x].next \in Nat /\ S[x].file \in [DOMAIN T!NoFile -> Nat]
  <2>1. ASSUME NEW e \in T!Sends
        PROVE  e.next \in Nat /\ e.file \in [DOMAIN T!NoFile -> Nat]
    BY DEF T!Sends
  <2> QED BY <2>1
<1>3. f \in T!Frames /\ IsFrame(f, id, S[id].next)
  BY <1>2, FrameAtFacts DEF Outgoing
<1>4. Wire(Z, v, k)
  BY <1>1, <1>2, <1>3, WireSends DEF Advances, Outgoing
<1>5. \A x \in T!Ids : Z[x].file = S[x].file
  BY DEF Advances, Outgoing
<1>6. \A x \in T!Ids : Held(r, x, Z[x].file.size, k[x])
  BY <1>1, <1>5
<1> QED BY <1>3, <1>4, <1>6 DEF Linked

LEMMA LinkedCancels ==
  ASSUME NEW S, NEW w, NEW r, Linked(S, w, r), NEW f \in T!Frames, f.type = "cancel",
         NEW v, v = Append(w, f)
  PROVE  Linked(S, v, r)
BY WireCancels DEF Linked

LEMMA LinkedSettles ==
  ASSUME NEW S, NEW w, NEW r, Linked(S, w, r), NEW d, Settled(r, d)
  PROVE  Linked(S, w, d)
<1>1. PICK k \in [T!Ids -> Nat] :
        Wire(S, w, k) /\ \A x \in T!Ids : Held(r, x, S[x].file.size, k[x])
  BY DEF Linked
<1>2. \A x \in T!Ids : Held(d, x, S[x].file.size, k[x])
  BY <1>1, HeldStays DEF Settled
<1> QED BY <1>1, <1>2 DEF Linked

(* completeTransfer goes on with id.                                       *)
LEMMA LinkedCompletes ==
  ASSUME NEW S \in [T!Ids -> T!Sends], NEW w, NEW r, RecvInv(r), Linked(S, w, r),
         r.hashing # 0, NEW matches \in BOOLEAN, NEW d, d = T!Completed(r, matches)
  PROVE  /\ RecvInv(d) /\ d.tornDown = r.tornDown /\ Linked(S, w, d)
         /\ Surfaced(r, d)
<1>1. PICK k \in [T!Ids -> Nat] :
        Wire(S, w, k) /\ \A x \in T!Ids : Held(r, x, S[x].file.size, k[x])
  BY DEF Linked
<1> DEFINE id == r.hashing
<1>2. id \in T!Ids
  BY ReceiverFields DEF RecvInv
<1>3. S[id].file.size \in Nat
  <2>1. S[id].file \in [DOMAIN T!NoFile -> Nat]
    BY <1>2 DEF T!Sends
  <2> QED BY <2>1, FileFields
<1>4. /\ RecvInv(d) /\ d.tornDown = r.tornDown /\ Held(d, id, S[id].file.size, k[id])
      /\ \A x \in T!Ids : x # id => Faithful(r, d, x)
      /\ Surfaced(r, d)
  <2>1. Held(r, id, S[id].file.size, k[id]) /\ k[id] \in Nat /\ r.hashing = id
    BY <1>1, <1>2
  <2> HIDE DEF id
  <2> QED BY <1>2, <1>3, <2>1, CompletedFacts
<1> HIDE DEF id
<1>5. ASSUME NEW x \in T!Ids
      PROVE  Held(d, x, S[x].file.size, k[x])
  <2>1. CASE x = id
    BY <1>4, <2>1
  <2>2. CASE x # id
    <3>1. Faithful(r, d, x) /\ Held(r, x, S[x].file.size, k[x]) /\ k[x] \in Nat
      BY <1>1, <1>4, <2>2
    <3> QED BY <3>1, HeldStays
  <2> QED BY <2>1, <2>2
<1>6. Linked(S, w, d)
  BY <1>1, <1>5 DEF Linked
<1> QED BY <1>4, <1>6

(* ingest() of the frame at the head of the wire.                          *)
LEMMA FrameTaken ==
  ASSUME NEW id \in T!Ids, NEW file \in [DOMAIN T!NoFile -> Nat], T!EncodeError(file) = "none",
         NEW m \in Nat, m <= T!ChunkCount(file.size), NEW f, f = FrameAt(id, file, m),
         NEW r, RecvInv(r), r.hashing = 0, r.tornDown = FALSE, Held(r, id, file.size, m),
         NEW d, d = T!Ingested(r, f)
  PROVE  Took(r, id, file.size, m, d)
<1>1. CASE m = 0
  <2>1. f = T!ManifestFrame(id, file) /\ Held(r, id, file.size, 0)
    BY <1>1 DEF FrameAt
  <2>2. Took(r, id, file.size, 0, d)
    BY <2>1, ManifestTaken
  <2> QED BY <1>1, <2>2
<1>2. CASE m # 0
  <2> DEFINE n == m - 1
  <2>1. n \in Nat /\ n + 1 = m
    BY <1>2
  <2>2. file.size \in Nat /\ T!ChunkCount(file.size) \in Nat
    BY FileFields, ChunkFacts
  <2>3. f = T!ChunkFrame(id, n, T!ChunkLength(file.size, n))
    BY <1>2 DEF FrameAt
  <2>4. n < T!ChunkCount(file.size) /\ Held(r, id, file.size, n + 1)
    BY <2>1, <2>2
  <2> HIDE DEF n
  <2>5. Took(r, id, file.size, n + 1, d)
    BY <2>1, <2>3, <2>4, ChunkTaken
  <2> QED BY <2>1, <2>5
<1> QED BY <1>1, <1>2

AllSound(S) == \A id \in T!Ids : Sound(S[id])

(* r takes the head of w, and becomes d.                                   *)
Takes(r, w, d, v) == /\ w # <<>> /\ r.hashing = 0 /\ r.tornDown = FALSE
                     /\ d = T!Ingested(r, Head(w)) /\ v = Tail(w)

LEMMA LinkedIngests ==
  ASSUME NEW S \in [T!Ids -> T!Sends], AllSound(S), NEW w,
         NEW r, RecvInv(r), Linked(S, w, r), NEW d, NEW v, Takes(r, w, d, v)
  PROVE  RecvInv(d) /\ d.tornDown = r.tornDown /\ Linked(S, v, d) /\ Surfaced(r, d)
<1>0. /\ \A id \in T!Ids : Sound(S[id])
      /\ w # <<>> /\ r.hashing = 0 /\ r.tornDown = FALSE
      /\ d = T!Ingested(r, Head(w)) /\ v = Tail(w)
  BY DEF AllSound, Takes
<1>1. PICK k \in [T!Ids -> Nat] :
        Wire(S, w, k) /\ \A x \in T!Ids : Held(r, x, S[x].file.size, k[x])
  BY DEF Linked
<1>2. w \in Seq(T!Frames)
  BY <1>1 DEF Wire
<1>3. Head(w) = w[1] /\ w[1] \in T!Frames
  BY <1>0, <1>2
<1>4. \A x \in T!Ids : S[x].next \in Nat /\ S[x].file \in [DOMAIN T!NoFile -> Nat]
  <2>1. ASSUME NEW e \in T!Sends
        PROVE  e.next \in Nat /\ e.file \in [DOMAIN T!NoFile -> Nat]
    BY DEF T!Sends
  <2> QED BY <2>1
<1>5. CASE w[1].type = "cancel"
  <2>1. Settled(r, d) /\ d.tornDown = r.tornDown
        /\ \A x \in T!Ids : "file" \in d.fate[x] => "file" \in r.fate[x]
    BY <1>0, <1>3, <1>5, CancelTaken
  <2>2. Wire(S, v, k)
    BY <1>0, <1>1, <1>5, WireDrops
  <2>3. Linked(S, v, r)
    BY <1>1, <2>2 DEF Linked
  <2>4. Linked(S, v, d)
    BY <2>1, <2>3, LinkedSettles
  <2>5. Surfaced(r, d)
    BY <2>1 DEF Surfaced
  <2> QED BY <2>1, <2>4, <2>5 DEF Settled
<1>6. CASE w[1].type # "cancel"
  <2> DEFINE id == w[1].id
             m == k[id]
             file == S[id].file
  <2>1. /\ id \in T!Ids /\ m < S[id].next /\ w[1] = FrameAt(id, file, m)
    BY <1>0, <1>1, <1>4, <1>6, HeadFacts
  <2>2. m \in Nat /\ file \in [DOMAIN T!NoFile -> Nat] /\ S[id].next \in Nat
    BY <1>4, <2>1
  <2>3. file.size \in Nat /\ T!ChunkCount(file.size) \in Nat
    BY <2>2, FileFields, ChunkFacts
  <2>4. m <= T!ChunkCount(file.size) /\ T!EncodeError(file) = "none"
    <3>1. S[id].next <= T!ChunkCount(file.size) + 1
          /\ (S[id].next > 0 => T!EncodeError(file) = "none")
      BY <1>0, <2>1 DEF Sound
    <3>2. S[id].next > 0 /\ m <= T!ChunkCount(file.size)
      <4> HIDE DEF m, file
      <4> QED BY <2>1, <2>2, <2>3, <3>1
    <3> QED BY <3>1, <3>2
  <2>5. Held(r, id, file.size, m)
    BY <1>1, <2>1
  <2>6. d = T!Ingested(r, w[1])
    BY <1>0, <1>3
  <2>7. Wire(S, v, Advanced(k, id))
    BY <1>0, <1>1, <1>4, <1>6, WireTakes
  <2> DEFINE l == Advanced(k, id)
  <2>8. l \in [T!Ids -> Nat] /\ l[id] = m + 1 /\ \A x \in T!Ids : x # id => l[x] = k[x]
    BY <2>1, <2>2 DEF Advanced
  <2> HIDE DEF l, m, file
  <2>9. Took(r, id, file.size, m, d)
    BY <2>1, <2>2, <2>4, <2>5, <2>6, <1>0, FrameTaken
  <2>10. ASSUME NEW x \in T!Ids
         PROVE  Held(d, x, S[x].file.size, l[x])
    <3>1. CASE x = id
      BY <2>8, <2>9, <3>1 DEF Took, file
    <3>2. CASE x # id
      <4>1. Faithful(r, d, x)
        BY <2>9, <3>2 DEF Took
      <4>2. Held(r, x, S[x].file.size, k[x]) /\ k[x] \in Nat
        BY <1>1
      <4>3. Held(d, x, S[x].file.size, k[x])
        BY <4>1, <4>2, HeldStays
      <4> QED BY <2>8, <3>2, <4>3
    <3> QED BY <3>1, <3>2
  <2>11. Linked(S, v, d)
    BY <2>7, <2>8, <2>10 DEF Linked, l
  <2>12. Surfaced(r, d)
    BY <2>9 DEF Took, Surfaced
  <2> QED BY <2>9, <2>11, <2>12 DEF Took
<1> QED BY <1>5, <1>6

-----------------------------------------------------------------------------
(* The queue of sends.                                                     *)

Queued(s, waiting) == /\ waiting \in Seq([DOMAIN T!NoFile -> Nat])
                      /\ T!Cardinality(T!Allocated(s)) + Len(waiting) <= MaxSends

LEMMA AllocatedCount ==
  ASSUME NEW s, SendInv(s)
  PROVE  T!Cardinality(T!Allocated(s)) \in Nat
<1>1. PICK n \in 0..MaxSends : Prefixed(s, n)
  BY DEF SendInv
<1>2. T!Cardinality(T!Allocated(s)) = n
  BY <1>1, AllocatedFacts
<1> QED BY <1>2

LEMMA QueuedSame ==
  ASSUME NEW s, NEW d, \A k \in T!Ids : d.sends[k].at = "none" <=> s.sends[k].at = "none",
         NEW waiting, Queued(s, waiting)
  PROVE  Queued(d, waiting)
<1>1. T!Allocated(d) = T!Allocated(s)
  BY DEF T!Allocated
<1> QED BY <1>1 DEF Queued

(* d is s, but that it may have taken a file out of the queue.             *)
Begun(s, d) == /\ SendInv(d) /\ d.tearingDown = s.tearingDown /\ Extends(s.sends, d.sends)
               /\ \A k \in T!Ids : s.sends[k].at # "none" => d.sends[k] = s.sends[k]

LEMMA DrainFacts ==
  ASSUME NEW p, NEW waiting, NEW s, SendInv(s), Queued(s, waiting), NEW l,
         NEW d, d = T!Drain(p, waiting, s, l)
  PROVE  Begun(s, d.sender) /\ Queued(d.sender, d.queue)
<1> DEFINE due == waiting # <<>> /\ T!CountInFlight(l) < MaxTransfers
           taken == due /\ T!Connected(p) /\ ~ T!AtCap(s)
<1>1. d.sender = (IF taken THEN T!Begin(s, Head(waiting)) ELSE s)
      /\ d.queue = (IF due THEN Tail(waiting) ELSE waiting)
  BY DEF T!Drain
<1>2. T!Cardinality(T!Allocated(s)) \in Nat
  BY AllocatedCount
<1>3. taken => due
  OBVIOUS
<1>4. due => waiting # <<>>
  OBVIOUS
<1> HIDE DEF due, taken
<1> DEFINE File == [DOMAIN T!NoFile -> Nat]
<1>5. waiting \in Seq(File) /\ T!Cardinality(T!Allocated(s)) + Len(waiting) <= MaxSends
  BY DEF Queued
<1>6. due => /\ Tail(waiting) \in Seq(File) /\ Len(Tail(waiting)) = Len(waiting) - 1
             /\ Head(waiting) \in File /\ Len(waiting) > 0 /\ Len(waiting) \in Nat
  <2> HIDE DEF File
  <2> QED BY <1>4, <1>5
<1>7. CASE taken
  <2>1. due
    BY <1>3, <1>7
  <2>2. d.sender = T!Begin(s, Head(waiting)) /\ d.queue = Tail(waiting)
    BY <1>1, <1>7, <2>1
  <2>3. T!Cardinality(T!Allocated(s)) < MaxSends
    BY <1>2, <1>5, <1>6, <2>1, FileAssumption
  <2> DEFINE e == d.sender
             file == Head(waiting)
  <2>4. file \in [DOMAIN T!NoFile -> Nat] /\ e = T!Begin(s, file)
    BY <1>6, <2>1, <2>2
  <2> HIDE DEF e, file
  <2>5. /\ SendInv(e) /\ e.tearingDown = s.tearingDown
        /\ \A k \in T!Ids : s.sends[k].at # "none" => e.sends[k] = s.sends[k]
        /\ \A k \in T!Ids : /\ e.sends[k].next = s.sends[k].next
                            /\ e.sends[k].file = s.sends[k].file \/ s.sends[k].next = 0
        /\ T!Cardinality(T!Allocated(e)) = T!Cardinality(T!Allocated(s)) + 1
    BY <2>3, <2>4, BeginFacts
  <2>6. Begun(s, e)
    BY <2>5 DEF Begun, Extends
  <2>7. Queued(e, d.queue)
    BY <1>2, <1>5, <1>6, <2>1, <2>2, <2>5, FileAssumption DEF Queued
  <2> QED BY <2>6, <2>7 DEF e
<1>8. CASE ~ taken
  <2>1. d.sender = s
    BY <1>1, <1>8
  <2>2. Begun(s, s)
    BY DEF Begun, Extends
  <2>3. Queued(s, d.queue)
    <3>1. CASE due
      BY <1>1, <1>2, <1>5, <1>6, <3>1, FileAssumption DEF Queued
    <3>2. CASE ~ due
      BY <1>1, <3>2
    <3> QED BY <3>1, <3>2
  <2> QED BY <2>1, <2>2, <2>3
<1> QED BY <1>7, <1>8

-----------------------------------------------------------------------------
(* The invariant of the transfers.                                         *)

Ends == {alice, bob}
Waits == Seq([DOMAIN T!NoFile -> Nat])

FileTypes ==
  /\ sender \in [Ends -> T!Senders] /\ receiver \in [Ends -> T!Receivers]
  /\ open \in [Ends -> BOOLEAN] /\ channel \in [Ends -> Seq(T!Frames)]
  /\ queue \in [Ends -> Waits]

(* An end on its own, and the way from its sender to the other receiver.   *)
EndInv(s, waiting, r, o) == /\ SendInv(s) /\ Queued(s, waiting) /\ RecvInv(r)
                            /\ o = TRUE => r.tornDown = FALSE
LinkInvOf(s, w, r) == Linked(s.sends, w, r)

FileInv ==
  /\ FileTypes
  /\ \A p \in Ends : /\ EndInv(sender[p], queue[p], receiver[p], open[p])
                     /\ LinkInvOf(sender[p], channel[p], receiver[T!Other(p)])

LEMMA OtherFacts ==
  ASSUME NEW p \in Ends
  PROVE  /\ T!Other(p) \in Ends /\ T!Other(p) # p /\ T!Other(T!Other(p)) = p
         /\ \A q \in Ends : q = p \/ q = T!Other(p)
<1>1. T!Other(alice) = bob
  BY FileAssumption DEF T!Other
<1>2. T!Other(bob) = alice
  BY FileAssumption DEF T!Other
<1> QED BY <1>1, <1>2, FileAssumption DEF Ends

(* A step of one end.                                                      *)
LEMMA EndStep ==
  ASSUME FileInv, NEW p \in Ends, FileTypes',
         sender'[T!Other(p)] = sender[T!Other(p)], queue'[T!Other(p)] = queue[T!Other(p)],
         receiver'[T!Other(p)] = receiver[T!Other(p)], open'[T!Other(p)] = open[T!Other(p)],
         EndInv(sender'[p], queue'[p], receiver'[p], open'[p]),
         LinkInvOf(sender'[p], channel'[p], receiver[T!Other(p)]),
         LinkInvOf(sender[T!Other(p)], channel'[T!Other(p)], receiver'[p])
  PROVE  FileInv'
<1> DEFINE q == T!Other(p)
<1>1. q \in Ends /\ T!Other(q) = p /\ \A x \in Ends : x = p \/ x = q
  BY OtherFacts
<1>2. EndInv(sender'[q], queue'[q], receiver'[q], open'[q])
  BY <1>1 DEF FileInv
<1>3. LinkInvOf(sender'[p], channel'[p], receiver'[T!Other(p)])
  OBVIOUS
<1>4. LinkInvOf(sender'[q], channel'[q], receiver'[T!Other(q)])
  BY <1>1
<1>5. ASSUME NEW x \in Ends
      PROVE  /\ EndInv(sender'[x], queue'[x], receiver'[x], open'[x])
             /\ LinkInvOf(sender'[x], channel'[x], receiver'[T!Other(x)])
  <2>1. CASE x = p
    BY <1>3, <2>1
  <2>2. CASE x = q
    BY <1>2, <1>4, <2>2
  <2> QED BY <1>1, <2>1, <2>2
<1>6. T!Other(p)' = T!Other(p)
  BY DEF T!Other
<1> QED BY <1>5 DEF FileInv, T!Other

LEMMA NewFacts ==
  ASSUME NEW s, s = T!NewSender, NEW r, r = T!NewReceiver
  PROVE  EndInv(s, <<>>, r, TRUE) /\ LinkInvOf(s, <<>>, r)
<1>1. /\ \A id \in T!Ids : s.sends[id] = T!Unsent
      /\ s.sends = [id \in T!Ids |-> T!Unsent]
      /\ s.active = {} /\ s.cancelled = {} /\ s.announced = {} /\ s.aborts = {} /\ s.sequence = 0
      /\ s.tearingDown = FALSE
  BY DEF T!NewSender
<1>2. T!Unsent \in T!Sends /\ T!Unsent.at = "none" /\ T!Unsent.next = 0 /\ T!Unsent.file = T!NoFile
  BY DEF T!Unsent, T!Sends, T!NoFile, T!Running, T!Endings, T!Awaiting
<1>3. s \in T!Senders
  <2>1. s.sends \in [T!Ids -> T!Sends]
    BY <1>1, <1>2
  <2>2. 0 \in 0..(MaxFrames + 1)
    BY FileAssumption
  <2> QED BY <1>1, <2>1, <2>2 DEF T!NewSender, T!Senders
<1>4. Reserved(s)
  BY <1>1, <1>2, AwaitingFacts DEF Reserved
<1>5. Prefixed(s, 0) /\ 0 \in 0..MaxSends
  BY <1>1, <1>2, FileAssumption DEF Prefixed, T!Ids
<1>6. ASSUME NEW id \in T!Ids
      PROVE  Placed(s.sends[id])
  <2>1. T!ChunkCount(0) \in Nat /\ T!Unsent.file.size = 0
    BY <1>2, ChunkFacts DEF T!NoFile
  <2> QED BY <1>1, <1>2, <2>1 DEF Placed, Sound
<1>7. SendInv(s)
  BY <1>3, <1>4, <1>5, <1>6 DEF SendInv
<1>8. Queued(s, <<>>)
  <2>1. T!Cardinality(T!Allocated(s)) = 0
    BY <1>5, AllocatedFacts
  <2> QED BY <2>1, FileAssumption DEF Queued
<1>9. /\ r.transfers = {} /\ r.hashing = 0 /\ r.buffered = 0 /\ r.outstanding = 0
      /\ r.tornDown = FALSE /\ r.errors = {} /\ \A id \in T!Ids : r.fate[id] = {}
      /\ r.object = [id \in T!Ids |-> T!NoTransfer]
  BY DEF T!NewReceiver
<1>10. r \in T!Receivers
  BY DEF T!NewReceiver, T!Receivers, T!NoTransfer, T!Transfers
<1>11. Books(r)
  <2>1. \A id \in T!Ids : r.object[id].received <= r.object[id].size /\ r.object[id].dropped = TRUE
    BY <1>9 DEF T!NoTransfer
  <2>2. Got(r) \in [T!Ids -> Nat] /\ Due(r) \in [T!Ids -> Nat]
    BY <1>9 DEF Got, Due, T!NoTransfer
  <2>3. Total(Got(r), {}) = 0 /\ Total(Due(r), {}) = 0
    BY <2>2, IdsFinite, TotalFacts
  <2>4. Cardinality({}) = 0
    BY FS_EmptySet
  <2> QED BY <1>9, <2>1, <2>3, <2>4, FileAssumption DEF Books
<1>12. RecvInv(r)
  BY <1>9, <1>10, <1>11 DEF RecvInv, Honest
<1>13. Linked(s.sends, <<>>, r)
  <2> DEFINE k == [id \in T!Ids |-> 0]
  <2>1. k \in [T!Ids -> Nat] /\ \A id \in T!Ids : k[id] = 0
    OBVIOUS
  <2> HIDE DEF k
  <2>2. \A id \in T!Ids : s.sends[id].next = 0
    BY <1>1, <1>2
  <2>3. Wire(s.sends, <<>>, k)
    <3>1. <<>> \in Seq(T!Frames) /\ 1..Len(<<>>) = {}
      OBVIOUS
    <3> QED BY <2>1, <2>2, <3>1 DEF Wire
  <2>4. ASSUME NEW id \in T!Ids
        PROVE  Held(r, id, s.sends[id].file.size, k[id])
    <3>1. r.hashing # id
      BY <1>9 DEF T!Ids
    <3> QED BY <1>9, <2>1, <3>1 DEF Held
  <2> QED BY <2>1, <2>3, <2>4 DEF Linked
<1> QED BY <1>7, <1>8, <1>9, <1>12, <1>13 DEF EndInv, LinkInvOf

LEMMA FileInit == T!Init => FileInv
<1> SUFFICES ASSUME T!Init PROVE FileInv
  OBVIOUS
<1>1. \A p \in Ends : /\ sender[p] = T!NewSender /\ receiver[p] = T!NewReceiver
                      /\ open[p] = TRUE /\ channel[p] = <<>> /\ queue[p] = <<>>
  BY DEF T!Init, Ends
<1>2. EndInv(T!NewSender, <<>>, T!NewReceiver, TRUE) /\ LinkInvOf(T!NewSender, <<>>, T!NewReceiver)
  BY NewFacts
<1>3. T!NewSender \in T!Senders /\ T!NewReceiver \in T!Receivers
  BY <1>2 DEF EndInv, SendInv, RecvInv
<1>4. FileTypes
  <2>1. <<>> \in Waits /\ <<>> \in Seq(T!Frames)
    BY DEF Waits
  <2> QED BY <1>3, <2>1 DEF T!Init, FileTypes, Ends
<1> QED BY <1>1, <1>2, <1>4, OtherFacts DEF FileInv

LEMMA PutFacts ==
  ASSUME NEW A, NEW f \in [Ends -> A], NEW p \in Ends, NEW v \in A, NEW g, g = [f EXCEPT ![p] = v]
  PROVE  g \in [Ends -> A] /\ g[p] = v /\ \A q \in Ends : q # p => g[q] = f[q]
OBVIOUS

LEMMA KeptEnd ==
  ASSUME NEW A, NEW f \in [Ends -> A], NEW p \in Ends
  PROVE  f = [f EXCEPT ![p] = f[p]]
OBVIOUS

LEMMA ExtendsSame ==
  ASSUME NEW s, NEW d, Same(s, d)
  PROVE  Extends(s.sends, d.sends)
BY DEF Same, Extends

LEMMA ExtendsBoth ==
  ASSUME NEW S, NEW Z, NEW Y, Extends(S, Z), Extends(Z, Y)
  PROVE  Extends(S, Y)
BY DEF Extends

(* What the invariant says of one end.                                     *)
LEMMA EndFacts ==
  ASSUME FileInv, NEW p \in Ends
  PROVE  /\ SendInv(sender[p]) /\ Queued(sender[p], queue[p]) /\ RecvInv(receiver[p])
         /\ open[p] \in BOOLEAN /\ (open[p] = TRUE => receiver[p].tornDown = FALSE)
         /\ channel[p] \in Seq(T!Frames)
         /\ Linked(sender[p].sends, channel[p], receiver[T!Other(p)])
         /\ Linked(sender[T!Other(p)].sends, channel[T!Other(p)], receiver[p])
<1>1. FileTypes /\ EndInv(sender[p], queue[p], receiver[p], open[p])
      /\ LinkInvOf(sender[p], channel[p], receiver[T!Other(p)])
  BY DEF FileInv
<1>2. LinkInvOf(sender[T!Other(p)], channel[T!Other(p)], receiver[p])
  BY OtherFacts DEF FileInv
<1> QED BY <1>1, <1>2 DEF FileTypes, EndInv, LinkInvOf

(* A step of the sender of p.                                              *)
LEMMA SenderStep ==
  ASSUME FileInv, NEW p \in Ends, receiver' = receiver, open' = open, NEW s, NEW waiting, NEW w,
         sender' = [sender EXCEPT ![p] = s], queue' = [queue EXCEPT ![p] = waiting],
         channel' = [channel EXCEPT ![p] = w], SendInv(s), Queued(s, waiting),
         w \in Seq(T!Frames), Linked(s.sends, w, receiver[T!Other(p)])
  PROVE  FileInv'
<1> DEFINE q == T!Other(p)
<1>1. q \in Ends /\ q # p
  BY OtherFacts
<1>2. FileTypes /\ s \in T!Senders /\ waiting \in Waits
  BY DEF FileInv, SendInv, Queued, Waits
<1>3. sender' \in [Ends -> T!Senders] /\ sender'[p] = s /\ sender'[q] = sender[q]
  BY <1>1, <1>2, PutFacts DEF FileTypes
<1>4. queue' \in [Ends -> Waits] /\ queue'[p] = waiting /\ queue'[q] = queue[q]
  BY <1>1, <1>2, PutFacts DEF FileTypes
<1>5. channel' \in [Ends -> Seq(T!Frames)] /\ channel'[p] = w /\ channel'[q] = channel[q]
  BY <1>1, <1>2, PutFacts DEF FileTypes
<1>6. FileTypes'
  BY <1>2, <1>3, <1>4, <1>5 DEF FileTypes
<1>7. EndInv(sender[p], queue[p], receiver[p], open[p])
      /\ LinkInvOf(sender[q], channel[q], receiver[p])
  BY <1>1, OtherFacts DEF FileInv
<1>8. EndInv(sender'[p], queue'[p], receiver'[p], open'[p])
  BY <1>3, <1>4, <1>7 DEF EndInv
<1>9. LinkInvOf(sender'[p], channel'[p], receiver[q])
  BY <1>3, <1>5 DEF LinkInvOf
<1>10. LinkInvOf(sender[q], channel'[q], receiver'[p])
  BY <1>5, <1>7
<1> QED BY <1>3, <1>4, <1>6, <1>8, <1>9, <1>10, EndStep

(* A step of the sender that leaves the wire alone.                        *)
LEMMA QuietStep ==
  ASSUME FileInv, NEW p \in Ends, receiver' = receiver, open' = open, channel' = channel,
         NEW s, NEW waiting,
         sender' = [sender EXCEPT ![p] = s], queue' = [queue EXCEPT ![p] = waiting],
         SendInv(s), Queued(s, waiting), Extends(sender[p].sends, s.sends)
  PROVE  FileInv'
<1>1. channel' = [channel EXCEPT ![p] = channel[p]]
  BY KeptEnd DEF FileInv, FileTypes
<1>2. channel[p] \in Seq(T!Frames) /\ SendInv(sender[p])
      /\ Linked(sender[p].sends, channel[p], receiver[T!Other(p)])
  BY EndFacts
<1>3. sender[p].sends \in [T!Ids -> T!Sends] /\ s.sends \in [T!Ids -> T!Sends]
  BY <1>2, SenderFields DEF SendInv
<1>4. Linked(s.sends, channel[p], receiver[T!Other(p)])
  BY <1>2, <1>3, LinkedExtends
<1> QED BY <1>1, <1>2, <1>4, SenderStep

(* ... and after which the session is published.                           *)
LEMMA DrainStep ==
  ASSUME FileInv, NEW p \in Ends, receiver' = receiver, open' = open, channel' = channel,
         NEW s, SendInv(s), NEW waiting, Queued(s, waiting), Extends(sender[p].sends, s.sends),
         NEW l, NEW d, d = T!Drain(p, waiting, s, l),
         sender' = [sender EXCEPT ![p] = d.sender], queue' = [queue EXCEPT ![p] = d.queue]
  PROVE  FileInv'
<1>1. Begun(s, d.sender) /\ Queued(d.sender, d.queue)
  BY DrainFacts
<1>2. SendInv(d.sender) /\ Extends(sender[p].sends, d.sender.sends)
  BY <1>1, ExtendsBoth DEF Begun
<1> QED BY <1>1, <1>2, QuietStep

(* Of the same sends, the queue holds as much.                             *)
LEMMA SameStep ==
  ASSUME FileInv, NEW p \in Ends, receiver' = receiver, open' = open, channel' = channel,
         queue' = queue, NEW s, sender' = [sender EXCEPT ![p] = s],
         SendInv(s), Same(sender[p], s)
  PROVE  FileInv'
<1>1. queue' = [queue EXCEPT ![p] = queue[p]]
  BY KeptEnd DEF FileInv, FileTypes
<1>2. Queued(s, queue[p])
  BY EndFacts, QueuedSame DEF Same
<1>3. Extends(sender[p].sends, s.sends)
  BY ExtendsSame
<1> QED BY <1>1, <1>2, <1>3, QuietStep

-----------------------------------------------------------------------------
(* The actions of the sender.                                              *)

LEMMA HashDoneInv ==
  ASSUME FileInv, NEW p \in Ends, NEW id \in T!Ids, T!HashDone(p, id)
  PROVE  FileInv'
<1> DEFINE s == T!Hashed(sender[p], id)
<1>1. sender' = [sender EXCEPT ![p] = s]
      /\ receiver' = receiver /\ open' = open /\ channel' = channel /\ queue' = queue
  BY DEF T!HashDone
<1>2. SendInv(sender[p]) /\ sender[p].sends[id].at = "hash"
  BY EndFacts DEF T!HashDone
<1>3. Moved(sender[p], id, s)
  BY <1>2, HashedFacts
<1> HIDE DEF s
<1> QED BY <1>1, <1>3, SameStep DEF Moved

LEMMA BufferedAmountLowInv ==
  ASSUME FileInv, NEW p \in Ends, T!BufferedAmountLow(p)
  PROVE  FileInv'
<1> DEFINE s == T!Drained(sender[p], T!Backpressured(channel[p]))
<1>1. sender' = [sender EXCEPT ![p] = s]
      /\ receiver' = receiver /\ open' = open /\ channel' = channel /\ queue' = queue
  BY DEF T!BufferedAmountLow
<1>2. SendInv(sender[p])
  BY EndFacts
<1>3. SendInv(s) /\ Same(sender[p], s)
  BY <1>2, DrainedFacts
<1> HIDE DEF s
<1> QED BY <1>1, <1>3, SameStep

LEMMA SessionChangeInv ==
  ASSUME FileInv, NEW p \in Ends, T!SessionChange(p)
  PROVE  FileInv'
<1> DEFINE d == T!Drain(p, queue[p], sender[p], list[p])
<1>1. sender' = [sender EXCEPT ![p] = d.sender] /\ queue' = [queue EXCEPT ![p] = d.queue]
      /\ receiver' = receiver /\ open' = open /\ channel' = channel
  BY DEF T!SessionChange, T!Publish, T!PublishQueue
<1>2. SendInv(sender[p]) /\ Queued(sender[p], queue[p])
  BY EndFacts
<1>3. Extends(sender[p].sends, sender[p].sends)
  BY DEF Extends
<1> QED BY <1>1, <1>2, <1>3, DrainStep

LEMMA CancelSendInv ==
  ASSUME FileInv, NEW p \in Ends, NEW id \in T!Ids, T!CancelSend(p, id)
  PROVE  FileInv'
<1> DEFINE s == T!CancelTransfer(sender[p], id)
           l == T!Ended(list[p], id, "cancelled")
           d == T!Drain(p, queue[p], s, l)
<1>1. sender' = [sender EXCEPT ![p] = d.sender] /\ queue' = [queue EXCEPT ![p] = d.queue]
      /\ receiver' = receiver /\ open' = open /\ channel' = channel
  BY DEF T!CancelSend, T!Publish, T!PublishQueue
<1>2. SendInv(sender[p]) /\ Queued(sender[p], queue[p]) /\ id \in sender[p].active
  BY EndFacts DEF T!CancelSend
<1>3. SendInv(s) /\ Same(sender[p], s)
  BY <1>2, CancelFacts
<1> HIDE DEF s, l
<1>4. Queued(s, queue[p])
  BY <1>2, <1>3, QueuedSame DEF Same
<1>5. Extends(sender[p].sends, s.sends)
  BY <1>3, ExtendsSame
<1> QED BY <1>1, <1>3, <1>4, <1>5, DrainStep

(* The coroutine of id is over.                                            *)
Settles(s, id) == [s EXCEPT !.sends[id].at = "done"]

LEMMA SettlesFacts ==
  ASSUME NEW s, SendInv(s), NEW id \in T!Ids, s.sends[id].at = "returning",
         NEW d, d = Settles(s, id)
  PROVE  SendInv(d) /\ Same(s, d) /\ d.sends[id].ended = s.sends[id].ended
<1>0. s \in T!Senders /\ Reserved(s)
  BY DEF SendInv
<1>1. /\ s.sends \in [T!Ids -> T!Sends] /\ s.sends[id] \in T!Sends
  BY <1>0, SenderFields
<1> DEFINE e == [s.sends[id] EXCEPT !.at = "done"]
<1>2. e \in T!Sends /\ e.at = "done" /\ e.next = s.sends[id].next
      /\ e.file = s.sends[id].file /\ e.ended = s.sends[id].ended
  BY <1>1 DEF T!Sends
<1>3. /\ d.sends = [s.sends EXCEPT ![id] = e]
      /\ d.active = s.active /\ d.cancelled = s.cancelled /\ d.announced = s.announced
      /\ d.aborts = s.aborts /\ d.sequence = s.sequence /\ d.tearingDown = s.tearingDown
  BY <1>0 DEF Settles, T!Senders
<1>4. d = [s EXCEPT !.sends = d.sends]
  BY <1>0 DEF Settles, T!Senders
<1> HIDE DEF e
<1>5. d.sends \in [T!Ids -> T!Sends] /\ d.sends[id] = e
      /\ \A k \in T!Ids : k # id => d.sends[k] = s.sends[k]
  BY <1>1, <1>2, <1>3
<1>6. d \in T!Senders
  BY <1>0, <1>4, <1>5 DEF T!Senders
<1>7. "returning" \notin T!Awaiting /\ "done" \notin T!Awaiting
  BY AwaitingFacts
<1>8. Same(s, d)
  <2>1. ASSUME NEW k \in T!Ids
        PROVE  /\ d.sends[k].next = s.sends[k].next /\ d.sends[k].file = s.sends[k].file
               /\ d.sends[k].at = "none" <=> s.sends[k].at = "none"
    <3>1. CASE k = id
      BY <1>2, <1>5, <3>1
    <3>2. CASE k # id
      BY <1>5, <3>2
    <3> QED BY <3>1, <3>2
  <2> QED BY <2>1 DEF Same
<1>9. Reserved(d)
  <2>1. ASSUME NEW k \in T!Ids
        PROVE  /\ k \in d.active \cup d.cancelled \cup d.announced => d.sends[k].at \in T!Awaiting
               /\ k \notin d.active \cap d.cancelled
               /\ d.sends[k].at \in T!Awaiting /\ ~d.tearingDown => k \in d.active \cup d.cancelled
    <3>1. CASE k = id
      BY <1>0, <1>2, <1>3, <1>5, <1>7, <3>1 DEF Reserved
    <3>2. CASE k # id
      BY <1>0, <1>3, <1>5, <3>2 DEF Reserved
    <3> QED BY <3>1, <3>2
  <2> QED BY <2>1 DEF Reserved
<1>10. \E n \in 0..MaxSends : Prefixed(d, n)
  <2>1. PICK n \in 0..MaxSends : Prefixed(s, n)
    BY DEF SendInv
  <2>2. Prefixed(d, n)
    BY <1>8, <2>1 DEF Same, Prefixed
  <2> QED BY <2>2
<1>11. ASSUME NEW k \in T!Ids
       PROVE  Placed(d.sends[k])
  <2>0. Placed(s.sends[k])
    BY DEF SendInv
  <2>1. CASE k = id
    <3>1. Sound(e)
      BY <1>2, <2>0, <2>1 DEF Placed, Sound
    <3> QED BY <1>2, <1>5, <2>1, <3>1 DEF Placed
  <2>2. CASE k # id
    BY <1>5, <2>0, <2>2
  <2> QED BY <2>1, <2>2
<1> QED BY <1>2, <1>5, <1>6, <1>8, <1>9, <1>10, <1>11 DEF SendInv

LEMMA SendReturnsInv ==
  ASSUME FileInv, NEW p \in Ends, NEW id \in T!Ids, T!SendReturns(p, id)
  PROVE  FileInv'
<1> DEFINE s == Settles(sender[p], id)
           how == s.sends[id].ended
           l == T!Ended(list[p], id, how)
           d == T!Drain(p, queue[p], s, l)
<1>1. receiver' = receiver /\ open' = open /\ channel' = channel
  BY DEF T!SendReturns
<1>2. \/ sender' = [sender EXCEPT ![p] = s] /\ queue' = queue
      \/ sender' = [sender EXCEPT ![p] = d.sender] /\ queue' = [queue EXCEPT ![p] = d.queue]
  BY DEF T!SendReturns, T!Publish, T!PublishQueue, Settles
<1>3. SendInv(sender[p]) /\ Queued(sender[p], queue[p]) /\ sender[p].sends[id].at = "returning"
  BY EndFacts DEF T!SendReturns
<1>4. SendInv(s) /\ Same(sender[p], s)
  BY <1>3, SettlesFacts
<1> HIDE DEF s, l
<1>5. Queued(s, queue[p])
  BY <1>3, <1>4, QueuedSame DEF Same
<1>6. Extends(sender[p].sends, s.sends)
  BY <1>4, ExtendsSame
<1>7. CASE sender' = [sender EXCEPT ![p] = s] /\ queue' = queue
  BY <1>1, <1>4, <1>7, SameStep
<1>8. CASE sender' = [sender EXCEPT ![p] = d.sender] /\ queue' = [queue EXCEPT ![p] = d.queue]
  BY <1>1, <1>4, <1>5, <1>6, <1>8, DrainStep
<1> QED BY <1>2, <1>7, <1>8

(* A TransferCancel frame leaves the encryption.                           *)
Aborted(s, id) == [s EXCEPT !.aborts = @ \ {id}]

LEMMA AbortedFacts ==
  ASSUME NEW s, SendInv(s), NEW id, NEW d, d = Aborted(s, id)
  PROVE  SendInv(d) /\ d.sends = s.sends
<1>0. s \in T!Senders /\ Reserved(s)
  BY DEF SendInv
<1>1. /\ d.sends = s.sends /\ d.active = s.active /\ d.cancelled = s.cancelled
      /\ d.announced = s.announced /\ d.tearingDown = s.tearingDown
      /\ d.aborts = s.aborts \ {id} /\ d = [s EXCEPT !.aborts = d.aborts]
  BY <1>0 DEF Aborted, T!Senders
<1>2. d.aborts \in SUBSET T!Ids
  BY <1>0, <1>1, SenderFields
<1>3. d \in T!Senders
  BY <1>0, <1>1, <1>2 DEF T!Senders
<1>4. Reserved(d)
  BY <1>0, <1>1, Zenon DEF Reserved
<1> QED BY <1>1, <1>3, <1>4, KeepsPlaces

LEMMA AbortSealedInv ==
  ASSUME FileInv, NEW p \in Ends, NEW id \in T!Ids, T!AbortSealed(p, id)
  PROVE  FileInv'
<1> DEFINE s == Aborted(sender[p], id)
           f == T!CancelFrame(id)
           w == Append(channel[p], f)
<1>1. sender' = [sender EXCEPT ![p] = s]
      /\ receiver' = receiver /\ open' = open /\ queue' = queue
  <2>1. sender' = [sender EXCEPT ![p].aborts = sender[p].aborts \ {id}]
        /\ receiver' = receiver /\ open' = open /\ queue' = queue
    BY DEF T!AbortSealed
  <2> QED BY <2>1 DEF Aborted
<1>2. channel' = channel \/ channel' = [channel EXCEPT ![p] = w]
  BY DEF T!AbortSealed
<1>3. SendInv(sender[p]) /\ Queued(sender[p], queue[p]) /\ channel[p] \in Seq(T!Frames)
      /\ Linked(sender[p].sends, channel[p], receiver[T!Other(p)])
  BY EndFacts
<1>4. SendInv(s) /\ s.sends = sender[p].sends
  BY <1>3, AbortedFacts
<1>5. f \in T!Frames /\ f.type = "cancel"
  <2>1. T!NoPlain \in [DOMAIN T!NoPlain -> Nat]
    BY DEF T!NoPlain
  <2> QED BY <2>1 DEF T!CancelFrame, T!Frames
<1> HIDE DEF s, f
<1>6. CASE channel' = channel
  <2>1. Same(sender[p], s)
    BY <1>4 DEF Same
  <2> QED BY <1>1, <1>4, <1>6, <2>1, SameStep
<1>7. CASE channel' = [channel EXCEPT ![p] = w]
  <2>1. w \in Seq(T!Frames)
    BY <1>3, <1>5, AppendFacts
  <2>2. Linked(s.sends, w, receiver[T!Other(p)])
    BY <1>3, <1>4, <1>5, LinkedCancels
  <2>3. Queued(s, queue[p])
    BY <1>3, <1>4, QueuedSame
  <2>4. queue' = [queue EXCEPT ![p] = queue[p]]
    BY <1>1, KeptEnd DEF FileInv, FileTypes
  <2> QED BY <1>1, <1>4, <1>7, <2>1, <2>2, <2>3, <2>4, SenderStep
<1> QED BY <1>2, <1>6, <1>7

LEMMA SealDoneInv ==
  ASSUME FileInv, NEW p \in Ends, NEW id \in T!Ids, T!SealDone(p, id)
  PROVE  FileInv'
<1>0. /\ SendInv(sender[p]) /\ Queued(sender[p], queue[p]) /\ channel[p] \in Seq(T!Frames)
      /\ Linked(sender[p].sends, channel[p], receiver[T!Other(p)])
      /\ open[p] \in BOOLEAN
  BY EndFacts
<1>1. sender[p].sends[id].at = "seal" /\ receiver' = receiver /\ open' = open
  BY DEF T!SealDone
<1>2. CASE open[p] = FALSE
  <2> DEFINE s == T!Return(sender[p], id, "error")
  <2>1. sender' = [sender EXCEPT ![p] = s] /\ channel' = channel /\ queue' = queue
    BY <1>2 DEF T!SealDone
  <2>2. Core(sender[p], id) /\ sender[p].sends[id].at # "none" /\ "error" \in T!Endings
    BY <1>0, <1>1, SendCore, EndingsFacts
  <2>3. SendInv(s) /\ Same(sender[p], s)
    BY <2>2, ReturnFacts
  <2> HIDE DEF s
  <2> QED BY <1>1, <2>1, <2>3, SameStep
<1>3. CASE open[p] = TRUE
  <2> DEFINE f == T!FrameOf(sender[p], id)
             w == Append(channel[p], f)
             l == IF sender[p].sends[id].next = 0
                  THEN T!Started(list[p], id, "sent") ELSE list[p]
             d == T!Drain(p, queue[p], sender[p], l)
             e == d.sender
             b == T!Backpressured(w)
             s == T!Sent(e, id, b)
  <2>1. channel' = [channel EXCEPT ![p] = w] /\ sender' = [sender EXCEPT ![p] = s]
        /\ queue' = [queue EXCEPT ![p] = d.queue]
    BY <1>3 DEF T!SealDone
  <2>2. Begun(sender[p], e) /\ Queued(e, d.queue)
    BY <1>0, DrainFacts
  <2>3. f = FrameAt(id, sender[p].sends[id].file, sender[p].sends[id].next)
    BY DEF T!FrameOf, FrameAt
  <2>30. w = Append(channel[p], f)
    OBVIOUS
  <2> HIDE DEF f, l, b, e, w
  <2>4. e.sends[id] = sender[p].sends[id] /\ SendInv(e) /\ Extends(sender[p].sends, e.sends)
    BY <1>1, <2>2 DEF Begun
  <2>5. e.sends[id].at = "seal"
    BY <1>1, <2>4
  <2>6. /\ SendInv(s) /\ s.tearingDown = e.tearingDown
        /\ \A k \in T!Ids : k # id => s.sends[k] = e.sends[k]
        /\ s.sends[id].next = e.sends[id].next + 1 /\ s.sends[id].file = e.sends[id].file
        /\ \A k \in T!Ids : s.sends[k].at = "none" <=> e.sends[k].at = "none"
    BY <2>4, <2>5, SentFacts
  <2> HIDE DEF s
  <2>7. /\ sender[p].sends \in [T!Ids -> T!Sends] /\ e.sends \in [T!Ids -> T!Sends]
        /\ s.sends \in [T!Ids -> T!Sends]
    BY <1>0, <2>4, <2>6, SenderFields DEF SendInv
  <2>8. Linked(e.sends, channel[p], receiver[T!Other(p)])
    BY <1>0, <2>4, <2>7, LinkedExtends
  <2>9. e.sends[id].next <= T!ChunkCount(e.sends[id].file.size)
    <3>1. Placed(e.sends[id])
      BY <2>4 DEF SendInv
    <3> QED BY <2>5, <3>1 DEF Placed
  <2>10. f = FrameAt(id, e.sends[id].file, e.sends[id].next)
    BY <2>3, <2>4
  <2>11. Advances(e.sends, s.sends, id)
    BY <2>6 DEF Advances
  <2>12. Linked(s.sends, w, receiver[T!Other(p)]) /\ f \in T!Frames
    <3> DEFINE S == e.sends
               Z == s.sends
               r == receiver[T!Other(p)]
               c == channel[p]
    <3>1. /\ S \in [T!Ids -> T!Sends] /\ Z \in [T!Ids -> T!Sends]
          /\ Outgoing(S, Z, id, f) /\ Linked(S, c, r) /\ w = Append(c, f)
      BY <2>7, <2>8, <2>9, <2>10, <2>11, <2>30 DEF Outgoing
    <3> HIDE DEF S, Z, r, c
    <3>2. Linked(Z, w, r) /\ f \in T!Frames
      BY <3>1, LinkedSends
    <3> QED BY <3>2 DEF Z, r
  <2>13. w \in Seq(T!Frames)
    BY <1>0, <2>12, <2>30, AppendFacts
  <2>14. Queued(s, d.queue)
    <3>1. \A k \in T!Ids : s.sends[k].at = "none" <=> e.sends[k].at = "none"
      BY <2>6
    <3> HIDE DEF d
    <3> QED BY <2>2, <3>1, QueuedSame
  <2> HIDE DEF d
  <2> QED BY <1>1, <2>1, <2>6, <2>12, <2>13, <2>14, SenderStep
<1> QED BY <1>0, <1>2, <1>3

LEMMA NamedFacts ==
  ASSUME NEW file \in {T!Named(f) : f \in MixedFiles}
  PROVE  file \in [DOMAIN T!NoFile -> Nat]
<1>1. PICK n \in {0, 3, 5} : file = T!Named([size |-> n, name |-> 1, mime |-> 0])
  BY DEF MixedFiles
<1> DEFINE b == [size |-> n, name |-> 1, mime |-> 0]
<1>2. file = [b EXCEPT !.name = 1, !.mime = 24]
  <2>1. b.name = 1 /\ b.mime = 0
    OBVIOUS
  <2>2. file = [b EXCEPT !.name = IF b.name = 0 THEN 8 ELSE b.name,
                         !.mime = IF b.mime = 0 THEN 24 ELSE b.mime]
    BY <1>1 DEF T!Named
  <2> QED BY <2>1, <2>2
<1>3. file = [k \in {"size", "name", "mime"} |->
                IF k = "name" THEN 1 ELSE IF k = "mime" THEN 24 ELSE n]
  <2>1. b = [k \in {"size", "name", "mime"} |->
              IF k = "name" THEN 1 ELSE IF k = "mime" THEN 0 ELSE n]
    OBVIOUS
  <2> HIDE DEF b
  <2> QED BY <1>2, <2>1
<1>4. n \in Nat
  OBVIOUS
<1>5. DOMAIN T!NoFile = {"size", "name", "mime"}
  BY DEF T!NoFile
<1> QED BY <1>3, <1>4, <1>5

LEMMA UploadsFacts ==
  ASSUME NEW p \in Ends
  PROVE  [x \in {alice, bob} |-> IF x = alice THEN MaxSends ELSE 0][p] <= MaxSends
         /\ [x \in {alice, bob} |-> IF x = alice THEN MaxSends ELSE 0][p] \in Nat
BY FileAssumption DEF Ends

LEMMA SendFileInv ==
  ASSUME FileInv, NEW p \in Ends, T!SendFile(p)
  PROVE  FileInv'
<1>0. SendInv(sender[p]) /\ Queued(sender[p], queue[p])
      /\ T!Cardinality(T!Allocated(sender[p])) \in Nat
  BY EndFacts, AllocatedCount
<1> DEFINE up == [x \in {alice, bob} |-> IF x = alice THEN MaxSends ELSE 0][p]
<1>1. /\ T!Cardinality(T!Allocated(sender[p])) + Len(queue[p]) < up
      /\ receiver' = receiver /\ open' = open /\ channel' = channel
  BY DEF T!SendFile
<1>2. up <= MaxSends /\ up \in Nat
  BY UploadsFacts
<1> HIDE DEF up
<1>3. queue[p] \in Seq([DOMAIN T!NoFile -> Nat]) /\ Len(queue[p]) \in Nat
  BY <1>0 DEF Queued
<1>4. T!Cardinality(T!Allocated(sender[p])) + Len(queue[p]) < MaxSends
  BY <1>0, <1>1, <1>2, <1>3, FileAssumption
<1> DEFINE d == T!Drain(p, queue[p], sender[p], list[p])
<1>5. PICK file \in {T!Named(f) : f \in MixedFiles} :
        \/ /\ T!AtCap(sender[p]) /\ queue' = [queue EXCEPT ![p] = Append(d.queue, file)]
           /\ sender' = sender
        \/ /\ sender' = [sender EXCEPT ![p] = T!Begin(sender[p], file)] /\ queue' = queue
  BY DEF T!SendFile
<1>6. file \in [DOMAIN T!NoFile -> Nat]
  BY NamedFacts
<1>7. CASE T!AtCap(sender[p]) /\ queue' = [queue EXCEPT ![p] = Append(d.queue, file)]
           /\ sender' = sender
  <2>1. d.queue = queue[p] \/ (queue[p] # <<>> /\ d.queue = Tail(queue[p]))
    BY DEF T!Drain
  <2> DEFINE w == Append(d.queue, file)
             File == [DOMAIN T!NoFile -> Nat]
  <2>2. d.queue \in Seq(File) /\ Len(d.queue) <= Len(queue[p]) /\ Len(d.queue) \in Nat
    <3> HIDE DEF d, File
    <3>1. queue[p] \in Seq(File)
      BY <1>3 DEF File
    <3>2. CASE d.queue = queue[p]
      BY <3>1, <3>2
    <3>3. CASE queue[p] # <<>> /\ d.queue = Tail(queue[p])
      BY <3>1, <3>3, TailFacts
    <3> QED BY <2>1, <3>2, <3>3
  <2>3. w \in Seq(File) /\ Len(w) = Len(d.queue) + 1
    <3> HIDE DEF d, File
    <3>1. file \in File
      BY <1>6 DEF File
    <3> QED BY <2>2, <3>1
  <2>4. Queued(sender[p], w)
    <3> HIDE DEF w, d
    <3> QED BY <1>0, <1>3, <1>4, <2>2, <2>3, FileAssumption DEF Queued
  <2>5. sender' = [sender EXCEPT ![p] = sender[p]]
    BY <1>7, KeptEnd DEF FileInv, FileTypes
  <2>6. Extends(sender[p].sends, sender[p].sends)
    BY DEF Extends
  <2> HIDE DEF w, d
  <2>7. queue' = [queue EXCEPT ![p] = w]
    BY <1>7 DEF w
  <2> QED BY <1>0, <1>1, <2>4, <2>5, <2>6, <2>7, QuietStep
<1>8. CASE sender' = [sender EXCEPT ![p] = T!Begin(sender[p], file)] /\ queue' = queue
  <2> DEFINE s == T!Begin(sender[p], file)
  <2>1. T!Cardinality(T!Allocated(sender[p])) < MaxSends
    BY <1>0, <1>3, <1>4, FileAssumption
  <2>2. /\ SendInv(s) /\ s.tearingDown = sender[p].tearingDown
        /\ \A k \in T!Ids : sender[p].sends[k].at # "none" => s.sends[k] = sender[p].sends[k]
        /\ \A k \in T!Ids : /\ s.sends[k].next = sender[p].sends[k].next
                            /\ s.sends[k].file = sender[p].sends[k].file
                               \/ sender[p].sends[k].next = 0
        /\ T!Cardinality(T!Allocated(s)) = T!Cardinality(T!Allocated(sender[p])) + 1
    BY <1>0, <1>6, <2>1, BeginFacts
  <2> HIDE DEF s
  <2>3. Extends(sender[p].sends, s.sends)
    BY <2>2 DEF Extends
  <2>4. Queued(s, queue[p])
    BY <1>0, <1>3, <1>4, <2>2, FileAssumption DEF Queued
  <2>5. queue' = [queue EXCEPT ![p] = queue[p]]
    BY <1>8, KeptEnd DEF FileInv, FileTypes
  <2>6. sender' = [sender EXCEPT ![p] = s]
    BY <1>8 DEF s
  <2> QED BY <1>1, <2>2, <2>3, <2>4, <2>5, <2>6, QuietStep
<1> QED BY <1>5, <1>7, <1>8

LEMMA RemovedFacts ==
  ASSUME NEW F, NEW w \in Seq(F), NEW i \in DOMAIN w,
         NEW v, v = SubSeq(w, 1, i - 1) \o SubSeq(w, i + 1, Len(w))
  PROVE  v \in Seq(F) /\ Len(v) = Len(w) - 1 /\ Len(w) \in Nat
<1>1. i \in 1..Len(w) /\ Len(w) \in Nat
  OBVIOUS
<1>2. SubSeq(w, 1, i - 1) \in Seq(F) /\ Len(SubSeq(w, 1, i - 1)) = i - 1
  BY <1>1
<1>3. SubSeq(w, i + 1, Len(w)) \in Seq(F) /\ Len(SubSeq(w, i + 1, Len(w))) = Len(w) - i
  BY <1>1
<1>4. v \in Seq(F) /\ Len(v) = (i - 1) + (Len(w) - i)
  <2> DEFINE s == SubSeq(w, 1, i - 1)
             t == SubSeq(w, i + 1, Len(w))
  <2>1. v = s \o t /\ s \in Seq(F) /\ t \in Seq(F) /\ Len(s) = i - 1 /\ Len(t) = Len(w) - i
    BY <1>2, <1>3
  <2> HIDE DEF s, t
  <2>2. s \o t \in Seq(F) /\ Len(s \o t) = Len(s) + Len(t)
    BY <2>1, ConcatProperties, Zenon
  <2> QED BY <2>1, <2>2
<1>5. \A a, n \in Nat : (a - 1) + (n - a) = n - 1
  OBVIOUS
<1>6. i \in Nat /\ Len(w) \in Nat
  BY <1>1
<1>7. (i - 1) + (Len(w) - i) = Len(w) - 1
  BY <1>5, <1>6, Zenon
<1> QED BY <1>4, <1>6, <1>7, Zenon

LEMMA CancelQueuedInv ==
  ASSUME FileInv, NEW p \in Ends, T!CancelQueued(p)
  PROVE  FileInv'
<1>0. SendInv(sender[p]) /\ Queued(sender[p], queue[p])
      /\ T!Cardinality(T!Allocated(sender[p])) \in Nat
  BY EndFacts, AllocatedCount
<1>1. PICK i \in DOMAIN queue[p] :
        T!PublishQueue(p, SubSeq(queue[p], 1, i - 1) \o SubSeq(queue[p], i + 1, Len(queue[p])),
                       sender[p], list[p])
  BY DEF T!CancelQueued
<1> DEFINE v == SubSeq(queue[p], 1, i - 1) \o SubSeq(queue[p], i + 1, Len(queue[p]))
           d == T!Drain(p, v, sender[p], list[p])
<1>2. sender' = [sender EXCEPT ![p] = d.sender] /\ queue' = [queue EXCEPT ![p] = d.queue]
  BY <1>1 DEF T!PublishQueue
<1>3. receiver' = receiver /\ open' = open /\ channel' = channel
  BY DEF T!CancelQueued
<1> DEFINE File == [DOMAIN T!NoFile -> Nat]
<1>4. v \in Seq(File) /\ Len(v) = Len(queue[p]) - 1 /\ Len(queue[p]) \in Nat
  <2>1. queue[p] \in Seq(File)
    BY <1>0 DEF Queued
  <2> HIDE DEF File
  <2> QED BY <2>1, RemovedFacts
<1> HIDE DEF v
<1>5. Queued(sender[p], v)
  BY <1>0, <1>4, FileAssumption DEF Queued
<1>6. Extends(sender[p].sends, sender[p].sends)
  BY DEF Extends
<1> QED BY <1>0, <1>2, <1>3, <1>5, <1>6, DrainStep

-----------------------------------------------------------------------------
(* The actions of the receiver.                                            *)

AllSurfaced == \A p \in Ends : Surfaced(receiver[p], receiver'[p])

LEMMA SurfacedIdle ==
  ASSUME receiver' = receiver
  PROVE  AllSurfaced
BY DEF AllSurfaced, Surfaced

LEMMA SurfacedAt ==
  ASSUME FileInv, NEW p \in Ends, NEW r, receiver' = [receiver EXCEPT ![p] = r],
         Surfaced(receiver[p], r)
  PROVE  AllSurfaced
<1>1. ASSUME NEW q \in Ends
      PROVE  Surfaced(receiver[q], receiver'[q])
  <2>1. CASE q = p
    <3>1. receiver'[q] = r
      BY <2>1 DEF FileInv, FileTypes
    <3> QED BY <2>1, <3>1
  <2>2. CASE q # p
    <3>1. receiver'[q] = receiver[q]
      BY <2>2 DEF FileInv, FileTypes
    <3> QED BY <3>1 DEF Surfaced
  <2> QED BY <2>1, <2>2
<1> QED BY <1>1 DEF AllSurfaced

(* The session is published, or left alone.                                *)
Publishes(p) == \E s, waiting :
  /\ sender' = [sender EXCEPT ![p] = s] /\ queue' = [queue EXCEPT ![p] = waiting]
  /\ SendInv(s) /\ Queued(s, waiting) /\ Extends(sender[p].sends, s.sends)

LEMMA PublishesDrain ==
  ASSUME FileInv, NEW p \in Ends, NEW l, NEW d, d = T!Drain(p, queue[p], sender[p], l),
         sender' = [sender EXCEPT ![p] = d.sender], queue' = [queue EXCEPT ![p] = d.queue]
  PROVE  Publishes(p)
<1>1. SendInv(sender[p]) /\ Queued(sender[p], queue[p])
  BY EndFacts
<1>2. Begun(sender[p], d.sender) /\ Queued(d.sender, d.queue)
  BY <1>1, DrainFacts
<1> DEFINE s == d.sender
           waiting == d.queue
<1>3. /\ sender' = [sender EXCEPT ![p] = s] /\ queue' = [queue EXCEPT ![p] = waiting]
      /\ SendInv(s) /\ Queued(s, waiting) /\ Extends(sender[p].sends, s.sends)
  BY <1>2 DEF Begun
<1> HIDE DEF s, waiting
<1> QED BY <1>3 DEF Publishes

LEMMA PublishesIdle ==
  ASSUME FileInv, NEW p \in Ends, sender' = sender, queue' = queue
  PROVE  Publishes(p)
<1>1. SendInv(sender[p]) /\ Queued(sender[p], queue[p])
  BY EndFacts
<1>2. sender' = [sender EXCEPT ![p] = sender[p]] /\ queue' = [queue EXCEPT ![p] = queue[p]]
  BY KeptEnd DEF FileInv, FileTypes
<1>3. Extends(sender[p].sends, sender[p].sends)
  BY DEF Extends
<1> QED BY <1>1, <1>2, <1>3 DEF Publishes

(* A step of the receiver of p.                                            *)
LEMMA ReceiverStep ==
  ASSUME FileInv, NEW p \in Ends, open' = open, Publishes(p), NEW r, NEW w,
         receiver' = [receiver EXCEPT ![p] = r], RecvInv(r), r.tornDown = receiver[p].tornDown,
         channel' = [channel EXCEPT ![T!Other(p)] = w], w \in Seq(T!Frames),
         Linked(sender[T!Other(p)].sends, w, r)
  PROVE  FileInv'
<1> DEFINE q == T!Other(p)
<1>1. q \in Ends /\ q # p
  BY OtherFacts
<1>2. PICK s, waiting :
        /\ sender' = [sender EXCEPT ![p] = s] /\ queue' = [queue EXCEPT ![p] = waiting]
        /\ SendInv(s) /\ Queued(s, waiting) /\ Extends(sender[p].sends, s.sends)
  BY DEF Publishes
<1>3. FileTypes /\ s \in T!Senders /\ waiting \in Waits /\ r \in T!Receivers
  BY <1>2 DEF FileInv, SendInv, Queued, Waits, RecvInv
<1>4. sender' \in [Ends -> T!Senders] /\ sender'[p] = s /\ sender'[q] = sender[q]
  BY <1>1, <1>2, <1>3, PutFacts DEF FileTypes
<1>5. queue' \in [Ends -> Waits] /\ queue'[p] = waiting /\ queue'[q] = queue[q]
  BY <1>1, <1>2, <1>3, PutFacts DEF FileTypes
<1>6. receiver' \in [Ends -> T!Receivers] /\ receiver'[p] = r /\ receiver'[q] = receiver[q]
  BY <1>1, <1>3, PutFacts DEF FileTypes
<1>7. channel' \in [Ends -> Seq(T!Frames)] /\ channel'[q] = w /\ channel'[p] = channel[p]
  BY <1>1, <1>3, PutFacts DEF FileTypes
<1>8. FileTypes'
  BY <1>3, <1>4, <1>5, <1>6, <1>7 DEF FileTypes
<1>9. /\ open[p] = TRUE => receiver[p].tornDown = FALSE
      /\ channel[p] \in Seq(T!Frames) /\ SendInv(sender[p])
      /\ Linked(sender[p].sends, channel[p], receiver[q])
  BY EndFacts
<1>10. EndInv(sender'[p], queue'[p], receiver'[p], open'[p])
  BY <1>2, <1>4, <1>5, <1>6, <1>9 DEF EndInv
<1>11. LinkInvOf(sender'[p], channel'[p], receiver[q])
  <2>1. sender[p].sends \in [T!Ids -> T!Sends] /\ s.sends \in [T!Ids -> T!Sends]
    BY <1>2, <1>9, SenderFields DEF SendInv
  <2>2. Linked(s.sends, channel[p], receiver[q])
    BY <1>2, <1>9, <2>1, LinkedExtends
  <2> QED BY <1>4, <1>7, <2>2 DEF LinkInvOf
<1>12. LinkInvOf(sender[q], channel'[q], receiver'[p])
  BY <1>6, <1>7 DEF LinkInvOf
<1> QED BY <1>1, <1>4, <1>5, <1>6, <1>8, <1>10, <1>11, <1>12, EndStep

LEMMA IngestInv ==
  ASSUME FileInv, NEW p \in Ends, T!Ingest(p)
  PROVE  FileInv' /\ AllSurfaced
<1> DEFINE q == T!Other(p)
           c == channel[q]
           r == receiver[p]
           S == sender[q].sends
           d == T!Ingested(r, Head(c))
           w == Tail(c)
           l == T!Ended(list[p], Head(c).id, "error")
           t == T!Drain(p, queue[p], sender[p], l)
<1>1. /\ open[p] /\ r.hashing = 0 /\ c # <<>> /\ open' = open
      /\ channel' = [channel EXCEPT ![q] = w] /\ receiver' = [receiver EXCEPT ![p] = d]
  BY DEF T!Ingest
<1>2. \/ sender' = sender /\ queue' = queue
      \/ sender' = [sender EXCEPT ![p] = t.sender] /\ queue' = [queue EXCEPT ![p] = t.queue]
  BY DEF T!Ingest, T!Publish, T!PublishQueue
<1>3. Publishes(p)
  <2>1. CASE sender' = sender /\ queue' = queue
    BY <2>1, PublishesIdle
  <2>2. CASE sender' = [sender EXCEPT ![p] = t.sender] /\ queue' = [queue EXCEPT ![p] = t.queue]
    <3> HIDE DEF l
    <3> QED BY <2>2, PublishesDrain
  <2> QED BY <1>2, <2>1, <2>2
<1>4. q \in Ends
  BY OtherFacts
<1>5. /\ RecvInv(r) /\ Linked(S, c, r) /\ open[p] \in BOOLEAN
      /\ open[p] = TRUE => r.tornDown = FALSE
  BY EndFacts
<1>6. r.tornDown = FALSE
  BY <1>1, <1>5
<1>7. SendInv(sender[q]) /\ c \in Seq(T!Frames)
  BY <1>4, EndFacts
<1>8. S \in [T!Ids -> T!Sends] /\ AllSound(S)
  BY <1>7, SenderFields DEF SendInv, Placed, AllSound
<1>9. Takes(r, c, d, w) /\ c # <<>> /\ w = Tail(c)
  BY <1>1, <1>6 DEF Takes
<1> HIDE DEF d, w, S, c
<1>10. RecvInv(d) /\ d.tornDown = r.tornDown /\ Linked(S, w, d) /\ Surfaced(r, d)
  <2> HIDE DEF r
  <2> QED BY <1>5, <1>8, <1>9, LinkedIngests
<1>11. w \in Seq(T!Frames)
  BY <1>7, <1>9, TailFacts
<1>12. FileInv'
  BY <1>1, <1>3, <1>10, <1>11, ReceiverStep DEF S
<1>13. AllSurfaced
  BY <1>1, <1>10, SurfacedAt
<1> QED BY <1>12, <1>13

LEMMA FileHashedInv ==
  ASSUME FileInv, NEW p \in Ends, T!FileHashed(p)
  PROVE  FileInv' /\ AllSurfaced
<1> DEFINE q == T!Other(p)
           c == channel[q]
           r == receiver[p]
           S == sender[q].sends
           id == r.hashing
           la == T!Ended(list[p], id, "error")
           lb == T!Ended(T!Started(list[p], id, "received"), id, "complete")
           ta == T!Drain(p, queue[p], sender[p], la)
           tb == T!Drain(p, queue[p], sender[p], lb)
<1>0. r.hashing # 0 /\ open' = open /\ channel' = channel
  BY DEF T!FileHashed
<1>1. PICK matches \in BOOLEAN :
        /\ receiver' = [receiver EXCEPT ![p] = T!Completed(r, matches)]
        /\ \/ sender' = sender /\ queue' = queue
           \/ sender' = [sender EXCEPT ![p] = ta.sender] /\ queue' = [queue EXCEPT ![p] = ta.queue]
           \/ sender' = [sender EXCEPT ![p] = tb.sender] /\ queue' = [queue EXCEPT ![p] = tb.queue]
  BY DEF T!FileHashed, T!Publish, T!PublishQueue
<1> DEFINE d == T!Completed(r, matches)
<1>2. Publishes(p)
  <2>1. CASE sender' = sender /\ queue' = queue
    BY <2>1, PublishesIdle
  <2>2. CASE sender' = [sender EXCEPT ![p] = ta.sender] /\ queue' = [queue EXCEPT ![p] = ta.queue]
    <3> HIDE DEF la
    <3> QED BY <2>2, PublishesDrain
  <2>3. CASE sender' = [sender EXCEPT ![p] = tb.sender] /\ queue' = [queue EXCEPT ![p] = tb.queue]
    <3> HIDE DEF lb
    <3> QED BY <2>3, PublishesDrain
  <2> QED BY <1>1, <2>1, <2>2, <2>3
<1>3. q \in Ends
  BY OtherFacts
<1>4. RecvInv(r) /\ Linked(S, c, r)
  BY EndFacts
<1>5. SendInv(sender[q]) /\ c \in Seq(T!Frames)
  BY <1>3, EndFacts
<1>6. S \in [T!Ids -> T!Sends]
  BY <1>5, SenderFields DEF SendInv
<1>7. d = T!Completed(r, matches) /\ r.hashing # 0
  BY <1>0
<1>8. receiver' = [receiver EXCEPT ![p] = d]
  BY <1>1
<1>9. channel' = [channel EXCEPT ![q] = c]
  BY <1>0, <1>3, KeptEnd DEF FileInv, FileTypes
<1> HIDE DEF d, S, c
<1>10. RecvInv(d) /\ d.tornDown = r.tornDown /\ Linked(S, c, d) /\ Surfaced(r, d)
  <2> HIDE DEF r
  <2> QED BY <1>4, <1>6, <1>7, LinkedCompletes
<1>11. FileInv'
  BY <1>0, <1>2, <1>5, <1>8, <1>9, <1>10, ReceiverStep DEF S
<1>12. AllSurfaced
  BY <1>8, <1>10, SurfacedAt
<1> QED BY <1>11, <1>12

LEMMA SweepInv ==
  ASSUME FileInv, NEW p \in Ends, T!Sweep(p)
  PROVE  FileInv' /\ AllSurfaced
<1> DEFINE q == T!Other(p)
           c == channel[q]
           r == receiver[p]
           S == sender[q].sends
<1>0. open' = open /\ channel' = channel
  BY DEF T!Sweep
<1>1. PICK idle \in SUBSET r.transfers :
        /\ receiver' = [receiver EXCEPT ![p] = T!Swept(r, idle)]
        /\ T!Publish(p, sender[p],
                     T!FoldSet(LAMBDA id, l : T!Ended(l, id, "error"), list[p], idle))
  BY DEF T!Sweep
<1> DEFINE d == T!Swept(r, idle)
           l == T!FoldSet(LAMBDA id, m : T!Ended(m, id, "error"), list[p], idle)
           t == T!Drain(p, queue[p], sender[p], l)
<1>2. sender' = [sender EXCEPT ![p] = t.sender] /\ queue' = [queue EXCEPT ![p] = t.queue]
  BY <1>1 DEF T!Publish, T!PublishQueue
<1> HIDE DEF l
<1>3. Publishes(p)
  BY <1>2, PublishesDrain
<1>4. q \in Ends
  BY OtherFacts
<1>5. RecvInv(r) /\ Linked(S, c, r)
  BY EndFacts
<1>6. c \in Seq(T!Frames)
  BY <1>4, EndFacts
<1>7. d = T!Swept(r, idle) /\ receiver' = [receiver EXCEPT ![p] = d]
  BY <1>1
<1>8. channel' = [channel EXCEPT ![q] = c]
  BY <1>0, <1>4, KeptEnd DEF FileInv, FileTypes
<1> HIDE DEF d, S, c
<1>9. Settled(r, d) /\ d.tornDown = r.tornDown
      /\ \A k \in T!Ids : "file" \in d.fate[k] => "file" \in r.fate[k]
  <2> HIDE DEF r
  <2> QED BY <1>5, <1>7, SweptStays
<1>10. RecvInv(d) /\ Linked(S, c, d) /\ Surfaced(r, d)
  BY <1>5, <1>9, LinkedSettles DEF Settled, Surfaced
<1>11. FileInv'
  BY <1>0, <1>3, <1>6, <1>7, <1>8, <1>9, <1>10, ReceiverStep DEF S
<1>12. AllSurfaced
  BY <1>7, <1>10, SurfacedAt
<1> QED BY <1>11, <1>12

LEMMA FileTeardownInv ==
  ASSUME FileInv, NEW p \in Ends, T!Teardown(p)
  PROVE  FileInv' /\ AllSurfaced
<1> DEFINE q == T!Other(p)
           s == T!SenderTeardown(sender[p])
           r == T!ReceiverTeardown(receiver[p])
<1>0. /\ open' = [open EXCEPT ![p] = FALSE] /\ channel' = channel /\ queue' = queue
      /\ sender' = [sender EXCEPT ![p] = s] /\ receiver' = [receiver EXCEPT ![p] = r]
  BY DEF T!Teardown
<1>1. q \in Ends /\ q # p
  BY OtherFacts
<1>2. /\ SendInv(sender[p]) /\ Queued(sender[p], queue[p]) /\ RecvInv(receiver[p])
      /\ Linked(sender[p].sends, channel[p], receiver[q])
      /\ Linked(sender[q].sends, channel[q], receiver[p])
  BY EndFacts
<1>3. SendInv(s) /\ Same(sender[p], s)
  BY <1>2, TeardownFacts
<1>4. /\ Settled(receiver[p], r) /\ r.tornDown = TRUE
      /\ \A k \in T!Ids : "file" \in r.fate[k] => "file" \in receiver[p].fate[k]
  BY <1>2, TornStays
<1> HIDE DEF s, r
<1>5. FileTypes /\ s \in T!Senders /\ r \in T!Receivers
  BY <1>3, <1>4 DEF FileInv, SendInv, Settled, RecvInv
<1>6. sender' \in [Ends -> T!Senders] /\ sender'[p] = s /\ sender'[q] = sender[q]
  BY <1>0, <1>1, <1>5, PutFacts DEF FileTypes
<1>7. receiver' \in [Ends -> T!Receivers] /\ receiver'[p] = r /\ receiver'[q] = receiver[q]
  BY <1>0, <1>1, <1>5, PutFacts DEF FileTypes
<1>8. open' \in [Ends -> BOOLEAN] /\ open'[p] = FALSE /\ open'[q] = open[q]
  BY <1>0, <1>1, <1>5 DEF FileTypes
<1>9. FileTypes'
  BY <1>0, <1>5, <1>6, <1>7, <1>8 DEF FileTypes
<1>10. EndInv(sender'[p], queue'[p], receiver'[p], open'[p])
  <2>1. Queued(s, queue[p])
    BY <1>2, <1>3, QueuedSame DEF Same
  <2>2. RecvInv(r)
    BY <1>4 DEF Settled
  <2>3. EndInv(s, queue[p], r, FALSE)
    BY <1>3, <2>1, <2>2 DEF EndInv
  <2> QED BY <1>0, <1>6, <1>7, <1>8, <2>3
<1>11. LinkInvOf(sender'[p], channel'[p], receiver[q])
  <2>1. sender[p].sends \in [T!Ids -> T!Sends] /\ s.sends \in [T!Ids -> T!Sends]
    BY <1>2, <1>3, SenderFields DEF SendInv
  <2>2. Linked(s.sends, channel[p], receiver[q])
    BY <1>2, <1>3, <2>1, ExtendsSame, LinkedExtends
  <2> QED BY <1>0, <1>6, <2>2 DEF LinkInvOf
<1>12. LinkInvOf(sender[q], channel'[q], receiver'[p])
  <2>1. Linked(sender[q].sends, channel[q], r)
    BY <1>2, <1>4, LinkedSettles
  <2> QED BY <1>0, <1>7, <2>1 DEF LinkInvOf
<1>13. queue'[q] = queue[q]
  BY <1>0
<1>14. FileInv'
  BY <1>6, <1>7, <1>8, <1>9, <1>10, <1>11, <1>12, <1>13, EndStep
<1>15. AllSurfaced
  <2>1. Surfaced(receiver[p], r)
    BY <1>4 DEF Surfaced
  <2> QED BY <1>0, <2>1, SurfacedAt
<1> QED BY <1>14, <1>15

LEMMA SenderIdle ==
  ASSUME NEW p \in Ends,
         \/ T!SendFile(p) \/ T!BufferedAmountLow(p) \/ T!SessionChange(p) \/ T!CancelQueued(p)
         \/ \E id \in T!Ids : \/ T!HashDone(p, id) \/ T!SealDone(p, id) \/ T!AbortSealed(p, id)
                              \/ T!SendReturns(p, id) \/ T!CancelSend(p, id)
  PROVE  AllSurfaced
<1>1. receiver' = receiver
  BY DEF T!SendFile, T!BufferedAmountLow, T!SessionChange, T!CancelQueued, T!HashDone,
         T!SealDone, T!AbortSealed, T!SendReturns, T!CancelSend
<1> QED BY <1>1, SurfacedIdle

LEMMA FileStep == FileInv /\ [T!Next]_(T!vars) => FileInv' /\ AllSurfaced
<1> SUFFICES ASSUME FileInv, [T!Next]_(T!vars) PROVE FileInv' /\ AllSurfaced
  OBVIOUS
<1>1. CASE UNCHANGED T!vars
  <2>1. /\ sender' = sender /\ receiver' = receiver /\ open' = open
        /\ channel' = channel /\ queue' = queue
    BY <1>1 DEF T!vars
  <2>2. FileInv'
    BY <2>1 DEF FileInv, FileTypes, T!Other
  <2> QED BY <2>1, <2>2, SurfacedIdle
<1>2. CASE T!Next
  <2>1. PICK p \in Ends : \/ T!SendFile(p)  \/ T!Coroutine(p) \/ T!Ingest(p)
                          \/ T!Sweep(p)     \/ T!Teardown(p)  \/ T!SessionChange(p)
                          \/ T!CancelQueued(p)
                          \/ \E id \in T!Ids : T!CancelSend(p, id)
    BY <1>2 DEF T!Next, Ends
  <2>2. CASE T!SendFile(p)
    BY <2>2, SendFileInv, SenderIdle
  <2>3. CASE T!Coroutine(p)
    <3>1. CASE T!BufferedAmountLow(p)
      BY <3>1, BufferedAmountLowInv, SenderIdle
    <3>2. CASE T!FileHashed(p)
      BY <3>2, FileHashedInv
    <3>3. ASSUME NEW id \in T!Ids, T!HashDone(p, id)
          PROVE  FileInv' /\ AllSurfaced
      BY <3>3, HashDoneInv, SenderIdle
    <3>4. ASSUME NEW id \in T!Ids, T!SealDone(p, id)
          PROVE  FileInv' /\ AllSurfaced
      BY <3>4, SealDoneInv, SenderIdle
    <3>5. ASSUME NEW id \in T!Ids, T!AbortSealed(p, id)
          PROVE  FileInv' /\ AllSurfaced
      BY <3>5, AbortSealedInv, SenderIdle
    <3>6. ASSUME NEW id \in T!Ids, T!SendReturns(p, id)
          PROVE  FileInv' /\ AllSurfaced
      BY <3>6, SendReturnsInv, SenderIdle
    <3> QED BY <2>3, <3>1, <3>2, <3>3, <3>4, <3>5, <3>6 DEF T!Coroutine
  <2>4. CASE T!Ingest(p)
    BY <2>4, IngestInv
  <2>5. CASE T!Sweep(p)
    BY <2>5, SweepInv
  <2>6. CASE T!Teardown(p)
    BY <2>6, FileTeardownInv
  <2>7. CASE T!SessionChange(p)
    BY <2>7, SessionChangeInv, SenderIdle
  <2>8. CASE T!CancelQueued(p)
    BY <2>8, CancelQueuedInv, SenderIdle
  <2>9. ASSUME NEW id \in T!Ids, T!CancelSend(p, id)
        PROVE  FileInv' /\ AllSurfaced
    BY <2>9, CancelSendInv, SenderIdle
  <2> QED BY <2>1, <2>2, <2>3, <2>4, <2>5, <2>6, <2>7, <2>8, <2>9
<1> QED BY <1>1, <1>2

-----------------------------------------------------------------------------
(* What the invariant implies.                                             *)

LEMMA FileReservations == FileInv => T!Reservations
<1> SUFFICES ASSUME FileInv, NEW p \in Ends, NEW id \in T!Ids
             PROVE  /\ id \in sender[p].active \cup sender[p].cancelled \cup sender[p].announced
                         => sender[p].sends[id].at \in T!Awaiting
                    /\ id \notin sender[p].active \cap sender[p].cancelled
                    /\ sender[p].sends[id].at \in T!Awaiting /\ ~sender[p].tearingDown
                         => id \in sender[p].active \cup sender[p].cancelled
  BY Zenon DEF T!Reservations, Ends
<1>1. Reserved(sender[p])
  BY EndFacts DEF SendInv
<1> QED BY <1>1, Zenon DEF Reserved

LEMMA FileBytes == FileInv => T!CommittedBytes
<1> SUFFICES ASSUME FileInv, NEW p \in Ends
             PROVE  /\ receiver[p].buffered =
                         T!MapThenSumSet(LAMBDA id : receiver[p].object[id].received,
                                         receiver[p].transfers)
                    /\ receiver[p].outstanding =
                         T!MapThenSumSet(LAMBDA id : receiver[p].object[id].size
                                                     - receiver[p].object[id].received,
                                         receiver[p].transfers)
                    /\ receiver[p].buffered + receiver[p].outstanding <= Budget
                    /\ T!Cardinality(receiver[p].transfers) <= MaxTransfers
  BY Zenon DEF T!CommittedBytes, Ends
<1>1. receiver[p] \in T!Receivers /\ Books(receiver[p])
  BY EndFacts DEF RecvInv
<1>2. receiver[p].buffered = T!MapThenSumSet(LAMBDA id : receiver[p].object[id].received,
                                             receiver[p].transfers)
  BY <1>1, ReceivedSum, Zenon
<1>3. receiver[p].outstanding =
        T!MapThenSumSet(LAMBDA id : receiver[p].object[id].size - receiver[p].object[id].received,
                        receiver[p].transfers)
  BY <1>1, DueSum, Zenon
<1>4. /\ receiver[p].buffered + receiver[p].outstanding <= Budget
      /\ T!Cardinality(receiver[p].transfers) <= MaxTransfers
  BY <1>1, SameSize DEF Books
<1> QED BY <1>2, <1>3, <1>4, Zenon

LEMMA FileHonest == FileInv => T!HonestPeer
<1> SUFFICES ASSUME FileInv, NEW p \in Ends, NEW e \in receiver[p].errors
             PROVE  /\ e[2] \notin {"TransferInactive", "ChunkOutOfRange", "Malformed",
                                    "DuplicateChunk", "NameExceeded", "MimeExceeded"}
                    /\ e[2] = "UnknownTransfer" =>
                         \/ receiver[p].fate[e[1]] \cap {"cancelled", "timeout"} # {}
                         \/ <<e[1], "ConcurrentTransfersExceeded">> \in receiver[p].errors
                         \/ <<e[1], "SizeExceeded">> \in receiver[p].errors
  BY Zenon DEF T!HonestPeer, Ends
<1>1. Honest(receiver[p])
  BY EndFacts DEF RecvInv
<1> QED BY <1>1 DEF Honest, Broken, Excused

-----------------------------------------------------------------------------
(* The transfers as a part of the runs.                                    *)

LEMMA FilesMove ==
  ASSUME [MCNext]_<<part, vars, meshVars, linkVars, fileVars>>
  PROVE  [T!Next]_(T!vars)
<1>1. CASE UNCHANGED <<part, vars, meshVars, linkVars, fileVars>>
  BY <1>1 DEF fileVars, T!vars
<1>2. CASE MCNext
  <2>1. Rest(part)
    BY <1>2 DEF MCNext
  <2>2. T!Next \/ UNCHANGED fileVars
    BY <1>2, <2>1 DEF MCNext, Rest
  <2> QED BY <2>2 DEF fileVars, T!vars
<1> QED BY <1>1, <1>2

LEMMA FilesStep ==
  ASSUME FileInv, [MCNext]_<<part, vars, meshVars, linkVars, fileVars>>
  PROVE  FileInv' /\ AllSurfaced
BY FilesMove, FileStep

(* Whatever is sent, cancelled, swept, refused or torn down, and wherever  *)
(* in a hash or an encryption it falls, a slot of the sender belongs to a  *)
(* send that runs, and the byte counters of the receiver are the transfers *)
(* in its map, within the budget and the number allowed.                   *)
THEOREM AccountsBalance == MCSpec => []Accounts
<1>1. MCInit => FileInv
  BY FileInit DEF MCInit
<1>2. FileInv /\ [MCNext]_<<part, vars, meshVars, linkVars, fileVars>> => FileInv'
  BY FilesStep
<1>3. FileInv => Accounts
  BY FileReservations, FileBytes DEF Accounts, T!Accounts
<1> QED
  BY <1>1, <1>2, <1>3, PTL DEF MCSpec

(* Two endpoints that run this code never see each other break a transfer: *)
(* the limits of a manifest agree, chunks arrive in range and once, and a  *)
(* frame of an unknown transfer has a cause at the receiver.               *)
THEOREM PeersStayHonest == MCSpec => []HonestPeer
<1>1. MCInit => FileInv
  BY FileInit DEF MCInit
<1>2. FileInv /\ [MCNext]_<<part, vars, meshVars, linkVars, fileVars>> => FileInv'
  BY FilesStep
<1>3. FileInv => HonestPeer
  BY FileHonest DEF HonestPeer
<1> QED
  BY <1>1, <1>2, <1>3, PTL DEF MCSpec

(* completeTransfer surfaces a file once and whole, from a transfer that   *)
(* is still in the map of a live receiver when its hash returns.           *)
THEOREM FilesSurfaceOnce == MCSpec => SurfacesOnce
<1> DEFINE Once == \A p \in Ends, id \in T!Ids :
             "file" \in receiver'[p].fate[id] \ receiver[p].fate[id]
               => /\ receiver[p].fate[id] = {} /\ ~receiver[p].tornDown
                  /\ id \in receiver[p].transfers
                  /\ receiver[p].object[id].received = receiver[p].object[id].size
<1>1. MCInit => FileInv
  BY FileInit DEF MCInit
<1>2. FileInv /\ [MCNext]_<<part, vars, meshVars, linkVars, fileVars>> => FileInv' /\ Once
  <2>1. AllSurfaced => Once
    BY DEF AllSurfaced, Surfaced
  <2> QED BY <2>1, FilesStep
<1> QED
  <2>1. Once => [Once]_(T!vars)
    OBVIOUS
  <2> QED BY <1>1, <1>2, <2>1, PTL DEF MCSpec, SurfacesOnce, T!SurfacesOnce, Ends
=============================================================================
