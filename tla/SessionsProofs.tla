---------------------------- MODULE SessionsProofs ----------------------------
(***************************************************************************)
(* Theorems about Sessions, for every number of calls and of leaves, and   *)
(* about the controller's parts together: those of the groups are proved   *)
(* in GroupHostsProofs and carried over to the composition.                *)
(***************************************************************************)
EXTENDS MCSessions, TLAPS

GP == INSTANCE GroupHostsProofs

Waiting == {"waitJoin", "waitResume"}
InFlight == {"starting", "seeding", "refreshing"}

(* What a call is, wherever it is parked: its kind is set when it is made, *)
(* it waits for a call, only a resume has a history to seed, and its epoch *)
(* is one that has been.                                                   *)
CallsAreSound ==
  /\ \A c \in Calls :
       /\ call[c].kind = None <=> call[c].pc = "new"
       /\ call[c].pc \in Waiting \cup {"reading", "entered"} => call[c].kind # "start"
       /\ call[c].pc \in Waiting \cup {"reading"} => call[c].on \in Calls
       /\ call[c].pc = "reading" => call[c].kind = "resume"
       /\ call[c].pc = "seeding" => call[c].kind = "resume"
       /\ call[c].epoch <= epoch
  /\ \A c \in sessions : call[c].kind # None

(* A map of attempts holds an attempt of its kind, and, until two of one   *)
(* kind have been in flight together, the only one.                        *)
MapsHoldAttempts ==
  /\ joining # None => joining \in Attempts /\ call[joining].kind = "join"
  /\ resuming # None => resuming \in Attempts /\ call[resuming].kind = "resume"
  /\ ~overlapped => \A c \in Attempts : /\ call[c].kind = "join" => joining = c
                                        /\ call[c].kind = "resume" => resuming = c

(* While a resume reads its history nothing else is registered for the     *)
(* conversation: it is itself, or a leave came; and whoever joined after   *)
(* that leave waits for the resume to end.                                 *)
SeedingIsAlone ==
  ~overlapped => \A c \in Calls : call[c].pc = "seeding" =>
    /\ Landed \subseteq {c}
    /\ c \in sessions \/ Aborted(c)
    /\ \A d \in Calls : call[d].kind = "join" /\ call[d].epoch > call[c].epoch =>
         \/ call[d].pc \in {"entered", "done"}
         \/ call[d].pc = "waitResume" /\ call[d].on = c

SessionsInv == /\ TypeOK /\ CallsAreSound /\ MapsHoldAttempts /\ SeedingIsAlone
               /\ NoCircularWait /\ MapMatchesBridges /\ LeaveWins

-----------------------------------------------------------------------------
(* Parking moves one call, and changes nothing of it but where it waits.   *)
LEMMA ParkFacts ==
  ASSUME TypeOK, NEW c \in Calls, NEW pc \in Parks, NEW on \in Calls \cup {None},
         Park(c, pc, on)
  PROVE  /\ call' \in [Calls -> Call]
         /\ call'[c].kind = call[c].kind /\ call'[c].epoch = call[c].epoch
         /\ call'[c].pc = pc /\ call'[c].on = on
         /\ \A d \in Calls \ {c} : call'[d] = call[d]
         /\ Fresh' = Fresh
BY DEF Park, Parked, TypeOK, Call, Fresh

(* The invariant holds in the initial state.                               *)
LEMMA InitInv == Init => SessionsInv
<1> SUFFICES ASSUME Init PROVE SessionsInv
  OBVIOUS
<1>1. /\ sessions = {} /\ joining = None /\ resuming = None
      /\ \A c \in Calls : /\ call[c].kind = None /\ call[c].pc = "new" /\ call[c].epoch = 0
                          /\ bridge[c] = "none"
  BY DEF Init
<1>2. TypeOK
  BY DEF Init, TypeOK, Call, Kinds, Parks, Landed
<1>3. Attempts = {} /\ Orphans = {} /\ Landed = {}
  BY <1>1 DEF Attempts, Orphans, Landed
<1>4. CallsAreSound /\ NoCircularWait /\ MapMatchesBridges /\ LeaveWins
  BY <1>1, <1>3 DEF Init, CallsAreSound, NoCircularWait, MapMatchesBridges, LeaveWins,
                    NoOrphan, Waiting
<1>5. MapsHoldAttempts /\ SeedingIsAlone
  BY <1>1, <1>3 DEF MapsHoldAttempts, SeedingIsAlone
<1> QED
  BY <1>2, <1>4, <1>5 DEF SessionsInv

(* A call that finds the conversation live selects it and is done: it was  *)
(* no attempt.                                                             *)
LEMMA ReturnToInv ==
  ASSUME SessionsInv, NEW c \in Calls, NEW s \in sessions,
         call[c].pc \in Waiting \cup {"reading", "entered"},
         ReturnTo(c, s), UNCHANGED <<epoch, disposed>>
  PROVE  SessionsInv'
<1>1. TypeOK /\ CallsAreSound /\ MapsHoldAttempts /\ SeedingIsAlone
      /\ NoCircularWait /\ MapMatchesBridges /\ LeaveWins
  BY DEF SessionsInv
<1>2. Park(c, "done", None)
  BY DEF ReturnTo
<1>3. /\ call' \in [Calls -> Call] /\ Fresh' = Fresh
      /\ call'[c].kind = call[c].kind /\ call'[c].epoch = call[c].epoch
      /\ call'[c].pc = "done"
      /\ \A d \in Calls \ {c} : call'[d] = call[d]
  BY <1>1, <1>2, ParkFacts DEF Parks
<1>4. Attempts' = Attempts /\ Landed' = Landed
  BY <1>3 DEF Attempts, ReturnTo, Landed, Waiting
<1>5. TypeOK'
  BY <1>1, <1>3, <1>4 DEF TypeOK, ReturnTo, Select
<1>6. CallsAreSound'
  BY <1>1, <1>3 DEF CallsAreSound, ReturnTo, Waiting, TypeOK
<1>7. MapsHoldAttempts'
  BY <1>1, <1>3, <1>4 DEF MapsHoldAttempts, ReturnTo, Attempts, Waiting
<1>8. SeedingIsAlone'
  BY <1>1, <1>3, <1>4 DEF SeedingIsAlone, ReturnTo, Aborted, Waiting
<1>9. NoCircularWait'
  BY <1>1, <1>3, <1>4 DEF NoCircularWait, CallsAreSound, Waiting
<1>10. MapMatchesBridges'
  BY <1>1, <1>3 DEF MapMatchesBridges, NoOrphan, Orphans, ReturnTo, Waiting, TypeOK
<1>11. LeaveWins'
  BY <1>1, <1>3, TypeOK DEF LeaveWins, ReturnTo, TypeOK
<1> QED
  BY <1>5, <1>6, <1>7, <1>8, <1>9, <1>10, <1>11 DEF SessionsInv

(* No join that comes after a leave overtakes the resume the leave aborted *)
(* while it reads its history.                                             *)
NotLate(c) ==
  \A r \in Calls : ~overlapped /\ call[r].pc = "seeding" /\ call[c].kind = "join"
                     => call[c].epoch <= call[r].epoch

(* A call goes on to wait for an attempt, or to read what a join made.     *)
LEMMA AwaitInv ==
  ASSUME SessionsInv, NEW c \in Calls, NEW pc \in Waiting \cup {"reading"}, NEW a \in Calls,
         call[c].pc \in Waiting \cup {"reading", "entered"},
         pc \in Waiting => a \in Attempts,
         pc = "reading" => call[c].kind = "resume",
         ~NotLate(c) => (overlapped \/ resuming = a) /\ pc = "waitResume",
         Await(c, pc, a), UNCHANGED <<epoch, disposed>>
  PROVE  SessionsInv'
<1>1. TypeOK /\ CallsAreSound /\ MapsHoldAttempts /\ SeedingIsAlone
      /\ NoCircularWait /\ MapMatchesBridges /\ LeaveWins
  BY DEF SessionsInv
<1>2. /\ Park(c, pc, a)
      /\ UNCHANGED <<joining, resuming, sessions, detached, bridge, active, overlapped>>
  BY DEF Await
<1>3. /\ call' \in [Calls -> Call] /\ Fresh' = Fresh
      /\ call'[c].kind = call[c].kind /\ call'[c].epoch = call[c].epoch
      /\ call'[c].pc = pc /\ call'[c].on = a
      /\ \A d \in Calls \ {c} : call'[d] = call[d]
  BY <1>1, <1>2, ParkFacts DEF Parks, Waiting
<1>4. Attempts' = Attempts /\ Landed' = Landed
  BY <1>2, <1>3 DEF Attempts, Landed, Waiting
<1>5. TypeOK'
  BY <1>1, <1>2, <1>3, <1>4 DEF TypeOK
<1>6. CallsAreSound'
  BY <1>1, <1>2, <1>3 DEF CallsAreSound, Waiting, TypeOK
<1>7. MapsHoldAttempts'
  BY <1>1, <1>2, <1>3, <1>4 DEF MapsHoldAttempts, Attempts, Waiting
<1>8. SeedingIsAlone'
  <2> SUFFICES ASSUME ~overlapped, NEW r \in Calls, call'[r].pc = "seeding"
               PROVE  /\ Landed' \subseteq {r}
                      /\ r \in sessions' \/ Aborted(r)'
                      /\ \A d \in Calls : call'[d].kind = "join" /\ call'[d].epoch > call'[r].epoch =>
                           \/ call'[d].pc \in {"entered", "done"}
                           \/ call'[d].pc = "waitResume" /\ call'[d].on = r
    BY <1>2 DEF SeedingIsAlone
  <2>1. r # c /\ call'[r] = call[r]
    BY <1>3 DEF Waiting
  <2>2. Landed' \subseteq {r} /\ (r \in sessions' \/ Aborted(r)')
    BY <1>1, <1>2, <1>4, <2>1 DEF SeedingIsAlone, Aborted
  <2>3. resuming = r
    BY <1>1, <2>1 DEF MapsHoldAttempts, Attempts, CallsAreSound, Fresh
  <2>4. ASSUME call'[c].kind = "join", call'[c].epoch > call'[r].epoch
        PROVE  pc = "waitResume" /\ a = r
    <3>1. call[c].epoch \in Nat /\ call[r].epoch \in Nat
      BY <1>1 DEF TypeOK, Call
    <3>2. ~NotLate(c)
      BY <1>3, <2>1, <2>4, <3>1 DEF NotLate
    <3> QED
      BY <2>3, <3>2
  <2> QED
    BY <1>1, <1>3, <2>1, <2>2, <2>4 DEF SeedingIsAlone
<1>9. NoCircularWait'
  BY <1>1, <1>3, <1>4 DEF NoCircularWait, CallsAreSound, Waiting, Attempts
<1>10. MapMatchesBridges'
  BY <1>1, <1>2, <1>3 DEF MapMatchesBridges, NoOrphan, Orphans, Waiting, TypeOK
<1>11. LeaveWins'
  BY <1>1, <1>2, <1>3 DEF LeaveWins, TypeOK
<1> QED
  BY <1>5, <1>6, <1>7, <1>8, <1>9, <1>10, <1>11 DEF SessionsInv

(* A call becomes an attempt.                                              *)
LEMMA BeginInv ==
  ASSUME SessionsInv, NEW c \in Calls,
         call[c].pc \in Waiting \cup {"reading", "entered"},
         NotLate(c), Begin(c), UNCHANGED <<epoch, disposed>>
  PROVE  SessionsInv'
<1>1. TypeOK /\ CallsAreSound /\ MapsHoldAttempts /\ SeedingIsAlone
      /\ NoCircularWait /\ MapMatchesBridges /\ LeaveWins
  BY DEF SessionsInv
<1>2. Park(c, "starting", None) /\ UNCHANGED <<sessions, detached, bridge, active>>
  BY DEF Begin
<1>3. /\ call' \in [Calls -> Call] /\ Fresh' = Fresh
      /\ call'[c].kind = call[c].kind /\ call'[c].epoch = call[c].epoch
      /\ call'[c].pc = "starting"
      /\ \A d \in Calls \ {c} : call'[d] = call[d]
  BY <1>1, <1>2, ParkFacts DEF Parks
<1>4. /\ Attempts' = Attempts \cup {c} /\ c \notin Attempts /\ Landed' = Landed
      /\ call[c].kind \in {"join", "resume"}
  BY <1>1, <1>2, <1>3 DEF Attempts, Landed, Waiting, Fresh, CallsAreSound, TypeOK, Call, Kinds
<1>5. TypeOK'
  BY <1>1, <1>2, <1>3, <1>4 DEF TypeOK, Begin
<1>6. CallsAreSound'
  BY <1>1, <1>2, <1>3, <1>4 DEF CallsAreSound, Waiting, TypeOK
<1>7. MapsHoldAttempts'
  <2>1. None \notin Calls
    BY NoneAssumption, BoundAssumption DEF Calls
  <2>2. /\ joining' = (IF call[c].kind = "join" THEN c ELSE joining)
        /\ resuming' = (IF call[c].kind = "join" THEN resuming ELSE c)
        /\ ~overlapped' => ~overlapped /\ (IF call[c].kind = "join" THEN joining ELSE resuming) = None
    BY <1>4 DEF Begin
  <2>3. \A d \in Attempts : d \in Calls /\ d # c /\ call'[d] = call[d]
    BY <1>3, <1>4 DEF Attempts
  <2> QED
    BY <1>1, <1>3, <1>4, <2>1, <2>2, <2>3 DEF MapsHoldAttempts
<1>8. SeedingIsAlone'
  <2>1. ~overlapped' => ~overlapped
    BY DEF Begin
  <2> QED
    BY <1>1, <1>2, <1>3, <1>4, <2>1 DEF SeedingIsAlone, Aborted, NotLate, TypeOK, Call
<1>9. NoCircularWait'
  BY <1>1, <1>3, <1>4 DEF NoCircularWait, CallsAreSound, Waiting
<1>10. MapMatchesBridges'
  <2>1. overlapped => overlapped'
    BY DEF Begin
  <2> QED
    BY <1>1, <1>2, <1>3, <2>1 DEF MapMatchesBridges, NoOrphan, Orphans, Waiting, TypeOK
<1>11. LeaveWins'
  BY <1>1, <1>2, <1>3 DEF LeaveWins, TypeOK
<1> QED
  BY <1>5, <1>6, <1>7, <1>8, <1>9, <1>10, <1>11 DEF SessionsInv

(* A join that waits, or has just been called, is not late.                *)
LEMMA SecondWaitInv ==
  ASSUME SessionsInv, NEW c \in Calls,
         call[c].pc \in Waiting \cup {"reading", "entered"},
         NotLate(c), SecondWait(c), UNCHANGED <<epoch, disposed>>
  PROVE  SessionsInv'
<1>1. TypeOK /\ MapsHoldAttempts
  BY DEF SessionsInv
<1>2. CASE Begin(c)
  BY <1>2, BeginInv
<1>3. ASSUME NEW own \in {joining, resuming}, own # None, NEW pc \in Waiting, Await(c, pc, own)
      PROVE  SessionsInv'
  <2>1. own \in Calls /\ own \in Attempts
    BY <1>1, <1>3 DEF TypeOK, MapsHoldAttempts
  <2>2. pc \in Waiting \cup {"reading"} /\ pc # "reading"
    BY <1>3 DEF Waiting
  <2> QED
    BY <1>3, <2>1, <2>2, AwaitInv
<1> QED
  BY <1>2, <1>3 DEF SecondWait, Waiting

LEMMA EnterInv ==
  ASSUME SessionsInv, NEW c \in Calls, Enter(c)
  PROVE  SessionsInv'
<1>1. TypeOK /\ CallsAreSound /\ MapsHoldAttempts /\ SeedingIsAlone
  BY DEF SessionsInv
<1>2. call[c].pc = "entered" /\ UNCHANGED <<epoch, disposed>>
  BY DEF Enter, Entered
<1>3. ASSUME NEW s \in Landed, ReturnTo(c, s)
      PROVE  SessionsInv'
  BY <1>2, <1>3, ReturnToInv DEF Landed
<1>4. CASE FirstWait(c)
  <2>1. CASE call[c].kind = "join" /\ resuming # None
    <3>1. resuming \in Calls /\ resuming \in Attempts /\ Await(c, "waitResume", resuming)
      BY <1>1, <1>4, <2>1 DEF TypeOK, MapsHoldAttempts, FirstWait
    <3> QED
      BY <1>2, <3>1, AwaitInv DEF Waiting
  <2>2. CASE call[c].kind # "join" /\ joining # None
    <3>1. joining \in Calls /\ joining \in Attempts /\ Await(c, "waitJoin", joining)
      BY <1>1, <1>4, <2>2 DEF TypeOK, MapsHoldAttempts, FirstWait
    <3>2. NotLate(c)
      BY <2>2 DEF NotLate
    <3>3. "waitJoin" \in Waiting \cup {"reading"} /\ call[c].pc \in Waiting \cup {"reading", "entered"}
      BY <1>2 DEF Waiting
    <3> QED
      BY <1>2, <3>1, <3>2, <3>3, AwaitInv
  <2>3. CASE SecondWait(c) /\ (call[c].kind = "join" => resuming = None)
    <3>1. None \notin Calls
      BY NoneAssumption, BoundAssumption DEF Calls
    <3>2. NotLate(c)
      BY <1>1, <2>3, <3>1 DEF NotLate, MapsHoldAttempts, CallsAreSound, Attempts, Fresh
    <3> QED
      BY <1>2, <2>3, <3>2, SecondWaitInv
  <2> QED
    BY <1>4, <2>1, <2>2, <2>3 DEF FirstWait
<1> QED
  BY <1>3, <1>4 DEF Enter

LEMMA WakeInv ==
  ASSUME SessionsInv, NEW c \in Calls, Wake(c)
  PROVE  SessionsInv'
<1>1. TypeOK /\ CallsAreSound /\ SeedingIsAlone
  BY DEF SessionsInv
<1>2. /\ call[c].pc \in Waiting /\ call[c].on \in Calls /\ call[call[c].on].pc = "done"
      /\ UNCHANGED <<epoch, disposed>>
  BY <1>1 DEF Wake, Woken, Waiting, CallsAreSound
<1>3. NotLate(c)
  <2> SUFFICES ASSUME NEW r \in Calls, ~overlapped, call[r].pc = "seeding", call[c].kind = "join"
               PROVE  ~(call[c].epoch > call[r].epoch)
    BY <1>1 DEF NotLate, TypeOK, Call
  <2> QED
    BY <1>1, <1>2 DEF SeedingIsAlone, Waiting
<1>4. ASSUME NEW s \in Landed, ReturnTo(c, s)
      PROVE  SessionsInv'
  BY <1>2, <1>4, ReturnToInv DEF Landed
<1>5. ASSUME NEW s \in Landed, call[c].kind = "resume", Await(c, "reading", s)
      PROVE  SessionsInv'
  <2>1. s \in Calls
    BY <1>1 DEF TypeOK, Landed
  <2>2. /\ "reading" \in Waiting \cup {"reading"} /\ "reading" \notin Waiting
        /\ call[c].pc \in Waiting \cup {"reading", "entered"}
    BY <1>2 DEF Waiting
  <2> QED
    BY <1>2, <1>3, <1>5, <2>1, <2>2, AwaitInv
<1>6. CASE SecondWait(c)
  BY <1>2, <1>3, <1>6, SecondWaitInv
<1>7. CASE Begin(c)
  BY <1>2, <1>3, <1>7, BeginInv
<1> QED
  BY <1>4, <1>5, <1>6, <1>7 DEF Wake

LEMMA DecorateInv ==
  ASSUME SessionsInv, NEW c \in Calls, Decorate(c)
  PROVE  SessionsInv'
<1>1. TypeOK /\ CallsAreSound
  BY DEF SessionsInv
<1>2. call[c].pc = "reading" /\ NotLate(c) /\ UNCHANGED <<epoch, disposed>>
  BY <1>1 DEF Decorate, NotLate, CallsAreSound
<1>3. CASE call[c].on \in sessions /\ ReturnTo(c, call[c].on)
  BY <1>2, <1>3, ReturnToInv
<1>4. CASE SecondWait(c)
  BY <1>2, <1>4, SecondWaitInv
<1> QED
  BY <1>3, <1>4 DEF Decorate

(* An attempt moves on to its next await.                                  *)
LEMMA AdoptPriorInv ==
  ASSUME SessionsInv, NEW c \in Calls, AdoptPrior(c)
  PROVE  SessionsInv'
<1>1. TypeOK /\ CallsAreSound /\ MapsHoldAttempts /\ SeedingIsAlone
      /\ NoCircularWait /\ MapMatchesBridges /\ LeaveWins
  BY DEF SessionsInv
<1>2. /\ call[c].pc = "starting" /\ call[c].kind # "start" /\ Park(c, "refreshing", None)
      /\ UNCHANGED <<joining, resuming, sessions, bridge, epoch, disposed, overlapped>>
      /\ detached' \subseteq detached
      /\ active' \in sessions
  BY DEF AdoptPrior, Prior, Landed, Select
<1>3. /\ call' \in [Calls -> Call] /\ Fresh' = Fresh
      /\ call'[c].kind = call[c].kind /\ call'[c].epoch = call[c].epoch
      /\ call'[c].pc = "refreshing"
      /\ \A d \in Calls \ {c} : call'[d] = call[d]
  BY <1>1, <1>2, ParkFacts DEF Parks
<1>4. Attempts' = Attempts /\ Landed' = Landed
  BY <1>2, <1>3 DEF Attempts, Landed
<1>5. TypeOK'
  BY <1>1, <1>2, <1>3, <1>4 DEF TypeOK
<1>6. CallsAreSound'
  BY <1>1, <1>2, <1>3 DEF CallsAreSound, Waiting, TypeOK
<1>7. MapsHoldAttempts'
  BY <1>1, <1>2, <1>3, <1>4 DEF MapsHoldAttempts, Attempts
<1>8. SeedingIsAlone'
  BY <1>1, <1>2, <1>3, <1>4 DEF SeedingIsAlone, Aborted, TypeOK, Call
<1>9. NoCircularWait'
  BY <1>1, <1>2, <1>3, <1>4 DEF NoCircularWait, CallsAreSound, Waiting
<1>10. MapMatchesBridges'
  BY <1>1, <1>2, <1>3 DEF MapMatchesBridges, NoOrphan, Orphans, TypeOK
<1>11. LeaveWins'
  BY <1>1, <1>2, <1>3 DEF LeaveWins, TypeOK
<1> QED
  BY <1>5, <1>6, <1>7, <1>8, <1>9, <1>10, <1>11 DEF SessionsInv

LEMMA RegisterInv ==
  ASSUME SessionsInv, NEW c \in Calls, Register(c)
  PROVE  SessionsInv'
<1>1. TypeOK /\ CallsAreSound /\ MapsHoldAttempts /\ SeedingIsAlone
      /\ NoCircularWait /\ MapMatchesBridges /\ LeaveWins
  BY DEF SessionsInv
<1> DEFINE to == IF call[c].kind = "resume" THEN "seeding" ELSE "refreshing"
<1>2. /\ call[c].pc = "starting" /\ ~Aborted(c) /\ Park(c, to, None)
      /\ call[c].kind = "start" \/ Landed = {}
      /\ sessions' = {c} \cup (IF call[c].kind = "start" THEN sessions ELSE sessions \cap Fresh)
      /\ active' = c
      /\ bridge' = [bridge EXCEPT ![c] = IF call[c].kind = "resume" THEN "built" ELSE "live"]
      /\ UNCHANGED <<joining, resuming, detached, epoch, disposed, overlapped>>
  BY DEF Register, Prior
<1>3. /\ call' \in [Calls -> Call] /\ Fresh' = Fresh
      /\ call'[c].kind = call[c].kind /\ call'[c].epoch = call[c].epoch
      /\ call'[c].pc = to
      /\ \A d \in Calls \ {c} : call'[d] = call[d]
  BY <1>1, <1>2, ParkFacts DEF Parks
<1>4. /\ Attempts' = Attempts /\ sessions' = sessions \cup {c}
      /\ Landed' = IF call[c].kind = "start" THEN Landed ELSE {c}
      /\ call[c].kind \in {"start", "join", "resume"}
      /\ c \in Fresh <=> call[c].kind = "start"
  <2>1. call[c].kind \in {"start", "join", "resume"} /\ (c \in Fresh <=> call[c].kind = "start")
    BY <1>1, <1>2 DEF CallsAreSound, TypeOK, Call, Kinds, Fresh
  <2>2. sessions' = sessions \cup {c}
    BY <1>2 DEF Landed
  <2>3. Attempts' = Attempts
    BY <1>2, <1>3 DEF Attempts
  <2> QED
    BY <1>2, <1>3, <2>1, <2>2, <2>3 DEF Landed
<1>5. TypeOK'
  BY <1>1, <1>2, <1>3, <1>4 DEF TypeOK
<1>6. CallsAreSound'
  BY <1>1, <1>2, <1>3, <1>4 DEF CallsAreSound, Waiting, TypeOK
<1>7. MapsHoldAttempts'
  BY <1>1, <1>2, <1>3, <1>4 DEF MapsHoldAttempts, Attempts
<1>8. SeedingIsAlone'
  <2> SUFFICES ASSUME ~overlapped, NEW r \in Calls, call'[r].pc = "seeding"
               PROVE  /\ Landed' \subseteq {r}
                      /\ r \in sessions' \/ Aborted(r)'
                      /\ \A d \in Calls : call'[d].kind = "join" /\ call'[d].epoch > call'[r].epoch =>
                           \/ call'[d].pc \in {"entered", "done"}
                           \/ call'[d].pc = "waitResume" /\ call'[d].on = r
    BY <1>2 DEF SeedingIsAlone
  <2>1. CASE r = c
    \* No call has an epoch that is yet to come.
    <3>1. call[c].kind = "resume" /\ call[c].epoch = epoch
      BY <1>2, <1>3, <1>4, <2>1 DEF Aborted
    <3>2. \A d \in Calls : call'[d].epoch <= call'[c].epoch /\ call'[d].epoch \in Nat
      BY <1>1, <1>3, <3>1 DEF CallsAreSound, TypeOK, Call
    <3> QED
      BY <1>3, <1>4, <2>1, <3>1, <3>2 DEF TypeOK, Call
  <2>2. CASE r # c
    <3>1. call'[r] = call[r] /\ resuming = r /\ call[r].kind = "resume"
      BY <1>1, <1>3, <2>2 DEF MapsHoldAttempts, CallsAreSound, Attempts, Fresh
    <3>2. call[c].kind # "resume"
      BY <1>1, <1>2, <1>4, <2>2, <3>1 DEF MapsHoldAttempts, Attempts
    \* A join finds nothing registered: the resume was left, before the join.
    <3>3. call[c].kind # "join"
      <4> SUFFICES ASSUME call[c].kind = "join" PROVE FALSE
        OBVIOUS
      <4>1. r \notin sessions
        BY <1>2, <3>1 DEF Landed, Fresh
      <4>2. Aborted(r) /\ ~disposed /\ call[c].epoch = epoch
        BY <1>1, <1>2, <3>1, <4>1 DEF SeedingIsAlone, Aborted
      <4>3. call[c].epoch > call[r].epoch
        BY <1>1, <3>1, <4>2 DEF Aborted, CallsAreSound, TypeOK, Call
      <4> QED
        BY <1>1, <1>2, <3>1, <4>3 DEF SeedingIsAlone
    <3>4. call[c].kind = "start" /\ Landed' = Landed
      BY <1>4, <3>2, <3>3
    <3> QED
      BY <1>1, <1>2, <1>3, <1>4, <2>2, <3>1, <3>4 DEF SeedingIsAlone, Aborted
  <2> QED
    BY <2>1, <2>2
<1>9. NoCircularWait'
  BY <1>1, <1>2, <1>3, <1>4 DEF NoCircularWait, CallsAreSound, Waiting
<1>10. MapMatchesBridges'
  BY <1>1, <1>2, <1>3, <1>4 DEF MapMatchesBridges, NoOrphan, Orphans, TypeOK
<1>11. LeaveWins'
  BY <1>1, <1>2, <1>3, <1>4 DEF LeaveWins, Aborted, TypeOK
<1> QED
  BY <1>5, <1>6, <1>7, <1>8, <1>9, <1>10, <1>11 DEF SessionsInv

LEMMA SeedDoneInv ==
  ASSUME SessionsInv, NEW c \in Calls, SeedDone(c)
  PROVE  SessionsInv'
<1>1. TypeOK /\ CallsAreSound /\ MapsHoldAttempts /\ SeedingIsAlone
      /\ NoCircularWait /\ MapMatchesBridges /\ LeaveWins
  BY DEF SessionsInv
<1>2. /\ call[c].pc = "seeding" /\ ~Aborted(c) /\ Park(c, "refreshing", None)
      /\ bridge' = [bridge EXCEPT ![c] = "live"]
      /\ UNCHANGED <<joining, resuming, sessions, detached, active, epoch, disposed, overlapped>>
  BY DEF SeedDone
<1>3. /\ call' \in [Calls -> Call] /\ Fresh' = Fresh
      /\ call'[c].kind = call[c].kind /\ call'[c].epoch = call[c].epoch
      /\ call'[c].pc = "refreshing"
      /\ \A d \in Calls \ {c} : call'[d] = call[d]
  BY <1>1, <1>2, ParkFacts DEF Parks
<1>4. Attempts' = Attempts /\ Landed' = Landed
  BY <1>2, <1>3 DEF Attempts, Landed
<1>5. TypeOK'
  BY <1>1, <1>2, <1>3, <1>4 DEF TypeOK
<1>6. CallsAreSound'
  BY <1>1, <1>2, <1>3 DEF CallsAreSound, Waiting, TypeOK
<1>7. MapsHoldAttempts'
  BY <1>1, <1>2, <1>3, <1>4 DEF MapsHoldAttempts, Attempts
<1>8. SeedingIsAlone'
  BY <1>1, <1>2, <1>3, <1>4 DEF SeedingIsAlone, Aborted, TypeOK, Call
<1>9. NoCircularWait'
  BY <1>1, <1>2, <1>3, <1>4 DEF NoCircularWait, CallsAreSound, Waiting
<1>10. MapMatchesBridges'
  <2>1. overlapped \/ c \in sessions
    BY <1>1, <1>2 DEF SeedingIsAlone
  <2> QED
    BY <1>1, <1>2, <1>3, <2>1 DEF MapMatchesBridges, NoOrphan, Orphans, TypeOK
<1>11. LeaveWins'
  BY <1>1, <1>2, <1>3 DEF LeaveWins, TypeOK
<1> QED
  BY <1>5, <1>6, <1>7, <1>8, <1>9, <1>10, <1>11 DEF SessionsInv

(* An attempt ends and takes its kind's entry along: until two of a kind   *)
(* overlapped, its own.  With a failed seed its registration goes.         *)
LEMMA ReturnInv ==
  ASSUME SessionsInv, NEW c \in Calls, call[c].pc \in InFlight, Return(c),
         \/ call[c].pc # "seeding" /\ UNCHANGED <<sessions, bridge, active>>
         \/ call[c].pc = "seeding" /\ AbortRegistered(c),
         UNCHANGED <<detached, epoch, disposed, overlapped>>
  PROVE  SessionsInv'
<1>1. TypeOK /\ CallsAreSound /\ MapsHoldAttempts /\ SeedingIsAlone
      /\ NoCircularWait /\ MapMatchesBridges /\ LeaveWins
  BY DEF SessionsInv
<1>2. /\ Park(c, "done", None)
      /\ joining' = (IF call[c].kind = "join" THEN None ELSE joining)
      /\ resuming' = (IF call[c].kind = "resume" THEN None ELSE resuming)
      /\ \/ UNCHANGED <<sessions, bridge, active>> /\ call[c].pc # "seeding"
         \/ /\ sessions' = sessions \cap Fresh /\ call[c].pc = "seeding"
            /\ bridge' = [bridge EXCEPT ![c] = IF @ # "none" THEN "closed" ELSE @]
            /\ active' = IF active \in Fresh THEN active ELSE None
  BY <1>1 DEF Return, AbortRegistered, Closed, TypeOK
<1>3. /\ call' \in [Calls -> Call] /\ Fresh' = Fresh
      /\ call'[c].kind = call[c].kind /\ call'[c].epoch = call[c].epoch
      /\ call'[c].pc = "done"
      /\ \A d \in Calls \ {c} : call'[d] = call[d]
  BY <1>1, <1>2, ParkFacts DEF Parks
<1>4. /\ Attempts' = Attempts \ {c} /\ Landed' \subseteq Landed
      /\ c \in Fresh \/ c \in Attempts
      /\ sessions' \subseteq sessions
  BY <1>1, <1>2, <1>3 DEF Attempts, Landed, InFlight, TypeOK
<1>5. TypeOK'
  BY <1>1, <1>2, <1>3, <1>4 DEF TypeOK
<1>6. CallsAreSound'
  BY <1>1, <1>2, <1>3, <1>4 DEF CallsAreSound, Waiting, TypeOK, InFlight
<1>7. MapsHoldAttempts'
  BY <1>1, <1>2, <1>3, <1>4 DEF MapsHoldAttempts, Attempts, Fresh
<1>8. SeedingIsAlone'
  <2> SUFFICES ASSUME ~overlapped, NEW r \in Calls, call'[r].pc = "seeding"
               PROVE  /\ Landed' \subseteq {r}
                      /\ r \in sessions' \/ Aborted(r)'
                      /\ \A d \in Calls : call'[d].kind = "join" /\ call'[d].epoch > call'[r].epoch =>
                           \/ call'[d].pc \in {"entered", "done"}
                           \/ call'[d].pc = "waitResume" /\ call'[d].on = r
    BY <1>2 DEF SeedingIsAlone
  <2>1. r # c /\ call'[r] = call[r]
    BY <1>3
  \* Of two resumes that seed together one is the other.
  <2>2. call[c].pc # "seeding"
    BY <1>1, <2>1 DEF MapsHoldAttempts, CallsAreSound, Attempts, Fresh
  <2> QED
    BY <1>1, <1>2, <1>3, <1>4, <2>1, <2>2 DEF SeedingIsAlone, Aborted
<1>9. NoCircularWait'
  BY <1>1, <1>3, <1>4 DEF NoCircularWait, CallsAreSound, Waiting, InFlight
<1>10. MapMatchesBridges'
  <2>1. CASE call[c].pc # "seeding"
    BY <1>1, <1>2, <1>3, <2>1 DEF MapMatchesBridges, NoOrphan, Orphans, TypeOK
  <2>2. CASE call[c].pc = "seeding"
    <3>1. c \notin Fresh /\ (overlapped \/ Landed \subseteq {c})
      BY <1>1, <2>2 DEF CallsAreSound, Fresh, SeedingIsAlone
    <3>2. \A d \in sessions' : d # c /\ bridge'[d] = bridge[d] /\ call'[d] = call[d]
      BY <1>1, <1>2, <1>3, <2>2, <3>1 DEF TypeOK
    <3>3. overlapped \/ sessions' = sessions \ {c}
      BY <1>2, <2>2, <3>1 DEF Landed
    <3>4. /\ bridge'[c] \notin {"built", "live"}
          /\ \A d \in Calls \ {c} : bridge'[d] = bridge[d]
      BY <1>1, <1>2, <2>2 DEF TypeOK
    <3>5. ~overlapped => NoOrphan'
      BY <1>1, <3>3, <3>4 DEF MapMatchesBridges, NoOrphan, Orphans
    <3> QED
      BY <1>1, <1>2, <1>4, <3>2, <3>5 DEF MapMatchesBridges
  <2> QED
    BY <2>1, <2>2
<1>11. LeaveWins'
  BY <1>1, <1>2, <1>3, <1>4 DEF LeaveWins, TypeOK
<1> QED
  BY <1>5, <1>6, <1>7, <1>8, <1>9, <1>10, <1>11 DEF SessionsInv

(* A resume that cannot read what the join made ends: it was no attempt,   *)
(* and the maps are not touched.                                           *)
LEMMA DecorateFailsInv ==
  ASSUME SessionsInv, NEW c \in Calls, DecorateFails(c)
  PROVE  SessionsInv'
<1>1. TypeOK /\ CallsAreSound /\ MapsHoldAttempts /\ SeedingIsAlone
      /\ NoCircularWait /\ MapMatchesBridges /\ LeaveWins
  BY DEF SessionsInv
<1>2. /\ call[c].pc = "reading" /\ Park(c, "done", None)
      /\ UNCHANGED <<joining, resuming, sessions, detached, bridge, active, epoch, disposed, overlapped>>
  BY DEF DecorateFails
<1>3. /\ call' \in [Calls -> Call] /\ Fresh' = Fresh
      /\ call'[c].kind = call[c].kind /\ call'[c].epoch = call[c].epoch
      /\ call'[c].pc = "done"
      /\ \A d \in Calls \ {c} : call'[d] = call[d]
  BY <1>1, <1>2, ParkFacts DEF Parks
<1>4. Attempts' = Attempts /\ Landed' = Landed
  BY <1>2, <1>3 DEF Attempts, Landed
<1>5. TypeOK'
  BY <1>1, <1>2, <1>3, <1>4 DEF TypeOK
<1>6. CallsAreSound'
  BY <1>1, <1>2, <1>3 DEF CallsAreSound, Waiting, TypeOK
<1>7. MapsHoldAttempts'
  BY <1>1, <1>2, <1>3, <1>4 DEF MapsHoldAttempts, Attempts
<1>8. SeedingIsAlone'
  BY <1>1, <1>2, <1>3, <1>4 DEF SeedingIsAlone, Aborted, TypeOK, Call
<1>9. NoCircularWait'
  BY <1>1, <1>2, <1>3, <1>4 DEF NoCircularWait, CallsAreSound, Waiting
<1>10. MapMatchesBridges'
  BY <1>1, <1>2, <1>3 DEF MapMatchesBridges, NoOrphan, Orphans, TypeOK
<1>11. LeaveWins'
  BY <1>1, <1>2, <1>3 DEF LeaveWins, TypeOK
<1> QED
  BY <1>5, <1>6, <1>7, <1>8, <1>9, <1>10, <1>11 DEF SessionsInv

(* A new call has captured the epoch and touched nothing yet.              *)
LEMMA InvokeInv ==
  ASSUME SessionsInv, NEW c \in Calls, NEW kind \in Kinds, Invoke(c, kind)
  PROVE  SessionsInv'
<1>1. TypeOK /\ CallsAreSound /\ MapsHoldAttempts /\ SeedingIsAlone
      /\ NoCircularWait /\ MapMatchesBridges /\ LeaveWins
  BY DEF SessionsInv
<1>2. /\ call[c].pc = "new"
      /\ UNCHANGED <<joining, resuming, sessions, detached, bridge, active, epoch, disposed, overlapped>>
  BY DEF Invoke
<1>3. /\ call' \in [Calls -> Call]
      /\ call'[c].kind = kind /\ call'[c].epoch = epoch
      /\ call'[c].pc = IF kind = "start" THEN "starting" ELSE "entered"
      /\ \A d \in Calls \ {c} : call'[d] = call[d]
  BY <1>1 DEF Invoke, TypeOK, Call, Parks
<1>4. /\ Attempts' = Attempts /\ Landed' = Landed /\ c \notin sessions
      /\ \A d \in sessions : d \in Fresh' <=> d \in Fresh
      /\ kind # None
  <2>1. c \notin sessions
    BY <1>1, <1>2 DEF CallsAreSound
  <2>2. \A d \in Calls \ {c} : d \in Fresh' <=> d \in Fresh
    BY <1>3 DEF Fresh
  <2>3. kind # None
    BY NoneAssumption
  <2> QED
    BY <1>1, <1>2, <1>3, <2>1, <2>2, <2>3 DEF Attempts, Landed, Fresh, TypeOK
<1>5. TypeOK'
  BY <1>1, <1>2, <1>3, <1>4 DEF TypeOK
<1>6. CallsAreSound'
  BY <1>1, <1>2, <1>3, <1>4 DEF CallsAreSound, Waiting, TypeOK
<1>7. MapsHoldAttempts'
  BY <1>1, <1>2, <1>3, <1>4 DEF MapsHoldAttempts, Attempts
<1>8. SeedingIsAlone'
  BY <1>1, <1>2, <1>3, <1>4 DEF SeedingIsAlone, Aborted, TypeOK, Call
<1>9. NoCircularWait'
  BY <1>1, <1>2, <1>3, <1>4 DEF NoCircularWait, CallsAreSound, Waiting
<1>10. MapMatchesBridges'
  BY <1>1, <1>2, <1>3 DEF MapMatchesBridges, NoOrphan, Orphans, TypeOK
<1>11. LeaveWins'
  BY <1>1, <1>2, <1>3, <1>4 DEF LeaveWins, TypeOK
<1> QED
  BY <1>5, <1>6, <1>7, <1>8, <1>9, <1>10, <1>11 DEF SessionsInv

(* Sessions leave the map by the user's hand: the calls that are at work   *)
(* on one of them are aborted by it.                                       *)
LEMMA EvictInv ==
  ASSUME SessionsInv, NEW S \in SUBSET sessions, Evict(S),
         epoch' \in {epoch, epoch + 1}, disposed' \in BOOLEAN, disposed => disposed',
         S \ Fresh # {} => disposed' \/ epoch' = epoch + 1,
         \A c \in sessions \ S : ~disposed' /\ (c \in Fresh \/ epoch' = epoch),
         UNCHANGED <<call, joining, resuming, detached, overlapped>>
  PROVE  SessionsInv'
<1>1. TypeOK /\ CallsAreSound /\ MapsHoldAttempts /\ SeedingIsAlone
      /\ NoCircularWait /\ MapMatchesBridges /\ LeaveWins
  BY DEF SessionsInv
<1>2. /\ bridge' = [c \in Calls |-> IF c \in S /\ bridge[c] # "none" THEN "closed" ELSE bridge[c]]
      /\ sessions' = sessions \ S
      /\ active' = IF active \in S THEN None ELSE active
  BY DEF Evict, Closed
<1>3. /\ Fresh' = Fresh /\ Attempts' = Attempts /\ Landed' = Landed \ S
      /\ epoch \in Nat /\ epoch' \in Nat /\ epoch' >= epoch
  BY <1>1, <1>2 DEF Fresh, Attempts, Landed, TypeOK
<1>4. \A c \in Calls : call[c].epoch \in Nat /\ call[c].epoch <= epoch
  BY <1>1 DEF CallsAreSound, TypeOK, Call
<1>5. TypeOK'
  BY <1>1, <1>2, <1>3 DEF TypeOK
<1>6. CallsAreSound'
  BY <1>1, <1>2, <1>3, <1>4 DEF CallsAreSound
<1>7. MapsHoldAttempts'
  BY <1>1, <1>3 DEF MapsHoldAttempts
<1>8. SeedingIsAlone'
  <2> SUFFICES ASSUME ~overlapped, NEW r \in Calls, call[r].pc = "seeding"
               PROVE  /\ Landed' \subseteq {r}
                      /\ r \in sessions' \/ Aborted(r)'
                      /\ \A d \in Calls : call[d].kind = "join" /\ call[d].epoch > call[r].epoch =>
                           \/ call[d].pc \in {"entered", "done"}
                           \/ call[d].pc = "waitResume" /\ call[d].on = r
    BY DEF SeedingIsAlone
  <2>1. r \notin Fresh
    BY <1>1 DEF CallsAreSound, Fresh
  <2>2. Aborted(r) => Aborted(r)'
    BY <1>3, <1>4, <2>1 DEF Aborted, Fresh
  <2>3. r \in S => Aborted(r)'
    BY <1>3, <1>4, <2>1 DEF Aborted, Fresh
  <2> QED
    BY <1>1, <1>2, <1>3, <2>2, <2>3 DEF SeedingIsAlone
<1>9. NoCircularWait'
  BY <1>1, <1>3 DEF NoCircularWait
<1>10. MapMatchesBridges'
  BY <1>1, <1>2 DEF MapMatchesBridges, NoOrphan, Orphans, TypeOK
<1>11. LeaveWins'
  BY <1>1, <1>2, <1>3 DEF LeaveWins
<1> QED
  BY <1>5, <1>6, <1>7, <1>8, <1>9, <1>10, <1>11 DEF SessionsInv

(* Selecting and clearing move the selection and the handlers only.        *)
LEMMA SelectInv ==
  ASSUME SessionsInv, active' \in sessions \cup {active}, detached' \subseteq Calls,
         UNCHANGED <<call, joining, resuming, sessions, bridge, epoch, disposed, overlapped>>
  PROVE  SessionsInv'
<1>1. TypeOK /\ CallsAreSound /\ MapsHoldAttempts /\ SeedingIsAlone
      /\ NoCircularWait /\ MapMatchesBridges /\ LeaveWins
  BY DEF SessionsInv
<1>2. Fresh' = Fresh /\ Attempts' = Attempts /\ Landed' = Landed /\ Orphans' = Orphans
  BY DEF Fresh, Attempts, Landed, Orphans
<1> QED
  BY <1>1, <1>2
  DEF SessionsInv, TypeOK, CallsAreSound, MapsHoldAttempts, SeedingIsAlone, Aborted,
      NoCircularWait, MapMatchesBridges, NoOrphan, LeaveWins

LEMMA UserInv ==
  ASSUME SessionsInv, User
  PROVE  SessionsInv'
<1>1. TypeOK /\ LeaveWins
  BY DEF SessionsInv
<1>2. ASSUME NEW c \in Calls, NEW kind \in Kinds, Invoke(c, kind)
      PROVE  SessionsInv'
  BY <1>2, InvokeInv
<1>3. ASSUME NEW s \in Calls, LeaveFresh(s)
      PROVE  SessionsInv'
  <2>1. {s} \in SUBSET sessions /\ {s} \ Fresh = {}
    BY <1>3 DEF LeaveFresh
  <2> QED
    BY <1>1, <1>3, <2>1, EvictInv DEF LeaveFresh, LeaveWins, TypeOK
<1>4. ASSUME NEW s \in Calls, SelectConversation(s)
      PROVE  SessionsInv'
  BY <1>1, <1>4, SelectInv DEF SelectConversation, Select, TypeOK
<1>5. CASE LeaveConversation
  <2>1. Landed \in SUBSET sessions /\ sessions \ Landed \subseteq Fresh
    BY DEF Landed
  <2> QED
    BY <1>1, <1>5, <2>1, EvictInv DEF LeaveConversation, TypeOK
<1>6. CASE LeaveAll
  <2>1. sessions \ Fresh # {} => epoch' = epoch + 1
    BY <1>6 DEF LeaveAll, Landed
  <2>2. epoch' \in {epoch, epoch + 1}
    BY <1>6 DEF LeaveAll
  <2> QED
    BY <1>1, <1>6, <2>1, <2>2, EvictInv DEF LeaveAll, TypeOK
<1>7. CASE Dispose
  BY <1>1, <1>7, EvictInv DEF Dispose, TypeOK
<1>8. CASE ClearConversation
  BY <1>1, <1>8, SelectInv DEF ClearConversation, Landed, TypeOK
<1> QED
  BY <1>2, <1>3, <1>4, <1>5, <1>6, <1>7, <1>8 DEF User

LEMMA GoesOnInv ==
  ASSUME SessionsInv, NEW c \in Calls, GoesOn(c)
  PROVE  SessionsInv'
<1>1. CASE StartFails(c) \/ SeedFails(c) \/ Refreshed(c)
  BY <1>1, ReturnInv DEF StartFails, SeedFails, Refreshed, InFlight
<1> QED
  BY <1>1, EnterInv, WakeInv, DecorateInv, DecorateFailsInv, AdoptPriorInv, RegisterInv,
     SeedDoneInv DEF GoesOn

(* SessionsInv is inductive.                                               *)
THEOREM SessionsInvariance == Spec => []SessionsInv
<1>1. SessionsInv /\ [Next]_vars => SessionsInv'
  <2> SUFFICES ASSUME SessionsInv, [Next]_vars PROVE SessionsInv'
    OBVIOUS
  <2>1. CASE UNCHANGED vars
    <3>1. TypeOK
      BY DEF SessionsInv
    <3> QED
      BY <2>1, <3>1, SelectInv DEF vars, TypeOK
  <2> QED
    BY <2>1, UserInv, GoesOnInv DEF Next
<1> QED
  BY <1>1, InitInv, PTL DEF Spec

(* However starts, joins, resumes, leaves and a dispose meet at each       *)
(* other's awaits: what is registered has a live bridge, or one its call   *)
(* is still at work on, and was asked for after the last leave; and while  *)
(* no two attempts of a kind have overlapped, no bridge outlives its       *)
(* session.                                                                *)
THEOREM RegisteredIsOwned == Spec => []SessionsAreOwned
<1>1. SessionsInv => SessionsAreOwned
  BY DEF SessionsInv, SessionsAreOwned
<1> QED
  BY <1>1, SessionsInvariance, PTL

(* A call waits only for attempts, which wait for nobody, or for a call    *)
(* that is done: no circle of joins and resumes waits for ever.            *)
THEOREM NobodyWaitsInACircle == Spec => []NoCircularWait
<1>1. SessionsInv => NoCircularWait
  BY DEF SessionsInv
<1> QED
  BY <1>1, SessionsInvariance, PTL

-----------------------------------------------------------------------------
(* The composition: a behaviour of the controller's parts is one of the    *)
(* conversations and one of the groups.                                    *)

LEMMA ConversationsPart == MCSpec => Spec
<1>1. MCInit => Init
  BY DEF MCInit
<1>2. [MCNext]_<<part, vars, groupVars, numberVars>> => [Next]_vars
  BY DEF MCNext
<1> QED
  BY <1>1, <1>2, PTL DEF MCSpec, Spec

(* GroupHosts and the module of its theorems are two instances of the same *)
(* definitions.                                                            *)
LEMMA SameGroups ==
  /\ G!Init => GP!Init
  /\ [G!Next]_groupVars => [GP!Next]_GP!hostVars
<1> USE DEF G!Cardinality, GP!Cardinality, G!IsFiniteSet, GP!IsFiniteSet,
            G!Hosts, GP!Hosts, G!Registered, GP!Registered, G!Without, GP!Without,
            G!With, GP!With, G!Latest, GP!Latest, G!Init, GP!Init,
            G!NewHost, GP!NewHost, G!ReadUpTo, GP!ReadUpTo, G!Read, GP!Read,
            G!Show, GP!Show, G!IsShown, GP!IsShown, G!Counted, GP!Counted,
            G!Marked, GP!Marked, G!Torn, GP!Torn, G!Evict, GP!Evict, G!Ended, GP!Ended,
            G!Task, GP!Task, G!Busy, GP!Busy, G!Calls, GP!Calls, G!To, GP!To,
            G!Builds, GP!Builds, G!StartGroup, GP!StartGroup, G!Attempts, GP!Attempts,
            G!Selects, GP!Selects, G!JoinGroup, GP!JoinGroup, G!Woken, GP!Woken,
            G!Settled, GP!Settled, G!IsLiveUnlessEnded, GP!IsLiveUnlessEnded,
            G!IsLive, GP!IsLive, G!Stored, GP!Stored, G!Failed, GP!Failed,
            G!StoreFails, GP!StoreFails, G!Refreshed, GP!Refreshed,
            G!Receive, GP!Receive, G!SendGroupText, GP!SendGroupText,
            G!Fanned, GP!Fanned, G!ClearAll, GP!ClearAll, G!Wiped, GP!Wiped,
            G!Wipes, GP!Wipes, G!SelfEnds, GP!SelfEnds, G!SelectGroup, GP!SelectGroup,
            G!SelectConversation, GP!SelectConversation, G!LeaveGroup, GP!LeaveGroup,
            G!Leaves, GP!Leaves, G!LeaveAll, GP!LeaveAll, G!Dispose, GP!Dispose
<1>1. G!Init => GP!Init
  OBVIOUS
<1>2. UNCHANGED groupVars => UNCHANGED GP!hostVars
  BY SMTT(40) DEF groupVars, GP!hostVars
<1>3. ASSUME NEW g \in GroupId
      PROVE  /\ G!StartGroup(g) => GP!StartGroup(g)
             /\ G!JoinGroup(g) => GP!JoinGroup(g)
             /\ G!SendGroupText(g) => GP!SendGroupText(g)
             /\ G!SelectGroup(g) => GP!SelectGroup(g)
             /\ G!LeaveGroup(g) => GP!LeaveGroup(g)
  OBVIOUS
<1>4. /\ G!ClearAll => GP!ClearAll
      /\ G!SelectConversation => GP!SelectConversation
      /\ G!LeaveAll => GP!LeaveAll
      /\ G!Dispose => GP!Dispose
  OBVIOUS
<1>5. ASSUME NEW n \in G!Hosts
      PROVE  /\ G!Receive(n) => GP!Receive(n)
             /\ G!SelfEnds(n) => GP!SelfEnds(n)
  <2>1. G!Receive(n) => GP!Receive(n)
    OBVIOUS
  <2>2. G!SelfEnds(n) => GP!SelfEnds(n)
    BY ZenonT(60)
  <2> QED
    BY <2>1, <2>2
<1>6. ASSUME NEW i \in DOMAIN task
      PROVE  /\ G!Woken(i) => GP!Woken(i)
             /\ G!Stored(i) => GP!Stored(i)
             /\ G!StoreFails(i) => GP!StoreFails(i)
             /\ G!Refreshed(i) => GP!Refreshed(i)
             /\ G!Fanned(i) => GP!Fanned(i)
             /\ G!Wipes(i) => GP!Wipes(i)
  <2>1. G!Woken(i) => GP!Woken(i)
    OBVIOUS
  <2>2. G!Stored(i) => GP!Stored(i)
    OBVIOUS
  <2>3. G!StoreFails(i) => GP!StoreFails(i)
    OBVIOUS
  <2>4. G!Refreshed(i) => GP!Refreshed(i)
    OBVIOUS
  <2>5. G!Fanned(i) => GP!Fanned(i)
    OBVIOUS
  <2>6. G!Wipes(i) => GP!Wipes(i)
    OBVIOUS
  <2> QED
    BY <2>1, <2>2, <2>3, <2>4, <2>5, <2>6
<1>7. G!Hosts = GP!Hosts
  BY SMTT(40)
<1>8. G!Next => GP!Next
  BY <1>3, <1>4, <1>5, <1>6, <1>7 DEF G!Next, GP!Next
<1> QED
  BY <1>1, <1>2, <1>8

LEMMA GroupsPart == MCSpec => GP!Spec
<1>1. MCInit => GP!Init
  BY SameGroups DEF MCInit
<1>2. [MCNext]_<<part, vars, groupVars, numberVars>> => [GP!Next]_GP!hostVars
  <2>1. [MCNext]_<<part, vars, groupVars, numberVars>> => [G!Next]_groupVars
    BY DEF MCNext
  <2> QED
    BY <2>1, SameGroups
<1> QED
  BY <1>1, <1>2, PTL DEF MCSpec, GP!Spec

(* Of the groups beside the conversations: a registered group's host holds *)
(* a live seat and a live host is registered (chat-controller.ts           *)
(* finishGroup, joinGroup).                                                *)
THEOREM GroupsStayMatched == MCSpec => []GroupsMatchHosts
<1>1. GP!Spec => []GP!GroupsMatchHosts
  BY NowhereAssumption, GP!GroupsHoldTheirHosts
<1>2. GP!GroupsMatchHosts => GroupsMatchHosts
  BY DEF GroupsMatchHosts, G!GroupsMatchHosts, GP!GroupsMatchHosts, G!Hosts, GP!Hosts,
         G!Registered, GP!Registered
<1> QED
  BY <1>1, <1>2, GroupsPart, PTL

(* The unread count of a group is what arrived and was never shown         *)
(* (chat-controller.ts onGroupSessionChange, syncGroupReadMarker).         *)
THEOREM UnreadStaysExact == MCSpec => []UnreadIsExact
<1>1. GP!Spec => []GP!UnreadIsExact
  BY NowhereAssumption, GP!UnreadCountIsExact
<1>2. GP!UnreadIsExact => UnreadIsExact
  BY DEF UnreadIsExact, G!UnreadIsExact, GP!UnreadIsExact, G!Hosts, GP!Hosts,
         G!Registered, GP!Registered, G!Cardinality, GP!Cardinality
<1> QED
  BY <1>1, <1>2, GroupsPart, PTL
=============================================================================
