--------------------------- MODULE HandshakeProofs ---------------------------
(***************************************************************************)
(* What holds of the handshake for every number of channels, every set of  *)
(* codes and invitations and every combination of faults.                  *)
(***************************************************************************)
EXTENDS Handshake, TLAPS

-----------------------------------------------------------------------------
(* Types of the values the actions build.                                  *)

LEMMA OtherType == ASSUME NEW p \in Peer PROVE Other(p) \in Peer /\ Other(p) # p
  <1>1. PICK a, b \in Peer : a # b /\ Peer = {a, b}
    BY PeerAssumption
  <1>2. \E q \in Peer : q # p
    BY <1>1
  <1> QED BY <1>2 DEF Other

LEMMA MessageType ==
  ASSUME NEW kind \in Kinds, NEW g \in Nat, NEW c \in Codes \cup {NoCode},
         NEW t \in Transcripts \cup {None}, NEW s \in Secrets \cup {None}
  PROVE  Message(kind, g, c, t, s) \in Messages
  BY DEF Message, Messages

LEMMA TaskType ==
  ASSUME NEW at \in Points, NEW g \in Nat, NEW t \in Transcripts \cup {None}
  PROVE  Task(at, g, t) \in Tasks
  BY BoundsAssumption DEF Task, Tasks

(* A coroutine that moves on is still one.                                 *)
LEMMA MovedType ==
  ASSUME NEW k \in Tasks, NEW at \in Points
  PROVE  /\ [k EXCEPT !.at = at] \in Tasks
         /\ \A b \in BOOLEAN : [k EXCEPT !.at = at, !.first = b] \in Tasks
         /\ \A s \in Secrets : [k EXCEPT !.at = at, !.secret = s] \in Tasks
         /\ \A m \in Messages : [k EXCEPT !.at = at, !.got = m] \in Tasks
         /\ \A m \in Messages, c \in 0 .. MaxConn :
              [k EXCEPT !.got = m, !.on = c] \in Tasks
         /\ \A m \in Messages : [k EXCEPT !.got = m] \in Tasks
  BY DEF Tasks

LEMMA BlankType == Blank \in Handshakes
  BY DEF Blank, Handshakes

-----------------------------------------------------------------------------
(* Types under the shared steps.                                           *)

LEMMA ResumeType ==
  ASSUME TypeOK, NEW p \in Peer, NEW k, NEW spawned \in SUBSET Tasks,
         Resume(p, k, spawned)
  PROVE  tasks' \in [Peer -> SUBSET Tasks]
  BY DEF TypeOK, Resume

LEMMA SendType ==
  ASSUME TypeOK, NEW p \in Peer, NEW m \in Messages, Send(p, m)
  PROVE  wire' \in [0 .. MaxConn -> [Peer -> Seq(Messages)]]
  <1>1. chan[p] \in 0 .. MaxConn /\ Other(p) \in Peer
    BY OtherType DEF TypeOK
  <1>2. wire[chan[p]][Other(p)] \in Seq(Messages)
    BY <1>1 DEF TypeOK
  <1>3. Append(wire[chan[p]][Other(p)], m) \in Seq(Messages)
    BY <1>2
  <1> QED BY <1>1, <1>3 DEF TypeOK, Send

LEMMA ConsumeType ==
  ASSUME TypeOK, NEW p \in Peer, Inbox(p) # <<>>, Consume(p)
  PROVE  wire' \in [0 .. MaxConn -> [Peer -> Seq(Messages)]]
  <1>1. chan[p] \in 0 .. MaxConn /\ Inbox(p) \in Seq(Messages)
    BY DEF TypeOK, Inbox
  <1>2. Tail(Inbox(p)) \in Seq(Messages)
    BY <1>1
  <1>3. CASE Take(p)
    <2>1. wire' = [wire EXCEPT ![chan[p]][p] = Tail(@)]
      BY <1>3 DEF Take
    <2> QED BY <1>1, <1>2, <2>1 DEF TypeOK, Inbox
  <1>4. CASE UNCHANGED wire
    BY <1>4 DEF TypeOK
  <1> QED BY <1>3, <1>4 DEF Consume

LEMMA TeardownType ==
  ASSUME TypeOK, NEW p \in Peer, NEW running \in SUBSET Tasks,
         Teardown(p, running)
  PROVE  /\ hs' \in [Peer -> Handshakes]
         /\ keys' \in [Peer -> Sessions \cup {None}]
         /\ timer' \in [Peer -> BOOLEAN]
         /\ chan' \in [Peer -> 0 .. MaxConn]
         /\ shut' \in [0 .. MaxConn -> BOOLEAN]
         /\ wire' \in [0 .. MaxConn -> [Peer -> Seq(Messages)]]
         /\ tasks' \in [Peer -> SUBSET Tasks]
  <1>1. chan[p] \in 0 .. MaxConn /\ 0 \in 0 .. MaxConn
    BY BoundsAssumption DEF TypeOK
  <1>2. <<>> \in Seq(Messages)
    OBVIOUS
  <1>3. wire' \in [0 .. MaxConn -> [Peer -> Seq(Messages)]]
    BY <1>1, <1>2 DEF TypeOK, Teardown
  <1>4. tasks' \in [Peer -> SUBSET Tasks]
    BY DEF TypeOK, Teardown
  <1> QED BY <1>1, <1>3, <1>4, BlankType DEF TypeOK, Teardown

LEMMA FailType ==
  ASSUME TypeOK, NEW p \in Peer, NEW kind \in Failures, NEW origin \in Nat,
         NEW running \in SUBSET Tasks, Fail(p, kind, origin, running)
  PROVE  TypeOK'
  <1>1. CASE failure[p] # None
    BY <1>1, ZenonT(60) DEF Fail, TypeOK, orch, disk, net
  <1>2. CASE failure[p] = None
    <2>1. /\ failure' = [failure EXCEPT ![p] = [kind |-> kind, origin |-> origin]]
          /\ authFailed' = [authFailed EXCEPT ![p] = @ \/ kind \in AuthFailures]
          /\ durable' = [durable EXCEPT ![p] = @ \/ kind \in AuthFailures]
          /\ Teardown(p, running)
          /\ state' = [state EXCEPT ![p] = IF @ \in Live THEN "disconnected" ELSE @]
          /\ UNCHANGED <<gen, code, texts, pinned, conn>>
      BY <1>2 DEF Fail
    <2>2. state' \in [Peer -> {"idle", "waiting", "signaling", "handshaking",
                               "verifying", "connected", "disconnected"}]
      BY <2>1 DEF TypeOK
    <2>3. failure' \in [Peer -> [kind : Failures, origin : Nat] \cup {None}]
      BY <2>1 DEF TypeOK
    <2>4. authFailed' \in [Peer -> BOOLEAN] /\ durable' \in [Peer -> BOOLEAN]
      BY <2>1 DEF TypeOK
    <2> QED BY <2>1, <2>2, <2>3, <2>4, TeardownType DEF TypeOK
  <1> QED BY <1>1, <1>2

LEMMA DisconnectType ==
  ASSUME TypeOK, NEW p \in Peer, NEW running \in SUBSET Tasks,
         Disconnect(p, running)
  PROVE  TypeOK'
  BY TeardownType DEF Disconnect, TypeOK, disk

-----------------------------------------------------------------------------
(* Types under the handlers.                                               *)

LEMMA SignType ==
  ASSUME TypeOK, NEW p \in Peer, NEW h \in Handshakes
  PROVE  /\ BuildTranscript(p, h) \in Transcripts
         /\ SignTasks(p, h) \in SUBSET Tasks
         /\ MaybeSign(p, h) => hs' \in [Peer -> Handshakes]
  <1>1. Mode(p) \in {"SafetyNumberOnly", "Pake"}
    BY DEF Mode
  <1>2. h.own \in Nat /\ h.peer \in Nat
    BY DEF Handshakes
  <1>3. BuildTranscript(p, h) \in Transcripts
    BY <1>1, <1>2 DEF BuildTranscript, Transcripts
  <1>4. gen[p] \in Nat /\ "sign" \in Points
    BY DEF TypeOK, Points
  <1>5. SignTasks(p, h) \in SUBSET Tasks
    BY <1>3, <1>4, TaskType DEF SignTasks
  <1>6. [h EXCEPT !.transcript = BuildTranscript(p, h)] \in Handshakes
    BY <1>3 DEF Handshakes
  <1>7. MaybeSign(p, h) => hs' \in [Peer -> Handshakes]
    BY <1>6 DEF MaybeSign, TypeOK
  <1> QED BY <1>3, <1>5, <1>7

LEMMA SealedType ==
  ASSUME NEW k \in Sessions, NEW kind \in {"Frame", "Leave"}
  PROVE  Sealed(kind, k) \in Messages
  <1>1. k.t \in Transcripts /\ k.secret \in Secrets \cup {None}
    BY DEF Sessions
  <1>2. kind \in Kinds /\ 0 \in Nat
    BY DEF Kinds
  <1> QED BY <1>1, <1>2, MessageType DEF Sealed

LEMMA SealTaskType ==
  ASSUME NEW g \in Nat, NEW m \in Messages, NEW c \in 0 .. MaxConn
  PROVE  [Task("seal", g, None) EXCEPT !.got = m, !.on = c] \in Tasks
  <1>1. Task("seal", g, None) \in Tasks
    BY TaskType DEF Points
  <1>2. \A k \in Tasks : [k EXCEPT !.got = m, !.on = c] \in Tasks
    BY MovedType DEF Points
  <1> QED BY ONLY <1>1, <1>2, Zenon

LEMMA CallsType ==
  ASSUME TypeOK, NEW p \in Peer, Calls(p)
  PROVE  TypeOK'
  <1>1. CASE Start(p)
    BY <1>1 DEF Start, TypeOK, disk, net
  <1>2. CASE NotifyPeerJoined(p)
    BY <1>2 DEF NotifyPeerJoined, TypeOK, disk, net
  <1>3. CASE NotifyPeerLeft(p)
    BY <1>3, DisconnectType DEF NotifyPeerLeft, TypeOK
  <1>4. CASE AttachTransport(p)
    <2>1. gen[p] + 1 \in Nat /\ "keygen" \in Points
      BY DEF TypeOK, Points
    <2>2. Task("keygen", gen[p] + 1, None) \in Tasks
      BY <2>1, TaskType
    <2>3. tasks' \in [Peer -> SUBSET Tasks]
      BY <1>4, <2>2 DEF AttachTransport, CanAttach, TypeOK
    <2>4. gen' \in [Peer -> Nat]
      BY <1>4, <2>1 DEF AttachTransport, CanAttach, TypeOK
    <2> QED BY <1>4, <2>3, <2>4 DEF AttachTransport, CanAttach, TypeOK, disk, net
  <1>5. CASE Leave(p)
    <2> DEFINE frame == [Task("seal", gen[p], None) EXCEPT
                           !.got = Sealed("Leave", keys[p]), !.on = chan[p]]
    <2> DEFINE sent == IF state[p] = "connected" /\ keys[p] # None THEN {frame} ELSE {}
    <2>1. Disconnect(p, tasks[p] \cup sent)
      BY <1>5 DEF Leave
    <2>2. CASE state[p] = "connected" /\ keys[p] # None
      <3>1. keys[p] \in Sessions /\ gen[p] \in Nat /\ chan[p] \in 0 .. MaxConn
        BY <2>2 DEF TypeOK
      <3>2. frame \in Tasks
        BY <3>1, SealedType, SealTaskType
      <3>3. tasks[p] \cup sent \in SUBSET Tasks
        BY <3>2 DEF TypeOK
      <3> HIDE DEF sent
      <3> QED BY <2>1, <3>3, DisconnectType
    <2>3. CASE ~(state[p] = "connected" /\ keys[p] # None)
      <3>1. tasks[p] \cup sent \in SUBSET Tasks
        BY <2>3 DEF TypeOK
      <3> HIDE DEF sent
      <3> QED BY <2>1, <3>1, DisconnectType
    <2> QED BY <2>2, <2>3
  <1>6. CASE Retry(p)
    BY <1>6 DEF Retry, TypeOK, disk, net
  <1>7. CASE Restart(p)
    BY <1>7, TeardownType DEF Restart, TypeOK, disk
  <1>8. CASE SendText(p)
    <2>1. gen[p] \in Nat /\ "append" \in Points
      BY DEF TypeOK, Points
    <2>2. Task("append", gen[p], None) \in Tasks
      BY <2>1, TaskType
    <2>3. tasks' \in [Peer -> SUBSET Tasks]
      BY <1>8, <2>2 DEF SendText, TypeOK
    <2>4. texts' \in [Peer -> 0 .. MaxTexts]
      BY <1>8, BoundsAssumption DEF SendText, TypeOK
    <2> QED BY <1>8, <2>3, <2>4 DEF SendText, TypeOK, orch, disk, net
  <1> QED BY <1>1, <1>2, <1>3, <1>4, <1>5, <1>6, <1>7, <1>8 DEF Calls

LEMMA TimersType ==
  ASSUME TypeOK, NEW p \in Peer, Timers(p)
  PROVE  TypeOK'
  <1>1. gen[p] \in Nat /\ tasks[p] \in SUBSET Tasks /\ "Timeout" \in Failures
    BY DEF TypeOK, Failures
  <1>2. CASE HandshakeTimeout(p)
    BY <1>1, <1>2, FailType DEF HandshakeTimeout
  <1>3. CASE PakeTimeout(p)
    <2>1. PICK k \in tasks[p] : Fail(p, "Timeout", k.gen, tasks[p] \ {k})
      BY <1>3 DEF PakeTimeout
    <2>2. k.gen \in Nat /\ tasks[p] \ {k} \in SUBSET Tasks
      BY <1>1 DEF Tasks
    <2> QED BY <1>1, <2>1, <2>2, FailType
  <1> QED BY <1>2, <1>3 DEF Timers

(* The coroutines a PAKE message wakes.                                    *)
LEMMA WakeType ==
  ASSUME TypeOK, NEW p \in Peer, NEW from, NEW to \in Points, NEW m \in Messages,
         Wake(p, from, to, m)
  PROVE  tasks' \in [Peer -> SUBSET Tasks]
  <1> DEFINE moved == {IF k.at = from THEN [k EXCEPT !.at = to, !.got = m] ELSE k :
                         k \in tasks[p]}
  <1>1. \A k \in Tasks : [k EXCEPT !.at = to, !.got = m] \in Tasks
    BY MovedType
  <1>2. tasks[p] \in SUBSET Tasks
    BY DEF TypeOK
  <1>3. moved \in SUBSET Tasks
    BY <1>1, <1>2
  <1>4. tasks' = [tasks EXCEPT ![p] = moved]
    BY DEF Wake
  <1> HIDE DEF moved
  <1> QED BY <1>3, <1>4 DEF TypeOK

LEMMA InboundType ==
  ASSUME TypeOK, NEW p \in Peer, Inbound(p)
  PROVE  TypeOK'
  <1>1. gen[p] \in Nat /\ tasks[p] \in SUBSET Tasks /\ hs[p] \in Handshakes
    BY DEF TypeOK
  <1>2. {"Malformed", "HandshakeFailed", "PakeAbort"} \subseteq Failures
    BY DEF Failures
  <1>3. Inbox(p) \in Seq(Messages)
    BY DEF TypeOK, Inbox
  <1>4. Inbox(p) # <<>> => Head(Inbox(p)) \in Messages
    BY <1>3
  <1>5. \A m \in Messages : m.gen \in Nat
    BY DEF Messages
  <1>6. CASE InboundHello(p)
    <2>1. Inbox(p) # <<>>
      BY <1>6 DEF InboundHello, Arrived
    <2>2. CASE hs[p].peer # 0
      BY <1>1, <1>2, <1>6, <2>2, FailType DEF InboundHello
    <2>3. CASE hs[p].peer = 0
      <3> DEFINE h == [hs[p] EXCEPT !.peer = Head(Inbox(p)).gen]
      <3>1. h \in Handshakes
        BY <1>1, <1>4, <1>5, <2>1 DEF Handshakes
      <3>2. /\ MaybeSign(p, h)
            /\ tasks' = [tasks EXCEPT ![p] = @ \cup SignTasks(p, h)]
            /\ Consume(p)
            /\ UNCHANGED <<state, gen, chan, keys, timer, failure, authFailed,
                           code, texts, disk, conn, shut>>
        BY <1>6, <2>3 DEF InboundHello
      <3> HIDE DEF h
      <3>3. hs' \in [Peer -> Handshakes] /\ SignTasks(p, h) \in SUBSET Tasks
        BY <3>1, <3>2, SignType
      <3>4. tasks' \in [Peer -> SUBSET Tasks]
        BY <3>2, <3>3 DEF TypeOK
      <3>5. wire' \in [0 .. MaxConn -> [Peer -> Seq(Messages)]]
        BY <2>1, <3>2, ConsumeType
      <3> QED BY <3>2, <3>3, <3>4, <3>5 DEF TypeOK, disk
    <2> QED BY <2>2, <2>3
  <1>7. CASE InboundSignature(p)
    <2>1. Inbox(p) # <<>>
      BY <1>7 DEF InboundSignature, Arrived
    <2>2. CASE /\ hs[p].completing
               /\ Consume(p)
               /\ UNCHANGED <<orch, tasks, texts, disk, conn, shut>>
      BY <2>1, <2>2, ConsumeType DEF TypeOK, orch, disk
    <2>3. CASE Fail(p, "HandshakeFailed", gen[p], tasks[p])
      BY <1>1, <1>2, <2>3, FailType
    <2>4. CASE /\ hs' = [hs EXCEPT ![p] = Latch(@, code[p] # NoCode)]
               /\ tasks' = [tasks EXCEPT ![p] = @ \cup
                    {[Task("verify", gen[p], hs[p].transcript)
                        EXCEPT !.got = Head(Inbox(p))]}]
               /\ Consume(p)
               /\ UNCHANGED <<state, gen, chan, keys, timer, failure, authFailed,
                              code, texts, disk, conn, shut>>
      <3>1. hs' \in [Peer -> Handshakes]
        BY <1>1, <2>4 DEF TypeOK, Handshakes, Latch
      <3>2. Task("verify", gen[p], hs[p].transcript) \in Tasks
        BY <1>1, TaskType DEF Points, Chain, Handshakes
      <3>3. \A k \in Tasks, m \in Messages : [k EXCEPT !.got = m] \in Tasks
        BY MovedType DEF Points, Chain
      <3>4. [Task("verify", gen[p], hs[p].transcript)
               EXCEPT !.got = Head(Inbox(p))] \in Tasks
        BY ONLY <1>4, <2>1, <3>2, <3>3, Zenon
      <3>5. tasks' \in [Peer -> SUBSET Tasks]
        BY <2>4, <3>4 DEF TypeOK
      <3>6. wire' \in [0 .. MaxConn -> [Peer -> Seq(Messages)]]
        BY <2>1, <2>4, ConsumeType
      <3> QED BY <2>4, <3>1, <3>5, <3>6 DEF TypeOK, disk
    <2> QED BY <1>7, <2>2, <2>3, <2>4 DEF InboundSignature
  <1>8. CASE InboundPakeShare(p)
    <2>1. Inbox(p) # <<>>
      BY <1>8 DEF InboundPakeShare, Arrived
    <2>2. CASE \E kind \in Failures : Fail(p, kind, gen[p], tasks[p])
      BY <1>1, <2>2, FailType
    <2>3. CASE /\ hs' = [hs EXCEPT ![p].share = Head(Inbox(p))]
               /\ Wake(p, "shareWait", "shareGot", Head(Inbox(p)))
               /\ Consume(p)
               /\ UNCHANGED <<state, gen, chan, keys, timer, failure, authFailed,
                              code, texts, disk, conn, shut>>
      <3>1. hs' \in [Peer -> Handshakes]
        BY <1>1, <1>4, <2>1, <2>3 DEF TypeOK, Handshakes
      <3>2. tasks' \in [Peer -> SUBSET Tasks]
        BY <1>4, <2>1, <2>3, WakeType DEF Points, Chain
      <3>3. wire' \in [0 .. MaxConn -> [Peer -> Seq(Messages)]]
        BY <2>1, <2>3, ConsumeType
      <3> QED BY <2>3, <3>1, <3>2, <3>3 DEF TypeOK, disk
    <2> QED BY <1>2, <1>8, <2>2, <2>3 DEF InboundPakeShare
  <1>9. CASE InboundPakeConfirm(p)
    <2>1. Inbox(p) # <<>>
      BY <1>9 DEF InboundPakeConfirm, Arrived
    <2>2. CASE \E kind \in Failures : Fail(p, kind, gen[p], tasks[p])
      BY <1>1, <2>2, FailType
    <2>3. CASE /\ hs' = [hs EXCEPT ![p].confirm = Head(Inbox(p))]
               /\ Wake(p, "confirmWait", "confirmGot", Head(Inbox(p)))
               /\ Consume(p)
               /\ UNCHANGED <<state, gen, chan, keys, timer, failure, authFailed,
                              code, texts, disk, conn, shut>>
      <3>1. hs' \in [Peer -> Handshakes]
        BY <1>1, <1>4, <2>1, <2>3 DEF TypeOK, Handshakes
      <3>2. tasks' \in [Peer -> SUBSET Tasks]
        BY <1>4, <2>1, <2>3, WakeType DEF Points, Chain
      <3>3. wire' \in [0 .. MaxConn -> [Peer -> Seq(Messages)]]
        BY <2>1, <2>3, ConsumeType
      <3> QED BY <2>3, <3>1, <3>2, <3>3 DEF TypeOK, disk
    <2> QED BY <1>2, <1>9, <2>2, <2>3 DEF InboundPakeConfirm
  <1>10. CASE InboundEarlyFrame(p)
    BY <1>1, <1>2, <1>10, FailType DEF InboundEarlyFrame
  <1>11. CASE InboundConnected(p)
    <2>1. Inbox(p) # <<>>
      BY <1>11 DEF InboundConnected, Arrived
    <2>2. CASE Take(p) /\ UNCHANGED <<orch, tasks, texts, disk, conn, shut>>
      <3>1. Consume(p)
        BY <2>2 DEF Consume
      <3> QED BY <2>1, <2>2, <3>1, ConsumeType DEF TypeOK, orch, disk
    <2>3. CASE Fail(p, "Malformed", gen[p], tasks[p])
      BY <1>1, <1>2, <2>3, FailType
    <2> QED BY <1>11, <2>2, <2>3 DEF InboundConnected
  <1>12. CASE DropUnattached(p)
    <2>1. wire[conn][p] \in Seq(Messages) /\ wire[conn][p] # <<>>
      BY <1>12 DEF DropUnattached, TypeOK
    <2>2. Tail(wire[conn][p]) \in Seq(Messages)
      BY <2>1
    <2>3. wire' \in [0 .. MaxConn -> [Peer -> Seq(Messages)]]
      BY <1>12, <2>2 DEF DropUnattached, TypeOK
    <2> QED BY <1>12, <2>3 DEF DropUnattached, TypeOK, orch, disk
  <1> QED BY <1>6, <1>7, <1>8, <1>9, <1>10, <1>11, <1>12 DEF Inbound

LEMMA SecretType ==
  ASSUME TypeOK, NEW p \in Peer, NEW k \in Tasks, NEW m \in Messages
  PROVE  PakeSecret(p, k, m) \in Secrets
  <1>1. k.gen \in Nat /\ m.gen \in Nat
    BY DEF Tasks, Messages
  <1> QED BY <1>1 DEF PakeSecret, Secrets

LEMMA CoroutineType ==
  ASSUME TypeOK, NEW p \in Peer, Coroutine(p),
         \A k \in tasks[p] : WellFormed(p, k)
  PROVE  TypeOK'
  <1>1. PICK k \in tasks[p] :
          \/ Abandon(p, k)    \/ SendThrows(p, k)     \/ KeygenDone(p, k)
          \/ SignDone(p, k)   \/ VerifyDone(p, k)     \/ TofuDone(p, k)
          \/ CreateDone(p, k) \/ ShareResumed(p, k)   \/ FinishDone(p, k)
          \/ TagDone(p, k)    \/ ConfirmResumed(p, k) \/ CheckDone(p, k)
          \/ DeriveDone(p, k) \/ StoreDone(p, k)      \/ RepositoryRejects(p, k)
          \/ AppendDone(p, k) \/ SealDone(p, k)
    BY DEF Coroutine
  <1>2. /\ k \in Tasks /\ k.gen \in Nat /\ k.t \in Transcripts \cup {None}
        /\ k.secret \in Secrets \cup {None} /\ k.got \in Messages \cup {None}
        /\ k.on \in 0 .. MaxConn /\ tasks[p] \ {k} \in SUBSET Tasks
        /\ gen[p] \in Nat /\ hs[p] \in Handshakes
        /\ code[p] \in Codes \cup {NoCode}
    BY SMTT(40) DEF TypeOK, Tasks
  <1>3. {"SendFailed", "SignatureMismatch", "IdentityChanged", "PakeMismatch",
         "StoreFailed"} \subseteq Failures
    BY DEF Failures
  <1>4. \A kind \in Failures : Fail(p, kind, k.gen, tasks[p] \ {k}) => TypeOK'
    BY <1>2, FailType
  <1>5. \A at \in Points : /\ [k EXCEPT !.at = at] \in Tasks
                          /\ \A b \in BOOLEAN : [k EXCEPT !.at = at, !.first = b] \in Tasks
                          /\ \A s \in Secrets : [k EXCEPT !.at = at, !.secret = s] \in Tasks
                          /\ \A m \in Messages : [k EXCEPT !.at = at, !.got = m] \in Tasks
    BY <1>2, MovedType
  <1>6. Resume(p, k, {}) => tasks' \in [Peer -> SUBSET Tasks]
    BY ResumeType
  <1>7. CASE Abandon(p, k)
    BY <1>6, <1>7 DEF Abandon, TypeOK, orch, disk, net
  <1>8. CASE SendThrows(p, k)
    BY <1>3, <1>4, <1>8 DEF SendThrows
  <1>9. CASE KeygenDone(p, k)
    <2> DEFINE h == [hs[p] EXCEPT !.own = gen[p]]
    <2>1. h \in Handshakes
      BY <1>2 DEF Handshakes
    <2>2. MaybeSign(p, h) /\ Resume(p, k, SignTasks(p, h)) /\ Send(p, Hello(gen[p]))
      BY <1>9 DEF KeygenDone
    <2>3. Hello(gen[p]) \in Messages
      BY <1>2, MessageType DEF Hello, Kinds
    <2>4. wire' \in [0 .. MaxConn -> [Peer -> Seq(Messages)]]
      BY <2>2, <2>3, SendType
    <2> HIDE DEF h
    <2>5. hs' \in [Peer -> Handshakes] /\ SignTasks(p, h) \in SUBSET Tasks
      BY <2>1, <2>2, SignType
    <2>6. tasks' \in [Peer -> SUBSET Tasks]
      BY <2>2, <2>5, ResumeType
    <2> QED BY <1>9, <2>4, <2>5, <2>6 DEF KeygenDone, TypeOK, disk
  <1>10. CASE SignDone(p, k)
    <2>1. Signature(k.t) \in Messages
      BY <1>2, MessageType DEF Signature, Kinds
    <2>2. wire' \in [0 .. MaxConn -> [Peer -> Seq(Messages)]]
      BY <1>10, <2>1, SendType DEF SignDone
    <2>3. hs' \in [Peer -> Handshakes]
      BY <1>2, <1>10 DEF SignDone, TypeOK, Handshakes
    <2> QED BY <1>6, <1>10, <2>2, <2>3 DEF SignDone, TypeOK, disk
  <1>11. CASE VerifyDone(p, k)
    <2>1. CASE Fail(p, "SignatureMismatch", k.gen, tasks[p] \ {k})
      BY <1>3, <1>4, <2>1
    <2>2. CASE SignatureHolds(k)
      <3>1. {[k EXCEPT !.at = "tofu"]} \in SUBSET Tasks
        BY <1>5 DEF Points, Chain
      <3>2. tasks' \in [Peer -> SUBSET Tasks]
        BY <1>11, <2>2, <3>1, ResumeType DEF VerifyDone
      <3> QED BY <1>11, <2>2, <3>2 DEF VerifyDone, TypeOK, disk, net
    <2> QED BY <1>11, <2>1, <2>2 DEF VerifyDone
  <1>12. CASE TofuDone(p, k)
    <2>1. CASE Fail(p, "IdentityChanged", k.gen, tasks[p] \ {k})
      BY <1>3, <1>4, <2>1
    <2>2. CASE IdentityUnchanged(p)
      <3> DEFINE at == IF code[p] = NoCode THEN "derive" ELSE "create"
      <3>1. at \in Points /\ (pinned[p] = "nobody") \in BOOLEAN
        BY DEF Points, Chain
      <3>2. Resume(p, k, {[k EXCEPT !.at = at, !.first = (pinned[p] = "nobody")]})
        BY <1>12, <2>2 DEF TofuDone
      <3> HIDE DEF at
      <3>3. {[k EXCEPT !.at = at, !.first = (pinned[p] = "nobody")]} \in SUBSET Tasks
        BY <1>5, <3>1
      <3>4. tasks' \in [Peer -> SUBSET Tasks]
        BY <3>2, <3>3, ResumeType
      <3> QED BY <1>12, <2>2, <3>4 DEF TofuDone, TypeOK, orch, disk, net
    <2> QED BY <1>12, <2>1, <2>2 DEF TofuDone
  <1>13. CASE CreateDone(p, k)
    <2>1. PakeShare(k.gen, code[p]) \in Messages
      BY <1>2, MessageType DEF PakeShare, Kinds
    <2>2. wire' \in [0 .. MaxConn -> [Peer -> Seq(Messages)]]
      BY <1>13, <2>1, SendType DEF CreateDone
    <2>3. CASE hs[p].share = None
      <3>0. hs' = [hs EXCEPT ![p].session = k.gen]
        BY <1>13, <2>3 DEF CreateDone
      <3>1. hs' \in [Peer -> Handshakes]
        BY <1>2, <3>0 DEF TypeOK, Handshakes
      <3>2. {[k EXCEPT !.at = "shareWait"]} \in SUBSET Tasks
        BY <1>5 DEF Points, Chain
      <3>3. tasks' \in [Peer -> SUBSET Tasks]
        BY <1>13, <2>3, <3>2, ResumeType DEF CreateDone
      <3> QED BY <1>13, <2>2, <3>1, <3>3 DEF CreateDone, TypeOK, disk
    <2>4. CASE hs[p].share # None
      <3>1. hs' \in [Peer -> Handshakes]
        BY <1>2, <1>13, <2>4 DEF CreateDone, TypeOK, Handshakes
      <3>2. hs[p].share \in Messages
        BY <1>2, <2>4 DEF Handshakes
      <3>3. PakeSecret(p, k, hs[p].share) \in Secrets
        BY <1>2, <3>2, SecretType
      <3>6. "finish" \in Points
        BY DEF Points, Chain
      <3>7. [k EXCEPT !.at = "finish", !.secret = PakeSecret(p, k, hs[p].share)] \in Tasks
        BY ONLY <1>5, <3>3, <3>6, Zenon
      <3>4. {[k EXCEPT !.at = "finish", !.secret = PakeSecret(p, k, hs[p].share)]}
              \in SUBSET Tasks
        BY ONLY <3>7, Zenon
      <3>5. tasks' \in [Peer -> SUBSET Tasks]
        BY <1>13, <2>4, <3>4, ResumeType DEF CreateDone
      <3> QED BY <1>13, <2>2, <3>1, <3>5 DEF CreateDone, TypeOK, disk
    <2> QED BY <2>3, <2>4
  <1>14. CASE ShareResumed(p, k)
    <2>1. hs' \in [Peer -> Handshakes]
      BY <1>2, <1>14 DEF ShareResumed, TypeOK, Handshakes
    <2>2. k.got \in Messages
      BY <1>2, <1>14 DEF ShareResumed, WellFormed, Woken
    <2>5. PakeSecret(p, k, k.got) \in Secrets
      BY <1>2, <2>2, SecretType
    <2>6. "finish" \in Points
      BY DEF Points, Chain
    <2>7. [k EXCEPT !.at = "finish", !.secret = PakeSecret(p, k, k.got)] \in Tasks
      BY ONLY <1>5, <2>5, <2>6, Zenon
    <2>3. {[k EXCEPT !.at = "finish", !.secret = PakeSecret(p, k, k.got)]}
            \in SUBSET Tasks
      BY ONLY <2>7, Zenon
    <2>4. tasks' \in [Peer -> SUBSET Tasks]
      BY <1>14, <2>3, ResumeType DEF ShareResumed
    <2> QED BY <1>14, <2>1, <2>4 DEF ShareResumed, TypeOK, disk, net
  <1>15. CASE FinishDone(p, k)
    <2>1. {[k EXCEPT !.at = "tag"]} \in SUBSET Tasks
      BY <1>5 DEF Points, Chain
    <2>2. tasks' \in [Peer -> SUBSET Tasks]
      BY <1>15, <2>1, ResumeType DEF FinishDone
    <2> QED BY <1>15, <2>2, SMTT(40) DEF FinishDone, TypeOK, orch, disk, net
  <1>16. CASE TagDone(p, k)
    <2>1. PakeConfirm(k.t, k.secret) \in Messages
      BY <1>2, MessageType DEF PakeConfirm, Kinds
    <2>2. wire' \in [0 .. MaxConn -> [Peer -> Seq(Messages)]]
      BY <1>16, <2>1, SendType DEF TagDone
    <2>3. CASE hs[p].confirm = None
      <3>1. {[k EXCEPT !.at = "confirmWait"]} \in SUBSET Tasks
        BY <1>5 DEF Points, Chain
      <3>2. tasks' \in [Peer -> SUBSET Tasks]
        BY <1>16, <2>3, <3>1, ResumeType DEF TagDone
      <3> QED BY <1>16, <2>2, <2>3, <3>2 DEF TagDone, TypeOK, disk
    <2>4. CASE hs[p].confirm # None
      <3>0. hs' = [hs EXCEPT ![p].confirm = None]
        BY <1>16, <2>4 DEF TagDone
      <3>1. hs' \in [Peer -> Handshakes]
        BY <1>2, <3>0 DEF TypeOK, Handshakes
      <3>2. hs[p].confirm \in Messages
        BY <1>2, <2>4 DEF Handshakes
      <3>5. "check" \in Points
        BY DEF Points, Chain
      <3>7. \A m \in Messages : [k EXCEPT !.at = "check", !.got = m] \in Tasks
        BY <1>2, <3>5, MovedType
      <3>6. [k EXCEPT !.at = "check", !.got = hs[p].confirm] \in Tasks
        BY ONLY <3>2, <3>7, Zenon
      <3>3. {[k EXCEPT !.at = "check", !.got = hs[p].confirm]} \in SUBSET Tasks
        BY ONLY <3>6
      <3>4. tasks' \in [Peer -> SUBSET Tasks]
        BY <1>16, <2>4, <3>3, ResumeType DEF TagDone
      <3> QED BY <1>16, <2>2, <3>1, <3>4 DEF TagDone, TypeOK, disk
    <2> QED BY <2>3, <2>4
  <1>17. CASE ConfirmResumed(p, k)
    <2>1. hs' \in [Peer -> Handshakes]
      BY <1>2, <1>17 DEF ConfirmResumed, TypeOK, Handshakes
    <2>2. {[k EXCEPT !.at = "check"]} \in SUBSET Tasks
      BY <1>5, ZenonT(60) DEF Points, Chain
    <2>3. tasks' \in [Peer -> SUBSET Tasks]
      BY <1>17, <2>2, ResumeType DEF ConfirmResumed
    <2> QED BY <1>17, <2>1, <2>3 DEF ConfirmResumed, TypeOK, disk, net
  <1>18. CASE CheckDone(p, k)
    <2>1. CASE Fail(p, "PakeMismatch", k.gen, tasks[p] \ {k})
      BY <1>3, <1>4, <2>1
    <2>2. CASE /\ Resume(p, k, IF Superseded(p, k) THEN {}
                               ELSE {[k EXCEPT !.at = "derive"]})
               /\ UNCHANGED <<orch, texts, disk, net>>
      <3>1. {[k EXCEPT !.at = "derive"]} \in SUBSET Tasks /\ {} \in SUBSET Tasks
        BY <1>5 DEF Points, Chain
      <3>2. tasks' \in [Peer -> SUBSET Tasks]
        BY <2>2, <3>1, ResumeType
      <3> QED BY <2>2, <3>2 DEF TypeOK, orch, disk, net
    <2> QED BY <1>18, <2>1, <2>2 DEF CheckDone
  <1>19. ASSUME k.at \in Chain, Establish(p, k),
                pinned' \in [Peer -> {"nobody", "peer", "stranger"}]
         PROVE  TypeOK'
    <2>1. k.t \in Transcripts /\ k.secret \in Secrets \cup {None}
      BY <1>2, <1>19 DEF WellFormed
    <2>2. SessionFor(k) \in Sessions
      BY <2>1 DEF Sessions, SessionFor
    <2> QED BY <1>6, <1>19, <2>2 DEF Establish, TypeOK, net
  <1>20. CASE DeriveDone(p, k)
    <2>1. CASE k.first
      <3>1. {[k EXCEPT !.at = "store"]} \in SUBSET Tasks
        BY <1>5 DEF Points, Chain
      <3>2. tasks' \in [Peer -> SUBSET Tasks]
        BY <1>20, <2>1, <3>1, ResumeType DEF DeriveDone
      <3> QED BY <1>20, <2>1, <3>2, SMTT(40) DEF DeriveDone, TypeOK, orch, disk, net
    <2>2. CASE ~k.first
      BY <1>19, <1>20, <2>2 DEF DeriveDone, Chain, TypeOK
    <2> QED BY <2>1, <2>2
  <1>21. CASE StoreDone(p, k)
    <2>1. pinned' \in [Peer -> {"nobody", "peer", "stranger"}]
      BY <1>21 DEF StoreDone, TypeOK
    <2>2. CASE Superseded(p, k)
      BY <1>6, <1>21, <2>1, <2>2 DEF StoreDone, TypeOK, orch, net
    <2>3. CASE ~Superseded(p, k)
      BY <1>19, <1>21, <2>1, <2>3 DEF StoreDone, Chain
    <2> QED BY <2>2, <2>3
  <1>22. CASE RepositoryRejects(p, k)
    BY <1>3, <1>4, <1>22 DEF RepositoryRejects
  <1>23. CASE AppendDone(p, k)
    <2> DEFINE spawned == IF keys[p] = None THEN {}
                          ELSE {[Task("seal", gen[p], None) EXCEPT
                                   !.got = Sealed("Frame", keys[p]), !.on = chan[p]]}
    <2>1. Resume(p, k, spawned)
      BY <1>23 DEF AppendDone
    <2>2. ASSUME keys[p] # None
          PROVE  [Task("seal", gen[p], None) EXCEPT
                    !.got = Sealed("Frame", keys[p]), !.on = chan[p]] \in Tasks
      <3>1. keys[p] \in Sessions /\ chan[p] \in 0 .. MaxConn
        BY <2>2 DEF TypeOK
      <3> QED BY <1>2, <3>1, SealedType, SealTaskType
    <2>3. spawned \in SUBSET Tasks
      BY <2>2
    <2> HIDE DEF spawned
    <2>4. tasks' \in [Peer -> SUBSET Tasks]
      BY <2>1, <2>3, ResumeType
    <2> QED BY <1>23, <2>4 DEF AppendDone, TypeOK, orch, disk, net
  <1>24. CASE SealDone(p, k)
    <2>1. k.got \in Messages
      BY <1>2, <1>24 DEF SealDone, WellFormed, Woken
    <2>2. wire[k.on][Other(p)] \in Seq(Messages) /\ Other(p) \in Peer
      BY <1>2, OtherType DEF TypeOK
    <2>3. Append(wire[k.on][Other(p)], k.got) \in Seq(Messages)
      BY <2>1, <2>2
    <2>4. wire' \in [0 .. MaxConn -> [Peer -> Seq(Messages)]]
      BY <1>2, <1>24, <2>2, <2>3 DEF SealDone, TypeOK
    <2> QED BY <1>6, <1>24, <2>4 DEF SealDone, TypeOK, orch, disk
  <1> QED BY <1>1, <1>7, <1>8, <1>9, <1>10, <1>11, <1>12, <1>13, <1>14, <1>15,
             <1>16, <1>17, <1>18, <1>20, <1>21, <1>22, <1>23, <1>24

-----------------------------------------------------------------------------
(* The inductive invariant, one endpoint at a time.  A step of one endpoint*)
(* changes nothing of the other but the messages on their way to it.       *)

Local(p) ==
  /\ Quiet(p)
  /\ SessionOf(p)
  /\ CompletesOnce(p)
  /\ keys[p] # None => pinned[p] = "peer"
  /\ FieldsAreCurrent(p)
  /\ \A k \in tasks[p] : WellFormed(p, k) /\ InStep(p, k)
  /\ FlagIsCached(p)

View(p) == <<state[p], gen[p], chan[p], hs[p], keys[p], timer[p], authFailed[p],
             tasks[p], pinned[p], durable[p]>>

LEMMA InvIsLocal == HandshakeInv <=> TypeOK /\ shut[0] /\ \A p \in Peer : Local(p)
  BY DEF HandshakeInv, Local, QuietWhenDown, SessionIsCurrent, OneCompletion,
         ConnectedIsPinned, Strengthening

LEMMA InvIsLocalNext ==
        HandshakeInv' <=> TypeOK' /\ shut'[0] /\ \A p \in Peer : Local(p)'
  BY DEF HandshakeInv, Local, QuietWhenDown, SessionIsCurrent, OneCompletion,
         ConnectedIsPinned, Strengthening

LEMMA ViewKept ==
  ASSUME NEW p \in Peer, Local(p), View(p)' = View(p)
  PROVE  Local(p)'
  BY DEF Local, View, Quiet, SessionOf, CompletesOnce, FieldsAreCurrent, WellFormed,
         InStep, FlagIsCached

LEMMA TeardownElsewhere ==
  ASSUME TypeOK, NEW p \in Peer, NEW q \in Peer, q # p, NEW running,
         Teardown(p, running)
  PROVE  /\ hs'[q] = hs[q] /\ keys'[q] = keys[q] /\ timer'[q] = timer[q]
         /\ chan'[q] = chan[q] /\ tasks'[q] = tasks[q]
  BY DEF TypeOK, Teardown

LEMMA FailElsewhere ==
  ASSUME TypeOK, NEW p \in Peer, NEW q \in Peer, q # p, NEW kind, NEW origin,
         NEW running, Fail(p, kind, origin, running)
  PROVE  View(q)' = View(q)
  <1>1. CASE failure[p] # None
    BY <1>1 DEF Fail, View, TypeOK, orch, disk, net
  <1>2. CASE failure[p] = None
    BY <1>2, TeardownElsewhere DEF Fail, View, TypeOK
  <1> QED BY <1>1, <1>2

(* Nothing ever reopens a channel, or opens the one that stands for null.  *)
LEMMA FailShut ==
  ASSUME TypeOK, NEW p \in Peer, shut[0], NEW kind, NEW origin, NEW running,
         Fail(p, kind, origin, running)
  PROVE  shut'[0]
  <1>1. Teardown(p, running) => shut'[0]
    BY BoundsAssumption DEF Teardown, TypeOK
  <1> QED BY <1>1 DEF Fail, net

LEMMA NullStaysShut ==
  ASSUME TypeOK, NEW p \in Peer, shut[0],
         Calls(p) \/ Timers(p) \/ Inbound(p) \/ Coroutine(p)
  PROVE  shut'[0]
  <1> USE DEF net
  <1>1. CASE Calls(p)
    <2>1. \A running : Teardown(p, running) => shut'[0]
      BY BoundsAssumption DEF Teardown, TypeOK
    <2> QED BY <1>1, <2>1 DEF Calls, Start, NotifyPeerJoined, NotifyPeerLeft,
              AttachTransport, Leave, Retry, Restart, SendText, Disconnect
  <1>2. CASE Timers(p)
    BY <1>2, FailShut DEF Timers, HandshakeTimeout, PakeTimeout
  <1>3. CASE Inbound(p)
    BY <1>3, FailShut, SMTT(40)
       DEF Inbound, InboundHello, InboundSignature, InboundPakeShare,
         InboundPakeConfirm, InboundEarlyFrame, InboundConnected, DropUnattached
  <1>4. CASE Coroutine(p)
    BY <1>4, FailShut DEF Coroutine, Abandon, SendThrows, KeygenDone, SignDone,
         VerifyDone, TofuDone, CreateDone, ShareResumed, FinishDone, TagDone,
         ConfirmResumed, CheckDone, DeriveDone, StoreDone, RepositoryRejects,
         AppendDone, SealDone, Establish
  <1> QED BY <1>1, <1>2, <1>3, <1>4

LEMMA OthersKept ==
  ASSUME TypeOK, NEW p \in Peer, NEW q \in Peer, q # p,
         Calls(p) \/ Timers(p) \/ Inbound(p) \/ Coroutine(p)
  PROVE  View(q)' = View(q)
  <1>1. CASE Calls(p)
    <2>1. \A running : Disconnect(p, running) => View(q)' = View(q)
      BY TeardownElsewhere DEF Disconnect, View, TypeOK, disk
    <2>2. CASE NotifyPeerLeft(p) \/ Leave(p)
      BY <2>1, <2>2 DEF NotifyPeerLeft, Leave
    <2>3. CASE Restart(p)
      BY <2>3, TeardownElsewhere DEF Restart, View, TypeOK, disk
    <2>4. CASE Start(p) \/ NotifyPeerJoined(p) \/ Retry(p)
      BY <2>4 DEF Start, NotifyPeerJoined, Retry, View, TypeOK, disk, net
    <2>5. CASE AttachTransport(p)
      BY <2>5 DEF AttachTransport, CanAttach, View, TypeOK, disk, net
    <2>6. CASE SendText(p)
      BY <2>6 DEF SendText, View, TypeOK, orch, disk, net
    <2> QED BY <1>1, <2>2, <2>3, <2>4, <2>5, <2>6 DEF Calls
  <1>2. CASE Timers(p)
    BY <1>2, FailElsewhere DEF Timers, HandshakeTimeout, PakeTimeout
  <1>3. CASE Inbound(p)
    <2>1. CASE InboundHello(p)
      BY <2>1, FailElsewhere DEF InboundHello, MaybeSign, View, TypeOK, disk
    <2>2. CASE InboundSignature(p)
      BY <2>2, FailElsewhere DEF InboundSignature, View, TypeOK, orch, disk
    <2>3. CASE InboundPakeShare(p) \/ InboundPakeConfirm(p)
      BY <2>3, FailElsewhere DEF InboundPakeShare, InboundPakeConfirm, Wake, View,
                                 TypeOK, disk
    <2>4. CASE InboundEarlyFrame(p) \/ InboundConnected(p) \/ DropUnattached(p)
      BY <2>4, FailElsewhere DEF InboundEarlyFrame, InboundConnected, DropUnattached,
                                 View, orch, disk
    <2> QED BY <1>3, <2>1, <2>2, <2>3, <2>4 DEF Inbound
  <1>4. CASE Coroutine(p)
    <2>1. PICK k \in tasks[p] :
            \/ Abandon(p, k)    \/ SendThrows(p, k)     \/ KeygenDone(p, k)
            \/ SignDone(p, k)   \/ VerifyDone(p, k)     \/ TofuDone(p, k)
            \/ CreateDone(p, k) \/ ShareResumed(p, k)   \/ FinishDone(p, k)
            \/ TagDone(p, k)    \/ ConfirmResumed(p, k) \/ CheckDone(p, k)
            \/ DeriveDone(p, k) \/ StoreDone(p, k)      \/ RepositoryRejects(p, k)
            \/ AppendDone(p, k) \/ SealDone(p, k)
      BY <1>4 DEF Coroutine
    <2>2. \A spawned : Resume(p, k, spawned) => tasks'[q] = tasks[q]
      BY DEF Resume, TypeOK
    <2>3. Establish(p, k) /\ pinned'[q] = pinned[q] => View(q)' = View(q)
      BY <2>2 DEF Establish, View, TypeOK
    <2>4. CASE Abandon(p, k) \/ FinishDone(p, k) \/ AppendDone(p, k) \/ SealDone(p, k)
      BY <2>2, <2>4 DEF Abandon, FinishDone, AppendDone, SealDone, View, orch, disk
    <2>5. CASE SendThrows(p, k) \/ RepositoryRejects(p, k)
      BY <2>5, FailElsewhere DEF SendThrows, RepositoryRejects
    <2>6. CASE KeygenDone(p, k) \/ SignDone(p, k)
      BY <2>2, <2>6 DEF KeygenDone, SignDone, MaybeSign, View, TypeOK, disk
    <2>7. CASE VerifyDone(p, k)
      BY <2>2, <2>7, FailElsewhere DEF VerifyDone, View, TypeOK, disk
    <2>8. CASE TofuDone(p, k)
      BY <2>2, <2>8, FailElsewhere DEF TofuDone, View, orch, disk
    <2>9. CASE CreateDone(p, k)
      BY <2>2, <2>9 DEF CreateDone, View, TypeOK, disk
    <2>10. CASE ShareResumed(p, k) \/ ConfirmResumed(p, k) \/ TagDone(p, k)
      BY <2>2, <2>10 DEF ShareResumed, ConfirmResumed, TagDone, View, TypeOK, disk
    <2>11. CASE CheckDone(p, k)
      BY <2>2, <2>11, FailElsewhere DEF CheckDone, View, orch, disk
    <2>12. CASE DeriveDone(p, k)
      BY <2>2, <2>3, <2>12 DEF DeriveDone, View, orch, disk
    <2>13. CASE StoreDone(p, k)
      BY <2>2, <2>3, <2>13 DEF StoreDone, View, TypeOK, orch
    <2> QED BY <2>1, <2>4, <2>5, <2>6, <2>7, <2>8, <2>9, <2>10, <2>11, <2>12, <2>13
  <1> QED BY <1>1, <1>2, <1>3, <1>4

(* A teardown leaves the invariant whatever coroutines survive it: stale   *)
(* ones are never current again.                                           *)
LEMMA DownLocal ==
  ASSUME TypeOK, NEW p \in Peer, Local(p), NEW running \in SUBSET Tasks,
         Teardown(p, running),
         \A k \in running : \/ k \in tasks[p]
                            \/ k.at = "seal" /\ k.gen = gen[p] /\ k.got # None,
         gen'[p] = gen[p], pinned'[p] = pinned[p], state'[p] \notin Live,
         FlagIsCached(p)'
  PROVE  Local(p)'
  <1>1. /\ hs'[p] = Blank /\ keys'[p] = None /\ timer'[p] = FALSE /\ chan'[p] = 0
        /\ tasks'[p] = {k \in running : k.at \notin Parked}
    BY DEF TypeOK, Teardown
  <1>2. gen[p] \in Nat
    BY DEF TypeOK
  <1>3. Quiet(p)'
    BY <1>1 DEF Quiet, Live
  <1>4. SessionOf(p)' /\ (keys'[p] # None => pinned'[p] = "peer")
    BY <1>1 DEF SessionOf, Live
  <1>5. CompletesOnce(p)'
    BY <1>1 DEF Local, CompletesOnce, Chain
  <1>6. FieldsAreCurrent(p)'
    BY <1>1 DEF FieldsAreCurrent, Blank, Live
  <1>7. \A k \in tasks'[p] : WellFormed(p, k)' /\ InStep(p, k)'
    <2> SUFFICES ASSUME NEW k \in tasks'[p]
                 PROVE  WellFormed(p, k)' /\ InStep(p, k)'
      OBVIOUS
    <2>1. InStep(p, k)'
      BY <1>1 DEF InStep
    <2>2. CASE k \in tasks[p]
      BY <2>1, <2>2 DEF Local, WellFormed
    <2>3. CASE k.at = "seal" /\ k.gen = gen[p] /\ k.got # None
      BY <1>2, <2>1, <2>3 DEF WellFormed, Chain, Woken
    <2> QED BY <1>1, <2>2, <2>3
  <1> QED BY <1>3, <1>4, <1>5, <1>6, <1>7 DEF Local

LEMMA FailLocal ==
  ASSUME TypeOK, NEW p \in Peer, Local(p), NEW kind, NEW origin,
         NEW running \in SUBSET tasks[p], Fail(p, kind, origin, running)
  PROVE  Local(p)'
  <1>1. CASE failure[p] # None
    <2>1. tasks'[p] = running
      BY <1>1 DEF Fail, TypeOK
    <2>2. UNCHANGED <<state, gen, chan, hs, keys, timer, authFailed, pinned, durable>>
      BY <1>1 DEF Fail, orch, disk
    <2> QED BY <2>1, <2>2 DEF Local, Quiet, SessionOf, CompletesOnce, FieldsAreCurrent,
                              WellFormed, InStep, FlagIsCached
  <1>2. CASE failure[p] = None
    <2>1. /\ authFailed' = [authFailed EXCEPT ![p] = @ \/ kind \in AuthFailures]
          /\ durable' = [durable EXCEPT ![p] = @ \/ kind \in AuthFailures]
          /\ Teardown(p, running)
          /\ state' = [state EXCEPT ![p] = IF @ \in Live THEN "disconnected" ELSE @]
          /\ gen' = gen /\ pinned' = pinned
      BY <1>2 DEF Fail
    <2>2. state'[p] \notin Live /\ (state[p] = "idle" => state'[p] = "idle")
      BY <2>1 DEF TypeOK, Live
    <2>3. durable'[p] => authFailed'[p] \/ state'[p] = "idle"
      BY <2>1, <2>2 DEF TypeOK, Local, FlagIsCached
    <2>4. running \in SUBSET Tasks
      BY DEF TypeOK
    <2> QED BY <2>1, <2>2, <2>3, <2>4, DownLocal DEF FlagIsCached
  <1> QED BY <1>1, <1>2

LEMMA DisconnectLocal ==
  ASSUME TypeOK, NEW p \in Peer, Local(p), NEW running \in SUBSET Tasks,
         Disconnect(p, running), state[p] # "idle",
         \A k \in running : \/ k \in tasks[p]
                            \/ k.at = "seal" /\ k.gen = gen[p] /\ k.got # None
  PROVE  Local(p)'
  <1>1. Teardown(p, running) /\ state'[p] = "disconnected"
    BY DEF Disconnect, TypeOK
  <1>2. gen' = gen /\ pinned' = pinned /\ authFailed' = authFailed /\ durable' = durable
    BY DEF Disconnect, disk
  <1>3. FlagIsCached(p)'
    BY <1>2 DEF Local, FlagIsCached
  <1> QED BY <1>1, <1>2, <1>3, DownLocal DEF Live

LEMMA CallsLocal ==
  ASSUME TypeOK, NEW p \in Peer, shut[0], Local(p), Calls(p)
  PROVE  Local(p)'
  <1> USE DEF Local, Quiet, SessionOf, CompletesOnce, FieldsAreCurrent, WellFormed,
              InStep, FlagIsCached
  <1>1. CASE Start(p)
    BY <1>1 DEF Start, TypeOK, disk, Live
  <1>2. CASE NotifyPeerJoined(p)
    BY <1>2 DEF NotifyPeerJoined, TypeOK, disk, Live
  <1>3. CASE NotifyPeerLeft(p)
    BY <1>3, DisconnectLocal DEF NotifyPeerLeft, TypeOK
  <1>4. CASE AttachTransport(p)
    <2>0. PICK k0 : k0 = Task("keygen", gen[p] + 1, None)
      OBVIOUS
    <2>1. /\ gen'[p] = gen[p] + 1 /\ chan'[p] = conn /\ state'[p] = "handshaking"
          /\ timer'[p] = TRUE /\ tasks'[p] = tasks[p] \cup {k0}
          /\ hs' = hs /\ keys' = keys /\ authFailed' = authFailed
          /\ pinned' = pinned /\ durable' = durable
      BY <1>4, <2>0 DEF AttachTransport, CanAttach, TypeOK, disk
    <2>2. /\ k0.at = "keygen" /\ k0.gen = gen[p] + 1
          /\ k0 = Task("keygen", k0.gen, None)
      BY <2>0 DEF Task
    <2>3. gen[p] \in Nat /\ conn # 0 /\ chan[p] = 0 /\ state[p] # "idle"
      BY <1>4 DEF AttachTransport, CanAttach, TypeOK, Live
    <2>4. /\ hs[p] = Blank /\ keys[p] = None
          /\ hs[p].own = 0 /\ hs[p].transcript = None
      BY <2>3 DEF Blank
    <2>5. /\ \A k \in tasks[p] : k \in Tasks /\ k.gen \in Nat /\ k.gen <= gen[p]
      BY DEF TypeOK, Tasks
    <2>6. Quiet(p)' /\ SessionOf(p)' /\ FieldsAreCurrent(p)' /\ FlagIsCached(p)'
      BY <2>1, <2>3, <2>4 DEF Live
    <2>7. CompletesOnce(p)'
      BY <2>1, <2>2 DEF Chain
    <2>8. \A k \in tasks[p] : WellFormed(p, k)' /\ InStep(p, k)'
      BY <2>1, <2>3, <2>5
    <2>9. WellFormed(p, k0)' /\ InStep(p, k0)'
      BY <2>1, <2>2, <2>3, <2>4 DEF Chain, Woken
    <2> QED BY <2>1, <2>4, <2>6, <2>7, <2>8, <2>9
  <1>5. CASE Leave(p)
    <2> DEFINE frame == [Task("seal", gen[p], None) EXCEPT
                           !.got = Sealed("Leave", keys[p]), !.on = chan[p]]
    <2> DEFINE sent == IF state[p] = "connected" /\ keys[p] # None THEN {frame} ELSE {}
    <2>1. Disconnect(p, tasks[p] \cup sent) /\ state[p] # "idle"
      BY <1>5 DEF Leave
    <2>2. ASSUME keys[p] # None
          PROVE  frame \in Tasks /\ frame.at = "seal" /\ frame.gen = gen[p]
                 /\ frame.got # None
      <3>1. keys[p] \in Sessions /\ chan[p] \in 0 .. MaxConn /\ gen[p] \in Nat
        BY <2>2 DEF TypeOK
      <3>2. frame \in Tasks
        BY <3>1, SealedType, SealTaskType
      <3>3. frame.got = Sealed("Leave", keys[p]) /\ frame.at = "seal" /\ frame.gen = gen[p]
        BY DEF Task
      <3> QED BY <3>1, <3>2, <3>3, SealedType, AbsenceAssumption
    <2>3. \A k \in sent : /\ k \in Tasks /\ k.at = "seal" /\ k.gen = gen[p]
                          /\ k.got # None
      BY <2>2
    <2> HIDE DEF sent
    <2>4. tasks[p] \cup sent \in SUBSET Tasks
      BY <2>3 DEF TypeOK
    <2> QED BY <2>1, <2>3, <2>4, DisconnectLocal
  <1>6. CASE Retry(p)
    BY <1>6 DEF Retry, TypeOK, disk, Live
  <1>7. CASE Restart(p)
    <2>1. Teardown(p, {}) /\ state'[p] = "idle" /\ gen' = gen /\ pinned' = pinned
      BY <1>7 DEF Restart, TypeOK, disk
    <2> QED BY <2>1, DownLocal DEF Live
  <1>8. CASE SendText(p)
    <2>0. PICK k0 : k0 = Task("append", gen[p], None)
      OBVIOUS
    <2>1. /\ UNCHANGED <<state, gen, chan, hs, keys, timer, authFailed, pinned, durable>>
          /\ tasks'[p] = tasks[p] \cup {k0}
      BY <1>8, <2>0 DEF SendText, TypeOK, orch, disk
    <2>2. k0.at = "append" /\ k0.gen = gen[p] /\ gen[p] \in Nat
      BY <2>0 DEF Task, TypeOK
    <2>3. WellFormed(p, k0)' /\ InStep(p, k0)'
      BY <2>1, <2>2 DEF Chain, Woken
    <2> QED BY <2>1, <2>2, <2>3 DEF Chain, Parked
  <1> QED BY <1>1, <1>2, <1>3, <1>4, <1>5, <1>6, <1>7, <1>8 DEF Calls

LEMMA TimersLocal ==
  ASSUME TypeOK, NEW p \in Peer, Local(p), Timers(p)
  PROVE  Local(p)'
  BY FailLocal DEF Timers, HandshakeTimeout, PakeTimeout

(* A PAKE message changes fields the invariant does not speak of, and      *)
(* moves a coroutine along the completion.                                 *)
LEMMA WakeLocal ==
  ASSUME TypeOK, NEW p \in Peer, Local(p), NEW m \in Messages,
         NEW from \in {"shareWait", "confirmWait"}, NEW to \in {"shareGot", "confirmGot"},
         Wake(p, from, to, m), chan[p] # 0,
         /\ hs'[p].own = hs[p].own /\ hs'[p].peer = hs[p].peer
         /\ hs'[p].transcript = hs[p].transcript
         /\ hs'[p].completing = hs[p].completing,
         UNCHANGED <<state, gen, chan, keys, timer, authFailed, pinned, durable>>
  PROVE  Local(p)'
  <1> DEFINE Moved(k) == IF k.at = from THEN [k EXCEPT !.at = to, !.got = m] ELSE k
  <1>1. tasks'[p] = {Moved(k) : k \in tasks[p]}
    BY DEF Wake, TypeOK
  <1>2. m # None
    BY AbsenceAssumption
  <1>3. \A k \in tasks[p] : /\ Moved(k).gen = k.gen /\ Moved(k).t = k.t
                            /\ Moved(k).first = k.first
                            /\ Moved(k) = k \/ (/\ k.at \in Chain \ {"verify", "tofu"}
                                               /\ Moved(k).at \in Chain \ {"verify", "tofu"}
                                               /\ Moved(k).got # None)
    <2> SUFFICES ASSUME NEW k \in tasks[p]
                 PROVE  /\ Moved(k).gen = k.gen /\ Moved(k).t = k.t
                        /\ Moved(k).first = k.first
                        /\ Moved(k) = k \/ (/\ k.at \in Chain \ {"verify", "tofu"}
                                           /\ Moved(k).at \in Chain \ {"verify", "tofu"}
                                           /\ Moved(k).got # None)
      OBVIOUS
    <2>1. k \in Tasks
      BY DEF TypeOK
    <2> QED BY <1>2, <2>1 DEF Tasks, Chain
  <1> HIDE DEF Moved
  <1>4. \A l \in tasks'[p] : WellFormed(p, l)' /\ InStep(p, l)'
    <2> SUFFICES ASSUME NEW l \in tasks'[p]
                 PROVE  WellFormed(p, l)' /\ InStep(p, l)'
      OBVIOUS
    <2>1. PICK k \in tasks[p] : l = Moved(k)
      BY <1>1
    <2>2. WellFormed(p, k) /\ InStep(p, k)
      BY DEF Local
    <2>3. CASE l = k
      BY <2>2, <2>3 DEF WellFormed, InStep
    <2>4. CASE l # k
      <3>1. /\ l.gen = k.gen /\ l.t = k.t /\ l.first = k.first /\ l.got # None
            /\ {k.at, l.at} \subseteq Chain \ {"verify", "tofu"}
        BY <1>3, <2>1, <2>4
      <3> QED BY <2>2, <3>1 DEF WellFormed, InStep, Chain
    <2> QED BY <2>3, <2>4
  <1>5. CompletesOnce(p)'
    BY <1>1, <1>3 DEF Local, CompletesOnce
  <1> QED BY <1>4, <1>5 DEF Local, Quiet, SessionOf, FieldsAreCurrent, FlagIsCached

(* A coroutine that ends, or parks at its next await.                      *)
LEMMA EndLocal ==
  ASSUME TypeOK, NEW p \in Peer, Local(p), NEW k \in tasks[p],
         tasks'[p] = tasks[p] \ {k},
         /\ hs'[p].own = hs[p].own /\ hs'[p].peer = hs[p].peer
         /\ hs'[p].transcript = hs[p].transcript
         /\ hs'[p].completing = hs[p].completing
         /\ chan[p] = 0 => hs'[p] = hs[p],
         pinned[p] = "peer" => pinned'[p] = "peer",
         UNCHANGED <<state, gen, chan, keys, timer, authFailed, durable>>
  PROVE  Local(p)'
  BY DEF Local, Quiet, SessionOf, CompletesOnce, FieldsAreCurrent, WellFormed, InStep,
         FlagIsCached

LEMMA SpawnLocal ==
  ASSUME TypeOK, NEW p \in Peer, Local(p), NEW k \in tasks[p], NEW l,
         l.at \in {"sign", "seal"}, l.gen = gen[p], l.at = "seal" => l.got # None,
         tasks'[p] = (tasks[p] \ {k}) \cup {l},
         UNCHANGED <<state, gen, chan, hs, keys, timer, authFailed, pinned, durable>>
  PROVE  Local(p)'
  <1>1. gen[p] \in Nat
    BY DEF TypeOK
  <1>2. WellFormed(p, l)' /\ InStep(p, l)' /\ l.at \notin Chain /\ l.at \notin Parked
    BY <1>1 DEF WellFormed, InStep, Chain, Woken, Parked
  <1> QED BY <1>2 DEF Local, Quiet, SessionOf, CompletesOnce, FieldsAreCurrent,
                      WellFormed, InStep, FlagIsCached

LEMMA AdvanceLocal ==
  ASSUME TypeOK, NEW p \in Peer, Local(p), NEW k \in tasks[p], NEW l,
         k.at \in Chain \ {"verify"}, l.at \in Chain \ {"verify", "tofu"},
         l.gen = k.gen, l.t = k.t,
         ~l.first => pinned[p] = "peer" \/ (k.at # "tofu" /\ ~k.first),
         l.at \in Woken => l.got # None,
         l.at \in Parked => chan[p] # 0,
         tasks'[p] = (tasks[p] \ {k}) \cup {l},
         /\ hs'[p].own = hs[p].own /\ hs'[p].peer = hs[p].peer
         /\ hs'[p].transcript = hs[p].transcript
         /\ hs'[p].completing = hs[p].completing
         /\ chan[p] = 0 => hs'[p] = hs[p],
         UNCHANGED <<state, gen, chan, keys, timer, authFailed, pinned, durable>>
  PROVE  Local(p)'
  <1>1. WellFormed(p, k) /\ InStep(p, k)
    BY DEF Local
  <1>2. WellFormed(p, l)'
    BY <1>1 DEF WellFormed, Chain
  <1>3. InStep(p, l)'
    BY <1>1 DEF InStep, Chain
  <1>4. CompletesOnce(p)'
    BY DEF Local, CompletesOnce
  <1>5. Quiet(p)'
    BY DEF Local, Quiet
  <1>6. \A m \in tasks[p] : WellFormed(p, m)' /\ InStep(p, m)'
    BY DEF Local, WellFormed, InStep
  <1> QED BY <1>2, <1>3, <1>4, <1>5, <1>6 DEF Local, SessionOf, FieldsAreCurrent,
                                              FlagIsCached

(* What maybeSignAndSend does to the fields the invariant speaks of.       *)
LEMMA SignFields ==
  ASSUME TypeOK, NEW p \in Peer, NEW h \in Handshakes, MaybeSign(p, h)
  PROVE  /\ hs'[p].own = h.own /\ hs'[p].peer = h.peer
         /\ hs'[p].completing = h.completing
         /\ hs'[p].transcript = IF CanSign(h) THEN BuildTranscript(p, h) ELSE h.transcript
         /\ BuildTranscript(p, h).hello[p] = h.own
         /\ \A k \in SignTasks(p, h) : k.at = "sign" /\ k.gen = gen[p]
  <1>1. hs'[p] = IF CanSign(h) THEN [h EXCEPT !.transcript = BuildTranscript(p, h)] ELSE h
    BY DEF MaybeSign, TypeOK
  <1>2. BuildTranscript(p, h).hello[p] = h.own
    BY DEF BuildTranscript
  <1>3. \A k \in SignTasks(p, h) : k.at = "sign" /\ k.gen = gen[p]
    BY DEF SignTasks, Task
  <1>4. \A t : LET n == [h EXCEPT !.transcript = t]
               IN /\ n.own = h.own /\ n.peer = h.peer /\ n.transcript = t
                  /\ n.completing = h.completing
    BY DEF Handshakes
  <1> QED BY <1>1, <1>2, <1>3, <1>4

LEMMA InboundLocal ==
  ASSUME TypeOK, NEW p \in Peer, Local(p), Inbound(p)
  PROVE  Local(p)'
  <1>1. Inbox(p) # <<>> => Head(Inbox(p)) \in Messages
    <2>1. Inbox(p) \in Seq(Messages)
      BY DEF TypeOK, Inbox
    <2> QED BY <2>1
  <1>2. \A kind : Fail(p, kind, gen[p], tasks[p]) => Local(p)'
    BY FailLocal
  <1>3. View(p)' = View(p) => Local(p)'
    BY ViewKept
  <1>4. CASE InboundHello(p)
    <2>1. CASE hs[p].peer # 0
      BY <1>2, <1>4, <2>1 DEF InboundHello
    <2>2. CASE hs[p].peer = 0
      <3>1. PICK h : h = [hs[p] EXCEPT !.peer = Head(Inbox(p)).gen]
        OBVIOUS
      <3>2. /\ h \in Handshakes /\ h.own = hs[p].own /\ h.transcript = hs[p].transcript
            /\ h.completing = hs[p].completing
        <4>1. Inbox(p) # <<>> /\ hs[p] \in Handshakes
          BY <1>4 DEF InboundHello, Arrived, TypeOK
        <4>2. Head(Inbox(p)).gen \in Nat
          BY <1>1, <4>1 DEF Messages
        <4> QED BY <3>1, <4>1, <4>2 DEF Handshakes
      <3>3. /\ MaybeSign(p, h) /\ tasks'[p] = tasks[p] \cup SignTasks(p, h)
            /\ UNCHANGED <<state, gen, chan, keys, timer, authFailed, pinned, durable>>
            /\ state[p] \in {"handshaking", "verifying"} /\ chan[p] # 0
        BY <1>4, <2>2, <3>1 DEF InboundHello, Arrived, TypeOK, disk
      <3>4. hs[p].transcript = None /\ keys[p] = None /\ gen[p] \in Nat
        BY <2>2, <3>3 DEF Local, FieldsAreCurrent, SessionOf, TypeOK
      <3>5. /\ hs'[p].own = hs[p].own /\ hs'[p].completing = hs[p].completing
            /\ hs'[p].transcript # None => /\ hs'[p].own # 0 /\ hs'[p].peer # 0
                                           /\ hs'[p].transcript.hello[p] = hs'[p].own
        BY <3>2, <3>3, <3>4, SignFields DEF CanSign
      <3>6. \A k \in SignTasks(p, h) : k.at = "sign" /\ k.gen = gen[p]
        BY <3>2, <3>3, SignFields
      <3>7. \A k \in SignTasks(p, h) : WellFormed(p, k)' /\ InStep(p, k)'
        BY <3>3, <3>4, <3>6 DEF WellFormed, InStep, Chain, Woken
      <3>8. \A k \in tasks[p] : WellFormed(p, k)' /\ InStep(p, k)'
        BY <3>3, <3>4, <3>5 DEF Local, WellFormed, InStep
      <3>9. CompletesOnce(p)'
        BY <3>3, <3>6 DEF Local, CompletesOnce, Chain
      <3> QED BY <3>3, <3>4, <3>5, <3>7, <3>8, <3>9
              DEF Local, Quiet, SessionOf, FieldsAreCurrent, FlagIsCached
    <2> QED BY <2>1, <2>2
  <1>5. CASE InboundSignature(p)
    <2>1. CASE hs[p].completing /\ UNCHANGED <<orch, tasks, texts, disk, conn, shut>>
      BY <1>3, <2>1 DEF View, orch, disk
    <2>2. CASE Fail(p, "HandshakeFailed", gen[p], tasks[p])
      BY <1>2, <2>2
    <2>3. CASE /\ ~hs[p].completing
               /\ hs[p].transcript # None
               /\ hs' = [hs EXCEPT ![p] = Latch(@, code[p] # NoCode)]
               /\ tasks' = [tasks EXCEPT ![p] = @ \cup
                    {[Task("verify", gen[p], hs[p].transcript)
                        EXCEPT !.got = Head(Inbox(p))]}]
               /\ UNCHANGED <<state, gen, chan, keys, timer, failure, authFailed,
                              code, texts, disk, conn, shut>>
      <3>1. PICK v : v = [Task("verify", gen[p], hs[p].transcript)
                            EXCEPT !.got = Head(Inbox(p))]
        OBVIOUS
      <3>2. /\ v.at = "verify" /\ v.gen = gen[p] /\ v.t = hs[p].transcript
            /\ v.got = Head(Inbox(p))
        BY <3>1 DEF Task
      <3>3. v.got # None /\ gen[p] \in Nat /\ chan[p] # 0
        BY <1>1, <1>5, <3>2, AbsenceAssumption DEF InboundSignature, Arrived, TypeOK
      <3>4. /\ hs'[p].own = hs[p].own /\ hs'[p].peer = hs[p].peer
            /\ hs'[p].transcript = hs[p].transcript /\ hs'[p].completing
        BY <2>3 DEF TypeOK, Handshakes, Latch
      <3>5. /\ tasks'[p] = tasks[p] \cup {v}
            /\ UNCHANGED <<state, gen, chan, keys, timer, authFailed, pinned, durable>>
        BY <2>3, <3>1 DEF TypeOK, disk
      <3>6. \A k \in tasks[p] : k.at \in Chain => k.gen # gen[p]
        BY <2>3, <3>3 DEF Local, InStep
      <3>7. state[p] = "handshaking"
        BY <1>5, <2>3 DEF InboundSignature, Arrived, Local, FieldsAreCurrent
      <3>8. WellFormed(p, v)' /\ InStep(p, v)'
        BY <2>3, <3>2, <3>3, <3>4, <3>5, <3>7 DEF Local, FieldsAreCurrent, WellFormed,
                                                  InStep, Chain, Woken
      <3>9. \A k \in tasks[p] : WellFormed(p, k)' /\ InStep(p, k)'
        BY <3>4, <3>5, <3>6 DEF Local, WellFormed, InStep
      <3>10. CompletesOnce(p)'
        BY <3>2, <3>5, <3>6 DEF Local, CompletesOnce
      <3> QED BY <3>3, <3>4, <3>5, <3>8, <3>9, <3>10
              DEF Local, Quiet, SessionOf, FieldsAreCurrent, FlagIsCached
    <2> QED BY <1>5, <2>1, <2>2, <2>3 DEF InboundSignature
  <1>6. CASE InboundPakeShare(p)
    <2>1. CASE \E kind : Fail(p, kind, gen[p], tasks[p])
      BY <1>2, <2>1
    <2>2. CASE /\ hs' = [hs EXCEPT ![p].share = Head(Inbox(p))]
               /\ Wake(p, "shareWait", "shareGot", Head(Inbox(p)))
               /\ UNCHANGED <<state, gen, chan, keys, timer, failure, authFailed,
                              code, texts, disk, conn, shut>>
      <3>1. Head(Inbox(p)) \in Messages /\ chan[p] # 0
        BY <1>1, <1>6 DEF InboundPakeShare, Arrived
      <3>2. /\ hs'[p].own = hs[p].own /\ hs'[p].peer = hs[p].peer
            /\ hs'[p].transcript = hs[p].transcript
            /\ hs'[p].completing = hs[p].completing
        BY <2>2 DEF TypeOK, Handshakes
      <3> QED BY <2>2, <3>1, <3>2, WakeLocal DEF disk
    <2> QED BY <1>6, <2>1, <2>2 DEF InboundPakeShare
  <1>7. CASE InboundPakeConfirm(p)
    <2>1. CASE \E kind : Fail(p, kind, gen[p], tasks[p])
      BY <1>2, <2>1
    <2>2. CASE /\ hs' = [hs EXCEPT ![p].confirm = Head(Inbox(p))]
               /\ Wake(p, "confirmWait", "confirmGot", Head(Inbox(p)))
               /\ UNCHANGED <<state, gen, chan, keys, timer, failure, authFailed,
                              code, texts, disk, conn, shut>>
      <3>1. Head(Inbox(p)) \in Messages /\ chan[p] # 0
        BY <1>1, <1>7 DEF InboundPakeConfirm, Arrived
      <3>2. /\ hs'[p].own = hs[p].own /\ hs'[p].peer = hs[p].peer
            /\ hs'[p].transcript = hs[p].transcript
            /\ hs'[p].completing = hs[p].completing
        BY <2>2 DEF TypeOK, Handshakes
      <3> QED BY <2>2, <3>1, <3>2, WakeLocal DEF disk
    <2> QED BY <1>7, <2>1, <2>2 DEF InboundPakeConfirm
  <1>8. CASE InboundEarlyFrame(p)
    BY <1>2, <1>8 DEF InboundEarlyFrame
  <1>9. CASE InboundConnected(p)
    BY <1>2, <1>3, <1>9 DEF InboundConnected, View, orch, disk
  <1>10. CASE DropUnattached(p)
    BY <1>3, <1>10 DEF DropUnattached, View, orch, disk
  <1> QED BY <1>4, <1>5, <1>6, <1>7, <1>8, <1>9, <1>10 DEF Inbound

LEMMA CoroutineLocal ==
  ASSUME TypeOK, NEW p \in Peer, Local(p), Coroutine(p)
  PROVE  Local(p)'
  <1>1. PICK k \in tasks[p] :
          \/ Abandon(p, k)    \/ SendThrows(p, k)     \/ KeygenDone(p, k)
          \/ SignDone(p, k)   \/ VerifyDone(p, k)     \/ TofuDone(p, k)
          \/ CreateDone(p, k) \/ ShareResumed(p, k)   \/ FinishDone(p, k)
          \/ TagDone(p, k)    \/ ConfirmResumed(p, k) \/ CheckDone(p, k)
          \/ DeriveDone(p, k) \/ StoreDone(p, k)      \/ RepositoryRejects(p, k)
          \/ AppendDone(p, k) \/ SealDone(p, k)
    BY DEF Coroutine
  <1>2. /\ k \in Tasks /\ k.gen \in Nat /\ gen[p] \in Nat /\ hs[p] \in Handshakes
        /\ WellFormed(p, k) /\ InStep(p, k)
    BY DEF TypeOK, Tasks, Local
  <1>3. \A kind, origin : Fail(p, kind, origin, tasks[p] \ {k}) => Local(p)'
    BY FailLocal
  <1>4. \A spawned : Resume(p, k, spawned) => tasks'[p] = (tasks[p] \ {k}) \cup spawned
    BY DEF Resume, TypeOK
  <1>5. Resume(p, k, {}) => tasks'[p] = tasks[p] \ {k}
    BY <1>4
  <1>6. Superseded(p, k) \/ (chan[p] # 0 /\ k.gen = gen[p] /\ hs[p].own # 0)
    BY DEF Superseded
  <1>7. CASE Abandon(p, k)
    BY <1>5, <1>7, EndLocal DEF Abandon, orch, disk
  <1>8. CASE SendThrows(p, k)
    BY <1>3, <1>8 DEF SendThrows
  <1>9. CASE KeygenDone(p, k)
    <2>1. PICK h : h = [hs[p] EXCEPT !.own = gen[p]]
      OBVIOUS
    <2>2. /\ h \in Handshakes /\ h.own = gen[p] /\ h.transcript = hs[p].transcript
          /\ h.peer = hs[p].peer /\ h.completing = hs[p].completing
      BY <1>2, <2>1 DEF Handshakes
    <2>3. /\ MaybeSign(p, h) /\ tasks'[p] = (tasks[p] \ {k}) \cup SignTasks(p, h)
          /\ k.at = "keygen" /\ k.gen = gen[p] /\ chan[p] # 0
          /\ UNCHANGED <<state, gen, chan, keys, timer, authFailed, pinned, durable>>
      BY <1>4, <1>9, <2>1 DEF KeygenDone, KeygenSuperseded, disk
    <2>4. /\ hs[p].own = 0 /\ hs[p].transcript = None /\ keys[p] = None /\ gen[p] > 0
      <3>1. hs[p].own = 0 /\ hs[p].transcript = None /\ gen[p] > 0
        BY <1>2, <2>3 DEF InStep, Local, FieldsAreCurrent
      <3>2. keys[p] # None => keys[p].t = None /\ keys[p] \in Sessions
        BY <3>1 DEF Local, SessionOf, TypeOK
      <3>3. keys[p] = None
        BY <3>2, AbsenceAssumption DEF Sessions
      <3> QED BY <3>1, <3>3
    <2>5. /\ hs'[p].own = gen[p] /\ hs'[p].completing = hs[p].completing
          /\ hs'[p].transcript # None => /\ hs'[p].own # 0 /\ hs'[p].peer # 0
                                         /\ hs'[p].transcript.hello[p] = hs'[p].own
      BY <2>2, <2>3, <2>4, SignFields DEF CanSign
    <2>6. \A l \in SignTasks(p, h) : l.at = "sign" /\ l.gen = gen[p]
      BY <2>2, <2>3, SignFields
    <2>7. \A l \in SignTasks(p, h) : WellFormed(p, l)' /\ InStep(p, l)'
      BY <1>2, <2>3, <2>6 DEF WellFormed, InStep, Chain, Woken
    <2>8. \A l \in tasks[p] \ {k} : WellFormed(p, l)' /\ InStep(p, l)'
      <3> SUFFICES ASSUME NEW l \in tasks[p] \ {k}
                   PROVE  WellFormed(p, l)' /\ InStep(p, l)'
        OBVIOUS
      <3>1. WellFormed(p, l) /\ InStep(p, l)
        BY DEF Local
      <3>2. ~(l.at = "keygen" /\ l.gen = gen[p])
        BY <1>2, <2>3, <3>1 DEF WellFormed
      <3>3. ~(l.at \in Chain /\ l.gen = gen[p])
        BY <2>3, <2>4, <3>1 DEF InStep
      <3> QED BY <2>3, <3>1, <3>2, <3>3 DEF WellFormed, InStep
    <2>9. CompletesOnce(p)'
      BY <2>3, <2>6 DEF Local, CompletesOnce, Chain
    <2>10. Quiet(p)'
      BY <2>3 DEF Local, Quiet
    <2>11. FieldsAreCurrent(p)' /\ SessionOf(p)' /\ FlagIsCached(p)'
      BY <2>3, <2>4, <2>5 DEF Local, FieldsAreCurrent, SessionOf, FlagIsCached
    <2> QED BY <2>3, <2>4, <2>7, <2>8, <2>9, <2>10, <2>11 DEF Local
  <1>10. CASE SignDone(p, k)
    <2>1. hs' = [hs EXCEPT ![p].sigSent = TRUE]
      BY <1>10 DEF SignDone
    <2>2. /\ hs'[p].own = hs[p].own /\ hs'[p].peer = hs[p].peer
          /\ hs'[p].transcript = hs[p].transcript
          /\ hs'[p].completing = hs[p].completing
      BY <1>2, <2>1 DEF TypeOK, Handshakes
    <2> QED BY <1>5, <1>6, <1>10, <2>2, EndLocal DEF SignDone, disk
  <1>11. CASE VerifyDone(p, k)
    <2>1. CASE Fail(p, "SignatureMismatch", k.gen, tasks[p] \ {k})
      BY <1>3, <2>1
    <2>2. CASE SignatureHolds(k)
      <3>1. PICK l : l = [k EXCEPT !.at = "tofu"]
        OBVIOUS
      <3>2. l.at = "tofu" /\ l.gen = k.gen /\ l.t = k.t /\ l.first = k.first
        BY <1>2, <3>1 DEF Tasks
      <3>3. /\ state'[p] = "verifying" /\ tasks'[p] = (tasks[p] \ {k}) \cup {l}
            /\ UNCHANGED <<gen, chan, hs, keys, timer, authFailed, pinned, durable>>
            /\ k.at = "verify" /\ k.gen = gen[p] /\ chan[p] # 0
        BY <1>4, <1>6, <1>11, <2>2, <3>1 DEF VerifyDone, TypeOK, disk
      <3>4. /\ state[p] = "handshaking" /\ hs[p].completing
            /\ hs[p].transcript # None /\ k.t = hs[p].transcript
        BY <1>2, <3>3 DEF InStep, Chain
      <3>5. \A m \in tasks[p] \ {k} : m.at \in Chain => m.gen # gen[p]
        BY <3>3 DEF Local, CompletesOnce, Chain
      <3>6. \A m \in tasks[p] \ {k} : WellFormed(p, m)' /\ InStep(p, m)'
        BY <3>3, <3>5 DEF Local, WellFormed, InStep
      <3>7. WellFormed(p, l)' /\ InStep(p, l)'
        BY <1>2, <3>2, <3>3, <3>4 DEF WellFormed, InStep, Chain, Woken
      <3>8. CompletesOnce(p)'
        BY <3>2, <3>3, <3>5 DEF Local, CompletesOnce
      <3>9. Quiet(p)'
        BY <3>3, <3>4 DEF Local, Quiet, Live
      <3> QED BY <3>3, <3>4, <3>6, <3>7, <3>8, <3>9
              DEF Local, SessionOf, FieldsAreCurrent, FlagIsCached
    <2> QED BY <1>11, <2>1, <2>2 DEF VerifyDone
  <1>12. CASE TofuDone(p, k)
    <2>1. CASE Fail(p, "IdentityChanged", k.gen, tasks[p] \ {k})
      BY <1>3, <2>1
    <2>2. CASE IdentityUnchanged(p)
      <3>1. PICK l : l = [k EXCEPT !.at = IF code[p] = NoCode THEN "derive" ELSE "create",
                                   !.first = (pinned[p] = "nobody")]
        OBVIOUS
      <3>2. /\ l.at \in {"derive", "create"} /\ l.gen = k.gen /\ l.t = k.t
            /\ l.first = (pinned[p] = "nobody")
        BY <1>2, <3>1 DEF Tasks
      <3>3. /\ tasks'[p] = (tasks[p] \ {k}) \cup {l} /\ k.at = "tofu"
            /\ UNCHANGED <<state, gen, chan, hs, keys, timer, authFailed, pinned, durable>>
        BY <1>4, <1>12, <2>2, <3>1 DEF TofuDone, orch, disk
      <3>4. ~l.first => pinned[p] = "peer"
        BY <2>2, <3>2 DEF TypeOK, IdentityUnchanged
      <3> QED BY <3>2, <3>3, <3>4, AdvanceLocal DEF Chain, Woken, Parked
    <2> QED BY <1>12, <2>1, <2>2 DEF TofuDone
  <1>13. CASE CreateDone(p, k)
    <2>1. /\ k.at = "create" /\ k.gen = gen[p] /\ chan[p] # 0
          /\ UNCHANGED <<state, gen, chan, keys, timer, authFailed, pinned, durable>>
      BY <1>6, <1>13 DEF CreateDone, disk
    <2>2. PICK l : /\ l.at \in {"shareWait", "finish"} /\ l.gen = k.gen /\ l.t = k.t
                   /\ l.first = k.first
                   /\ tasks'[p] = (tasks[p] \ {k}) \cup {l}
      <3>1. CASE hs[p].share = None
        <4>1. PICK l : l = [k EXCEPT !.at = "shareWait"]
          OBVIOUS
        <4>2. tasks'[p] = (tasks[p] \ {k}) \cup {l}
          BY <1>4, <1>13, <3>1, <4>1 DEF CreateDone
        <4> QED BY <1>2, <4>1, <4>2 DEF Tasks
      <3>2. CASE hs[p].share # None
        <4>1. PICK l : l = [k EXCEPT !.at = "finish",
                                     !.secret = PakeSecret(p, k, hs[p].share)]
          OBVIOUS
        <4>2. tasks'[p] = (tasks[p] \ {k}) \cup {l}
          BY <1>4, <1>13, <3>2, <4>1 DEF CreateDone
        <4> QED BY <1>2, <4>1, <4>2 DEF Tasks
      <3> QED BY <3>1, <3>2
    <2>3. /\ hs'[p].own = hs[p].own /\ hs'[p].peer = hs[p].peer
          /\ hs'[p].transcript = hs[p].transcript
          /\ hs'[p].completing = hs[p].completing
      <3>1. \/ hs' = [hs EXCEPT ![p].session = k.gen]
            \/ hs' = [hs EXCEPT ![p].session = 0, ![p].share = None]
        BY <1>13 DEF CreateDone
      <3> QED BY <1>2, <3>1 DEF TypeOK, Handshakes
    <2>4. k.first \/ pinned[p] = "peer"
      BY <1>2, <2>1 DEF WellFormed, Chain
    <2> QED BY <2>1, <2>2, <2>3, <2>4, AdvanceLocal DEF Chain, Woken
  <1>14. CASE ShareResumed(p, k)
    <2>1. /\ k.at = "shareGot" /\ hs[p].session = k.gen
          /\ UNCHANGED <<state, gen, chan, keys, timer, authFailed, pinned, durable>>
          /\ hs' = [hs EXCEPT ![p].session = 0, ![p].share = None]
      BY <1>14 DEF ShareResumed, disk
    <2>2. PICK l : l = [k EXCEPT !.at = "finish", !.secret = PakeSecret(p, k, k.got)]
      OBVIOUS
    <2>3. l.at = "finish" /\ l.gen = k.gen /\ l.t = k.t /\ l.first = k.first
      BY <1>2, <2>2 DEF Tasks
    <2>4. tasks'[p] = (tasks[p] \ {k}) \cup {l}
      BY <1>4, <1>14, <2>2 DEF ShareResumed
    <2>5. /\ hs'[p].own = hs[p].own /\ hs'[p].peer = hs[p].peer
          /\ hs'[p].transcript = hs[p].transcript
          /\ hs'[p].completing = hs[p].completing
      BY <1>2, <2>1 DEF TypeOK, Handshakes
    <2>6. chan[p] # 0
      BY <1>2, <2>1 DEF Local, Quiet, Blank, WellFormed, Chain
    <2>7. k.first \/ pinned[p] = "peer"
      BY <1>2, <2>1 DEF WellFormed, Chain
    <2> QED BY <2>1, <2>3, <2>4, <2>5, <2>6, <2>7, AdvanceLocal DEF Chain, Woken
  <1>15. ASSUME k.at \in Chain \ {"verify", "tofu"}, NEW at \in {"tag", "derive", "store"},
                Resume(p, k, {[k EXCEPT !.at = at]}),
                UNCHANGED <<state, gen, chan, hs, keys, timer, authFailed, pinned, durable>>
         PROVE  Local(p)'
    <2>1. PICK l : l = [k EXCEPT !.at = at]
      OBVIOUS
    <2>2. l.at = at /\ l.gen = k.gen /\ l.t = k.t /\ l.first = k.first
      BY <1>2, <2>1 DEF Tasks
    <2>3. tasks'[p] = (tasks[p] \ {k}) \cup {l}
      BY <1>4, <1>15, <2>1
    <2>4. k.first \/ pinned[p] = "peer"
      BY <1>2, <1>15 DEF WellFormed
    <2> QED BY <1>15, <2>2, <2>3, <2>4, AdvanceLocal DEF Chain, Woken, Parked
  <1>16. CASE FinishDone(p, k)
    BY <1>15, <1>16 DEF FinishDone, Chain, orch, disk
  <1>17. CASE TagDone(p, k)
    <2>1. /\ k.at = "tag" /\ k.gen = gen[p] /\ chan[p] # 0
          /\ UNCHANGED <<state, gen, chan, keys, timer, authFailed, pinned, durable>>
      BY <1>6, <1>17 DEF TagDone, disk
    <2>2. PICK l : /\ l.at \in {"confirmWait", "check"} /\ l.gen = k.gen /\ l.t = k.t
                   /\ l.first = k.first /\ (l.at = "check" => l.got # None)
                   /\ tasks'[p] = (tasks[p] \ {k}) \cup {l}
      <3>1. CASE hs[p].confirm = None
        <4>1. PICK l : l = [k EXCEPT !.at = "confirmWait"]
          OBVIOUS
        <4>2. tasks'[p] = (tasks[p] \ {k}) \cup {l}
          BY <1>4, <1>17, <3>1, <4>1 DEF TagDone
        <4> QED BY <1>2, <4>1, <4>2 DEF Tasks
      <3>2. CASE hs[p].confirm # None
        <4>1. PICK l : l = [k EXCEPT !.at = "check", !.got = hs[p].confirm]
          OBVIOUS
        <4>2. tasks'[p] = (tasks[p] \ {k}) \cup {l}
          BY <1>4, <1>17, <3>2, <4>1 DEF TagDone
        <4> QED BY <1>2, <3>2, <4>1, <4>2 DEF Tasks
      <3> QED BY <3>1, <3>2
    <2>3. /\ hs'[p].own = hs[p].own /\ hs'[p].peer = hs[p].peer
          /\ hs'[p].transcript = hs[p].transcript
          /\ hs'[p].completing = hs[p].completing
      <3>1. hs' = hs \/ hs' = [hs EXCEPT ![p].confirm = None]
        BY <1>17 DEF TagDone
      <3> QED BY <1>2, <3>1 DEF TypeOK, Handshakes
    <2>4. k.first \/ pinned[p] = "peer"
      BY <1>2, <2>1 DEF WellFormed, Chain
    <2> QED BY <2>1, <2>2, <2>3, <2>4, AdvanceLocal DEF Chain, Woken
  <1>18. CASE ConfirmResumed(p, k)
    <2>1. /\ k.at = "confirmGot" /\ chan[p] # 0
          /\ UNCHANGED <<state, gen, chan, keys, timer, authFailed, pinned, durable>>
          /\ hs' = [hs EXCEPT ![p].confirm = None]
      BY <1>6, <1>18 DEF ConfirmResumed, disk
    <2>2. PICK l : l = [k EXCEPT !.at = "check"]
      OBVIOUS
    <2>3. /\ l.at = "check" /\ l.gen = k.gen /\ l.t = k.t /\ l.first = k.first
          /\ l.got = k.got
      BY <1>2, <2>2 DEF Tasks
    <2>4. tasks'[p] = (tasks[p] \ {k}) \cup {l}
      BY <1>4, <1>18, <2>2 DEF ConfirmResumed
    <2>5. /\ hs'[p].own = hs[p].own /\ hs'[p].peer = hs[p].peer
          /\ hs'[p].transcript = hs[p].transcript
          /\ hs'[p].completing = hs[p].completing
      BY <1>2, <2>1 DEF TypeOK, Handshakes
    <2>6. (k.first \/ pinned[p] = "peer") /\ k.got # None
      BY <1>2, <2>1 DEF WellFormed, Chain, Woken
    <2> QED BY <2>1, <2>3, <2>4, <2>5, <2>6, AdvanceLocal DEF Chain, Woken, Parked
  <1>19. CASE CheckDone(p, k)
    <2>1. CASE Fail(p, "PakeMismatch", k.gen, tasks[p] \ {k})
      BY <1>3, <2>1
    <2>2. CASE /\ Superseded(p, k) /\ Resume(p, k, {})
               /\ UNCHANGED <<orch, texts, disk, net>>
      BY <1>5, <2>2, EndLocal DEF orch, disk
    <2>3. CASE /\ ~Superseded(p, k) /\ Resume(p, k, {[k EXCEPT !.at = "derive"]})
               /\ UNCHANGED <<orch, texts, disk, net>>
      BY <1>15, <1>19, <2>3 DEF CheckDone, Chain, orch, disk
    <2> QED BY <1>19, <2>1, <2>2, <2>3 DEF CheckDone
  <1>20. ASSUME k.at \in {"derive", "store"}, ~Superseded(p, k), Establish(p, k),
                pinned'[p] = "peer"
         PROVE  Local(p)'
    <2>1. k.gen = gen[p] /\ chan[p] # 0
      BY <1>6, <1>20
    <2>2. /\ state[p] = "verifying" /\ hs[p].completing
          /\ hs[p].transcript # None /\ k.t = hs[p].transcript
      BY <1>2, <1>20, <2>1 DEF InStep, Chain
    <2>3. hs[p].transcript.hello[p] = gen[p]
      BY <2>2, <1>2 DEF Local, FieldsAreCurrent
    <2>4. /\ keys'[p] = SessionFor(k) /\ timer'[p] = FALSE
          /\ state'[p] = "connected" /\ tasks'[p] = tasks[p] \ {k}
          /\ UNCHANGED <<gen, chan, hs, authFailed, durable>>
      BY <1>5, <1>20 DEF Establish, TypeOK
    <2>5. keys'[p] # None /\ keys'[p].t = k.t
      <3>1. k.t \in Transcripts /\ k.secret \in Secrets \cup {None}
        BY <1>2, <2>2 DEF Tasks
      <3>2. SessionFor(k) \in Sessions
        BY <3>1 DEF Sessions, SessionFor
      <3> QED BY <2>4, <3>2, AbsenceAssumption DEF SessionFor
    <2>6. \A m \in tasks[p] \ {k} : m.at \in Chain => m.gen # gen[p]
      BY <1>20, <2>1 DEF Local, CompletesOnce, Chain
    <2>7. \A m \in tasks[p] \ {k} : WellFormed(p, m)' /\ InStep(p, m)'
      BY <1>20, <2>4, <2>6 DEF Local, WellFormed, InStep
    <2>8. CompletesOnce(p)'
      BY <2>4 DEF Local, CompletesOnce
    <2>9. Quiet(p)'
      BY <2>1, <2>4 DEF Quiet, Live
    <2>10. SessionOf(p)'
      BY <2>2, <2>3, <2>4, <2>5 DEF SessionOf
    <2>11. FieldsAreCurrent(p)' /\ FlagIsCached(p)'
      BY <2>2, <2>4 DEF Local, FieldsAreCurrent, FlagIsCached
    <2> QED BY <1>20, <2>4, <2>7, <2>8, <2>9, <2>10, <2>11 DEF Local
  <1>21. CASE DeriveDone(p, k)
    <2>1. CASE k.first
      BY <1>15, <1>21, <2>1 DEF DeriveDone, Chain, orch, disk
    <2>2. CASE ~k.first
      <3>1. pinned'[p] = "peer"
        BY <1>2, <1>21, <2>2 DEF DeriveDone, WellFormed, Chain
      <3> QED BY <1>20, <1>21, <2>2, <3>1 DEF DeriveDone
    <2> QED BY <2>1, <2>2
  <1>22. CASE StoreDone(p, k)
    <2>1. pinned'[p] = "peer" /\ k.at = "store"
      BY <1>22 DEF StoreDone, TypeOK
    <2>2. CASE Superseded(p, k)
      BY <1>5, <1>22, <2>1, <2>2, EndLocal DEF StoreDone, orch
    <2>3. CASE ~Superseded(p, k)
      BY <1>20, <1>22, <2>1, <2>3 DEF StoreDone
    <2> QED BY <2>2, <2>3
  <1>23. CASE RepositoryRejects(p, k)
    BY <1>3, <1>23 DEF RepositoryRejects
  <1>24. CASE AppendDone(p, k)
    <2>1. CASE keys[p] = None
      BY <1>5, <1>24, <2>1, EndLocal DEF AppendDone, orch, disk
    <2>2. CASE keys[p] # None
      <3>1. PICK l : l = [Task("seal", gen[p], None) EXCEPT
                            !.got = Sealed("Frame", keys[p]), !.on = chan[p]]
        OBVIOUS
      <3>2. l.at = "seal" /\ l.gen = gen[p] /\ l.got = Sealed("Frame", keys[p])
        BY <3>1 DEF Task
      <3>3. l.got # None
        BY <2>2, <3>2, SealedType, AbsenceAssumption DEF TypeOK
      <3>4. tasks'[p] = (tasks[p] \ {k}) \cup {l}
        BY <1>4, <1>24, <2>2, <3>1 DEF AppendDone
      <3> QED BY <1>24, <3>2, <3>3, <3>4, SpawnLocal DEF AppendDone, orch, disk
    <2> QED BY <2>1, <2>2
  <1>25. CASE SealDone(p, k)
    BY <1>5, <1>25, EndLocal DEF SealDone, orch, disk
  <1> QED BY <1>1, <1>7, <1>8, <1>9, <1>10, <1>11, <1>12, <1>13, <1>14, <1>16,
             <1>17, <1>18, <1>19, <1>21, <1>22, <1>23, <1>24, <1>25

-----------------------------------------------------------------------------
(* The theorems.                                                           *)

LEMMA InitInv == Init => HandshakeInv
  <1> SUFFICES ASSUME Init PROVE HandshakeInv
    OBVIOUS
  <1>1. TypeOK
    <2>1. <<>> \in Seq(Messages) /\ 0 \in 0 .. MaxConn /\ 0 \in 0 .. MaxTexts
      BY BoundsAssumption
    <2>2. code \in [Peer -> Codes \cup {NoCode}]
      BY InvitationsAssumption DEF Init
    <2>3. pinned \in [Peer -> {"nobody", "peer", "stranger"}]
      BY ContactsAssumption DEF Init
    <2>4. wire \in [0 .. MaxConn -> [Peer -> Seq(Messages)]]
      BY <2>1 DEF Init
    <2> QED BY <2>1, <2>2, <2>3, <2>4, BlankType DEF Init, TypeOK
  <1>2. shut[0]
    <2>1. 0 \in 0 .. MaxConn
      BY BoundsAssumption
    <2>2. shut[0] = (0 = 0)
      BY <2>1 DEF Init
    <2> QED BY <2>2
  <1>3. ASSUME NEW p \in Peer
        PROVE  Local(p)
    <2>1. /\ state[p] = "idle" /\ gen[p] = 0 /\ chan[p] = 0 /\ hs[p] = Blank
          /\ keys[p] = None /\ timer[p] = FALSE /\ tasks[p] = {} /\ durable[p] = FALSE
      BY DEF Init
    <2>2. Quiet(p)
      BY <2>1 DEF Quiet, Live
    <2>3. FieldsAreCurrent(p)
      BY <2>1 DEF FieldsAreCurrent, Blank
    <2> QED BY <2>1, <2>2, <2>3 DEF Local, SessionOf, CompletesOnce, FlagIsCached
  <1> QED BY <1>1, <1>2, <1>3, InvIsLocal

LEMMA NextInv == HandshakeInv /\ [Next]_vars => HandshakeInv'
  <1> SUFFICES ASSUME HandshakeInv, [Next]_vars PROVE HandshakeInv'
    OBVIOUS
  <1>1. TypeOK /\ shut[0] /\ \A p \in Peer : Local(p)
    BY InvIsLocal
  <1>3. CASE UNCHANGED vars
    <2>1. TypeOK' /\ shut'[0]
      BY <1>1, <1>3 DEF TypeOK, vars, orch, disk, net
    <2>2. \A p \in Peer : View(p)' = View(p)
      BY <1>3 DEF View, vars, orch, disk, net
    <2> QED BY <1>1, <2>1, <2>2, ViewKept, InvIsLocalNext
  <1>4. CASE OpenChannel
    <2>1. TypeOK' /\ shut'[0]
      BY <1>1, <1>4, BoundsAssumption, SMTT(40) DEF OpenChannel, TypeOK, orch, disk
    <2>2. \A p \in Peer : View(p)' = View(p)
      BY <1>4 DEF OpenChannel, View, orch, disk
    <2> QED BY <1>1, <2>1, <2>2, ViewKept, InvIsLocalNext
  <1>5. ASSUME NEW p \in Peer, Calls(p) \/ Timers(p) \/ Inbound(p) \/ Coroutine(p)
        PROVE  HandshakeInv'
    <2>1. TypeOK'
      BY <1>1, <1>5, CallsType, TimersType, InboundType, CoroutineType DEF Local
    <2>2. shut'[0]
      BY <1>1, <1>5, NullStaysShut
    <2>3. Local(p)'
      BY <1>1, <1>5, CallsLocal, TimersLocal, InboundLocal, CoroutineLocal
    <2>4. \A q \in Peer : q # p => Local(q)'
      BY <1>1, <1>5, OthersKept, ViewKept
    <2> QED BY <2>1, <2>2, <2>3, <2>4, InvIsLocalNext
  <1> QED BY <1>3, <1>4, <1>5 DEF Next

(* The inductive invariant holds of every behaviour: whatever the peer     *)
(* sends, duplicates or withholds, and whenever timers, leave(), retry()   *)
(* and restarts strike.                                                    *)
THEOREM Invariance == Spec => []HandshakeInv
  BY InitInv, NextInv, PTL DEF Spec

(* Type correctness.                                                       *)
THEOREM TypeCorrect == Spec => []TypeOK
  <1>1. HandshakeInv => TypeOK
    BY DEF HandshakeInv
  <1> QED BY <1>1, Invariance, PTL

(* teardownSession is complete: nothing of a handshake outlives it.        *)
THEOREM TeardownIsComplete == Spec => []QuietWhenDown
  <1>1. HandshakeInv => QuietWhenDown
    BY DEF HandshakeInv
  <1> QED BY <1>1, Invariance, PTL

(* The guards after every await suffice: framing is only ever wired by the *)
(* current handshake, over the transcript in force.                        *)
THEOREM NoStaleSession == Spec => []SessionIsCurrent
  <1>1. HandshakeInv => SessionIsCurrent
    BY DEF HandshakeInv
  <1> QED BY <1>1, Invariance, PTL

(* The handshakeCompleting latch admits one completion per handshake.      *)
THEOREM CompletedOnce == Spec => []OneCompletion
  <1>1. HandshakeInv => OneCompletion
    BY DEF HandshakeInv
  <1> QED BY <1>1, Invariance, PTL

(* The TOFU check holds on every path to Connected.                        *)
THEOREM NeverAStranger == Spec => []ConnectedIsPinned
  <1>1. HandshakeInv => ConnectedIsPinned
    BY DEF HandshakeInv
  <1> QED BY <1>1, Invariance, PTL

(* All three of a session, however many coroutines of how many handshakes  *)
(* were parked on the way to it.                                           *)
THEOREM SessionsStaySound == Spec => []SessionsAreSound
  BY NoStaleSession, CompletedOnce, NeverAStranger, PTL DEF SessionsAreSound

(* The edges of the lifecycle an endpoint takes, and the one that a cached *)
(* authentication failure closes.                                          *)
Edge(p, next) ==
  /\ state' = [state EXCEPT ![p] = next]
  /\ next \in Lifecycle!States
  /\ Lifecycle!Allowed(state[p], next)
  /\ state[p] = "disconnected" /\ authFailed[p] => next = "idle"

LEMMA EdgeTable ==
  /\ Lifecycle!Allowed("idle", "waiting")
  /\ Lifecycle!Allowed("waiting", "signaling")
  /\ Lifecycle!Allowed("disconnected", "signaling")
  /\ Lifecycle!Allowed("waiting", "handshaking")
  /\ Lifecycle!Allowed("signaling", "handshaking")
  /\ Lifecycle!Allowed("handshaking", "verifying")
  /\ Lifecycle!Allowed("verifying", "connected")
  /\ \A from \in {"waiting", "signaling", "handshaking", "verifying", "connected"} :
       Lifecycle!Allowed(from, "disconnected")
  /\ \A from \in Lifecycle!States : Lifecycle!Allowed(from, "idle")
  BY DEF Lifecycle!Allowed, Lifecycle!Successors, Lifecycle!States

LEMMA EdgesTaken ==
  ASSUME TypeOK, NEW p \in Peer, Local(p),
         Calls(p) \/ Timers(p) \/ Inbound(p) \/ Coroutine(p)
  PROVE  state' = state \/ \E next : Edge(p, next)
  <1> USE DEF Lifecycle!States
  <1>1. ASSUME state[p] # "idle", state[p] # "disconnected",
               state' = [state EXCEPT ![p] = "disconnected"]
        PROVE  \E next : Edge(p, next)
    <2>1. state[p] \in {"waiting", "signaling", "handshaking", "verifying", "connected"}
      BY <1>1 DEF TypeOK
    <2>2. Edge(p, "disconnected")
      BY <1>1, <2>1, EdgeTable DEF Edge
    <2> QED BY <2>2
  <1>2. ASSUME NEW kind, NEW origin, NEW running, Fail(p, kind, origin, running)
        PROVE  state' = state \/ \E next : Edge(p, next)
    <2>1. CASE failure[p] # None
      BY <1>2, <2>1 DEF Fail, orch
    <2>2. CASE failure[p] = None /\ state[p] \in Live
      BY <1>1, <1>2, <2>2 DEF Fail, Live
    <2>3. CASE failure[p] = None /\ state[p] \notin Live
      BY <1>2, <2>3 DEF Fail, TypeOK
    <2> QED BY <2>1, <2>2, <2>3
  <1>3. CASE Calls(p)
    <2>1. CASE Start(p)
      <3>1. Edge(p, "waiting")
        BY <2>1, EdgeTable DEF Start, Edge
      <3> QED BY <3>1
    <2>2. CASE NotifyPeerJoined(p)
      <3>1. Edge(p, "signaling")
        BY <2>2, EdgeTable DEF NotifyPeerJoined, Edge
      <3> QED BY <3>1
    <2>3. CASE NotifyPeerLeft(p) \/ Leave(p)
      BY <1>1, <2>3 DEF NotifyPeerLeft, Leave, Disconnect
    <2>4. CASE AttachTransport(p)
      <3>1. Edge(p, "handshaking")
        BY <2>4, EdgeTable DEF AttachTransport, CanAttach, Edge
      <3> QED BY <3>1
    <2>5. CASE Retry(p)
      <3>1. Edge(p, "signaling")
        BY <2>5, EdgeTable DEF Retry, Edge
      <3> QED BY <3>1
    <2>6. CASE Restart(p)
      <3>1. Edge(p, "idle")
        BY <2>6, EdgeTable DEF Restart, Edge, TypeOK
      <3> QED BY <3>1
    <2>7. CASE SendText(p)
      BY <2>7 DEF SendText, orch
    <2> QED BY <1>3, <2>1, <2>2, <2>3, <2>4, <2>5, <2>6, <2>7 DEF Calls
  <1>4. CASE Timers(p)
    BY <1>2, <1>4 DEF Timers, HandshakeTimeout, PakeTimeout
  <1>5. CASE Inbound(p)
    BY <1>2, <1>5 DEF Inbound, InboundHello, InboundSignature, InboundPakeShare,
         InboundPakeConfirm, InboundEarlyFrame, InboundConnected, DropUnattached, orch
  <1>6. CASE Coroutine(p)
    <2>1. PICK k \in tasks[p] :
            \/ Abandon(p, k)    \/ SendThrows(p, k)     \/ KeygenDone(p, k)
            \/ SignDone(p, k)   \/ VerifyDone(p, k)     \/ TofuDone(p, k)
            \/ CreateDone(p, k) \/ ShareResumed(p, k)   \/ FinishDone(p, k)
            \/ TagDone(p, k)    \/ ConfirmResumed(p, k) \/ CheckDone(p, k)
            \/ DeriveDone(p, k) \/ StoreDone(p, k)      \/ RepositoryRejects(p, k)
            \/ AppendDone(p, k) \/ SealDone(p, k)
      BY <1>6 DEF Coroutine
    <2>2. InStep(p, k)
      BY DEF Local
    <2>3. CASE VerifyDone(p, k)
      <3>1. state[p] = "handshaking"
        BY <2>2, <2>3 DEF VerifyDone, Superseded, InStep, Chain
      <3>2. state' = [state EXCEPT ![p] = "verifying"] => Edge(p, "verifying")
        BY <3>1, EdgeTable DEF Edge
      <3> QED BY <1>2, <2>3, <3>2 DEF VerifyDone
    <2>4. ASSUME k.at \in {"derive", "store"}, ~Superseded(p, k), Establish(p, k)
          PROVE  \E next : Edge(p, next)
      <3>1. state[p] = "verifying"
        BY <2>2, <2>4 DEF Superseded, InStep, Chain
      <3>2. Edge(p, "connected")
        BY <2>4, <3>1, EdgeTable DEF Establish, Edge
      <3> QED BY <3>2
    <2>5. CASE DeriveDone(p, k) \/ StoreDone(p, k)
      BY <2>4, <2>5 DEF DeriveDone, StoreDone, orch
    <2> QED BY <1>2, <2>1, <2>3, <2>5 DEF Abandon, SendThrows, KeygenDone, SignDone,
          TofuDone, CreateDone, ShareResumed, FinishDone, TagDone, ConfirmResumed,
          CheckDone, RepositoryRejects, AppendDone, SealDone, orch
  <1> QED BY <1>3, <1>4, <1>5, <1>6

LEMMA EdgesOfNext ==
  ASSUME HandshakeInv, [Next]_vars
  PROVE  state' = state \/ \E p \in Peer : \E next : Edge(p, next)
  <1>1. TypeOK /\ \A p \in Peer : Local(p)
    BY InvIsLocal
  <1>2. CASE OpenChannel \/ UNCHANGED vars
    BY <1>2 DEF OpenChannel, vars, orch
  <1>3. CASE \E p \in Peer : Calls(p) \/ Timers(p) \/ Inbound(p) \/ Coroutine(p)
    BY <1>1, <1>3, EdgesTaken
  <1> QED BY <1>2, <1>3 DEF Next

(* Every endpoint implements the lifecycle of the state machine: the       *)
(* validator in setState is never the one to throw.                        *)
THEOREM ImplementsLifecycle == Spec => LifecycleImplemented
  <1>1. Init => Lifecycle!Init
    BY DEF Init, Lifecycle!Init
  <1>2. HandshakeInv /\ [Next]_vars => [Lifecycle!Next]_state
    <2> SUFFICES ASSUME HandshakeInv, [Next]_vars PROVE [Lifecycle!Next]_state
      OBVIOUS
    <2>1. CASE state' = state
      BY <2>1
    <2>2. CASE \E p \in Peer : \E next : Edge(p, next)
      BY <2>2 DEF Edge, Lifecycle!Next, Lifecycle!Transition
    <2> QED BY <2>1, <2>2, EdgesOfNext
  <1> QED BY <1>1, <1>2, Invariance, PTL DEF Spec, LifecycleImplemented, Lifecycle!Spec

(* A disconnected, bricked endpoint stays down: retry() is refused, also   *)
(* by an orchestrator made after a restart.                                *)
THEOREM BrickedRefusesRetry == Spec => BrickedStaysDown
  <1> DEFINE Down == \A p \in Peer : durable[p] /\ state[p] = "disconnected"
                       => state'[p] \in {"disconnected", "idle"}
  <1>1. HandshakeInv /\ [Next]_vars => [Down]_vars
    <2> SUFFICES ASSUME HandshakeInv, [Next]_vars,
                        NEW p \in Peer, durable[p], state[p] = "disconnected"
                 PROVE  state'[p] \in {"disconnected", "idle"}
      OBVIOUS
    <2>1. authFailed[p]
      BY DEF HandshakeInv, Strengthening, FlagIsCached
    <2>2. CASE state' = state
      BY <2>2
    <2>3. ASSUME NEW q \in Peer, NEW next, Edge(q, next)
          PROVE  state'[p] \in {"disconnected", "idle"}
      <3>1. state' = [state EXCEPT ![q] = next] /\ DOMAIN state = Peer
        BY <2>3 DEF Edge, HandshakeInv, TypeOK
      <3>2. CASE q = p
        BY <2>1, <2>3, <3>1, <3>2 DEF Edge
      <3>3. CASE q # p
        BY <3>1, <3>3
      <3> QED BY <3>2, <3>3
    <2> QED BY <2>2, <2>3, EdgesOfNext
  <1> QED BY <1>1, Invariance, PTL DEF Spec, BrickedStaysDown

-----------------------------------------------------------------------------
(* What the two ends of a channel know of each other.  A channel is        *)
(* attached at most once by either end, so a message on it was sent by the *)
(* one handshake its sender ran there; while that handshake is still in    *)
(* force, what the message says is true of its sender.                     *)

Together(p) == chan[p] # 0 /\ chan[Other(p)] = chan[p]

InForce(p, k) == chan[p] # 0 /\ k.gen = gen[p]

(* The coroutines of the PAKE, and those that hold its secret.             *)
PakePoints == {"create", "shareWait", "shareGot", "finish", "tag", "confirmWait",
               "confirmGot", "check"}
Keyed == {"finish", "tag", "confirmWait", "confirmGot", "check"}

(* The secret p derives with the handshake the other end is running.       *)
SecretOf(p) == [owner |-> IF code[Other(p)] = code[p] THEN None ELSE p, share |-> gen]

HasSigned(q, t) == hs[q].sigSent /\ hs[q].transcript = t

WorksOn(q, t) == t # None /\ hs[q].transcript = t

(* The secret a session may be built from.                                 *)
Agreed(p, s) == IF code[p] = NoCode THEN s = None
                ELSE s = SecretOf(p) /\ code[Other(p)] = code[p]

(* What holds of an end whatever the other one does.                       *)
OwnFields(p) ==
  /\ hs[p].transcript # None => hs[p].transcript.mode = Mode(p)
  /\ hs[p].sigSent => hs[p].transcript # None
  /\ hs[p].session \in {0, gen[p]}

OwnTask(p, k) ==
  /\ k.at \in {"verify", "tofu"} => k.secret = None
  /\ InForce(p, k) /\ k.at = "sign" => hs[p].transcript # None /\ k.t = hs[p].transcript
  /\ InForce(p, k) /\ k.at \in PakePoints => code[p] # NoCode
  /\ k.at = "seal" => /\ k.got.kind \in {"Frame", "Leave"}
                      /\ ~shut[k.on] => chan[p] = k.on

(* What an end heard from the one that shares its channel.                 *)
HeardFields(p) ==
  Together(p) =>
    /\ hs[p].share # None => /\ hs[p].share.gen = gen[Other(p)]
                             /\ hs[p].share.code = code[Other(p)]
    /\ hs[p].confirm # None => /\ hs[p].confirm.secret = SecretOf(Other(p))
                               /\ WorksOn(Other(p), hs[p].confirm.t)
    /\ keys[p] # None => /\ HasSigned(Other(p), keys[p].t)
                         /\ Agreed(p, keys[p].secret)

HeardTask(p, k) ==
  Together(p) /\ k.gen = gen[p] =>
    /\ k.at = "verify" => HasSigned(Other(p), k.got.t)
    /\ k.at \in Chain \ {"verify"} => HasSigned(Other(p), k.t)
    /\ k.at = "shareGot" => k.got.gen = gen[Other(p)] /\ k.got.code = code[Other(p)]
    /\ k.at \in Keyed => k.secret = SecretOf(p)
    /\ k.at \in {"confirmGot", "check"} => /\ k.got.secret = SecretOf(Other(p))
                                           /\ WorksOn(Other(p), k.got.t)
    /\ k.at \in {"derive", "store"} => Agreed(p, k.secret)

(* An end that opened the channel first has heard nothing yet.             *)
HeardNothing(p) ==
  chan[p] # 0 /\ ~shut[chan[p]] /\ chan[Other(p)] # chan[p]
    => hs[p].peer = 0 /\ hs[p].share = None /\ hs[p].confirm = None

(* What a message says of the handshake that sent it.                      *)
Vouched(p, m) ==
  m.kind \in {"Signature", "PakeShare", "PakeConfirm"} =>
    /\ Together(p)
    /\ m.kind = "Signature" => HasSigned(p, m.t)
    /\ m.kind = "PakeShare" => m.gen = gen[p] /\ m.code = code[p]
    /\ m.kind = "PakeConfirm" => /\ m.secret = SecretOf(p)
                                 /\ WorksOn(p, m.t)

Outbox(p) == wire[chan[p]][Other(p)]

True(p) == {m \in Messages : Vouched(p, m)}

OutboxIsTrue(p) == chan[p] # 0 /\ ~shut[chan[p]] => Outbox(p) \in Seq(True(p))

(* An open channel carries messages only from an end that is attached.     *)
Untouched ==
  \A c \in 0 .. MaxConn, p \in Peer : ~shut[c] /\ chan[p] # c => wire[c][Other(p)] = <<>>

(* A channel that two ends share is open.                                  *)
SharedIsOpen == \A p \in Peer : Together(p) => ~shut[chan[p]]

Row(p) ==
  /\ OwnFields(p)
  /\ \A k \in tasks[p] : OwnTask(p, k) /\ HeardTask(p, k)
  /\ HeardFields(p)
  /\ HeardNothing(p)
  /\ OutboxIsTrue(p)

PairInv == HandshakeInv /\ Untouched /\ SharedIsOpen /\ \A p \in Peer : Row(p)

-----------------------------------------------------------------------------
(* A step seen from the two ends.                                          *)

LEMMA TwoEnds ==
  ASSUME NEW p \in Peer
  PROVE  /\ Other(p) \in Peer /\ Other(p) # p /\ Other(Other(p)) = p
         /\ \A r \in Peer : r = p \/ r = Other(p)
  <1>1. PICK a, b \in Peer : a # b /\ Peer = {a, b}
    BY PeerAssumption
  <1>2. \A r \in Peer : Other(r) \in Peer /\ Other(r) # r
    BY OtherType
  <1> QED BY <1>1, <1>2

(* What a step of p that stays in its handshake leaves of it: the transcript*)
(* and the signature it sent stand, and it posts only what is true.        *)
Posted(p) ==
  \A c \in 0 .. MaxConn, r \in Peer :
    \/ wire'[c][r] = wire[c][r]
    \/ wire[c][r] # <<>> /\ wire'[c][r] = Tail(wire[c][r])
    \/ /\ c = chan[p] /\ ~shut[c] /\ r = Other(p)
       /\ \E m \in Messages : Vouched(p, m)' /\ wire'[c][r] = Append(wire[c][r], m)

Stays(p) ==
  /\ View(Other(p))' = View(Other(p))
  /\ chan'[p] = chan[p]
  /\ UNCHANGED <<gen, code, shut>>
  /\ hs[p].sigSent => hs'[p].sigSent
  /\ hs[p].transcript # None => hs'[p].transcript = hs[p].transcript
  /\ Posted(p)

LEMMA RowOf == ASSUME PairInv, NEW p \in Peer PROVE Row(p) /\ Local(p)
  BY InvIsLocal DEF PairInv

LEMMA StaysTogether ==
  ASSUME PairInv, NEW p \in Peer, Stays(p)
  PROVE  /\ Together(p)' = Together(p) /\ Together(Other(p))' = Together(Other(p))
         /\ SecretOf(p)' = SecretOf(p) /\ SecretOf(Other(p))' = SecretOf(Other(p))
         /\ \A t : HasSigned(p, t) => HasSigned(p, t)'
         /\ \A t : HasSigned(Other(p), t)' = HasSigned(Other(p), t)
         /\ \A t : WorksOn(p, t) => WorksOn(p, t)'
         /\ \A t : WorksOn(Other(p), t)' = WorksOn(Other(p), t)
         /\ \A s : Agreed(p, s)' = Agreed(p, s) /\ Agreed(Other(p), s)' = Agreed(Other(p), s)
  <1>1. hs[p].sigSent => hs[p].transcript # None
    BY RowOf DEF Row, OwnFields
  <1>2. \A t : WorksOn(p, t) => WorksOn(p, t)'
    BY DEF Stays, WorksOn
  <1>3. \A t : WorksOn(Other(p), t)' = WorksOn(Other(p), t)
    BY DEF Stays, View, WorksOn
  <1> QED BY <1>1, <1>2, <1>3, TwoEnds
          DEF Stays, View, Together, SecretOf, HasSigned, Agreed

LEMMA SeqGrows ==
  ASSUME NEW S, NEW T, S \subseteq T, NEW s \in Seq(S)
  PROVE  /\ s \in Seq(T)
         /\ s # <<>> => Tail(s) \in Seq(T)
         /\ \A m \in T : Append(s, m) \in Seq(T)
  <1>1. s \in Seq(T)
    OBVIOUS
  <1> QED BY <1>1

LEMMA StaysTrue ==
  ASSUME PairInv, NEW p \in Peer, Stays(p)
  PROVE  True(p) \subseteq True(p)' /\ True(Other(p)) \subseteq True(Other(p))'
  <1>1. gen' = gen /\ code' = code
    BY DEF Stays
  <1>2. \A m \in Messages : Vouched(p, m) => Vouched(p, m)'
    BY <1>1, StaysTogether DEF Vouched
  <1>3. \A m \in Messages : Vouched(Other(p), m) => Vouched(Other(p), m)'
    BY <1>1, StaysTogether DEF Vouched
  <1> QED BY <1>2, <1>3 DEF True

LEMMA StaysOutbox ==
  ASSUME PairInv, NEW p \in Peer, Stays(p)
  PROVE  OutboxIsTrue(p)' /\ OutboxIsTrue(Other(p))' /\ Untouched' /\ SharedIsOpen'
  <1> DEFINE q == Other(p)
  <1>1. /\ q \in Peer /\ q # p /\ Other(q) = p /\ \A r \in Peer : r = p \/ r = q
        /\ chan'[p] = chan[p] /\ chan'[q] = chan[q] /\ shut' = shut
    BY TwoEnds DEF Stays, View
  <1>2. /\ OutboxIsTrue(p) /\ OutboxIsTrue(q) /\ True(p) \subseteq True(p)'
        /\ True(q) \subseteq True(q)' /\ Posted(p)
        /\ chan[p] \in 0 .. MaxConn /\ chan[q] \in 0 .. MaxConn
    BY <1>1, RowOf, StaysTrue DEF Row, Stays, PairInv, HandshakeInv, TypeOK
  <1>3. OutboxIsTrue(p)'
    <2> SUFFICES ASSUME chan[p] # 0, ~shut[chan[p]]
                 PROVE  wire'[chan[p]][q] \in Seq(True(p)')
      BY <1>1 DEF OutboxIsTrue, Outbox
    <2>1. wire[chan[p]][q] \in Seq(True(p))
      BY <1>2 DEF OutboxIsTrue, Outbox
    <2>2. \A m \in Messages : Vouched(p, m)' => m \in True(p)'
      BY DEF True
    <2>3. wire[chan[p]][q] \in Seq(True(p)')
      BY <1>2, <2>1, SeqGrows
    <2>4. CASE wire'[chan[p]][q] = wire[chan[p]][q]
      BY <2>3, <2>4
    <2>5. CASE wire[chan[p]][q] # <<>> /\ wire'[chan[p]][q] = Tail(wire[chan[p]][q])
      BY <2>3, <2>5
    <2>6. CASE \E m \in Messages : /\ Vouched(p, m)'
                                  /\ wire'[chan[p]][q] = Append(wire[chan[p]][q], m)
      <3>1. PICK m \in Messages : /\ Vouched(p, m)'
                                  /\ wire'[chan[p]][q] = Append(wire[chan[p]][q], m)
        BY <2>6
      <3>2. m \in True(p)'
        BY <2>2, <3>1
      <3> QED BY <2>3, <3>1, <3>2
    <2> QED BY <1>1, <1>2, <2>4, <2>5, <2>6 DEF Posted
  <1>4. OutboxIsTrue(q)'
    <2> SUFFICES ASSUME chan[q] # 0, ~shut[chan[q]]
                 PROVE  wire'[chan[q]][p] \in Seq(True(q)')
      BY <1>1 DEF OutboxIsTrue, Outbox
    <2>1. wire[chan[q]][p] \in Seq(True(q))
      BY <1>1, <1>2 DEF OutboxIsTrue, Outbox
    <2>2. \/ wire'[chan[q]][p] = wire[chan[q]][p]
          \/ wire[chan[q]][p] # <<>> /\ wire'[chan[q]][p] = Tail(wire[chan[q]][p])
      BY <1>1, <1>2 DEF Posted
    <2>3. wire[chan[q]][p] \in Seq(True(q)')
      BY <1>2, <2>1, SeqGrows
    <2>4. CASE wire'[chan[q]][p] = wire[chan[q]][p]
      BY <2>3, <2>4
    <2>5. CASE wire[chan[q]][p] # <<>> /\ wire'[chan[q]][p] = Tail(wire[chan[q]][p])
      BY <2>3, <2>5
    <2> QED BY <2>2, <2>4, <2>5
  <1>5. Untouched'
    <2> SUFFICES ASSUME NEW c \in 0 .. MaxConn, NEW r \in Peer, ~shut[c], chan[r] # c
                 PROVE  wire'[c][Other(r)] = <<>>
      BY <1>1 DEF Untouched
    <2>1. wire[c][Other(r)] = <<>> /\ Other(r) \in Peer
      BY TwoEnds DEF Untouched, PairInv
    <2>2. ~(c = chan[p] /\ Other(r) = Other(p))
      BY <1>1, TwoEnds
    <2> QED BY <1>2, <2>1, <2>2 DEF Posted
  <1>6. SharedIsOpen'
    BY <1>1, StaysTogether DEF SharedIsOpen, PairInv
  <1> QED BY <1>3, <1>4, <1>5, <1>6

(* The other end of a step that stays knows what it knew.                  *)
LEMMA StaysBeside ==
  ASSUME PairInv, NEW p \in Peer, Stays(p)
  PROVE  Row(Other(p))'
  <1> DEFINE q == Other(p)
  <1>1. /\ q \in Peer /\ q # p /\ Other(q) = p /\ Row(q)
        /\ hs'[q] = hs[q] /\ keys'[q] = keys[q] /\ tasks'[q] = tasks[q]
        /\ chan'[q] = chan[q]
        /\ chan'[p] = chan[p] /\ gen' = gen /\ code' = code /\ shut' = shut
    BY TwoEnds, RowOf DEF Stays, View
  <1>2. /\ Together(q)' = Together(q) /\ SecretOf(q)' = SecretOf(q)
        /\ SecretOf(p)' = SecretOf(p)
        /\ \A t : HasSigned(p, t) => HasSigned(p, t)'
        /\ \A t : WorksOn(p, t) => WorksOn(p, t)'
        /\ \A s : Agreed(q, s)' = Agreed(q, s)
    BY StaysTogether
  <1>3. OutboxIsTrue(q)'
    BY StaysOutbox
  <1> HIDE DEF q
  <1>4. OwnFields(q)'
    BY <1>1 DEF Row, OwnFields, Mode
  <1>5. HeardFields(q)'
    BY <1>1, <1>2 DEF Row, HeardFields
  <1>6. HeardNothing(q)'
    BY <1>1 DEF Row, HeardNothing
  <1>7. ASSUME NEW k \in tasks[q] PROVE OwnTask(q, k)' /\ HeardTask(q, k)'
    <2>1. OwnTask(q, k) /\ HeardTask(q, k)
      BY <1>1 DEF Row
    <2>2. OwnTask(q, k)'
      BY <1>1, <2>1 DEF OwnTask, InForce
    <2>3. HeardTask(q, k)'
      BY <1>1, <1>2, <2>1 DEF HeardTask
    <2> QED BY <2>2, <2>3
  <1> QED BY <1>1, <1>3, <1>4, <1>5, <1>6, <1>7 DEF Row, q

PairHolds == Untouched /\ SharedIsOpen /\ \A p \in Peer : Row(p)

(* The end that makes the step keeps what it knew, and has cause for what  *)
(* is new.                                                                 *)
LEMMA StaysPair ==
  ASSUME PairInv, NEW p \in Peer, Stays(p),
         OwnFields(p)', HeardFields(p)', HeardNothing(p)',
         \A k \in tasks'[p] : k \in tasks[p] \/ (OwnTask(p, k)' /\ HeardTask(p, k)')
  PROVE  PairHolds'
  <1> DEFINE q == Other(p)
  <1>1. /\ q \in Peer /\ q # p /\ Other(q) = p /\ Row(p) /\ hs'[q] = hs[q]
        /\ chan'[p] = chan[p] /\ gen' = gen /\ code' = code /\ shut' = shut
        /\ hs[p].transcript # None => hs'[p].transcript = hs[p].transcript
        /\ \A r \in Peer : r = p \/ r = q
    BY TwoEnds, RowOf DEF Stays, View
  <1>2. /\ Together(p)' = Together(p) /\ SecretOf(q)' = SecretOf(q)
        /\ SecretOf(p)' = SecretOf(p)
        /\ \A t : HasSigned(q, t)' = HasSigned(q, t)
        /\ \A t : WorksOn(q, t)' = WorksOn(q, t)
        /\ \A s : Agreed(p, s)' = Agreed(p, s)
    BY StaysTogether
  <1>3. OutboxIsTrue(p)' /\ Untouched' /\ SharedIsOpen' /\ Row(q)'
    BY StaysOutbox, StaysBeside
  <1>4. ASSUME NEW k \in tasks[p] PROVE OwnTask(p, k)' /\ HeardTask(p, k)'
    <2>1. OwnTask(p, k) /\ HeardTask(p, k)
      BY <1>1 DEF Row
    <2> HIDE DEF q
    <2>2. OwnTask(p, k)'
      BY <1>1, <2>1 DEF OwnTask, InForce
    <2>3. HeardTask(p, k)'
      BY <1>1, <1>2, <2>1 DEF HeardTask, q
    <2> QED BY <2>2, <2>3
  <1>5. Row(p)'
    BY <1>3, <1>4 DEF Row
  <1> QED BY <1>1, <1>3, <1>5 DEF PairHolds

(* A teardown takes the end off its channel and shuts it: what either end  *)
(* knew of the other has no say any more.                                  *)
LEMMA DownPair ==
  ASSUME PairInv, NEW p \in Peer, View(Other(p))' = View(Other(p)),
         gen' = gen, code'[Other(p)] = code[Other(p)],
         hs' = [hs EXCEPT ![p] = Blank], chan' = [chan EXCEPT ![p] = 0],
         shut' = [shut EXCEPT ![chan[p]] = TRUE],
         wire' = [wire EXCEPT ![chan[p]][p] = <<>>],
         \A k \in tasks'[p] : \/ k \in tasks[p]
                             \/ /\ k.at = "seal" /\ k.on = chan[p]
                                /\ k.got.kind \in {"Frame", "Leave"}
  PROVE  PairHolds'
  <1> DEFINE q == Other(p)
  <1>1. /\ q \in Peer /\ q # p /\ Other(q) = p /\ Row(p) /\ Row(q)
        /\ \A r \in Peer : r = p \/ r = q
        /\ chan[p] \in 0 .. MaxConn /\ chan[q] \in 0 .. MaxConn
    BY TwoEnds, RowOf DEF PairInv, HandshakeInv, TypeOK
  <1>2. /\ hs'[p] = Blank /\ chan'[p] = 0 /\ chan'[q] = chan[q] /\ hs'[q] = hs[q]
        /\ keys'[q] = keys[q] /\ tasks'[q] = tasks[q]
    BY <1>1 DEF View, PairInv, HandshakeInv, TypeOK
  <1>3. /\ shut'[chan[p]] /\ \A c \in 0 .. MaxConn : shut[c] => shut'[c]
        /\ \A c \in 0 .. MaxConn : ~shut'[c] => ~shut[c] /\ c # chan[p]
    BY <1>1 DEF PairInv, HandshakeInv, TypeOK
  <1>4. \A c \in 0 .. MaxConn, r \in Peer : c # chan[p] => wire'[c][r] = wire[c][r]
    BY <1>1 DEF PairInv, HandshakeInv, TypeOK
  <1>5. ~Together(p)' /\ ~Together(q)'
    BY <1>1, <1>2 DEF Together
  <1>6. SharedIsOpen'
    BY <1>1, <1>5 DEF SharedIsOpen
  <1>7. Untouched'
    <2> SUFFICES ASSUME NEW c \in 0 .. MaxConn, NEW r \in Peer, ~shut'[c], chan'[r] # c
                 PROVE  wire'[c][Other(r)] = <<>>
      BY DEF Untouched
    <2>1. ~shut[c] /\ c # chan[p] /\ chan[r] # c
      BY <1>1, <1>2, <1>3
    <2>2. wire[c][Other(r)] = <<>> /\ Other(r) \in Peer
      BY <2>1, TwoEnds DEF Untouched, PairInv
    <2> QED BY <1>4, <2>1, <2>2
  <1>8. Row(p)'
    <2>1. OwnFields(p)' /\ HeardFields(p)' /\ HeardNothing(p)' /\ OutboxIsTrue(p)'
      BY <1>2, <1>5 DEF OwnFields, HeardFields, HeardNothing, OutboxIsTrue, Blank
    <2>2. ASSUME NEW k \in tasks'[p] PROVE OwnTask(p, k)' /\ HeardTask(p, k)'
      <3>1. ~InForce(p, k)'
        BY <1>2 DEF InForce
      <3>2. k.at = "seal" => shut'[k.on] /\ k.got.kind \in {"Frame", "Leave"}
        <4>1. CASE k \in tasks[p]
          <5>1. k.on \in 0 .. MaxConn
            BY <4>1 DEF PairInv, HandshakeInv, TypeOK, Tasks
          <5>2. OwnTask(p, k)
            BY <1>1, <4>1 DEF Row
          <5>3. k.at = "seal" => /\ k.got.kind \in {"Frame", "Leave"}
                                 /\ shut[k.on] \/ chan[p] = k.on
            BY <5>2 DEF OwnTask
          <5> QED BY <1>3, <5>1, <5>3
        <4>2. CASE k \notin tasks[p]
          BY <1>3, <4>2
        <4> QED BY <4>1, <4>2
      <3>3. k.at \in {"verify", "tofu"} => k.secret = None
        BY <1>1 DEF Row, OwnTask
      <3> QED BY <1>5, <3>1, <3>2, <3>3 DEF OwnTask, HeardTask
    <2> QED BY <2>1, <2>2 DEF Row
  <1>9. Row(q)'
    <2>1. OwnFields(q)'
      BY <1>1, <1>2 DEF Row, OwnFields, Mode
    <2>2. HeardFields(q)'
      BY <1>5 DEF HeardFields
    <2>3. HeardNothing(q)'
      BY <1>1, <1>2, <1>3 DEF Row, HeardNothing
    <2>4. ASSUME NEW k \in tasks[q] PROVE OwnTask(q, k)' /\ HeardTask(q, k)'
      <3>1. OwnTask(q, k) /\ k.on \in 0 .. MaxConn
        BY <1>1 DEF Row, PairInv, HandshakeInv, TypeOK, Tasks
      <3>2. OwnTask(q, k)'
        BY <1>2, <1>3, <3>1 DEF OwnTask, InForce
      <3> QED BY <1>5, <3>2 DEF HeardTask
    <2>5. OutboxIsTrue(q)'
      <3> SUFFICES ASSUME chan[q] # 0, ~shut'[chan[q]]
                   PROVE  wire'[chan[q]][p] \in Seq(True(q)')
        BY <1>1, <1>2 DEF OutboxIsTrue, Outbox
      <3>1. chan[q] # chan[p] /\ ~shut[chan[q]] /\ wire'[chan[q]][p] = wire[chan[q]][p]
        BY <1>1, <1>3, <1>4
      <3>2. wire[chan[q]][p] \in Seq(True(q)) /\ ~Together(q)
        BY <1>1, <3>1 DEF Row, OutboxIsTrue, Outbox, Together
      <3>3. True(q) \subseteq True(q)'
        BY <3>2 DEF True, Vouched
      <3> QED BY <3>1, <3>2, <3>3, SeqGrows
    <2> QED BY <1>2, <2>1, <2>2, <2>3, <2>4, <2>5 DEF Row
  <1> QED BY <1>1, <1>6, <1>7, <1>8, <1>9 DEF PairHolds

(* A step that keeps what was exchanged, and may consume a PAKE message,   *)
(* wire a session or move a coroutine on.                                  *)
LEMMA FieldsPair ==
  ASSUME PairInv, NEW p \in Peer, View(Other(p))' = View(Other(p)),
         UNCHANGED <<gen, chan, code, shut>>, Posted(p),
         /\ hs'[p].peer = hs[p].peer /\ hs'[p].transcript = hs[p].transcript
         /\ hs'[p].sigSent = hs[p].sigSent /\ hs'[p].share \in {hs[p].share, None}
         /\ hs'[p].confirm \in {hs[p].confirm, None}
         /\ hs'[p].session \in {0, gen[p], hs[p].session},
         \/ keys'[p] = keys[p]
         \/ Together(p) => HasSigned(Other(p), keys'[p].t) /\ Agreed(p, keys'[p].secret),
         \A k \in tasks'[p] : k \in tasks[p] \/ (OwnTask(p, k) /\ HeardTask(p, k))
  PROVE  PairHolds'
  <1> DEFINE q == Other(p)
  <1>1. Stays(p)
    BY DEF Stays
  <1>2. /\ Row(p) /\ hs'[q] = hs[q] /\ SecretOf(p)' = SecretOf(p)
        /\ SecretOf(q)' = SecretOf(q)
        /\ Together(p)' = Together(p)
        /\ \A t : HasSigned(q, t)' = HasSigned(q, t)
        /\ \A t : WorksOn(q, t)' = WorksOn(q, t)
        /\ \A s : Agreed(p, s)' = Agreed(p, s)
    BY <1>1, RowOf, StaysTogether DEF View
  <1>3. OwnFields(p)' /\ HeardNothing(p)'
    BY <1>2 DEF Row, OwnFields, HeardNothing, Mode
  <1>4. HeardFields(p)'
    BY <1>2 DEF Row, HeardFields
  <1>5. ASSUME NEW k, OwnTask(p, k), HeardTask(p, k)
        PROVE OwnTask(p, k)' /\ HeardTask(p, k)'
    <2>1. OwnTask(p, k)'
      BY <1>2, <1>5 DEF OwnTask, InForce
    <2>2. HeardTask(p, k)'
      BY <1>2, <1>5 DEF HeardTask
    <2> QED BY <2>1, <2>2
  <1> HIDE DEF q
  <1> QED BY <1>1, <1>3, <1>4, <1>5, StaysPair

(* A step that changes only the coroutines of the end that makes it.       *)
LEMMA PlainPair ==
  ASSUME PairInv, NEW p \in Peer, View(Other(p))' = View(Other(p)),
         UNCHANGED <<gen, chan, code, shut, wire>>, hs'[p] = hs[p], keys'[p] = keys[p],
         \A k \in tasks'[p] : k \in tasks[p] \/ (OwnTask(p, k) /\ HeardTask(p, k))
  PROVE  PairHolds'
  BY FieldsPair DEF Posted

LEMMA FailPair ==
  ASSUME PairInv, NEW p \in Peer, NEW kind, NEW origin, NEW running \in SUBSET tasks[p],
         Fail(p, kind, origin, running)
  PROVE  PairHolds'
  <1>1. View(Other(p))' = View(Other(p))
    BY TwoEnds, FailElsewhere DEF PairInv, HandshakeInv
  <1>2. tasks \in [Peer -> SUBSET Tasks] /\ hs \in [Peer -> Handshakes]
    BY DEF PairInv, HandshakeInv, TypeOK
  <1>3. CASE failure[p] # None
    <2>1. /\ UNCHANGED <<gen, chan, code, shut, wire>> /\ hs'[p] = hs[p]
          /\ keys'[p] = keys[p]
          /\ tasks'[p] \subseteq tasks[p]
      BY <1>2, <1>3 DEF Fail, orch, net
    <2> QED BY <1>1, <2>1, PlainPair
  <1>4. CASE failure[p] = None
    <2>1. /\ hs' = [hs EXCEPT ![p] = Blank] /\ chan' = [chan EXCEPT ![p] = 0]
          /\ shut' = [shut EXCEPT ![chan[p]] = TRUE]
          /\ wire' = [wire EXCEPT ![chan[p]][p] = <<>>] /\ gen' = gen /\ code' = code
          /\ tasks'[p] \subseteq tasks[p]
      BY <1>2, <1>4 DEF Fail, Teardown
    <2> QED BY <1>1, <2>1, DownPair
  <1> QED BY <1>3, <1>4

(* An end attaches the newest channel: nothing was ever sent to it there,  *)
(* and the other end, if it is already on it, has heard nothing.           *)
LEMMA AttachPair ==
  ASSUME PairInv, NEW p \in Peer, View(Other(p))' = View(Other(p)), AttachTransport(p)
  PROVE  PairHolds'
  <1> DEFINE q == Other(p)
  <1>1. /\ q \in Peer /\ q # p /\ Other(q) = p /\ Row(p) /\ Row(q) /\ Local(p) /\ Local(q)
        /\ \A r \in Peer : r = p \/ r = q
    BY TwoEnds, RowOf
  <1>2. /\ chan[p] = 0 /\ hs[p] = Blank /\ keys[p] = None /\ conn \in 0 .. MaxConn
        /\ conn # 0
        /\ ~shut[conn] /\ shut[0] /\ gen[p] \in Nat
    BY <1>1
       DEF AttachTransport, CanAttach, Local, Quiet, Live, PairInv, HandshakeInv, TypeOK,
                Strengthening
  <1>3. /\ chan'[p] = conn /\ gen'[p] = gen[p] + 1 /\ shut' = shut /\ wire' = wire
        /\ code' = code
        /\ hs' = hs /\ keys' = keys
        /\ tasks'[p] = tasks[p] \cup {Task("keygen", gen[p] + 1, None)}
        /\ tasks'[q] = tasks[q] /\ chan'[q] = chan[q] /\ gen'[q] = gen[q]
    BY <1>1 DEF AttachTransport, View, PairInv, HandshakeInv, TypeOK, net
  <1>4. wire[conn][q] = <<>>
    BY <1>2 DEF Untouched, PairInv
  <1>5. SharedIsOpen'
    <2>1. \A r \in Peer : Together(r)' => chan'[r] = conn
      BY <1>1, <1>3 DEF Together
    <2> QED BY <1>2, <1>3, <2>1 DEF SharedIsOpen
  <1>6. Untouched'
    <2> SUFFICES ASSUME NEW c \in 0 .. MaxConn, NEW r \in Peer, ~shut[c], chan'[r] # c
                 PROVE  wire[c][Other(r)] = <<>>
      BY <1>3 DEF Untouched
    <2>1. chan[r] # c
      BY <1>1, <1>2, <1>3
    <2> QED BY <2>1 DEF Untouched, PairInv
  <1>7. Row(p)'
    <2>1. OwnFields(p)' /\ HeardFields(p)' /\ HeardNothing(p)'
      BY <1>2, <1>3 DEF OwnFields, HeardFields, HeardNothing, Blank
    <2>2. ASSUME NEW k \in tasks'[p] PROVE OwnTask(p, k)' /\ HeardTask(p, k)'
      <3>1. CASE k \in tasks[p]
        <4>1. OwnTask(p, k) /\ k.gen \in Nat /\ k.gen <= gen[p]
          BY <1>1, <3>1 DEF Row, Local, WellFormed, PairInv, HandshakeInv, TypeOK, Tasks
        <4>2. k.gen # gen'[p]
          BY <1>2, <1>3, <4>1
        <4>3. k.at = "seal" => shut[k.on] /\ k.got.kind \in {"Frame", "Leave"}
          <5>1. chan[p] = 0 /\ shut[0]
            BY <1>2
          <5>2. k.at = "seal" => /\ k.got.kind \in {"Frame", "Leave"}
                                 /\ ~shut[k.on] => chan[p] = k.on
            BY <4>1 DEF OwnTask
          <5>3. ASSUME k.at = "seal", ~shut[k.on] PROVE FALSE
            <6>1. k.on = 0
              BY <5>1, <5>2, <5>3
            <6> QED BY <5>1, <5>3, <6>1
          <5> QED BY <5>2, <5>3
        <4>4. k.at \in {"verify", "tofu"} => k.secret = None
          BY <4>1 DEF OwnTask
        <4>5. OwnTask(p, k)'
          BY <1>3, <4>2, <4>3, <4>4 DEF OwnTask, InForce
        <4> QED BY <4>2, <4>5 DEF HeardTask
      <3>2. CASE k = Task("keygen", gen[p] + 1, None)
        <4>1. k.at = "keygen"
          BY <3>2 DEF Task
        <4> QED BY <4>1 DEF OwnTask, HeardTask, PakePoints, Chain, Keyed
      <3> QED BY <1>3, <3>1, <3>2
    <2>3. OutboxIsTrue(p)'
      BY <1>3, <1>4 DEF OutboxIsTrue, Outbox
    <2> QED BY <2>1, <2>2, <2>3 DEF Row
  <1>8. Row(q)'
    <2>1. chan[q] = conn => /\ hs[q].peer = 0 /\ hs[q].share = None /\ hs[q].confirm = None
                            /\ hs[q].transcript = None
      BY <1>1, <1>2 DEF Row, HeardNothing, Local, FieldsAreCurrent
    <2>2. chan[q] = conn => keys[q] = None
      <3>1. keys[q] # None => keys[q].t \in Transcripts
        BY <1>1 DEF PairInv, HandshakeInv, TypeOK, Sessions
      <3> QED BY <1>1, <2>1, <3>1, AbsenceAssumption DEF Local, SessionOf
    <2>3. Together(q)' => chan[q] = conn
      BY <1>1, <1>3 DEF Together
    <2>4. OwnFields(q)'
      BY <1>1, <1>3 DEF Row, OwnFields, Mode
    <2>5. HeardFields(q)'
      BY <1>3, <2>1, <2>2, <2>3 DEF HeardFields
    <2>6. HeardNothing(q)'
      BY <1>1, <1>2, <1>3, <2>1 DEF Row, HeardNothing
    <2>7. ASSUME NEW k \in tasks[q] PROVE OwnTask(q, k)' /\ HeardTask(q, k)'
      <3>1. OwnTask(q, k) /\ InStep(q, k)
        BY <1>1 DEF Row, Local
      <3>2. OwnTask(q, k)'
        BY <1>3, <3>1 DEF OwnTask, InForce
      <3>3. Together(q)' /\ k.gen = gen[q] => k.at \notin Chain
        BY <1>2, <2>1, <2>3, <3>1 DEF InStep
      <3>4. HeardTask(q, k)'
        BY <1>3, <3>3 DEF HeardTask, Chain, Keyed
      <3> QED BY <3>2, <3>4
    <2>8. OutboxIsTrue(q)'
      <3> SUFFICES ASSUME chan[q] # 0, ~shut[chan[q]]
                   PROVE  wire[chan[q]][p] \in Seq(True(q)')
        BY <1>1, <1>3 DEF OutboxIsTrue, Outbox
      <3>1. wire[chan[q]][p] \in Seq(True(q)) /\ ~Together(q)
        BY <1>1, <1>2 DEF Row, OutboxIsTrue, Outbox, Together
      <3>2. True(q) \subseteq True(q)'
        BY <3>1 DEF True, Vouched
      <3> QED BY <3>1, <3>2, SeqGrows
    <2> QED BY <1>3, <2>4, <2>5, <2>6, <2>7, <2>8 DEF Row
  <1> QED BY <1>1, <1>5, <1>6, <1>7, <1>8 DEF PairHolds

LEMMA CallsPair ==
  ASSUME PairInv, NEW p \in Peer, Calls(p), View(Other(p))' = View(Other(p))
  PROVE  PairHolds'
  <1>1. /\ tasks \in [Peer -> SUBSET Tasks] /\ hs \in [Peer -> Handshakes]
        /\ code \in [Peer -> Codes \cup {NoCode}] /\ Other(p) \in Peer /\ Other(p) # p
        /\ keys[p] \in Sessions \cup {None}
    BY TwoEnds DEF PairInv, HandshakeInv, TypeOK
  <1>2. CASE Start(p) \/ NotifyPeerJoined(p) \/ Retry(p)
    BY <1>2, PlainPair DEF Start, NotifyPeerJoined, Retry, net
  <1>3. CASE NotifyPeerLeft(p)
    <2>1. /\ Teardown(p, tasks[p]) /\ gen' = gen /\ code' = code
      BY <1>3 DEF NotifyPeerLeft, Disconnect
    <2> QED BY <1>1, <2>1, DownPair DEF Teardown
  <1>4. CASE AttachTransport(p)
    BY <1>4, AttachPair
  <1>5. CASE Leave(p)
    <2> DEFINE frame == [Task("seal", gen[p], None) EXCEPT
                           !.got = Sealed("Leave", keys[p]), !.on = chan[p]]
               running == tasks[p] \cup IF state[p] = "connected" /\ keys[p] # None
                                        THEN {frame} ELSE {}
    <2>1. /\ Teardown(p, running) /\ gen' = gen /\ code' = code
      BY <1>5 DEF Leave, Disconnect
    <2>2. frame.at = "seal" /\ frame.on = chan[p] /\ frame.got.kind \in {"Frame", "Leave"}
      BY DEF Task, Sealed, Message
    <2>3. tasks'[p] \subseteq tasks[p] \cup {frame}
      BY <1>1, <2>1 DEF Teardown
    <2> HIDE DEF frame, running
    <2> QED BY <1>1, <2>1, <2>2, <2>3, DownPair DEF Teardown
  <1>6. CASE Restart(p)
    <2>1. /\ Teardown(p, {}) /\ gen' = gen /\ code'[Other(p)] = code[Other(p)]
      BY <1>1, <1>6 DEF Restart
    <2> QED BY <1>1, <2>1, DownPair DEF Teardown
  <1>7. CASE SendText(p)
    <2> DEFINE t == Task("append", gen[p], None)
    <2>1. t.at = "append"
      BY DEF Task
    <2>2. OwnTask(p, t) /\ HeardTask(p, t)
      BY <2>1 DEF OwnTask, HeardTask, PakePoints, Chain, Keyed
    <2>3. /\ UNCHANGED <<gen, chan, code, shut, wire, hs, keys>>
          /\ tasks'[p] = tasks[p] \cup {t}
      BY <1>1, <1>7 DEF SendText, orch, net
    <2> HIDE DEF t
    <2> QED BY <2>2, <2>3, PlainPair
  <1> QED BY <1>2, <1>3, <1>4, <1>5, <1>6, <1>7 DEF Calls

LEMMA TimersPair ==
  ASSUME PairInv, NEW p \in Peer, Timers(p) PROVE PairHolds'
  <1>1. CASE HandshakeTimeout(p)
    BY <1>1, FailPair DEF HandshakeTimeout
  <1>2. CASE PakeTimeout(p)
    <2>1. PICK k \in tasks[p] : Fail(p, "Timeout", k.gen, tasks[p] \ {k})
      BY <1>2 DEF PakeTimeout
    <2> QED BY <2>1, FailPair
  <1> QED BY <1>1, <1>2 DEF Timers

-----------------------------------------------------------------------------
(* Messages.                                                               *)

(* A message that arrives while its sender is on the channel is true of it.*)
LEMMA HeadIsTrue ==
  ASSUME PairInv, NEW p \in Peer, chan[p] # 0, Inbox(p) # <<>>
  PROVE  /\ Head(Inbox(p)) \in Messages
         /\ Together(p) \/ shut[chan[p]]
         /\ Together(p) => Vouched(Other(p), Head(Inbox(p)))
  <1> DEFINE q == Other(p)
  <1>1. /\ q \in Peer /\ Other(q) = p /\ Row(q) /\ chan[p] \in 0 .. MaxConn
        /\ Inbox(p) \in Seq(Messages)
    BY TwoEnds, RowOf DEF PairInv, HandshakeInv, TypeOK, Inbox
  <1>2. Together(p) \/ shut[chan[p]]
    BY <1>1 DEF Untouched, PairInv, Together, Inbox
  <1>3. ASSUME Together(p) PROVE Vouched(q, Head(Inbox(p)))
    <2>1. ~shut[chan[p]] /\ chan[q] = chan[p]
      BY <1>3 DEF SharedIsOpen, PairInv, Together
    <2>2. Inbox(p) \in Seq(True(q))
      BY <1>1, <2>1 DEF Row, OutboxIsTrue, Outbox, Inbox
    <2>3. Head(Inbox(p)) \in True(q)
      BY <2>2
    <2> QED BY <2>3 DEF True
  <1> QED BY <1>1, <1>2, <1>3

LEMMA TakePosted ==
  ASSUME PairInv, NEW p \in Peer, Inbox(p) # <<>>, Consume(p) PROVE Posted(p)
  <1>1. wire \in [0 .. MaxConn -> [Peer -> Seq(Messages)]] /\ chan[p] \in 0 .. MaxConn
    BY DEF PairInv, HandshakeInv, TypeOK
  <1>2. CASE Take(p)
    BY <1>1, <1>2 DEF Take, Posted, Inbox
  <1>3. CASE UNCHANGED wire
    BY <1>3 DEF Posted
  <1> QED BY <1>2, <1>3 DEF Consume

LEMMA SendPosted ==
  ASSUME PairInv, NEW p \in Peer, NEW m \in Messages, Send(p, m),
         ~shut[chan[p]] => Vouched(p, m)'
  PROVE  Posted(p)
  <1>1. wire \in [0 .. MaxConn -> [Peer -> Seq(Messages)]] /\ chan[p] \in 0 .. MaxConn
        /\ Other(p) \in Peer
    BY OtherType DEF PairInv, HandshakeInv, TypeOK
  <1>2. CASE shut[chan[p]]
    BY <1>2 DEF Send, Posted
  <1>3. CASE ~shut[chan[p]]
    <2>1. wire' = [wire EXCEPT ![chan[p]][Other(p)] = Append(wire[chan[p]][Other(p)], m)]
      BY <1>3 DEF Send
    <2> QED BY <1>1, <1>3, <2>1 DEF Posted
  <1> QED BY <1>2, <1>3

(* An end that has a transcript heard from the other one.                  *)
LEMMA HeardFrom ==
  ASSUME PairInv, NEW p \in Peer, chan[p] # 0, hs[p].transcript # None
  PROVE  Together(p) \/ shut[chan[p]]
  BY RowOf DEF Row, HeardNothing, Local, FieldsAreCurrent, Together

(* What maybeSignAndSend leaves alone, and the mode it binds.              *)
LEMMA SignKeeps ==
  ASSUME TypeOK, NEW p \in Peer, NEW h \in Handshakes, MaybeSign(p, h)
  PROVE  /\ hs'[p].sigSent = h.sigSent /\ hs'[p].session = h.session
         /\ hs'[p].share = h.share /\ hs'[p].confirm = h.confirm
         /\ BuildTranscript(p, h).mode = Mode(p) /\ BuildTranscript(p, h) # None
         /\ \A k \in SignTasks(p, h) :
              CanSign(h) /\ k.at = "sign" /\ k.t = BuildTranscript(p, h)
  <1>1. hs'[p] = IF CanSign(h) THEN [h EXCEPT !.transcript = BuildTranscript(p, h)] ELSE h
    BY DEF MaybeSign, TypeOK
  <1>2. BuildTranscript(p, h).mode = Mode(p) /\ BuildTranscript(p, h) # None
    BY SignType, AbsenceAssumption DEF BuildTranscript
  <1>3. \A k \in SignTasks(p, h) : CanSign(h) /\ k.at = "sign" /\ k.t = BuildTranscript(p, h)
    BY DEF SignTasks, Task
  <1>4. \A t : LET n == [h EXCEPT !.transcript = t]
               IN /\ n.sigSent = h.sigSent /\ n.session = h.session
                  /\ n.share = h.share /\ n.confirm = h.confirm
    BY DEF Handshakes
  <1> QED BY <1>1, <1>2, <1>3, <1>4

(* maybeSignAndSend, run on fields that have no transcript yet.            *)
LEMMA SignPair ==
  ASSUME PairInv, NEW p \in Peer, View(Other(p))' = View(Other(p)),
         UNCHANGED <<gen, chan, code, shut, keys>>, Posted(p),
         hs[p].transcript = None, NEW h \in Handshakes, MaybeSign(p, h),
         h.transcript = None, h.sigSent = hs[p].sigSent, h.session = hs[p].session,
         h.share = hs[p].share, h.confirm = hs[p].confirm,
         h.peer = hs[p].peer \/ Together(p) \/ shut[chan[p]],
         tasks'[p] \subseteq tasks[p] \cup SignTasks(p, h)
  PROVE  PairHolds'
  <1> DEFINE q == Other(p)
  <1>1. TypeOK /\ Row(p)
    BY RowOf DEF PairInv, HandshakeInv
  <1>2. Stays(p)
    BY <1>1 DEF Stays, Row, OwnFields
  <1>3. /\ hs'[q] = hs[q] /\ SecretOf(p)' = SecretOf(p) /\ SecretOf(q)' = SecretOf(q)
        /\ Together(p)' = Together(p)
        /\ \A t : HasSigned(q, t)' = HasSigned(q, t)
        /\ \A t : WorksOn(q, t)' = WorksOn(q, t)
        /\ \A s : Agreed(p, s)' = Agreed(p, s)
    BY <1>2, StaysTogether DEF View
  <1>4. ~hs[p].sigSent
    BY <1>1 DEF Row, OwnFields
  <1>5. OwnFields(p)'
    BY <1>1, <1>4, SignKeeps, SignFields DEF Row, OwnFields, Mode
  <1>6. HeardFields(p)'
    BY <1>1, <1>3, SignKeeps DEF Row, HeardFields
  <1>7. HeardNothing(p)'
    BY <1>1, SignKeeps, SignFields DEF Row, HeardNothing, Together
  <1>8. ASSUME NEW k \in SignTasks(p, h) PROVE OwnTask(p, k)' /\ HeardTask(p, k)'
    <2>1. k.at = "sign" /\ k.t = hs'[p].transcript /\ hs'[p].transcript # None
      BY <1>1, <1>8, SignKeeps, SignFields
    <2> QED BY <2>1 DEF OwnTask, HeardTask, PakePoints, Chain, Keyed
  <1> HIDE DEF q
  <1> QED BY <1>2, <1>5, <1>6, <1>7, <1>8, StaysPair

(* A PAKE message is stored, and wakes the coroutine that waits for it.    *)
LEMMA WokenTask ==
  ASSUME NEW k \in Tasks, NEW to, NEW m
  PROVE  LET l == [k EXCEPT !.at = to, !.got = m]
         IN /\ l.at = to /\ l.got = m /\ l.gen = k.gen /\ l.t = k.t /\ l.secret = k.secret
            /\ l.on = k.on /\ l.first = k.first
  BY DEF Tasks

LEMMA SharePair ==
  ASSUME PairInv, NEW p \in Peer, View(Other(p))' = View(Other(p)),
         Arrived(p, {"PakeShare"}, {"handshaking", "verifying"}),
         hs' = [hs EXCEPT ![p].share = Head(Inbox(p))],
         Wake(p, "shareWait", "shareGot", Head(Inbox(p))), Consume(p),
         UNCHANGED <<gen, chan, code, shut, keys>>
  PROVE  PairHolds'
  <1> DEFINE q == Other(p)
             m == Head(Inbox(p))
  <1>1. /\ Row(p) /\ tasks \in [Peer -> SUBSET Tasks] /\ hs \in [Peer -> Handshakes]
    BY RowOf DEF PairInv, HandshakeInv, TypeOK
  <1>2. /\ Posted(p) /\ m.kind = "PakeShare" /\ (Together(p) \/ shut[chan[p]])
        /\ (Together(p) => Vouched(q, m)) /\ m \in Messages /\ chan[p] # 0
    BY TakePosted, HeadIsTrue DEF Arrived
  <1>3. Together(p) => m.gen = gen[q] /\ m.code = code[q]
    BY <1>2 DEF Vouched
  <1>4. /\ hs'[p].peer = hs[p].peer /\ hs'[p].transcript = hs[p].transcript
        /\ hs'[p].sigSent = hs[p].sigSent /\ hs'[p].session = hs[p].session
        /\ hs'[p].share = m /\ hs'[p].confirm = hs[p].confirm
    BY <1>1 DEF Handshakes
  <1>5. tasks'[p] = {IF k.at = "shareWait" THEN [k EXCEPT !.at = "shareGot", !.got = m] ELSE k :
                      k \in tasks[p]}
    BY <1>1 DEF Wake
  <1> HIDE DEF m
  <1>6. Stays(p)
    BY <1>2, <1>4 DEF Stays
  <1>7. /\ hs'[q] = hs[q] /\ SecretOf(p)' = SecretOf(p) /\ SecretOf(q)' = SecretOf(q)
        /\ Together(p)' = Together(p)
        /\ \A t : HasSigned(q, t)' = HasSigned(q, t)
        /\ \A t : WorksOn(q, t)' = WorksOn(q, t)
        /\ \A s : Agreed(p, s)' = Agreed(p, s)
    BY <1>6, StaysTogether DEF View
  <1>8. OwnFields(p)'
    BY <1>1, <1>4 DEF Row, OwnFields, Mode
  <1>9. HeardFields(p)'
    BY <1>1, <1>3, <1>4, <1>7 DEF Row, HeardFields
  <1>10. HeardNothing(p)'
    BY <1>2 DEF HeardNothing, Together
  <1>11. ASSUME NEW l \in tasks'[p]
         PROVE l \in tasks[p] \/ (OwnTask(p, l)' /\ HeardTask(p, l)')
    <2>1. PICK k \in tasks[p] :
             l = IF k.at = "shareWait" THEN [k EXCEPT !.at = "shareGot", !.got = m]
                                    ELSE k
      BY <1>5, <1>11
    <2>2. CASE k.at = "shareWait"
      <3>1. k \in Tasks /\ OwnTask(p, k) /\ HeardTask(p, k)
        BY <1>1 DEF Row
      <3>2. /\ l.at = "shareGot" /\ l.got = m /\ l.gen = k.gen /\ l.t = k.t
            /\ l.secret = k.secret
        BY <2>1, <2>2, <3>1, WokenTask
      <3>3. OwnTask(p, l)'
        BY <2>2, <3>1, <3>2 DEF OwnTask, InForce, PakePoints
      <3>4. Together(p) /\ l.gen = gen[p] => HasSigned(q, l.t)
        BY <2>2, <3>1, <3>2 DEF HeardTask, Chain, Keyed
      <3>5. HeardTask(p, l)'
        BY <1>3, <1>7, <3>2, <3>4 DEF HeardTask, Keyed
      <3> QED BY <3>3, <3>5
    <2> QED BY <2>1, <2>2
  <1> HIDE DEF q
  <1> QED BY <1>6, <1>8, <1>9, <1>10, <1>11, StaysPair

LEMMA ConfirmPair ==
  ASSUME PairInv, NEW p \in Peer, View(Other(p))' = View(Other(p)),
         Arrived(p, {"PakeConfirm"}, {"handshaking", "verifying"}),
         hs' = [hs EXCEPT ![p].confirm = Head(Inbox(p))],
         Wake(p, "confirmWait", "confirmGot", Head(Inbox(p))), Consume(p),
         UNCHANGED <<gen, chan, code, shut, keys>>
  PROVE  PairHolds'
  <1> DEFINE q == Other(p)
             m == Head(Inbox(p))
  <1>1. /\ Row(p) /\ tasks \in [Peer -> SUBSET Tasks] /\ hs \in [Peer -> Handshakes]
    BY RowOf DEF PairInv, HandshakeInv, TypeOK
  <1>2. /\ Posted(p) /\ m.kind = "PakeConfirm" /\ (Together(p) \/ shut[chan[p]])
        /\ (Together(p) => Vouched(q, m)) /\ m \in Messages /\ chan[p] # 0
    BY TakePosted, HeadIsTrue DEF Arrived
  <1>3. Together(p) => m.secret = SecretOf(q) /\ WorksOn(q, m.t)
    BY <1>2 DEF Vouched
  <1>4. /\ hs'[p].peer = hs[p].peer /\ hs'[p].transcript = hs[p].transcript
        /\ hs'[p].sigSent = hs[p].sigSent /\ hs'[p].session = hs[p].session
        /\ hs'[p].confirm = m /\ hs'[p].share = hs[p].share
    BY <1>1 DEF Handshakes
  <1>5. tasks'[p] = {IF k.at = "confirmWait" THEN [k EXCEPT !.at = "confirmGot", !.got = m]
                     ELSE k : k \in tasks[p]}
    BY <1>1 DEF Wake
  <1> HIDE DEF m
  <1>6. Stays(p)
    BY <1>2, <1>4 DEF Stays
  <1>7. /\ hs'[q] = hs[q] /\ SecretOf(p)' = SecretOf(p) /\ SecretOf(q)' = SecretOf(q)
        /\ Together(p)' = Together(p)
        /\ \A t : HasSigned(q, t)' = HasSigned(q, t)
        /\ \A t : WorksOn(q, t)' = WorksOn(q, t)
        /\ \A s : Agreed(p, s)' = Agreed(p, s)
    BY <1>6, StaysTogether DEF View
  <1>8. OwnFields(p)'
    BY <1>1, <1>4 DEF Row, OwnFields, Mode
  <1>9. HeardFields(p)'
    BY <1>1, <1>3, <1>4, <1>7 DEF Row, HeardFields
  <1>10. HeardNothing(p)'
    BY <1>2 DEF HeardNothing, Together
  <1>11. ASSUME NEW l \in tasks'[p]
         PROVE l \in tasks[p] \/ (OwnTask(p, l)' /\ HeardTask(p, l)')
    <2>1. PICK k \in tasks[p] :
             l = IF k.at = "confirmWait" THEN [k EXCEPT !.at = "confirmGot", !.got = m]
                                    ELSE k
      BY <1>5, <1>11
    <2>2. CASE k.at = "confirmWait"
      <3>1. k \in Tasks /\ OwnTask(p, k) /\ HeardTask(p, k)
        BY <1>1 DEF Row
      <3>2. /\ l.at = "confirmGot" /\ l.got = m /\ l.gen = k.gen /\ l.t = k.t
            /\ l.secret = k.secret
        BY <2>1, <2>2, <3>1, WokenTask
      <3>3. OwnTask(p, l)'
        BY <2>2, <3>1, <3>2 DEF OwnTask, InForce, PakePoints
      <3>4. Together(p) /\ l.gen = gen[p] => HasSigned(q, l.t) /\ l.secret = SecretOf(p)
        BY <2>2, <3>1, <3>2 DEF HeardTask, Chain, Keyed
      <3>5. HeardTask(p, l)'
        BY <1>3, <1>7, <3>2, <3>4 DEF HeardTask, Keyed
      <3> QED BY <3>3, <3>5
    <2> QED BY <2>1, <2>2
  <1> HIDE DEF q
  <1> QED BY <1>6, <1>8, <1>9, <1>10, <1>11, StaysPair

LEMMA InboundPair ==
  ASSUME PairInv, NEW p \in Peer, Inbound(p), View(Other(p))' = View(Other(p))
  PROVE  PairHolds'
  <1> DEFINE q == Other(p)
  <1>1. /\ TypeOK /\ Row(p) /\ Local(p) /\ hs[p] \in Handshakes
        /\ tasks \in [Peer -> SUBSET Tasks]
        /\ hs \in [Peer -> Handshakes] /\ gen[p] \in Nat
    BY RowOf DEF PairInv, HandshakeInv, TypeOK
  <1>2. \A kind, origin : Fail(p, kind, origin, tasks[p]) => PairHolds'
    BY FailPair
  <1>3. CASE InboundHello(p)
    <2>1. CASE hs[p].peer # 0
      BY <1>2, <1>3, <2>1 DEF InboundHello
    <2>2. CASE hs[p].peer = 0
      <3> DEFINE h == [hs[p] EXCEPT !.peer = Head(Inbox(p)).gen]
      <3>1. /\ MaybeSign(p, h) /\ tasks'[p] = tasks[p] \cup SignTasks(p, h) /\ Consume(p)
            /\ UNCHANGED <<gen, chan, code, shut, keys>> /\ chan[p] # 0 /\ Inbox(p) # <<>>
        BY <1>1, <1>3, <2>2 DEF InboundHello, Arrived
      <3>2. Head(Inbox(p)).gen \in Nat /\ (Together(p) \/ shut[chan[p]])
        BY <3>1, HeadIsTrue DEF Messages
      <3>3. /\ h \in Handshakes /\ h.transcript = hs[p].transcript
            /\ h.sigSent = hs[p].sigSent
            /\ h.session = hs[p].session /\ h.share = hs[p].share
            /\ h.confirm = hs[p].confirm
        BY <1>1, <3>2 DEF Handshakes
      <3>4. hs[p].transcript = None
        BY <1>1, <2>2 DEF Local, FieldsAreCurrent
      <3>5. Posted(p)
        BY <3>1, TakePosted
      <3> HIDE DEF h
      <3> QED BY <3>1, <3>2, <3>3, <3>4, <3>5, SignPair
    <2> QED BY <2>1, <2>2
  <1>4. CASE InboundSignature(p)
    <2>1. CASE hs[p].completing /\ Consume(p) /\ UNCHANGED <<orch, tasks, texts, disk, conn, shut>>
      <3>1. Posted(p)
        BY <1>4, <2>1, TakePosted DEF InboundSignature, Arrived
      <3> QED BY <1>1, <2>1, <3>1, FieldsPair DEF orch
    <2>2. CASE Fail(p, "HandshakeFailed", gen[p], tasks[p])
      BY <1>2, <2>2
    <2>3. CASE /\ hs' = [hs EXCEPT ![p] = Latch(@, code[p] # NoCode)]
               /\ tasks' = [tasks EXCEPT ![p] = @ \cup
                    {[Task("verify", gen[p], hs[p].transcript) EXCEPT !.got = Head(Inbox(p))]}]
               /\ Consume(p)
               /\ UNCHANGED <<state, gen, chan, keys, timer, failure, authFailed,
                              code, texts, disk, conn, shut>>
      <3> DEFINE m == Head(Inbox(p))
                 v == [Task("verify", gen[p], hs[p].transcript) EXCEPT !.got = m]
      <3>1. Posted(p) /\ m.kind = "Signature" /\ (Together(p) => Vouched(q, m))
        BY <1>4, <2>3, TakePosted, HeadIsTrue DEF InboundSignature, Arrived
      <3>2. Together(p) => HasSigned(q, m.t)
        BY <3>1 DEF Vouched
      <3>3. v.at = "verify" /\ v.got = m /\ v.secret = None
        BY DEF Task
      <3>4. OwnTask(p, v)
        BY <3>3 DEF OwnTask, PakePoints
      <3>5. HeardTask(p, v)
        BY <3>2, <3>3 DEF HeardTask, Keyed
      <3>6. tasks'[p] = tasks[p] \cup {v} /\ UNCHANGED <<gen, chan, code, shut, keys>>
        BY <1>1, <2>3
      <3>7. /\ hs'[p].peer = hs[p].peer /\ hs'[p].transcript = hs[p].transcript
            /\ hs'[p].sigSent = hs[p].sigSent /\ hs'[p].share = hs[p].share
            /\ hs'[p].confirm = hs[p].confirm /\ hs'[p].session = hs[p].session
        BY <1>1, <2>3 DEF Handshakes, Latch
      <3> HIDE DEF m, v, q
      <3> QED BY <3>1, <3>4, <3>5, <3>6, <3>7, FieldsPair
    <2> QED BY <1>4, <2>1, <2>2, <2>3 DEF InboundSignature
  <1>5. CASE InboundEarlyFrame(p)
    BY <1>2, <1>5 DEF InboundEarlyFrame
  <1>6. CASE InboundConnected(p)
    <2>1. CASE Take(p) /\ UNCHANGED <<orch, tasks, texts, disk, conn, shut>>
      <3>1. Posted(p)
        BY <1>6, <2>1, TakePosted DEF InboundConnected, Arrived, Consume
      <3> QED BY <1>1, <2>1, <3>1, FieldsPair DEF orch
    <2>2. CASE Fail(p, "Malformed", gen[p], tasks[p])
      BY <1>2, <2>2
    <2> QED BY <1>6, <2>1, <2>2 DEF InboundConnected
  <1>7. CASE DropUnattached(p)
    <2>1. /\ wire[conn][p] # <<>> /\ wire' = [wire EXCEPT ![conn][p] = Tail(wire[conn][p])]
          /\ UNCHANGED <<orch, tasks, texts, disk, conn, shut>>
      BY <1>7 DEF DropUnattached
    <2>2. Posted(p)
      BY <1>1, <2>1 DEF Posted, TypeOK
    <2> QED BY <1>1, <2>1, <2>2, FieldsPair DEF orch
  <1>8. CASE InboundPakeShare(p)
    <2>1. CASE \E kind : Fail(p, kind, gen[p], tasks[p])
      BY <1>2, <2>1
    <2>2. CASE /\ hs' = [hs EXCEPT ![p].share = Head(Inbox(p))]
               /\ Wake(p, "shareWait", "shareGot", Head(Inbox(p)))
               /\ Consume(p)
               /\ UNCHANGED <<state, gen, chan, keys, timer, failure, authFailed,
                              code, texts, disk, conn, shut>>
      <3>1. Arrived(p, {"PakeShare"}, {"handshaking", "verifying"})
        BY <1>8 DEF InboundPakeShare
      <3> QED BY <2>2, <3>1, SharePair
    <2> QED BY <1>8, <2>1, <2>2 DEF InboundPakeShare
  <1>9. CASE InboundPakeConfirm(p)
    <2>1. CASE \E kind : Fail(p, kind, gen[p], tasks[p])
      BY <1>2, <2>1
    <2>2. CASE /\ hs' = [hs EXCEPT ![p].confirm = Head(Inbox(p))]
               /\ Wake(p, "confirmWait", "confirmGot", Head(Inbox(p)))
               /\ Consume(p)
               /\ UNCHANGED <<state, gen, chan, keys, timer, failure, authFailed,
                              code, texts, disk, conn, shut>>
      <3>1. Arrived(p, {"PakeConfirm"}, {"handshaking", "verifying"})
        BY <1>9 DEF InboundPakeConfirm
      <3> QED BY <2>2, <3>1, ConfirmPair
    <2> QED BY <1>9, <2>1, <2>2 DEF InboundPakeConfirm
  <1> QED BY <1>3, <1>4, <1>5, <1>6, <1>7, <1>8, <1>9 DEF Inbound

-----------------------------------------------------------------------------
(* Coroutines.                                                             *)

(* The secret derived from the peer's share is the one this end derives    *)
(* with the handshake the peer is running.                                 *)
LEMMA SecretAgrees ==
  ASSUME TypeOK, NEW p \in Peer, NEW k, NEW m, k.gen = gen[p],
         m.gen = gen[Other(p)], m.code = code[Other(p)]
  PROVE  PakeSecret(p, k, m) = SecretOf(p)
  <1>1. [q \in Peer |-> IF q = p THEN k.gen ELSE m.gen] = gen
    BY TwoEnds DEF TypeOK
  <1> QED BY <1>1 DEF PakeSecret, SecretOf

(* Two ends whose secrets are equal hold the same code.                    *)
LEMMA SameSecret ==
  ASSUME NEW p \in Peer, SecretOf(p) = SecretOf(Other(p))
  PROVE  code[Other(p)] = code[p]
  <1>1. SecretOf(p).owner = IF code[Other(p)] = code[p] THEN None ELSE p
    BY DEF SecretOf
  <1>2. SecretOf(Other(p)).owner = IF code[p] = code[Other(p)] THEN None ELSE Other(p)
    BY TwoEnds DEF SecretOf
  <1> QED BY <1>1, <1>2, TwoEnds, NoneAssumption

(* A coroutine of the handshake in force moves on: it keeps its handshake  *)
(* and its transcript.                                                     *)
LEMMA MovePair ==
  ASSUME PairInv, NEW p \in Peer, View(Other(p))' = View(Other(p)),
         UNCHANGED <<gen, chan, code, shut>>, keys'[p] = keys[p], Posted(p),
         /\ hs'[p].peer = hs[p].peer /\ hs'[p].transcript = hs[p].transcript
         /\ hs'[p].sigSent = hs[p].sigSent /\ hs'[p].share \in {hs[p].share, None}
         /\ hs'[p].confirm \in {hs[p].confirm, None}
         /\ hs'[p].session \in {0, gen[p], hs[p].session},
         NEW k \in tasks[p], NEW l, tasks'[p] = (tasks[p] \ {k}) \cup {l},
         k.at \in Chain \ {"verify"}, l.at \in Chain \ {"verify", "tofu"},
         l.gen = k.gen, l.t = k.t, code[p] # NoCode \/ l.at \notin PakePoints,
         /\ Together(p) /\ k.gen = gen[p] =>
           /\ l.at = "shareGot" => l.got.gen = gen[Other(p)] /\ l.got.code = code[Other(p)]
           /\ l.at \in Keyed => l.secret = SecretOf(p)
           /\ l.at \in {"confirmGot", "check"} => /\ l.got.secret = SecretOf(Other(p))
                                                  /\ WorksOn(Other(p), l.got.t)
           /\ l.at \in {"derive", "store"} => Agreed(p, l.secret)
  PROVE  PairHolds'
  <1>1. OwnTask(p, k) /\ HeardTask(p, k)
    BY RowOf DEF Row
  <1>2. OwnTask(p, l)
    BY <1>1 DEF OwnTask, InForce, Chain
  <1>3. HeardTask(p, l)
    BY <1>1 DEF HeardTask, Chain
  <1> QED BY <1>2, <1>3, FieldsPair

LEMMA Running ==
  ASSUME PairInv, NEW p \in Peer, NEW k \in tasks[p]
  PROVE  /\ k \in Tasks /\ OwnTask(p, k) /\ HeardTask(p, k) /\ WellFormed(p, k)
         /\ InStep(p, k)
         /\ tasks \in [Peer -> SUBSET Tasks] /\ hs \in [Peer -> Handshakes] /\ TypeOK
         /\ OwnFields(p) /\ HeardFields(p) /\ gen[p] \in Nat /\ k.gen \in Nat
         /\ code[p] \in Codes \cup {NoCode}
         /\ ~Superseded(p, k) => InForce(p, k)
         /\ InForce(p, k) /\ k.at \in Chain =>
              /\ hs[p].transcript # None /\ k.t = hs[p].transcript
              /\ Together(p) \/ shut[chan[p]]
  <1>1. /\ k \in Tasks /\ tasks \in [Peer -> SUBSET Tasks] /\ hs \in [Peer -> Handshakes]
        /\ TypeOK
        /\ gen[p] \in Nat /\ code[p] \in Codes \cup {NoCode}
    BY DEF PairInv, HandshakeInv, TypeOK
  <1>2. /\ OwnTask(p, k) /\ HeardTask(p, k) /\ WellFormed(p, k) /\ InStep(p, k)
        /\ OwnFields(p) /\ HeardFields(p)
    BY RowOf DEF Row, Local
  <1>3. k.gen \in Nat
    BY <1>1 DEF Tasks
  <1>4. ~Superseded(p, k) => InForce(p, k)
    BY DEF Superseded, InForce
  <1>5. InForce(p, k) /\ k.at \in Chain =>
          /\ hs[p].transcript # None /\ k.t = hs[p].transcript
          /\ Together(p) \/ shut[chan[p]]
    BY <1>2, HeardFrom DEF InStep, InForce
  <1> QED BY <1>1, <1>2, <1>3, <1>4, <1>5

LEMMA KeygenPair ==
  ASSUME PairInv, NEW p \in Peer, NEW k \in tasks[p], KeygenDone(p, k),
         View(Other(p))' = View(Other(p))
  PROVE  PairHolds'
  <1> DEFINE h == [hs[p] EXCEPT !.own = gen[p]]
  <1>1. /\ MaybeSign(p, h) /\ tasks'[p] = (tasks[p] \ {k}) \cup SignTasks(p, h)
        /\ Send(p, Hello(gen[p])) /\ UNCHANGED <<gen, chan, code, shut, keys>>
        /\ k.at = "keygen" /\ k.gen = gen[p] /\ chan[p] # 0
    BY Running DEF KeygenDone, Resume, KeygenSuperseded
  <1>2. hs[p].transcript = None
    BY <1>1, Running, RowOf DEF InStep, Local, FieldsAreCurrent
  <1>3. /\ h \in Handshakes /\ h.transcript = hs[p].transcript /\ h.sigSent = hs[p].sigSent
        /\ h.session = hs[p].session /\ h.share = hs[p].share /\ h.confirm = hs[p].confirm
        /\ h.peer = hs[p].peer
    BY Running DEF Handshakes
  <1>4. Hello(gen[p]) \in Messages /\ Hello(gen[p]).kind = "Hello"
    BY Running, MessageType DEF Hello, Message, Kinds
  <1>5. Posted(p)
    BY <1>1, <1>4, SendPosted DEF Vouched
  <1> HIDE DEF h
  <1> QED BY <1>1, <1>2, <1>3, <1>5, SignPair

(* A signature is sent over the transcript in force, to an end that is on  *)
(* the channel.                                                            *)
LEMMA SignDonePosts ==
  ASSUME PairInv, NEW p \in Peer, NEW k \in tasks[p], SignDone(p, k),
         View(Other(p))' = View(Other(p))
  PROVE  Posted(p)
  <1> DEFINE m == Signature(k.t)
  <1>1. /\ Send(p, m) /\ hs' = [hs EXCEPT ![p].sigSent = TRUE]
        /\ UNCHANGED <<gen, chan, code, shut>> /\ k.at = "sign" /\ InForce(p, k)
    BY Running DEF SignDone, Resume
  <1>2. hs[p].transcript # None /\ k.t = hs[p].transcript /\ (Together(p) \/ shut[chan[p]])
    BY <1>1, Running, HeardFrom DEF OwnTask, InForce
  <1>3. hs'[p].transcript = hs[p].transcript /\ hs'[p].sigSent
    BY <1>1, Running DEF Handshakes
  <1>4. m.kind = "Signature" /\ m.t = k.t /\ m \in Messages
    <2>1. k.t \in Transcripts \cup {None}
      BY Running DEF Tasks
    <2> QED BY <2>1, MessageType DEF Signature, Message, Kinds
  <1>5. Together(p)' = Together(p)
    BY <1>1, TwoEnds DEF Together
  <1>6. ~shut[chan[p]] => Vouched(p, m)'
    BY <1>2, <1>3, <1>4, <1>5 DEF Vouched, HasSigned
  <1> QED BY <1>1, <1>4, <1>6, SendPosted

LEMMA SignDonePair ==
  ASSUME PairInv, NEW p \in Peer, NEW k \in tasks[p], SignDone(p, k),
         View(Other(p))' = View(Other(p))
  PROVE  PairHolds'
  <1> DEFINE q == Other(p)
             m == Signature(k.t)
  <1>1. /\ Send(p, m) /\ hs' = [hs EXCEPT ![p].sigSent = TRUE]
        /\ tasks'[p] \subseteq tasks[p]
        /\ UNCHANGED <<gen, chan, code, shut, keys>> /\ k.at = "sign" /\ InForce(p, k)
    BY Running DEF SignDone, Resume
  <1>2. hs[p].transcript # None /\ k.t = hs[p].transcript /\ (Together(p) \/ shut[chan[p]])
    BY <1>1, Running, HeardFrom DEF OwnTask, InForce
  <1>3. /\ hs'[p].peer = hs[p].peer /\ hs'[p].transcript = hs[p].transcript
        /\ hs'[p].sigSent /\ hs'[p].session = hs[p].session
        /\ hs'[p].share = hs[p].share /\ hs'[p].confirm = hs[p].confirm
    BY <1>1, Running DEF Handshakes
  <1>5. Together(p)' = Together(p)
    BY <1>1, TwoEnds DEF Together
  <1>7. Posted(p)
    BY SignDonePosts
  <1>8. Stays(p)
    BY <1>1, <1>3, <1>7 DEF Stays
  <1>9. OwnFields(p)'
    BY <1>1, <1>2, <1>3, Running DEF OwnFields, Mode
  <1>10. HeardFields(p)'
    <2>1. /\ SecretOf(p)' = SecretOf(p) /\ SecretOf(q)' = SecretOf(q)
          /\ \A t : HasSigned(q, t)' = HasSigned(q, t)
          /\ \A t : WorksOn(q, t)' = WorksOn(q, t)
          /\ \A s : Agreed(p, s)' = Agreed(p, s)
      BY <1>8, StaysTogether
    <2> HIDE DEF q
    <2> QED BY <1>1, <1>3, <1>5, <2>1, Running DEF HeardFields, q
  <1>11. HeardNothing(p)'
    BY <1>1, <1>2, TwoEnds DEF HeardNothing, Together
  <1> QED BY <1>1, <1>8, <1>9, <1>10, <1>11, StaysPair

LEMMA VerifyPair ==
  ASSUME PairInv, NEW p \in Peer, NEW k \in tasks[p], VerifyDone(p, k),
         View(Other(p))' = View(Other(p))
  PROVE  PairHolds'
  <1>1. CASE Fail(p, "SignatureMismatch", k.gen, tasks[p] \ {k})
    BY <1>1, FailPair
  <1>2. CASE SignatureHolds(k)
    <2> DEFINE l == [k EXCEPT !.at = "tofu"]
    <2>1. /\ tasks'[p] = (tasks[p] \ {k}) \cup {l}
          /\ UNCHANGED <<gen, chan, hs, keys, code, shut, wire>> /\ k.at = "verify"
      BY <1>2, Running DEF VerifyDone, Resume, net
    <2>2. l.at = "tofu" /\ l.gen = k.gen /\ l.t = k.t /\ l.secret = k.secret
      BY Running DEF Tasks
    <2>3. OwnTask(p, l)
      BY <2>1, <2>2, Running DEF OwnTask, PakePoints
    <2>4. HeardTask(p, l)
      BY <1>2, <2>1, <2>2, Running DEF HeardTask, Keyed, SignatureHolds
    <2> HIDE DEF l
    <2> QED BY <2>1, <2>3, <2>4, PlainPair
  <1> QED BY <1>1, <1>2 DEF VerifyDone

LEMMA TofuPair ==
  ASSUME PairInv, NEW p \in Peer, NEW k \in tasks[p], TofuDone(p, k),
         View(Other(p))' = View(Other(p))
  PROVE  PairHolds'
  <1>1. CASE Fail(p, "IdentityChanged", k.gen, tasks[p] \ {k})
    BY <1>1, FailPair
  <1>2. CASE IdentityUnchanged(p)
    <2> DEFINE l == [k EXCEPT !.at = IF code[p] = NoCode THEN "derive" ELSE "create",
                              !.first = (pinned[p] = "nobody")]
    <2>1. /\ tasks'[p] = (tasks[p] \ {k}) \cup {l} /\ k.at = "tofu"
          /\ UNCHANGED <<gen, chan, hs, keys, code, shut, wire>>
      BY <1>2, Running DEF TofuDone, Resume, orch, net
    <2>2. /\ l.at = IF code[p] = NoCode THEN "derive" ELSE "create"
          /\ l.gen = k.gen /\ l.t = k.t /\ l.secret = k.secret
      BY Running DEF Tasks
    <2>3. k.secret = None
      BY <2>1, Running DEF OwnTask
    <2> HIDE DEF l
    <2>4. /\ hs'[p].peer = hs[p].peer /\ hs'[p].transcript = hs[p].transcript
          /\ hs'[p].sigSent = hs[p].sigSent /\ hs'[p].share \in {hs[p].share, None}
          /\ hs'[p].confirm \in {hs[p].confirm, None}
          /\ hs'[p].session \in {0, gen[p], hs[p].session}
          /\ keys'[p] = keys[p] /\ Posted(p)
      BY <2>1 DEF Posted
    <2>5. /\ k.at \in Chain \ {"verify"} /\ l.at \in Chain \ {"verify", "tofu"}
          /\ code[p] # NoCode \/ l.at \notin PakePoints
          /\ l.at \notin Keyed \cup {"shareGot", "confirmGot", "check", "store"}
          /\ l.at = "derive" => Agreed(p, l.secret)
      BY <2>1, <2>2, <2>3 DEF Chain, PakePoints, Keyed, Agreed
    <2> QED BY <2>1, <2>2, <2>4, <2>5, MovePair
  <1> QED BY <1>1, <1>2 DEF TofuDone

(* Our share is sent to an end that is on the channel; the peer's, if it is*)
(* here, gives the secret of the two handshakes.                           *)
LEMMA CreatePosts ==
  ASSUME PairInv, NEW p \in Peer, NEW k \in tasks[p], CreateDone(p, k),
         View(Other(p))' = View(Other(p))
  PROVE  Posted(p)
  <1> DEFINE m == PakeShare(k.gen, code[p])
  <1>1. /\ Send(p, m) /\ UNCHANGED <<gen, chan, code, shut>>
        /\ k.at = "create" /\ InForce(p, k)
    BY Running DEF CreateDone
  <1>2. /\ k.gen = gen[p] /\ code[p] # NoCode /\ (Together(p) \/ shut[chan[p]])
    BY <1>1, Running DEF InForce, OwnTask, PakePoints, Chain
  <1>3. m \in Messages /\ m.kind = "PakeShare" /\ m.gen = gen[p] /\ m.code = code[p]
    BY <1>2, Running, MessageType DEF PakeShare, Message, Kinds
  <1>4. Together(p)' = Together(p)
    BY <1>1, TwoEnds DEF Together
  <1>5. ~shut[chan[p]] => Vouched(p, m)'
    BY <1>1, <1>2, <1>3, <1>4 DEF Vouched
  <1> QED BY <1>1, <1>3, <1>5, SendPosted

LEMMA CreatePair ==
  ASSUME PairInv, NEW p \in Peer, NEW k \in tasks[p], CreateDone(p, k),
         View(Other(p))' = View(Other(p))
  PROVE  PairHolds'
  <1> DEFINE q == Other(p)
             m == PakeShare(k.gen, code[p])
             w == [k EXCEPT !.at = "shareWait"]
             f == [k EXCEPT !.at = "finish", !.secret = PakeSecret(p, k, hs[p].share)]
  <1>1. /\ Send(p, m) /\ UNCHANGED <<gen, chan, code, shut, keys>>
        /\ k.at = "create" /\ InForce(p, k)
    BY Running DEF CreateDone
  <1>2. /\ k.gen = gen[p] /\ code[p] # NoCode /\ (Together(p) \/ shut[chan[p]])
    BY <1>1, Running DEF InForce, OwnTask, PakePoints, Chain
  <1>4. Posted(p)
    BY CreatePosts
  <1>5. CASE hs[p].share = None
    <2>1. hs' = [hs EXCEPT ![p].session = k.gen] /\ tasks'[p] = (tasks[p] \ {k}) \cup {w}
      BY <1>5, Running DEF CreateDone, Resume
    <2>2. /\ hs'[p].peer = hs[p].peer /\ hs'[p].transcript = hs[p].transcript
          /\ hs'[p].sigSent = hs[p].sigSent /\ hs'[p].share = hs[p].share
          /\ hs'[p].confirm = hs[p].confirm /\ hs'[p].session = gen[p]
      BY <1>2, <2>1, Running DEF Handshakes
    <2>3. w.at = "shareWait" /\ w.gen = k.gen /\ w.t = k.t
      BY Running DEF Tasks
    <2>4. /\ k.at \in Chain \ {"verify"} /\ w.at \in Chain \ {"verify", "tofu"}
          /\ w.at \notin Keyed \cup {"shareGot", "confirmGot", "check", "derive", "store"}
      BY <1>1, <2>3 DEF Chain, Keyed
    <2> HIDE DEF w
    <2> QED BY <1>1, <1>2, <1>4, <2>1, <2>2, <2>3, <2>4, MovePair
  <1>6. CASE hs[p].share # None
    <2>1. /\ hs' = [hs EXCEPT ![p].session = 0, ![p].share = None]
          /\ tasks'[p] = (tasks[p] \ {k}) \cup {f}
      BY <1>6, Running DEF CreateDone, Resume
    <2>2. /\ hs'[p].peer = hs[p].peer /\ hs'[p].transcript = hs[p].transcript
          /\ hs'[p].sigSent = hs[p].sigSent /\ hs'[p].share = None
          /\ hs'[p].confirm = hs[p].confirm /\ hs'[p].session = 0
      BY <2>1, Running DEF Handshakes
    <2>3. /\ f.at = "finish" /\ f.gen = k.gen /\ f.t = k.t
          /\ f.secret = PakeSecret(p, k, hs[p].share)
      BY Running DEF Tasks
    <2>4. /\ k.at \in Chain \ {"verify"} /\ f.at \in Chain \ {"verify", "tofu"}
          /\ f.at \notin {"shareGot", "confirmGot", "check", "derive", "store"}
      BY <1>1, <2>3 DEF Chain
    <2>5. Together(p) => f.secret = SecretOf(p)
      <3>1. Together(p) => hs[p].share.gen = gen[q] /\ hs[p].share.code = code[q]
        BY <1>6, Running DEF HeardFields
      <3> QED BY <1>2, <2>3, <3>1, Running, SecretAgrees
    <2> HIDE DEF f
    <2> QED BY <1>1, <1>2, <1>4, <2>1, <2>2, <2>3, <2>4, <2>5, MovePair
  <1> QED BY <1>5, <1>6

LEMMA ShareResumedPair ==
  ASSUME PairInv, NEW p \in Peer, NEW k \in tasks[p], ShareResumed(p, k),
         View(Other(p))' = View(Other(p))
  PROVE  PairHolds'
  <1> DEFINE f == [k EXCEPT !.at = "finish", !.secret = PakeSecret(p, k, k.got)]
  <1>1. /\ hs' = [hs EXCEPT ![p].session = 0, ![p].share = None]
        /\ tasks'[p] = (tasks[p] \ {k}) \cup {f} /\ Posted(p)
        /\ UNCHANGED <<gen, chan, code, shut, keys>> /\ k.at = "shareGot"
        /\ hs[p].session = k.gen
    BY Running DEF ShareResumed, Resume, Posted, net
  <1>2. /\ hs'[p].peer = hs[p].peer /\ hs'[p].transcript = hs[p].transcript
        /\ hs'[p].sigSent = hs[p].sigSent /\ hs'[p].share = None
        /\ hs'[p].confirm = hs[p].confirm /\ hs'[p].session = 0
    BY <1>1, Running DEF Handshakes
  <1>3. k.gen = gen[p] /\ chan[p] # 0
    <2>1. k.gen # 0
      BY <1>1, Running DEF WellFormed, Chain
    <2>2. chan[p] = 0 => hs[p].session = 0
      BY RowOf DEF Local, Quiet, Blank
    <2> QED BY <1>1, <2>1, <2>2, Running DEF OwnFields
  <1>4. code[p] # NoCode
    BY <1>1, <1>3, Running DEF OwnTask, InForce, PakePoints
  <1>5. /\ f.at = "finish" /\ f.gen = k.gen /\ f.t = k.t
        /\ f.secret = PakeSecret(p, k, k.got)
    BY Running DEF Tasks
  <1>6. /\ k.at \in Chain \ {"verify"} /\ f.at \in Chain \ {"verify", "tofu"}
        /\ f.at \notin {"shareGot", "confirmGot", "check", "derive", "store"}
    BY <1>1, <1>5 DEF Chain
  <1>7. Together(p) => f.secret = SecretOf(p)
    <2>1. Together(p) => k.got.gen = gen[Other(p)] /\ k.got.code = code[Other(p)]
      BY <1>1, <1>3, Running DEF HeardTask
    <2> QED BY <1>3, <1>5, <2>1, Running, SecretAgrees
  <1> HIDE DEF f
  <1> QED BY <1>1, <1>2, <1>4, <1>5, <1>6, <1>7, MovePair

LEMMA FinishPair ==
  ASSUME PairInv, NEW p \in Peer, NEW k \in tasks[p], FinishDone(p, k),
         View(Other(p))' = View(Other(p))
  PROVE  PairHolds'
  <1> DEFINE l == [k EXCEPT !.at = "tag"]
  <1>1. /\ tasks'[p] = (tasks[p] \ {k}) \cup {l} /\ k.at = "finish" /\ InForce(p, k)
        /\ UNCHANGED <<gen, chan, hs, keys, code, shut, wire>>
    BY Running DEF FinishDone, Resume, orch, net
  <1>2. l.at = "tag" /\ l.gen = k.gen /\ l.t = k.t /\ l.secret = k.secret
    BY Running DEF Tasks
  <1>3. OwnTask(p, l)
    BY <1>1, <1>2, Running DEF OwnTask, PakePoints
  <1>4. HeardTask(p, l)
    BY <1>1, <1>2, Running DEF HeardTask, Keyed, Chain
  <1> HIDE DEF l
  <1> QED BY <1>1, <1>3, <1>4, PlainPair

(* The tag is sent under the secret of the two handshakes.                 *)
LEMMA TagPosts ==
  ASSUME PairInv, NEW p \in Peer, NEW k \in tasks[p], TagDone(p, k),
         View(Other(p))' = View(Other(p))
  PROVE  Posted(p)
  <1> DEFINE m == PakeConfirm(k.t, k.secret)
  <1>1. /\ Send(p, m) /\ UNCHANGED <<gen, chan, code, shut>>
        /\ k.at = "tag" /\ InForce(p, k)
    BY Running DEF TagDone
  <1>2. /\ k.gen = gen[p] /\ (Together(p) \/ shut[chan[p]])
        /\ Together(p) => k.secret = SecretOf(p)
    BY <1>1, Running DEF InForce, HeardTask, Chain, Keyed
  <1>3. m \in Messages /\ m.kind = "PakeConfirm" /\ m.secret = k.secret /\ m.t = k.t
    <2>1. k.t \in Transcripts \cup {None} /\ k.secret \in Secrets \cup {None}
      BY Running DEF Tasks
    <2> QED BY <2>1, MessageType DEF PakeConfirm, Message, Kinds
  <1>4. Together(p)' = Together(p) /\ SecretOf(p)' = SecretOf(p)
    BY <1>1, TwoEnds DEF Together, SecretOf
  <1>5. WorksOn(p, m.t)'
    <2>1. hs'[p].transcript = hs[p].transcript
      BY <1>1, Running DEF TagDone, Handshakes
    <2> QED BY <1>1, <1>3, <2>1, Running DEF WorksOn, Chain
  <1>6. ~shut[chan[p]] => Vouched(p, m)'
    BY <1>1, <1>2, <1>3, <1>4, <1>5 DEF Vouched
  <1> QED BY <1>1, <1>3, <1>6, SendPosted

LEMMA TagPair ==
  ASSUME PairInv, NEW p \in Peer, NEW k \in tasks[p], TagDone(p, k),
         View(Other(p))' = View(Other(p))
  PROVE  PairHolds'
  <1> DEFINE q == Other(p)
             m == PakeConfirm(k.t, k.secret)
             w == [k EXCEPT !.at = "confirmWait"]
             c == [k EXCEPT !.at = "check", !.got = hs[p].confirm]
  <1>1. /\ Send(p, m) /\ UNCHANGED <<gen, chan, code, shut, keys>>
        /\ k.at = "tag" /\ InForce(p, k)
    BY Running DEF TagDone
  <1>2. /\ k.gen = gen[p] /\ code[p] # NoCode /\ (Together(p) \/ shut[chan[p]])
        /\ Together(p) => k.secret = SecretOf(p)
    BY <1>1, Running DEF InForce, OwnTask, HeardTask, PakePoints, Chain, Keyed
  <1>4. Posted(p)
    BY TagPosts
  <1>5. CASE hs[p].confirm = None
    <2>1. hs' = hs /\ tasks'[p] = (tasks[p] \ {k}) \cup {w}
      BY <1>5, Running DEF TagDone, Resume
    <2>2. w.at = "confirmWait" /\ w.gen = k.gen /\ w.t = k.t /\ w.secret = k.secret
      BY Running DEF Tasks
    <2>3. /\ k.at \in Chain \ {"verify"} /\ w.at \in Chain \ {"verify", "tofu"}
          /\ w.at \notin {"shareGot", "confirmGot", "check", "derive", "store"}
      BY <1>1, <2>2 DEF Chain
    <2> HIDE DEF w
    <2> QED BY <1>1, <1>2, <1>4, <2>1, <2>2, <2>3, MovePair
  <1>6. CASE hs[p].confirm # None
    <2>1. hs' = [hs EXCEPT ![p].confirm = None] /\ tasks'[p] = (tasks[p] \ {k}) \cup {c}
      BY <1>6, Running DEF TagDone, Resume
    <2>2. /\ hs'[p].peer = hs[p].peer /\ hs'[p].transcript = hs[p].transcript
          /\ hs'[p].sigSent = hs[p].sigSent /\ hs'[p].share = hs[p].share
          /\ hs'[p].confirm = None /\ hs'[p].session = hs[p].session
      BY <2>1, Running DEF Handshakes
    <2>3. /\ c.at = "check" /\ c.gen = k.gen /\ c.t = k.t /\ c.secret = k.secret
          /\ c.got = hs[p].confirm
      BY Running DEF Tasks
    <2>4. /\ k.at \in Chain \ {"verify"} /\ c.at \in Chain \ {"verify", "tofu"}
          /\ c.at \notin {"shareGot", "derive", "store"}
      BY <1>1, <2>3 DEF Chain
    <2>5. Together(p) => c.got.secret = SecretOf(q) /\ WorksOn(q, c.got.t)
      BY <1>6, <2>3, Running DEF HeardFields
    <2> HIDE DEF c
    <2> QED BY <1>1, <1>2, <1>4, <2>1, <2>2, <2>3, <2>4, <2>5, MovePair
  <1> QED BY <1>5, <1>6

LEMMA ConfirmResumedPair ==
  ASSUME PairInv, NEW p \in Peer, NEW k \in tasks[p], ConfirmResumed(p, k),
         View(Other(p))' = View(Other(p))
  PROVE  PairHolds'
  <1> DEFINE l == [k EXCEPT !.at = "check"]
  <1>1. /\ hs' = [hs EXCEPT ![p].confirm = None] /\ tasks'[p] = (tasks[p] \ {k}) \cup {l}
        /\ Posted(p) /\ UNCHANGED <<gen, chan, code, shut, keys>>
        /\ k.at = "confirmGot" /\ InForce(p, k)
    BY Running DEF ConfirmResumed, Resume, Posted, net
  <1>2. /\ hs'[p].peer = hs[p].peer /\ hs'[p].transcript = hs[p].transcript
        /\ hs'[p].sigSent = hs[p].sigSent /\ hs'[p].share = hs[p].share
        /\ hs'[p].confirm = None /\ hs'[p].session = hs[p].session
    BY <1>1, Running DEF Handshakes
  <1>3. l.at = "check" /\ l.gen = k.gen /\ l.t = k.t /\ l.secret = k.secret /\ l.got = k.got
    BY Running DEF Tasks
  <1>4. OwnTask(p, l)
    BY <1>1, <1>3, Running DEF OwnTask, PakePoints
  <1>5. HeardTask(p, l)
    BY <1>1, <1>3, Running DEF HeardTask, Keyed, Chain
  <1> HIDE DEF l
  <1> QED BY <1>1, <1>2, <1>4, <1>5, FieldsPair

(* Equal tags mean equal secrets, and equal secrets one code.              *)
LEMMA CheckPair ==
  ASSUME PairInv, NEW p \in Peer, NEW k \in tasks[p], CheckDone(p, k),
         View(Other(p))' = View(Other(p))
  PROVE  PairHolds'
  <1>1. CASE Fail(p, "PakeMismatch", k.gen, tasks[p] \ {k})
    BY <1>1, FailPair
  <1>2. CASE TagMatches(k)
    <2> DEFINE l == [k EXCEPT !.at = "derive"]
    <2>1. /\ tasks'[p] = (tasks[p] \ {k}) \cup IF Superseded(p, k) THEN {} ELSE {l}
          /\ UNCHANGED <<gen, chan, hs, keys, code, shut, wire>> /\ k.at = "check"
      BY <1>2, Running DEF CheckDone, Resume, orch, net
    <2>2. l.at = "derive" /\ l.gen = k.gen /\ l.t = k.t /\ l.secret = k.secret
      BY Running DEF Tasks
    <2>3. ASSUME ~Superseded(p, k) PROVE OwnTask(p, l) /\ HeardTask(p, l)
      <3>1. InForce(p, k) /\ code[p] # NoCode
        BY <2>1, <2>3, Running DEF OwnTask, PakePoints
      <3>2. Together(p) => Agreed(p, l.secret) /\ HasSigned(Other(p), l.t)
        <4>1. Together(p) => /\ k.secret = SecretOf(p) /\ k.got.secret = SecretOf(Other(p))
                             /\ HasSigned(Other(p), k.t)
          BY <2>1, <3>1, Running DEF HeardTask, Keyed, Chain, InForce
        <4>2. Together(p) => code[Other(p)] = code[p]
          BY <1>2, <4>1, SameSecret DEF TagMatches
        <4> QED BY <2>2, <3>1, <4>1, <4>2 DEF Agreed
      <3>3. OwnTask(p, l)
        BY <2>2 DEF OwnTask, PakePoints
      <3> QED BY <2>2, <3>2, <3>3 DEF HeardTask, Keyed
    <2> HIDE DEF l
    <2> QED BY <2>1, <2>3, PlainPair
  <1> QED BY <1>1, <1>2 DEF CheckDone

LEMMA EstablishPair ==
  ASSUME PairInv, NEW p \in Peer, NEW k \in tasks[p], Establish(p, k),
         View(Other(p))' = View(Other(p)), k.at \in {"derive", "store"}, InForce(p, k)
  PROVE  PairHolds'
  <1>1. /\ UNCHANGED <<gen, chan, code, shut, hs>> /\ tasks'[p] = tasks[p] \ {k}
        /\ Posted(p)
    BY Running DEF Establish, Resume, Posted, net
  <1>2. keys'[p].t = k.t /\ keys'[p].secret = k.secret
    <2>1. keys \in [Peer -> Sessions \cup {None}]
      BY Running DEF TypeOK
    <2> QED BY <2>1 DEF Establish, SessionFor
  <1>3. Together(p) => HasSigned(Other(p), keys'[p].t) /\ Agreed(p, keys'[p].secret)
    BY <1>2, Running DEF HeardTask, InForce, Chain
  <1> QED BY <1>1, <1>3, FieldsPair

LEMMA DerivePair ==
  ASSUME PairInv, NEW p \in Peer, NEW k \in tasks[p], DeriveDone(p, k),
         View(Other(p))' = View(Other(p))
  PROVE  PairHolds'
  <1>1. k.at = "derive" /\ InForce(p, k)
    BY Running DEF DeriveDone
  <1>2. CASE k.first
    <2> DEFINE l == [k EXCEPT !.at = "store"]
    <2>1. /\ tasks'[p] = (tasks[p] \ {k}) \cup {l}
          /\ UNCHANGED <<gen, chan, hs, keys, code, shut, wire>>
      BY <1>2, Running DEF DeriveDone, Resume, orch, net
    <2>2. l.at = "store" /\ l.gen = k.gen /\ l.t = k.t /\ l.secret = k.secret
      BY Running DEF Tasks
    <2>3. OwnTask(p, l)
      BY <2>2 DEF OwnTask, PakePoints
    <2>4. HeardTask(p, l)
      BY <1>1, <2>2, Running DEF HeardTask, Keyed, Chain
    <2> HIDE DEF l
    <2> QED BY <2>1, <2>3, <2>4, PlainPair
  <1>3. CASE ~k.first
    BY <1>1, <1>3, EstablishPair DEF DeriveDone
  <1> QED BY <1>2, <1>3

LEMMA StorePair ==
  ASSUME PairInv, NEW p \in Peer, NEW k \in tasks[p], StoreDone(p, k),
         View(Other(p))' = View(Other(p))
  PROVE  PairHolds'
  <1>1. CASE Superseded(p, k)
    <2>1. /\ tasks'[p] = tasks[p] \ {k}
          /\ UNCHANGED <<gen, chan, hs, keys, code, shut, wire>>
      BY <1>1, Running DEF StoreDone, Resume, orch, net
    <2> QED BY <2>1, PlainPair
  <1>2. CASE ~Superseded(p, k)
    BY <1>2, Running, EstablishPair DEF StoreDone
  <1> QED BY <1>1, <1>2

(* A frame is sealed for the channel its session is on, and reaches only   *)
(* that channel.                                                           *)
LEMMA AppendPair ==
  ASSUME PairInv, NEW p \in Peer, NEW k \in tasks[p], AppendDone(p, k),
         View(Other(p))' = View(Other(p))
  PROVE  PairHolds'
  <1> DEFINE s == [Task("seal", gen[p], None) EXCEPT
                     !.got = Sealed("Frame", keys[p]), !.on = chan[p]]
  <1>1. /\ tasks'[p] \subseteq tasks[p] \cup {s}
        /\ UNCHANGED <<gen, chan, hs, keys, code, shut, wire>>
    BY Running DEF AppendDone, Resume, orch, net
  <1>2. s.at = "seal" /\ s.on = chan[p] /\ s.got.kind = "Frame"
    BY DEF Task, Sealed, Message
  <1> HIDE DEF s
  <1>3. OwnTask(p, s) /\ HeardTask(p, s)
    BY <1>2 DEF OwnTask, HeardTask, PakePoints, Chain, Keyed
  <1> QED BY <1>1, <1>3, PlainPair

LEMMA SealPosts ==
  ASSUME PairInv, NEW p \in Peer, NEW k \in tasks[p], SealDone(p, k),
         View(Other(p))' = View(Other(p))
  PROVE  Posted(p)
  <1>1. /\ k.got \in Messages /\ k.got.kind \in {"Frame", "Leave"}
        /\ k.on \in 0 .. MaxConn /\ (~shut[k.on] => chan[p] = k.on)
    BY Running DEF SealDone, OwnTask, WellFormed, Woken, Tasks
  <1>2. /\ wire \in [0 .. MaxConn -> [Peer -> Seq(Messages)]] /\ Other(p) \in Peer
        /\ Vouched(p, k.got)'
    BY <1>1, Running, OtherType DEF TypeOK, Vouched
  <1>3. CASE shut[k.on]
    BY <1>3 DEF SealDone, Posted
  <1>4. CASE ~shut[k.on]
    <2>1. wire' = [wire EXCEPT ![k.on][Other(p)] = Append(wire[k.on][Other(p)], k.got)]
      BY <1>4 DEF SealDone
    <2> QED BY <1>1, <1>2, <1>4, <2>1 DEF Posted
  <1> QED BY <1>3, <1>4

LEMMA SealPair ==
  ASSUME PairInv, NEW p \in Peer, NEW k \in tasks[p], SealDone(p, k),
         View(Other(p))' = View(Other(p))
  PROVE  PairHolds'
  <1>1. /\ tasks'[p] = tasks[p] \ {k} /\ UNCHANGED <<gen, chan, hs, keys, code, shut>>
    BY Running DEF SealDone, Resume, orch
  <1> QED BY <1>1, SealPosts, FieldsPair

LEMMA CoroutinePair ==
  ASSUME PairInv, NEW p \in Peer, Coroutine(p), View(Other(p))' = View(Other(p))
  PROVE  PairHolds'
  <1>1. PICK k \in tasks[p] :
          \/ Abandon(p, k)    \/ SendThrows(p, k)     \/ KeygenDone(p, k)
          \/ SignDone(p, k)   \/ VerifyDone(p, k)     \/ TofuDone(p, k)
          \/ CreateDone(p, k) \/ ShareResumed(p, k)   \/ FinishDone(p, k)
          \/ TagDone(p, k)    \/ ConfirmResumed(p, k) \/ CheckDone(p, k)
          \/ DeriveDone(p, k) \/ StoreDone(p, k)      \/ RepositoryRejects(p, k)
          \/ AppendDone(p, k) \/ SealDone(p, k)
    BY DEF Coroutine
  <1>2. CASE Abandon(p, k)
    <2>1. /\ tasks'[p] = tasks[p] \ {k}
          /\ UNCHANGED <<gen, chan, hs, keys, code, shut, wire>>
      BY <1>2, Running DEF Abandon, Resume, orch, net
    <2> QED BY <2>1, PlainPair
  <1>3. CASE SendThrows(p, k) \/ RepositoryRejects(p, k)
    BY <1>3, FailPair DEF SendThrows, RepositoryRejects
  <1> QED BY <1>1, <1>2, <1>3, KeygenPair, SignDonePair, VerifyPair, TofuPair, CreatePair,
             ShareResumedPair, FinishPair, TagPair, ConfirmResumedPair, CheckPair, DerivePair,
             StorePair, AppendPair, SealPair

-----------------------------------------------------------------------------
LEMMA InitPair == Init => PairInv
  <1> SUFFICES ASSUME Init PROVE PairInv
    OBVIOUS
  <1>1. HandshakeInv
    BY InitInv
  <1>2. Untouched /\ SharedIsOpen
    BY TwoEnds DEF Init, Untouched, SharedIsOpen, Together
  <1>3. ASSUME NEW p \in Peer PROVE Row(p)
    BY TwoEnds
       DEF Init, Row, OwnFields, HeardFields, HeardNothing, OutboxIsTrue, Together, Blank
  <1> QED BY <1>1, <1>2, <1>3 DEF PairInv

LEMMA NextPair == PairInv /\ [Next]_vars => PairInv'
  <1> SUFFICES ASSUME PairInv, [Next]_vars PROVE PairInv'
    OBVIOUS
  <1>1. HandshakeInv' /\ TypeOK
    BY NextInv DEF PairInv, HandshakeInv
  <1>2. CASE OpenChannel \/ UNCHANGED vars
    <2>1. UNCHANGED <<gen, chan, hs, keys, code, shut, wire, tasks>>
      BY <1>2 DEF OpenChannel, vars, orch, net, disk
    <2>2. \E p \in Peer : TRUE
      BY PeerAssumption
    <2>3. ASSUME NEW p \in Peer PROVE PairHolds'
      <3>1. View(Other(p))' = View(Other(p))
        BY <1>2 DEF OpenChannel, vars, orch, net, disk, View
      <3> QED BY <2>1, <3>1, PlainPair
    <2> QED BY <1>1, <2>2, <2>3 DEF PairInv, PairHolds
  <1>3. ASSUME NEW p \in Peer, Calls(p) \/ Timers(p) \/ Inbound(p) \/ Coroutine(p)
        PROVE  PairHolds'
    <2>1. View(Other(p))' = View(Other(p))
      BY <1>1, <1>3, TwoEnds, OthersKept
    <2> QED BY <1>3, <2>1, CallsPair, TimersPair, InboundPair, CoroutinePair
  <1>4. CASE Next
    BY <1>1, <1>2, <1>3, <1>4 DEF Next, PairInv, PairHolds
  <1> QED BY <1>2, <1>4

(* What the two ends of a channel know of each other is true in every      *)
(* reachable state.                                                        *)
THEOREM EndsKnowEachOther == Spec => []PairInv
  BY InitPair, NextPair, PTL DEF Spec

(* A session exists only for a peer that took part.  An end that is        *)
(* Connected shares its channel with one that signed the same transcript   *)
(* and, in PAKE mode, holds the same code: the signature was verified and  *)
(* the tag compared in the handshake that is still in force, whatever was  *)
(* torn down, delayed or repeated before.                                  *)
THEOREM PeersAreProved == Spec => []PeerProved
  <1>1. PairInv => PeerProved
    <2> SUFFICES ASSUME PairInv, NEW p \in Peer, keys[p] # None, chan[p] = chan[Other(p)]
                 PROVE  /\ hs[Other(p)].sigSent
                        /\ hs[Other(p)].transcript = keys[p].t
                        /\ keys[p].secret # None =>
                             keys[p].secret.owner = None /\ code[p] = code[Other(p)]
      BY DEF PeerProved
    <2>1. Together(p)
      BY RowOf DEF Local, Quiet, Together
    <2>2. HasSigned(Other(p), keys[p].t) /\ Agreed(p, keys[p].secret)
      BY <2>1, RowOf DEF Row, HeardFields
    <2>3. ASSUME keys[p].secret # None
          PROVE  keys[p].secret.owner = None /\ code[p] = code[Other(p)]
      <3>1. code[Other(p)] = code[p] /\ keys[p].secret = SecretOf(p)
        BY <2>2, <2>3 DEF Agreed
      <3> QED BY <3>1 DEF SecretOf
    <2>4. hs[Other(p)].sigSent /\ hs[Other(p)].transcript = keys[p].t
      BY <2>2 DEF HasSigned
    <2> QED BY <2>3, <2>4
  <1> QED BY <1>1, EndsKnowEachOther, PTL

(* Two ends Connected over the same channel hold the same session: the     *)
(* same Hellos, the same mode, the same PAKE secret.                       *)
THEOREM SameSession == Spec => []SessionsAgree
  <1>1. PairInv => SessionsAgree
    <2> SUFFICES ASSUME PairInv, NEW p \in Peer, keys[p] # None, keys[Other(p)] # None,
                        chan[p] = chan[Other(p)]
                 PROVE  keys[p] = keys[Other(p)]
      BY DEF SessionsAgree
    <2> DEFINE q == Other(p)
    <2>1. /\ q \in Peer /\ Other(q) = p /\ Row(p) /\ Row(q) /\ Local(p) /\ Local(q)
      BY TwoEnds, RowOf
    <2>2. Together(p) /\ Together(q)
      BY <2>1 DEF Local, Quiet, Together
    <2>3. /\ HasSigned(q, keys[p].t) /\ Agreed(p, keys[p].secret)
          /\ HasSigned(p, keys[q].t) /\ Agreed(q, keys[q].secret)
      BY <2>1, <2>2 DEF Row, HeardFields
    <2>4. keys[p].t = keys[q].t /\ keys[q].t # None
      <3>1. keys[q].t = hs[q].transcript /\ hs[q].transcript = keys[p].t
        BY <2>1, <2>3 DEF Local, SessionOf, HasSigned
      <3> QED BY <2>1, <2>3, <3>1 DEF Row, OwnFields, HasSigned
    <2>5. Mode(p) = Mode(q)
      <3>1. hs[p].transcript = keys[p].t /\ hs[q].transcript = keys[p].t
        BY <2>1, <2>3 DEF Local, SessionOf, HasSigned
      <3> QED BY <2>1, <2>4, <3>1 DEF Row, OwnFields
    <2>6. keys[p].secret = keys[q].secret
      <3>1. code[p] = NoCode <=> code[q] = NoCode
        BY <2>5 DEF Mode
      <3>2. CASE code[p] = NoCode
        BY <2>3, <3>1, <3>2 DEF Agreed
      <3>3. CASE code[p] # NoCode
        BY <2>1, <2>3, <3>1, <3>3 DEF Agreed, SecretOf
      <3> QED BY <3>2, <3>3
    <2>7. keys[p] \in Sessions /\ keys[q] \in Sessions
      BY <2>1 DEF PairInv, HandshakeInv, TypeOK
    <2> QED BY <2>4, <2>6, <2>7 DEF Sessions
  <1> QED BY <1>1, EndsKnowEachOther, PTL

-----------------------------------------------------------------------------
(* Why a conversation is refused for good.  What an end took from a peer   *)
(* with the same code is of one handshake of that peer, also after the peer*)
(* has gone: the tags it compares are equal, and of each PAKE message there*)
(* is only one.                                                            *)

(* Two ends that hold the same code.                                       *)
Agree(p) == code[p] # NoCode /\ code[Other(p)] = code[p]

(* The secret p derives with handshake g of an end that holds its code.    *)
SecretWith(p, g) ==
  [owner |-> None, share |-> [r \in Peer |-> IF r = p THEN gen[p] ELSE g]]

(* What a message of handshake g over transcript t says to such an end.    *)
Says(p, g, t, m) ==
  /\ m.kind = "Signature" => m.t = t
  /\ m.kind = "PakeShare" => m.gen = g /\ m.code = code[p]
  /\ m.kind = "PakeConfirm" => m.secret = SecretWith(p, g) /\ m.t = t

Said(p, g, t) == {m \in Messages : Says(p, g, t, m)}

FromTask(p, g, t, k) ==
  k.gen = gen[p] =>
    /\ k.at = "verify" => k.got.t = t
    /\ k.at \in Chain \ {"verify"} => k.t = t
    /\ k.at = "shareGot" => k.got.gen = g /\ k.got.code = code[p]
    /\ k.at \in Keyed => k.secret = SecretWith(p, g)

FromFields(p, g, t) ==
  /\ hs[p].share # None => hs[p].share.gen = g /\ hs[p].share.code = code[p]
  /\ hs[p].confirm # None => /\ hs[p].confirm.secret = SecretWith(p, g)
                             /\ hs[p].confirm.t = t

(* All p has heard, and all that is still to come, is from one handshake.  *)
From(p, g, t) ==
  /\ Inbox(p) \in Seq(Said(p, g, t))
  /\ FromFields(p, g, t)
  /\ \A k \in tasks[p] : FromTask(p, g, t, k)

(* An end whose channel was shut lives on what is left of the other one.   *)
LeftBehind(p) ==
  chan[p] # 0 /\ shut[chan[p]] /\ Agree(p)
    => \E g \in Nat, t \in Transcripts \cup {None} : From(p, g, t)

NoneOf(kind, s) == \A i \in DOMAIN s : s[i].kind # kind
OneOf(kind, s)  == \A i, j \in DOMAIN s : s[i].kind = kind /\ s[j].kind = kind => i = j

(* Where a coroutine has yet to send its share, or its tag.                *)
ToShare   == {"verify", "tofu", "create"}
ToConfirm == ToShare \cup {"shareWait", "shareGot", "finish", "tag"}
Before(kind) == IF kind = "PakeShare" THEN ToShare ELSE ToConfirm

YetTo(p, kind) ==
  hs[p].completing => \E k \in tasks[p] : k.gen = gen[p] /\ k.at \in Before(kind)

Stored(p, kind) == IF kind = "PakeShare" THEN hs[p].share ELSE hs[p].confirm

(* A PAKE message comes once; before it was sent there is none.            *)
Once(p, kind) ==
  /\ chan[p] # 0 => /\ OneOf(kind, Inbox(p))
                    /\ Stored(p, kind) # None => NoneOf(kind, Inbox(p))
  /\ Together(p) /\ YetTo(Other(p), kind) => Stored(p, kind) = None /\ NoneOf(kind, Inbox(p))

PakeKinds == {"PakeShare", "PakeConfirm"}

OnceEach(p) == \A kind \in PakeKinds : Once(p, kind)

(* A coroutine that compares tags finds them equal if the codes are.       *)
Caused(p, k) ==
  /\ k.at \in PakePoints => code[p] # NoCode
  /\ k.at \in Parked => k.gen = gen[p]
  /\ k.at \in {"confirmGot", "check"} /\ Agree(p) => TagMatches(k)

Coded(p) == hs[p].pakeBegun \/ hs[p].session # 0 => code[p] # NoCode

Cause(p) ==
  /\ Coded(p)
  /\ \A k \in tasks[p] : Caused(p, k)
  /\ LeftBehind(p)
  /\ OnceEach(p)

CauseInv == PairInv /\ "dup" \notin Faults /\ \A p \in Peer : Cause(p)

-----------------------------------------------------------------------------
LEMMA KindsLeave ==
  ASSUME NEW S, NEW s \in Seq(S), NEW kind, s # <<>>
  PROVE  /\ OneOf(kind, s) => OneOf(kind, Tail(s))
         /\ NoneOf(kind, s) => NoneOf(kind, Tail(s))
         /\ OneOf(kind, s) /\ Head(s).kind = kind => NoneOf(kind, Tail(s))
  <1>1. /\ Len(s) \in Nat /\ Len(s) > 0 /\ DOMAIN s = 1 .. Len(s) /\ Head(s) = s[1]
        /\ DOMAIN Tail(s) = 1 .. (Len(s) - 1)
        /\ \A i \in 1 .. (Len(s) - 1) : Tail(s)[i] = s[i + 1] /\ i + 1 \in 1 .. Len(s)
    OBVIOUS
  <1>2. NoneOf(kind, s) => NoneOf(kind, Tail(s))
    BY <1>1 DEF NoneOf
  <1>3. OneOf(kind, s) => OneOf(kind, Tail(s))
    BY <1>1 DEF OneOf
  <1>4. OneOf(kind, s) /\ Head(s).kind = kind => NoneOf(kind, Tail(s))
    BY <1>1 DEF OneOf, NoneOf
  <1> QED BY <1>2, <1>3, <1>4

LEMMA KindsJoin ==
  ASSUME NEW S, NEW s \in Seq(S), NEW kind, NEW m \in S
  PROVE  /\ NoneOf(kind, s) => OneOf(kind, Append(s, m))
         /\ OneOf(kind, s) /\ m.kind # kind => OneOf(kind, Append(s, m))
         /\ NoneOf(kind, s) /\ m.kind # kind => NoneOf(kind, Append(s, m))
  <1>1. /\ Len(s) \in Nat /\ DOMAIN s = 1 .. Len(s)
        /\ DOMAIN Append(s, m) = 1 .. (Len(s) + 1)
        /\ \A i \in 1 .. Len(s) : Append(s, m)[i] = s[i]
        /\ Append(s, m)[Len(s) + 1] = m
    OBVIOUS
  <1>2. NoneOf(kind, s) => OneOf(kind, Append(s, m))
    BY <1>1 DEF NoneOf, OneOf
  <1>3. OneOf(kind, s) /\ m.kind # kind => OneOf(kind, Append(s, m))
    BY <1>1 DEF OneOf
  <1>4. NoneOf(kind, s) /\ m.kind # kind => NoneOf(kind, Append(s, m))
    BY <1>1 DEF NoneOf
  <1> QED BY <1>2, <1>3, <1>4

(* While the two ends share the channel, the handshake is the one the other*)
(* end is running.                                                         *)
LEMMA Witnessed ==
  ASSUME PairInv, NEW p \in Peer, LeftBehind(p), chan[p] # 0, Agree(p)
  PROVE  \E g \in Nat, t \in Transcripts \cup {None} : From(p, g, t)
  <1> DEFINE q == Other(p)
  <1>1. /\ q \in Peer /\ q # p /\ Other(q) = p /\ Row(p) /\ Row(q) /\ Local(p)
        /\ \A r \in Peer : r = p \/ r = q
        /\ gen \in [Peer -> Nat] /\ chan[p] \in 0 .. MaxConn
        /\ hs[q].transcript \in Transcripts \cup {None}
    BY TwoEnds, RowOf DEF PairInv, HandshakeInv, TypeOK, Handshakes
  <1>2. CASE shut[chan[p]]
    BY <1>2 DEF LeftBehind
  <1>3. CASE ~shut[chan[p]] /\ Together(p)
    <2> DEFINE g == gen[q]
               t == hs[q].transcript
    <2>1. [r \in Peer |-> IF r = p THEN gen[p] ELSE g] = gen
      BY <1>1
    <2>2. SecretOf(p) = SecretWith(p, g) /\ SecretOf(q) = SecretWith(p, g)
      BY <1>1, <2>1 DEF SecretOf, SecretWith, Agree
    <2>3. code[q] = code[p]
      BY DEF Agree
    <2>4. Inbox(p) \in Seq(Said(p, g, t))
      <3>1. Inbox(p) \in Seq(True(q))
        BY <1>1, <1>3 DEF Row, OutboxIsTrue, Outbox, Inbox, Together
      <3>2. \A m \in Messages : Vouched(q, m) => Says(p, g, t, m)
        BY <2>2, <2>3 DEF Vouched, Says, HasSigned, WorksOn
      <3>3. True(q) \subseteq Said(p, g, t)
        BY <3>2 DEF True, Said
      <3> QED BY <3>1, <3>3, SeqGrows
    <2>5. FromFields(p, g, t)
      BY <1>1, <1>3, <2>2, <2>3 DEF Row, HeardFields, FromFields, WorksOn
    <2>6. ASSUME NEW k \in tasks[p] PROVE FromTask(p, g, t, k)
      <3>1. HeardTask(p, k)
        BY <1>1 DEF Row
      <3> QED BY <1>3, <2>2, <2>3, <3>1 DEF HeardTask, FromTask, HasSigned
    <2>7. From(p, g, t) /\ g \in Nat /\ t \in Transcripts \cup {None}
      BY <1>1, <2>4, <2>5, <2>6 DEF From
    <2> QED BY <2>7
  <1>4. CASE ~shut[chan[p]] /\ ~Together(p)
    <2>1. chan[q] # chan[p]
      BY <1>4 DEF Together
    <2>2. hs[p].peer = 0 /\ hs[p].share = None /\ hs[p].confirm = None
      BY <1>1, <1>4, <2>1 DEF Row, HeardNothing
    <2>3. Inbox(p) = <<>>
      BY <1>1, <1>4, <2>1 DEF PairInv, Untouched, Inbox
    <2>4. hs[p].transcript = None
      BY <1>1, <2>2 DEF Local, FieldsAreCurrent
    <2>5. ASSUME NEW k \in tasks[p] PROVE FromTask(p, 0, None, k)
      <3>1. InStep(p, k)
        BY <1>1 DEF Local
      <3>2. k.gen = gen[p] => k.at \notin Chain
        BY <2>4, <3>1 DEF InStep
      <3> QED BY <3>2 DEF FromTask, Chain, Keyed
    <2>6. From(p, 0, None)
      BY <2>2, <2>3, <2>5 DEF From, FromFields
    <2> QED BY <2>6
  <1> QED BY <1>2, <1>3, <1>4

-----------------------------------------------------------------------------
(* The end that does not move.                                             *)

CodeStands(p) ==
  code'[p] \in {code[p], NoCode} /\ code'[Other(p)] = code[Other(p)]

LEMMA AgreeBack ==
  ASSUME NEW p \in Peer, CodeStands(p)
  PROVE  /\ Agree(p)' => Agree(p) /\ code'[p] = code[p]
         /\ Agree(Other(p))' => Agree(Other(p)) /\ code'[p] = code[p]
  BY TwoEnds DEF CodeStands, Agree

LEMMA SeqShrinks ==
  ASSUME NEW S, NEW s \in Seq(S), NEW t, t = s \/ (s # <<>> /\ t = Tail(s))
  PROVE  t \in Seq(S)
  OBVIOUS

(* Of a channel that is shut nothing but messages that were there arrives. *)
Dwindles(q) ==
  chan[q] # 0 /\ shut'[chan[q]] =>
    \/ wire'[chan[q]][q] = Inbox(q)
    \/ Inbox(q) # <<>> /\ wire'[chan[q]][q] = Tail(Inbox(q))

LEMMA BesideCause ==
  ASSUME PairInv, NEW p \in Peer, Cause(Other(p)), View(Other(p))' = View(Other(p)),
         CodeStands(p), Dwindles(Other(p))
  PROVE  /\ Coded(Other(p))' /\ LeftBehind(Other(p))'
         /\ \A k \in tasks'[Other(p)] : Caused(Other(p), k)'
  <1> DEFINE q == Other(p)
  <1>1. /\ q \in Peer /\ q # p /\ Other(q) = p
        /\ gen'[q] = gen[q] /\ chan'[q] = chan[q] /\ hs'[q] = hs[q] /\ tasks'[q] = tasks[q]
        /\ code'[q] = code[q]
    BY TwoEnds DEF View, CodeStands
  <1>2. Agree(q)' => Agree(q)
    BY AgreeBack
  <1> HIDE DEF q
  <1>3. Coded(q)'
    BY <1>1 DEF Cause, Coded, q
  <1>4. ASSUME NEW k \in tasks[q] PROVE Caused(q, k)'
    <2>1. Caused(q, k)
      BY <1>4 DEF Cause, q
    <2>2. TagMatches(k) => TagMatches(k)'
      BY DEF TagMatches
    <2> QED BY <1>1, <1>2, <2>1, <2>2 DEF Caused
  <1>5. LeftBehind(q)'
    <2> SUFFICES ASSUME chan[q] # 0, shut'[chan[q]], Agree(q)'
                 PROVE  \E g \in Nat, t \in Transcripts \cup {None} : From(q, g, t)'
      BY <1>1 DEF LeftBehind
    <2>1. PICK g \in Nat, t \in Transcripts \cup {None} : From(q, g, t)
      BY <1>1, <1>2, Witnessed DEF Cause, q
    <2>2. \A m : Says(q, g, t, m)' = Says(q, g, t, m)
      BY <1>1 DEF Says, SecretWith
    <2>3. Said(q, g, t)' = Said(q, g, t)
      BY <2>2 DEF Said
    <2>4. Inbox(q)' = Inbox(q) \/ (Inbox(q) # <<>> /\ Inbox(q)' = Tail(Inbox(q)))
      BY <1>1 DEF Dwindles, Inbox, q
    <2>5. Inbox(q)' \in Seq(Said(q, g, t)')
      BY <2>1, <2>3, <2>4, SeqShrinks DEF From
    <2>6. FromFields(q, g, t)'
      BY <1>1, <2>1 DEF From, FromFields, SecretWith
    <2>7. ASSUME NEW k \in tasks[q] PROVE FromTask(q, g, t, k)'
      BY <1>1, <2>1 DEF From, FromTask, SecretWith
    <2>8. From(q, g, t)'
      BY <1>1, <2>5, <2>6, <2>7 DEF From
    <2> QED BY <2>8
  <1> QED BY <1>1, <1>3, <1>4, <1>5 DEF q

(* p sends no message of the kind.                                         *)
Withholds(p, kind) ==
  \A c \in 0 .. MaxConn, r \in Peer :
    \/ wire'[c][r] = wire[c][r]
    \/ wire[c][r] # <<>> /\ wire'[c][r] = Tail(wire[c][r])
    \/ \E m \in Messages : m.kind # kind /\ wire'[c][r] = Append(wire[c][r], m)

LEMMA OnceBeside ==
  ASSUME PairInv, NEW p \in Peer, NEW kind \in PakeKinds, Once(Other(p), kind),
         View(Other(p))' = View(Other(p)), chan'[p] = chan[p], Withholds(p, kind),
         YetTo(p, kind)' => YetTo(p, kind)
  PROVE  Once(Other(p), kind)'
  <1> DEFINE q == Other(p)
  <1>1. /\ q \in Peer /\ q # p /\ Other(q) = p
        /\ chan'[q] = chan[q] /\ hs'[q] = hs[q] /\ chan[q] \in 0 .. MaxConn
        /\ wire[chan[q]][q] \in Seq(Messages)
    BY TwoEnds DEF View, PairInv, HandshakeInv, TypeOK
  <1>2. Stored(q, kind)' = Stored(q, kind) /\ Together(q)' = Together(q)
    BY <1>1 DEF Stored, Together
  <1>3. /\ OneOf(kind, wire[chan[q]][q]) => OneOf(kind, wire'[chan[q]][q])
        /\ NoneOf(kind, wire[chan[q]][q]) => NoneOf(kind, wire'[chan[q]][q])
    <2>1. CASE wire'[chan[q]][q] = wire[chan[q]][q]
      BY <2>1
    <2>2. CASE wire[chan[q]][q] # <<>> /\ wire'[chan[q]][q] = Tail(wire[chan[q]][q])
      BY <1>1, <2>2, KindsLeave
    <2>3. CASE \E m \in Messages : /\ m.kind # kind
                                  /\ wire'[chan[q]][q] = Append(wire[chan[q]][q], m)
      BY <1>1, <2>3, KindsJoin
    <2> QED BY <1>1, <2>1, <2>2, <2>3 DEF Withholds
  <1> HIDE DEF q
  <1>4. /\ chan[q] # 0 => /\ OneOf(kind, wire[chan[q]][q])
                          /\ Stored(q, kind) # None => NoneOf(kind, wire[chan[q]][q])
        /\ Together(q) /\ YetTo(p, kind) => /\ Stored(q, kind) = None
                                            /\ NoneOf(kind, wire[chan[q]][q])
    BY <1>1 DEF Once, Inbox, q
  <1>5. /\ chan[q] # 0 => /\ OneOf(kind, wire'[chan[q]][q])
                          /\ Stored(q, kind) # None => NoneOf(kind, wire'[chan[q]][q])
        /\ Together(q) /\ YetTo(p, kind)' => /\ Stored(q, kind) = None
                                             /\ NoneOf(kind, wire'[chan[q]][q])
    BY <1>3, <1>4
  <1>6. Inbox(q)' = wire'[chan[q]][q] /\ Other(q)' = p
    BY <1>1 DEF Inbox
  <1> QED BY <1>1, <1>2, <1>5, <1>6 DEF Once, q

(* The one message of the kind is sent.                                    *)
LEMMA OnceSent ==
  ASSUME PairInv, NEW p \in Peer, NEW kind \in PakeKinds, Once(Other(p), kind),
         Stays(p), YetTo(p, kind), ~YetTo(p, kind)'
  PROVE  Once(Other(p), kind)'
  <1> DEFINE q == Other(p)
  <1>1. /\ q \in Peer /\ q # p /\ Other(q) = p
        /\ chan'[q] = chan[q] /\ hs'[q] = hs[q] /\ chan[q] \in 0 .. MaxConn
        /\ wire[chan[q]][q] \in Seq(Messages) /\ chan[p] \in 0 .. MaxConn /\ shut[0]
    BY TwoEnds DEF Stays, View, PairInv, HandshakeInv, TypeOK, Strengthening
  <1>2. Stored(q, kind)' = Stored(q, kind) /\ Inbox(q)' = wire'[chan[q]][q]
    BY <1>1 DEF Stored, Inbox
  <1>3. /\ chan[q] # 0 => /\ OneOf(kind, wire[chan[q]][q])
                          /\ Stored(q, kind) # None => NoneOf(kind, wire[chan[q]][q])
        /\ Together(q) => /\ Stored(q, kind) = None
                          /\ NoneOf(kind, wire[chan[q]][q])
    BY <1>1 DEF Once, Inbox
  <1>4. chan[q] # 0 => /\ OneOf(kind, wire'[chan[q]][q])
                       /\ Stored(q, kind) # None => NoneOf(kind, wire'[chan[q]][q])
    <2>1. CASE wire'[chan[q]][q] = wire[chan[q]][q]
      BY <1>3, <2>1
    <2>2. CASE wire[chan[q]][q] # <<>> /\ wire'[chan[q]][q] = Tail(wire[chan[q]][q])
      BY <1>1, <1>3, <2>2, KindsLeave
    <2>3. CASE /\ chan[q] = chan[p] /\ ~shut[chan[p]]
               /\ \E m \in Messages : wire'[chan[q]][q] = Append(wire[chan[q]][q], m)
      <3>1. Together(q)
        BY <1>1, <2>3 DEF Together
      <3> QED BY <1>1, <1>3, <2>3, <3>1, KindsJoin
    <2>4. \/ wire'[chan[q]][q] = wire[chan[q]][q]
          \/ wire[chan[q]][q] # <<>> /\ wire'[chan[q]][q] = Tail(wire[chan[q]][q])
          \/ /\ chan[q] = chan[p] /\ ~shut[chan[p]]
             /\ \E m \in Messages : wire'[chan[q]][q] = Append(wire[chan[q]][q], m)
      <3>1. \A c \in 0 .. MaxConn, r \in Peer :
              \/ wire'[c][r] = wire[c][r]
              \/ wire[c][r] # <<>> /\ wire'[c][r] = Tail(wire[c][r])
              \/ /\ c = chan[p] /\ ~shut[chan[p]]
                 /\ \E m \in Messages : wire'[c][r] = Append(wire[c][r], m)
        <4>1. Posted(p)
          BY DEF Stays
        <4> QED BY <4>1 DEF Posted
      <3>2. chan[q] \in 0 .. MaxConn /\ q \in Peer
        BY <1>1
      <3> HIDE DEF q
      <3> QED BY <3>1, <3>2
    <2> QED BY <2>1, <2>2, <2>3, <2>4
  <1> QED BY <1>1, <1>2, <1>4 DEF Once

-----------------------------------------------------------------------------
(* The end that moves.                                                     *)

CauseHolds == \A p \in Peer : Cause(p)

(* What a coroutine holds comes from what p has heard.                     *)
Grounded(p, k) == Caused(p, k) /\ \A g, t : From(p, g, t) => FromTask(p, g, t, k)

(* A PAKE message is kept, consumed, or taken from the channel.            *)
Takes(p, kind) ==
  \/ Stored(p, kind)' \in {Stored(p, kind), None}
  \/ /\ Inbox(p) # <<>> /\ Head(Inbox(p)).kind = kind
     /\ Stored(p, kind)' = Head(Inbox(p)) /\ wire'[chan[p]][p] = Tail(Inbox(p))

LEMMA InboxShrinks ==
  ASSUME PairInv, NEW p \in Peer, Stays(p)
  PROVE  /\ Inbox(p)' = wire'[chan[p]][p] /\ Inbox(p) \in Seq(Messages)
         /\ Inbox(p)' = Inbox(p) \/ (Inbox(p) # <<>> /\ Inbox(p)' = Tail(Inbox(p)))
  <1>1. chan'[p] = chan[p] /\ chan[p] \in 0 .. MaxConn /\ Other(p) # p
        /\ wire[chan[p]][p] \in Seq(Messages)
    BY TwoEnds DEF Stays, PairInv, HandshakeInv, TypeOK
  <1> QED BY <1>1 DEF Stays, Posted, Inbox

LEMMA SaidHead ==
  ASSUME NEW p, NEW g, NEW t, From(p, g, t), Inbox(p) # <<>>
  PROVE  Says(p, g, t, Head(Inbox(p)))
  <1>1. Head(Inbox(p)) \in Said(p, g, t)
    BY DEF From
  <1> QED BY <1>1 DEF Said

LEMMA LeftByStep ==
  ASSUME PairInv, NEW p \in Peer, Cause(p), Stays(p), \A kind \in PakeKinds : Takes(p, kind),
         \A k \in tasks'[p] : k \in tasks[p] \/ Grounded(p, k)
  PROVE  LeftBehind(p)'
  <1>1. /\ chan'[p] = chan[p] /\ gen' = gen /\ code' = code /\ shut' = shut
    BY DEF Stays
  <1> SUFFICES ASSUME chan[p] # 0, shut[chan[p]], Agree(p)
               PROVE  \E g \in Nat, t \in Transcripts \cup {None} : From(p, g, t)'
    BY <1>1 DEF LeftBehind, Agree
  <1>2. PICK g \in Nat, t \in Transcripts \cup {None} : From(p, g, t)
    BY DEF Cause, LeftBehind
  <1>3. Inbox(p)' \in Seq(Said(p, g, t)')
    <2>1. \A m : Says(p, g, t, m)' = Says(p, g, t, m)
      BY <1>1 DEF Says, SecretWith
    <2>2. Said(p, g, t)' = Said(p, g, t)
      BY <2>1 DEF Said
    <2> QED BY <1>2, <2>2, InboxShrinks, SeqShrinks DEF From
  <1>4. FromFields(p, g, t)'
    <2>1. FromFields(p, g, t)
      BY <1>2 DEF From
    <2>2. Inbox(p) # <<>> => Says(p, g, t, Head(Inbox(p)))
      BY <1>2, SaidHead
    <2>3. hs'[p].share # None => hs'[p].share.gen = g /\ hs'[p].share.code = code[p]
      <3>1. Takes(p, "PakeShare")
        BY DEF PakeKinds
      <3> QED BY <2>1, <2>2, <3>1 DEF Takes, Stored, FromFields, Says
    <2>4. hs'[p].confirm # None => /\ hs'[p].confirm.secret = SecretWith(p, g)
                                   /\ hs'[p].confirm.t = t
      <3>1. Takes(p, "PakeConfirm")
        BY DEF PakeKinds
      <3> QED BY <2>1, <2>2, <3>1 DEF Takes, Stored, FromFields, Says
    <2> QED BY <1>1, <2>3, <2>4 DEF FromFields, SecretWith
  <1>5. ASSUME NEW k \in tasks'[p] PROVE FromTask(p, g, t, k)'
    <2>1. FromTask(p, g, t, k)
      BY <1>2, <1>5 DEF From, Grounded
    <2> QED BY <1>1, <2>1 DEF FromTask, SecretWith
  <1>6. From(p, g, t)'
    BY <1>3, <1>4, <1>5 DEF From
  <1> QED BY <1>6

LEMMA OnceByStep ==
  ASSUME PairInv, NEW p \in Peer, Cause(p), Stays(p), NEW kind \in PakeKinds, Takes(p, kind)
  PROVE  Once(p, kind)'
  <1> DEFINE q == Other(p)
             s == Inbox(p)
             n == Inbox(p)'
  <1>1. /\ q \in Peer /\ chan'[p] = chan[p] /\ s \in Seq(Messages)
        /\ n = wire'[chan[p]][p] /\ (n = s \/ (s # <<>> /\ n = Tail(s)))
        /\ Together(p)' = Together(p)
    BY TwoEnds, InboxShrinks, StaysTogether DEF Stays
  <1>2. YetTo(q, kind)' = YetTo(q, kind)
    BY DEF Stays, View, YetTo
  <1>3. /\ chan[p] # 0 => OneOf(kind, s) /\ (Stored(p, kind) # None => NoneOf(kind, s))
        /\ Together(p) /\ YetTo(q, kind) => Stored(p, kind) = None /\ NoneOf(kind, s)
    BY DEF Cause, OnceEach, Once
  <1> HIDE DEF q, s, n
  <1>4. /\ OneOf(kind, s) => OneOf(kind, n)
        /\ NoneOf(kind, s) => NoneOf(kind, n)
    <2>1. CASE n = s
      BY <2>1
    <2>2. CASE s # <<>> /\ n = Tail(s)
      BY <1>1, <2>2, KindsLeave
    <2> QED BY <1>1, <2>1, <2>2
  <1>5. CASE Stored(p, kind)' \in {Stored(p, kind), None}
    <2>1. /\ chan[p] # 0 => OneOf(kind, n) /\ (Stored(p, kind)' # None => NoneOf(kind, n))
          /\ Together(p) /\ YetTo(q, kind) => Stored(p, kind)' = None /\ NoneOf(kind, n)
      BY <1>3, <1>4, <1>5
    <2> QED BY <1>1, <1>2, <2>1 DEF Once, n, q
  <1>6. CASE s # <<>> /\ Head(s).kind = kind /\ n = Tail(s)
    <2>1. ~NoneOf(kind, s)
      BY <1>1, <1>6 DEF NoneOf
    <2>2. /\ chan[p] # 0 => OneOf(kind, n) /\ NoneOf(kind, n)
          /\ ~(Together(p) /\ YetTo(q, kind))
      <3>1. OneOf(kind, s) => NoneOf(kind, n)
        BY <1>1, <1>6, KindsLeave
      <3> QED BY <1>3, <1>4, <2>1, <3>1
    <2> QED BY <1>1, <1>2, <2>2 DEF Once, n, q
  <1> QED BY <1>1, <1>5, <1>6 DEF Takes, n, s

(* A step within a handshake: what p learns is grounded, and it sends each *)
(* PAKE message at most once.                                              *)
LEMMA StaysCause ==
  ASSUME CauseInv, NEW p \in Peer, Stays(p), Coded(p)',
         \A kind \in PakeKinds : Takes(p, kind),
         \A k \in tasks'[p] : k \in tasks[p] \/ Grounded(p, k),
         \A kind \in PakeKinds : \/ Withholds(p, kind) /\ (YetTo(p, kind)' => YetTo(p, kind))
                                 \/ YetTo(p, kind) /\ ~YetTo(p, kind)'
  PROVE  CauseHolds'
  <1> DEFINE q == Other(p)
  <1>1. /\ PairInv /\ Cause(p) /\ Cause(q) /\ q \in Peer /\ q # p /\ Other(q) = p
        /\ \A r \in Peer : r = p \/ r = q
        /\ View(q)' = View(q) /\ chan'[p] = chan[p]
        /\ gen' = gen /\ code' = code /\ shut' = shut
        /\ chan[q] \in 0 .. MaxConn
    BY TwoEnds DEF CauseInv, Stays, PairInv, HandshakeInv, TypeOK
  <1>2. ASSUME NEW kind \in PakeKinds PROVE Once(p, kind)' /\ Once(q, kind)'
    <2>1. Once(q, kind)
      BY <1>1 DEF Cause, OnceEach
    <2> QED BY <1>1, <2>1, OnceByStep, OnceBeside, OnceSent
  <1>3. LeftBehind(p)'
    BY <1>1, LeftByStep
  <1>4. ASSUME NEW k \in tasks'[p] PROVE Caused(p, k)'
    <2>1. Caused(p, k)
      BY <1>1, <1>4 DEF Cause, Grounded
    <2>2. TagMatches(k) => TagMatches(k)'
      BY DEF TagMatches
    <2> QED BY <1>1, <2>1, <2>2 DEF Caused, Agree
  <1>5. CodeStands(p) /\ Dwindles(q)
    BY <1>1 DEF CodeStands, Dwindles, Stays, Posted, Inbox
  <1>6. Coded(q)' /\ LeftBehind(q)' /\ \A k \in tasks'[q] : Caused(q, k)'
    BY <1>1, <1>5, BesideCause
  <1>7. Cause(p)' /\ Cause(q)'
    BY <1>2, <1>3, <1>4, <1>6 DEF Cause, OnceEach
  <1> QED BY <1>1, <1>7 DEF CauseHolds
(* A step that changes only the coroutines of the end that makes it.       *)
LEMMA PlainCause ==
  ASSUME CauseInv, NEW p \in Peer, View(Other(p))' = View(Other(p)),
         UNCHANGED <<gen, chan, code, shut, wire>>, hs'[p] = hs[p],
         \A k \in tasks'[p] : k \in tasks[p] \/ (Grounded(p, k) /\ k.at \notin ToConfirm)
  PROVE  CauseHolds'
  <1>1. Stays(p) /\ Coded(p)'
    BY DEF Stays, Posted, CauseInv, Cause, Coded
  <1>2. ASSUME NEW kind \in PakeKinds
        PROVE  Takes(p, kind) /\ Withholds(p, kind) /\ (YetTo(p, kind)' => YetTo(p, kind))
    <2>1. Takes(p, kind) /\ Withholds(p, kind)
      BY DEF Takes, Stored, Withholds
    <2>2. Before(kind) \subseteq ToConfirm
      BY DEF Before, ToConfirm
    <2> QED BY <2>1, <2>2 DEF YetTo
  <1> QED BY <1>1, <1>2, StaysCause

LEMMA DownCause ==
  ASSUME CauseInv, NEW p \in Peer, View(Other(p))' = View(Other(p)),
         gen' = gen, CodeStands(p),
         hs' = [hs EXCEPT ![p] = Blank], chan' = [chan EXCEPT ![p] = 0],
         shut' = [shut EXCEPT ![chan[p]] = TRUE],
         wire' = [wire EXCEPT ![chan[p]][p] = <<>>],
         \A k \in tasks'[p] : /\ code'[p] = code[p] /\ k.at \notin Parked
                              /\ k \in tasks[p] \/ k.at = "seal"
  PROVE  CauseHolds'
  <1> DEFINE q == Other(p)
  <1>1. /\ PairInv /\ Cause(p) /\ Cause(q) /\ q \in Peer /\ q # p /\ Other(q) = p
        /\ \A r \in Peer : r = p \/ r = q
        /\ chan[q] \in 0 .. MaxConn /\ chan[p] \in 0 .. MaxConn
    BY TwoEnds DEF CauseInv, PairInv, HandshakeInv, TypeOK
  <1>2. /\ hs'[p] = Blank /\ chan'[p] = 0 /\ chan'[q] = chan[q] /\ hs'[q] = hs[q]
        /\ wire'[chan[q]][q] = wire[chan[q]][q]
    BY <1>1 DEF View, PairInv, HandshakeInv, TypeOK
  <1>3. ~Together(p)' /\ ~Together(q)'
    BY <1>1, <1>2 DEF Together
  <1>4. Coded(p)' /\ LeftBehind(p)'
    BY <1>2 DEF Coded, LeftBehind, Blank
  <1>5. ASSUME NEW k \in tasks'[p] PROVE Caused(p, k)'
    <2>1. CASE k \in tasks[p]
      <3>1. Caused(p, k) /\ code'[p] = code[p] /\ k.at \notin Parked
        BY <1>1, <1>5, <2>1 DEF Cause
      <3>2. TagMatches(k) => TagMatches(k)'
        BY DEF TagMatches
      <3>3. Agree(p)' => Agree(p)
        BY AgreeBack
      <3> QED BY <3>1, <3>2, <3>3 DEF Caused
    <2>2. CASE k.at = "seal"
      BY <2>2 DEF Caused, PakePoints, Parked
    <2> QED BY <1>5, <2>1, <2>2
  <1>6. ASSUME NEW kind \in PakeKinds PROVE Once(p, kind)' /\ Once(q, kind)'
    <2>1. Once(p, kind)'
      BY <1>2, <1>3 DEF Once
    <2>2. Once(q, kind)
      BY <1>1 DEF Cause, OnceEach
    <2>3. Stored(q, kind)' = Stored(q, kind) /\ Inbox(q)' = Inbox(q)
      BY <1>2 DEF Stored, Inbox
    <2> QED BY <1>2, <1>3, <2>1, <2>2, <2>3 DEF Once
  <1>7. Coded(q)' /\ LeftBehind(q)' /\ \A k \in tasks'[q] : Caused(q, k)'
    <2>1. Dwindles(q)
      BY <1>2 DEF Dwindles, Inbox
    <2> QED BY <1>1, <2>1, BesideCause
  <1>8. Cause(p)' /\ Cause(q)'
    BY <1>4, <1>5, <1>6, <1>7 DEF Cause, OnceEach
  <1> QED BY <1>1, <1>8 DEF CauseHolds

LEMMA FailCause ==
  ASSUME CauseInv, NEW p \in Peer, NEW kind, NEW origin, NEW running \in SUBSET tasks[p],
         Fail(p, kind, origin, running)
  PROVE  CauseHolds'
  <1>1. View(Other(p))' = View(Other(p))
    BY TwoEnds, FailElsewhere DEF CauseInv, PairInv, HandshakeInv
  <1>2. tasks \in [Peer -> SUBSET Tasks] /\ hs \in [Peer -> Handshakes]
    BY DEF CauseInv, PairInv, HandshakeInv, TypeOK
  <1>3. CASE failure[p] # None
    <2>1. /\ UNCHANGED <<gen, chan, code, shut, wire>> /\ hs'[p] = hs[p]
          /\ tasks'[p] \subseteq tasks[p]
      BY <1>2, <1>3 DEF Fail, orch, net
    <2> QED BY <1>1, <2>1, PlainCause
  <1>4. CASE failure[p] = None
    <2>1. /\ hs' = [hs EXCEPT ![p] = Blank] /\ chan' = [chan EXCEPT ![p] = 0]
          /\ shut' = [shut EXCEPT ![chan[p]] = TRUE]
          /\ wire' = [wire EXCEPT ![chan[p]][p] = <<>>] /\ gen' = gen /\ code' = code
          /\ tasks'[p] = {k \in running : k.at \notin Parked}
      BY <1>2, <1>4 DEF Fail, Teardown
    <2>2. CodeStands(p)
      BY <2>1 DEF CodeStands
    <2>3. \A k \in tasks'[p] : code'[p] = code[p] /\ k.at \notin Parked /\ k \in tasks[p]
      BY <2>1
    <2> QED BY <1>1, <2>1, <2>2, <2>3, DownCause
  <1> QED BY <1>3, <1>4

LEMMA AttachCause ==
  ASSUME CauseInv, NEW p \in Peer, View(Other(p))' = View(Other(p)), AttachTransport(p)
  PROVE  CauseHolds'
  <1> DEFINE q == Other(p)
  <1>1. /\ PairInv /\ Cause(p) /\ Cause(q) /\ q \in Peer /\ q # p /\ Other(q) = p
        /\ \A r \in Peer : r = p \/ r = q
        /\ Row(q) /\ Local(p)
    BY TwoEnds, RowOf DEF CauseInv
  <1>2. /\ chan[p] = 0 /\ hs[p] = Blank /\ conn \in 0 .. MaxConn /\ ~shut[conn] /\ conn # 0
        /\ \A k \in tasks[p] : k.at \notin Parked
    BY <1>1
       DEF AttachTransport, CanAttach, Local, Quiet, Live, PairInv, HandshakeInv, TypeOK,
           Strengthening
  <1>3. /\ chan'[p] = conn /\ shut' = shut /\ wire' = wire /\ code' = code /\ hs' = hs
        /\ tasks'[p] = tasks[p] \cup {Task("keygen", gen[p] + 1, None)}
        /\ chan'[q] = chan[q]
    BY <1>1 DEF AttachTransport, View, PairInv, HandshakeInv, TypeOK, net
  <1>4. Coded(p)' /\ LeftBehind(p)'
    BY <1>2, <1>3 DEF Coded, LeftBehind, Blank
  <1>5. ASSUME NEW k \in tasks'[p] PROVE Caused(p, k)'
    <2>1. CASE k \in tasks[p]
      <3>1. Caused(p, k) /\ k.at \notin Parked
        BY <1>1, <1>2, <2>1 DEF Cause
      <3>2. TagMatches(k) => TagMatches(k)'
        BY DEF TagMatches
      <3> QED BY <1>3, <3>1, <3>2 DEF Caused, Agree
    <2>2. CASE k = Task("keygen", gen[p] + 1, None)
      BY <2>2 DEF Caused, PakePoints, Parked, Task
    <2> QED BY <1>3, <1>5, <2>1, <2>2
  <1>6. \A kind \in PakeKinds : NoneOf(kind, wire[conn][p])
    <2>1. CASE chan[q] = conn
      <3>1. wire[conn][p] \in Seq(True(q)) /\ ~Together(q)
        BY <1>1, <1>2, <2>1 DEF Row, OutboxIsTrue, Outbox, Together
      <3>2. \A m \in True(q) : m.kind \notin PakeKinds
        BY <3>1 DEF True, Vouched, PakeKinds
      <3> QED BY <3>1, <3>2 DEF NoneOf
    <2>2. CASE chan[q] # conn
      <3>1. wire[conn][p] = <<>>
        BY <1>1, <1>2, <2>2 DEF PairInv, Untouched
      <3> QED BY <3>1 DEF NoneOf
    <2> QED BY <2>1, <2>2
  <1>7. ASSUME NEW kind \in PakeKinds PROVE Once(p, kind)' /\ Once(q, kind)'
    <2>1. Once(p, kind)'
      <3>1. Stored(p, kind)' = None
        BY <1>2, <1>3 DEF Stored, Blank
      <3>2. Inbox(p)' = wire[conn][p]
        BY <1>3 DEF Inbox
      <3>3. NoneOf(kind, wire[conn][p]) /\ OneOf(kind, wire[conn][p])
        BY <1>6 DEF NoneOf, OneOf
      <3> QED BY <3>1, <3>2, <3>3 DEF Once
    <2>2. Once(q, kind)'
      <3>1. Once(q, kind)
        BY <1>1 DEF Cause, OnceEach
      <3>2. Stored(q, kind)' = Stored(q, kind) /\ Inbox(q)' = Inbox(q)
        BY <1>3 DEF Stored, Inbox
      <3>3. Together(q)' => Stored(q, kind) = None /\ Inbox(q) = <<>>
        <4>1. Together(q)' => chan[q] = conn
          BY <1>1, <1>3 DEF Together
        <4>2. chan[q] = conn => hs[q].share = None /\ hs[q].confirm = None
          BY <1>1, <1>2 DEF Row, HeardNothing
        <4>3. chan[q] = conn => Inbox(q) = <<>>
          BY <1>1, <1>2 DEF PairInv, Untouched, Inbox
        <4> QED BY <4>1, <4>2, <4>3 DEF Stored
      <3>4. NoneOf(kind, <<>>)
        BY DEF NoneOf
      <3> QED BY <1>3, <3>1, <3>2, <3>3, <3>4 DEF Once
    <2> QED BY <2>1, <2>2
  <1>8. Coded(q)' /\ LeftBehind(q)' /\ \A k \in tasks'[q] : Caused(q, k)'
    <2>1. Dwindles(q) /\ CodeStands(p)
      BY <1>3 DEF Dwindles, Inbox, CodeStands
    <2> QED BY <1>1, <2>1, BesideCause
  <1>9. Cause(p)' /\ Cause(q)'
    BY <1>4, <1>5, <1>7, <1>8 DEF Cause, OnceEach
  <1> QED BY <1>1, <1>9 DEF CauseHolds

LEMMA PostsWithheld ==
  ASSUME PairInv, NEW p \in Peer, NEW kind,
         \/ UNCHANGED wire
         \/ Inbox(p) # <<>> /\ Take(p)
         \/ \E m \in Messages : m.kind # kind /\ Send(p, m)
  PROVE  Withholds(p, kind)
  <1>1. /\ wire \in [0 .. MaxConn -> [Peer -> Seq(Messages)]] /\ chan[p] \in 0 .. MaxConn
        /\ Other(p) \in Peer
    BY OtherType DEF PairInv, HandshakeInv, TypeOK
  <1>2. CASE UNCHANGED wire
    BY <1>2 DEF Withholds
  <1>3. CASE Inbox(p) # <<>> /\ Take(p)
    BY <1>1, <1>3 DEF Take, Withholds, Inbox
  <1>4. CASE \E m \in Messages : m.kind # kind /\ Send(p, m)
    <2>1. PICK m \in Messages : m.kind # kind /\ Send(p, m)
      BY <1>4
    <2>2. CASE shut[chan[p]]
      BY <2>1, <2>2 DEF Send, Withholds
    <2>3. CASE ~shut[chan[p]]
      <3>1. wire' = [wire EXCEPT ![chan[p]][Other(p)] = Append(wire[chan[p]][Other(p)], m)]
        BY <2>1, <2>3 DEF Send
      <3> QED BY <1>1, <2>1, <3>1 DEF Withholds
    <2> QED BY <2>2, <2>3
  <1> QED BY <1>2, <1>3, <1>4

(* A step that leaves the coroutines of the completion where they are.     *)
LEMMA FieldsCause ==
  ASSUME CauseInv, NEW p \in Peer, Stays(p), Coded(p)',
         \A kind \in PakeKinds : Takes(p, kind) /\ Withholds(p, kind),
         hs'[p].completing = hs[p].completing,
         \A k \in tasks'[p] : k \in tasks[p] \/ (Grounded(p, k) /\ k.at \notin ToConfirm)
  PROVE  CauseHolds'
  <1>1. ASSUME NEW kind \in PakeKinds PROVE YetTo(p, kind)' => YetTo(p, kind)
    <2>1. Before(kind) \subseteq ToConfirm /\ gen' = gen
      BY DEF Before, ToConfirm, Stays
    <2> QED BY <2>1 DEF YetTo
  <1> QED BY <1>1, StaysCause

(* A coroutine of the completion moves on, and may send its share or tag.  *)
LEMMA MoveCause ==
  ASSUME CauseInv, NEW p \in Peer, Stays(p), Coded(p)', chan[p] # 0,
         \A kind \in PakeKinds : Takes(p, kind),
         hs'[p].completing = hs[p].completing,
         NEW k \in tasks[p], NEW l, tasks'[p] = (tasks[p] \ {k}) \cup {l},
         k.at \in Chain, k.gen = gen[p], l.gen = k.gen, Grounded(p, l),
         \A kind \in PakeKinds :
           \/ Withholds(p, kind) /\ (l.at \in Before(kind) => k.at \in Before(kind))
           \/ k.at \in Before(kind) /\ l.at \notin Before(kind)
  PROVE  CauseHolds'
  <1>1. gen'[p] = gen[p] /\ CompletesOnce(p) /\ hs[p].completing /\ PairInv
    BY Running, RowOf DEF Stays, CauseInv, Local, InStep
  <1>2. ASSUME NEW kind \in PakeKinds,
               Withholds(p, kind), l.at \in Before(kind) => k.at \in Before(kind)
        PROVE  YetTo(p, kind)' => YetTo(p, kind)
    BY <1>1, <1>2 DEF YetTo
  <1>3. ASSUME NEW kind \in PakeKinds, k.at \in Before(kind), l.at \notin Before(kind)
        PROVE  YetTo(p, kind) /\ ~YetTo(p, kind)'
    <2>1. YetTo(p, kind)
      BY <1>3 DEF YetTo
    <2>2. Before(kind) \subseteq Chain
      BY DEF Before, ToShare, ToConfirm, Chain
    <2>3. \A j \in tasks[p] : j.gen = gen[p] /\ j.at \in Before(kind) => j = k
      BY <1>1, <2>2 DEF CompletesOnce
    <2> QED BY <1>1, <1>3, <2>1, <2>3 DEF YetTo
  <1>4. ASSUME NEW kind \in PakeKinds
        PROVE  \/ Withholds(p, kind) /\ (YetTo(p, kind)' => YetTo(p, kind))
               \/ YetTo(p, kind) /\ ~YetTo(p, kind)'
    BY <1>2, <1>3
  <1> QED BY <1>4, StaysCause

-----------------------------------------------------------------------------
LEMMA TakeCause ==
  ASSUME CauseInv, NEW p \in Peer, Inbox(p) # <<>>, Consume(p)
  PROVE  /\ Posted(p) /\ Take(p) /\ \A kind : Withholds(p, kind)
         /\ wire'[chan[p]][p] = Tail(Inbox(p))
  <1>1. PairInv /\ Take(p)
    BY DEF CauseInv, Consume
  <1>2. wire \in [0 .. MaxConn -> [Peer -> Seq(Messages)]] /\ chan[p] \in 0 .. MaxConn
    BY <1>1 DEF PairInv, HandshakeInv, TypeOK
  <1>3. wire'[chan[p]][p] = Tail(Inbox(p))
    BY <1>1, <1>2 DEF Take, Inbox
  <1> QED BY <1>1, <1>3, TakePosted, PostsWithheld

LEMMA ShareCause ==
  ASSUME CauseInv, NEW p \in Peer, View(Other(p))' = View(Other(p)),
         Arrived(p, {"PakeShare"}, {"handshaking", "verifying"}),
         hs' = [hs EXCEPT ![p].share = Head(Inbox(p))],
         Wake(p, "shareWait", "shareGot", Head(Inbox(p))), Consume(p),
         UNCHANGED <<gen, chan, code, shut, keys>>
  PROVE  CauseHolds'
  <1> DEFINE m == Head(Inbox(p))
  <1>1. /\ PairInv /\ Cause(p) /\ tasks \in [Peer -> SUBSET Tasks] /\ hs \in [Peer -> Handshakes]
        /\ Inbox(p) # <<>> /\ m.kind = "PakeShare"
    BY DEF CauseInv, PairInv, HandshakeInv, TypeOK, Arrived
  <1>2. /\ Posted(p) /\ (\A kind : Withholds(p, kind))
        /\ wire'[chan[p]][p] = Tail(Inbox(p))
    BY <1>1, TakeCause
  <1>3. /\ hs'[p].transcript = hs[p].transcript /\ hs'[p].sigSent = hs[p].sigSent
        /\ hs'[p].session = hs[p].session /\ hs'[p].pakeBegun = hs[p].pakeBegun
        /\ hs'[p].share = m /\ hs'[p].confirm = hs[p].confirm
        /\ hs'[p].completing = hs[p].completing
    BY <1>1 DEF Handshakes
  <1>4. tasks'[p] = {IF k.at = "shareWait" THEN [k EXCEPT !.at = "shareGot", !.got = m]
                     ELSE k : k \in tasks[p]}
    BY <1>1 DEF Wake
  <1>5. \A g, t : From(p, g, t) => Says(p, g, t, m)
    BY <1>1, SaidHead
  <1> HIDE DEF m
  <1>6. Stays(p) /\ Coded(p)'
    BY <1>1, <1>2, <1>3 DEF Stays, Cause, Coded
  <1>7. ASSUME NEW kind \in PakeKinds PROVE Takes(p, kind)
    BY <1>1, <1>2, <1>3 DEF PakeKinds, Takes, Stored, m
  <1>8. ASSUME NEW l \in tasks'[p]
        PROVE  /\ l \in tasks[p] \/ Grounded(p, l)
               /\ \A kind \in PakeKinds : l.at \in Before(kind) =>
                    \E k \in tasks[p] : k.gen = l.gen /\ k.at \in Before(kind)
    <2>1. PICK k \in tasks[p] :
             l = IF k.at = "shareWait" THEN [k EXCEPT !.at = "shareGot", !.got = m]
                                       ELSE k
      BY <1>4, <1>8
    <2>2. CASE k.at = "shareWait"
      <3>1. k \in Tasks /\ Caused(p, k)
        BY <1>1 DEF Cause
      <3>2. /\ l.at = "shareGot" /\ l.got = m /\ l.gen = k.gen /\ l.t = k.t
            /\ l.secret = k.secret
        BY <2>1, <2>2, <3>1, WokenTask
      <3>3. Caused(p, l)
        BY <2>2, <3>1, <3>2 DEF Caused, PakePoints, Parked
      <3>4. ASSUME NEW g, NEW t, From(p, g, t) PROVE FromTask(p, g, t, l)
        <4>1. FromTask(p, g, t, k) /\ Says(p, g, t, m)
          BY <1>5, <3>4 DEF From
        <4> QED BY <1>1, <2>2, <3>2, <4>1 DEF FromTask, Says, Chain, Keyed
      <3>5. \A kind \in PakeKinds : l.at \in Before(kind) => k.at \in Before(kind)
        BY <2>2, <3>2 DEF Before, ToShare, ToConfirm
      <3> QED BY <3>2, <3>3, <3>4, <3>5 DEF Grounded
    <2> QED BY <2>1, <2>2
  <1>9. ASSUME NEW kind \in PakeKinds PROVE YetTo(p, kind)' => YetTo(p, kind)
    BY <1>3, <1>6, <1>8 DEF YetTo, Stays
  <1> QED BY <1>2, <1>6, <1>7, <1>8, <1>9, StaysCause
(* maybeSignAndSend, run on fields that have no transcript yet.            *)
LEMMA SignCause ==
  ASSUME CauseInv, NEW p \in Peer, View(Other(p))' = View(Other(p)),
         UNCHANGED <<gen, chan, code, shut, keys>>, Posted(p),
         \A kind \in PakeKinds : Withholds(p, kind),
         hs[p].transcript = None, NEW h \in Handshakes, MaybeSign(p, h),
         h.sigSent = hs[p].sigSent, h.session = hs[p].session, h.share = hs[p].share,
         h.confirm = hs[p].confirm, h.completing = hs[p].completing,
         h.pakeBegun = hs[p].pakeBegun,
         tasks'[p] \subseteq tasks[p] \cup SignTasks(p, h)
  PROVE  CauseHolds'
  <1>1. TypeOK /\ PairInv /\ Cause(p)
    BY DEF CauseInv, PairInv, HandshakeInv
  <1>2. /\ hs'[p].sigSent = hs[p].sigSent /\ hs'[p].session = hs[p].session
        /\ hs'[p].share = hs[p].share /\ hs'[p].confirm = hs[p].confirm
        /\ hs'[p].completing = hs[p].completing
    BY <1>1, SignKeeps, SignFields
  <1>3. hs'[p].pakeBegun = hs[p].pakeBegun
    <2>1. hs'[p] = IF CanSign(h) THEN [h EXCEPT !.transcript = BuildTranscript(p, h)] ELSE h
      BY <1>1 DEF MaybeSign, TypeOK
    <2> QED BY <2>1 DEF Handshakes
  <1>4. Stays(p) /\ Coded(p)'
    BY <1>1, <1>2, <1>3 DEF Stays, Cause, Coded
  <1>5. \A kind \in PakeKinds : Takes(p, kind)
    BY <1>2 DEF Takes, Stored
  <1>6. ASSUME NEW k \in SignTasks(p, h) PROVE Grounded(p, k) /\ k.at \notin ToConfirm
    <2>1. k.at = "sign"
      BY <1>1, <1>6, SignKeeps
    <2> QED BY <2>1
            DEF Grounded, Caused, FromTask, PakePoints, Parked, Chain, Keyed, ToConfirm, ToShare
  <1> QED BY <1>2, <1>4, <1>5, <1>6, FieldsCause

LEMMA ConfirmCause ==
  ASSUME CauseInv, NEW p \in Peer, View(Other(p))' = View(Other(p)),
         Arrived(p, {"PakeConfirm"}, {"handshaking", "verifying"}),
         hs' = [hs EXCEPT ![p].confirm = Head(Inbox(p))],
         Wake(p, "confirmWait", "confirmGot", Head(Inbox(p))), Consume(p),
         UNCHANGED <<gen, chan, code, shut, keys>>
  PROVE  CauseHolds'
  <1> DEFINE m == Head(Inbox(p))
  <1>1. /\ PairInv /\ Cause(p) /\ tasks \in [Peer -> SUBSET Tasks] /\ hs \in [Peer -> Handshakes]
        /\ Inbox(p) # <<>> /\ m.kind = "PakeConfirm" /\ chan[p] # 0
    BY DEF CauseInv, PairInv, HandshakeInv, TypeOK, Arrived
  <1>2. /\ Posted(p) /\ (\A kind : Withholds(p, kind))
        /\ wire'[chan[p]][p] = Tail(Inbox(p))
    BY <1>1, TakeCause
  <1>3. /\ hs'[p].transcript = hs[p].transcript /\ hs'[p].sigSent = hs[p].sigSent
        /\ hs'[p].session = hs[p].session /\ hs'[p].pakeBegun = hs[p].pakeBegun
        /\ hs'[p].confirm = m /\ hs'[p].share = hs[p].share
        /\ hs'[p].completing = hs[p].completing
    BY <1>1 DEF Handshakes
  <1>4. tasks'[p] = {IF k.at = "confirmWait" THEN [k EXCEPT !.at = "confirmGot", !.got = m]
                     ELSE k : k \in tasks[p]}
    BY <1>1 DEF Wake
  <1>5. \A g, t : From(p, g, t) => Says(p, g, t, m)
    BY <1>1, SaidHead
  <1> HIDE DEF m
  <1>6. Stays(p) /\ Coded(p)'
    BY <1>1, <1>2, <1>3 DEF Stays, Cause, Coded
  <1>7. ASSUME NEW kind \in PakeKinds PROVE Takes(p, kind)
    BY <1>1, <1>2, <1>3 DEF PakeKinds, Takes, Stored, m
  <1>8. ASSUME NEW l \in tasks'[p]
        PROVE  l \in tasks[p] \/ (Grounded(p, l) /\ l.at \notin ToConfirm)
    <2>1. PICK k \in tasks[p] :
             l = IF k.at = "confirmWait" THEN [k EXCEPT !.at = "confirmGot", !.got = m]
                                         ELSE k
      BY <1>4, <1>8
    <2>2. CASE k.at = "confirmWait"
      <3>1. k \in Tasks /\ Caused(p, k)
        BY <1>1 DEF Cause
      <3>2. /\ l.at = "confirmGot" /\ l.got = m /\ l.gen = k.gen /\ l.t = k.t
            /\ l.secret = k.secret
        BY <2>1, <2>2, <3>1, WokenTask
      <3>3. k.gen = gen[p] /\ code[p] # NoCode
        BY <2>2, <3>1 DEF Caused, PakePoints, Parked
      <3>4. Agree(p) => TagMatches(l)
        <4> SUFFICES ASSUME Agree(p) PROVE TagMatches(l)
          OBVIOUS
        <4>1. PICK g \in Nat, t \in Transcripts \cup {None} : From(p, g, t)
          BY <1>1, Witnessed DEF Cause
        <4>2. FromTask(p, g, t, k) /\ Says(p, g, t, m)
          BY <1>5, <4>1 DEF From
        <4> QED BY <1>1, <2>2, <3>2, <3>3, <4>2 DEF FromTask, Says, TagMatches, Chain, Keyed
      <3>5. Caused(p, l)
        BY <3>2, <3>3, <3>4 DEF Caused, Parked
      <3>6. ASSUME NEW g, NEW t, From(p, g, t) PROVE FromTask(p, g, t, l)
        <4>1. FromTask(p, g, t, k)
          BY <3>6 DEF From
        <4> QED BY <2>2, <3>2, <4>1 DEF FromTask, Chain, Keyed
      <3> QED BY <3>2, <3>5, <3>6 DEF Grounded, ToConfirm, ToShare
    <2> QED BY <2>1, <2>2
  <1> QED BY <1>2, <1>3, <1>6, <1>7, <1>8, FieldsCause

LEMMA InboundCause ==
  ASSUME CauseInv, NEW p \in Peer, Inbound(p), View(Other(p))' = View(Other(p))
  PROVE  CauseHolds'
  <1>1. /\ PairInv /\ TypeOK /\ Row(p) /\ Local(p) /\ Cause(p) /\ hs[p] \in Handshakes
        /\ tasks \in [Peer -> SUBSET Tasks] /\ hs \in [Peer -> Handshakes]
    BY RowOf DEF CauseInv, PairInv, HandshakeInv, TypeOK
  <1>2. \A kind, origin : Fail(p, kind, origin, tasks[p]) => CauseHolds'
    BY FailCause
  <1>3. ASSUME UNCHANGED <<orch, tasks, texts, disk, conn, shut>>, Posted(p),
               \A kind \in PakeKinds : Withholds(p, kind)
        PROVE  CauseHolds'
    <2>1. Stays(p) /\ Coded(p)' /\ hs' = hs /\ tasks' = tasks
      BY <1>1, <1>3 DEF Stays, orch, Cause, Coded
    <2>2. \A kind \in PakeKinds : Takes(p, kind)
      BY <2>1 DEF Takes, Stored
    <2> QED BY <1>3, <2>1, <2>2, FieldsCause
  <1>4. CASE InboundHello(p)
    <2>1. CASE hs[p].peer # 0
      BY <1>2, <1>4, <2>1 DEF InboundHello
    <2>2. CASE hs[p].peer = 0
      <3> DEFINE h == [hs[p] EXCEPT !.peer = Head(Inbox(p)).gen]
      <3>1. /\ MaybeSign(p, h) /\ tasks'[p] = tasks[p] \cup SignTasks(p, h) /\ Consume(p)
            /\ UNCHANGED <<gen, chan, code, shut, keys>> /\ chan[p] # 0 /\ Inbox(p) # <<>>
        BY <1>1, <1>4, <2>2 DEF InboundHello, Arrived
      <3>2. Head(Inbox(p)).gen \in Nat
        BY <1>1, <3>1, HeadIsTrue DEF Messages
      <3>3. /\ h \in Handshakes /\ h.sigSent = hs[p].sigSent /\ h.session = hs[p].session
            /\ h.share = hs[p].share /\ h.confirm = hs[p].confirm
            /\ h.completing = hs[p].completing /\ h.pakeBegun = hs[p].pakeBegun
        BY <1>1, <3>2 DEF Handshakes
      <3>4. hs[p].transcript = None
        BY <1>1, <2>2 DEF Local, FieldsAreCurrent
      <3> HIDE DEF h
      <3> QED BY <1>1, <3>1, <3>3, <3>4, TakeCause, SignCause
    <2> QED BY <2>1, <2>2
  <1>5. CASE InboundSignature(p)
    <2>1. CASE hs[p].completing /\ Consume(p) /\ UNCHANGED <<orch, tasks, texts, disk, conn, shut>>
      BY <1>3, <1>5, <2>1, TakeCause DEF InboundSignature, Arrived
    <2>2. CASE Fail(p, "HandshakeFailed", gen[p], tasks[p])
      BY <1>2, <2>2
    <2>3. CASE /\ ~hs[p].completing
               /\ hs' = [hs EXCEPT ![p] = Latch(@, code[p] # NoCode)]
               /\ tasks' = [tasks EXCEPT ![p] = @ \cup
                    {[Task("verify", gen[p], hs[p].transcript) EXCEPT !.got = Head(Inbox(p))]}]
               /\ Consume(p)
               /\ UNCHANGED <<state, gen, chan, keys, timer, failure, authFailed,
                              code, texts, disk, conn, shut>>
      <3> DEFINE m == Head(Inbox(p))
                 v == [Task("verify", gen[p], hs[p].transcript) EXCEPT !.got = m]
      <3>1. /\ Posted(p) /\ m.kind = "Signature" /\ Inbox(p) # <<>>
            /\ \A kind : Withholds(p, kind)
        BY <1>5, <2>3, TakeCause DEF InboundSignature, Arrived
      <3>2. v.at = "verify" /\ v.got = m
        BY DEF Task
      <3>3. /\ hs'[p].transcript = hs[p].transcript /\ hs'[p].sigSent = hs[p].sigSent
            /\ hs'[p].share = hs[p].share /\ hs'[p].confirm = hs[p].confirm
            /\ hs'[p].session = hs[p].session /\ hs'[p].pakeBegun = (code[p] # NoCode)
        BY <1>1, <2>3 DEF Handshakes, Latch
      <3>4. tasks'[p] = tasks[p] \cup {v} /\ UNCHANGED <<gen, chan, code, shut, keys>>
        BY <1>1, <2>3
      <3>5. Stays(p) /\ Coded(p)'
        BY <1>1, <3>1, <3>3, <3>4 DEF Stays, Cause, Coded
      <3>6. \A kind \in PakeKinds : Takes(p, kind) /\ YetTo(p, kind)
        BY <2>3, <3>3 DEF Takes, Stored, YetTo
      <3>7. Grounded(p, v)
        <4>1. Caused(p, v)
          BY <3>2 DEF Caused, PakePoints, Parked
        <4>2. ASSUME NEW g, NEW t, From(p, g, t) PROVE FromTask(p, g, t, v)
          <5>1. Says(p, g, t, m)
            BY <3>1, <4>2, SaidHead
          <5> QED BY <3>1, <3>2, <5>1 DEF FromTask, Says, Keyed
        <4> QED BY <4>1, <4>2 DEF Grounded
      <3> HIDE DEF m, v
      <3> QED BY <3>1, <3>4, <3>5, <3>6, <3>7, StaysCause
    <2> QED BY <1>5, <2>1, <2>2, <2>3 DEF InboundSignature
  <1>6. CASE InboundEarlyFrame(p)
    BY <1>2, <1>6 DEF InboundEarlyFrame
  <1>7. CASE InboundConnected(p)
    <2>1. CASE Take(p) /\ UNCHANGED <<orch, tasks, texts, disk, conn, shut>>
      BY <1>3, <1>7, <2>1, TakeCause DEF InboundConnected, Arrived, Consume
    <2>2. CASE Fail(p, "Malformed", gen[p], tasks[p])
      BY <1>2, <2>2
    <2> QED BY <1>7, <2>1, <2>2 DEF InboundConnected
  <1>8. CASE DropUnattached(p)
    <2>1. /\ wire[conn][p] # <<>> /\ wire' = [wire EXCEPT ![conn][p] = Tail(wire[conn][p])]
          /\ UNCHANGED <<orch, tasks, texts, disk, conn, shut>>
      BY <1>8 DEF DropUnattached
    <2>2. Posted(p) /\ \A kind : Withholds(p, kind)
      BY <1>1, <2>1 DEF Posted, Withholds, TypeOK
    <2> QED BY <1>3, <2>1, <2>2
  <1>9. CASE InboundPakeShare(p)
    <2>1. CASE \E kind : Fail(p, kind, gen[p], tasks[p])
      BY <1>2, <2>1
    <2>2. CASE /\ hs' = [hs EXCEPT ![p].share = Head(Inbox(p))]
               /\ Wake(p, "shareWait", "shareGot", Head(Inbox(p)))
               /\ Consume(p)
               /\ UNCHANGED <<state, gen, chan, keys, timer, failure, authFailed,
                              code, texts, disk, conn, shut>>
      <3>1. Arrived(p, {"PakeShare"}, {"handshaking", "verifying"})
        BY <1>9 DEF InboundPakeShare
      <3> QED BY <2>2, <3>1, ShareCause
    <2> QED BY <1>9, <2>1, <2>2 DEF InboundPakeShare
  <1>10. CASE InboundPakeConfirm(p)
    <2>1. CASE \E kind : Fail(p, kind, gen[p], tasks[p])
      BY <1>2, <2>1
    <2>2. CASE /\ hs' = [hs EXCEPT ![p].confirm = Head(Inbox(p))]
               /\ Wake(p, "confirmWait", "confirmGot", Head(Inbox(p)))
               /\ Consume(p)
               /\ UNCHANGED <<state, gen, chan, keys, timer, failure, authFailed,
                              code, texts, disk, conn, shut>>
      <3>1. Arrived(p, {"PakeConfirm"}, {"handshaking", "verifying"})
        BY <1>10 DEF InboundPakeConfirm
      <3> QED BY <2>2, <3>1, ConfirmCause
    <2> QED BY <1>10, <2>1, <2>2 DEF InboundPakeConfirm
  <1> QED BY <1>3, <1>4, <1>5, <1>6, <1>7, <1>8, <1>9, <1>10 DEF Inbound

-----------------------------------------------------------------------------
(* Calls and timers.                                                       *)
LEMMA TimersCause ==
  ASSUME CauseInv, NEW p \in Peer, Timers(p) PROVE CauseHolds'
  <1>1. CASE HandshakeTimeout(p)
    BY <1>1, FailCause DEF HandshakeTimeout
  <1>2. CASE PakeTimeout(p)
    <2>1. PICK k \in tasks[p] : Fail(p, "Timeout", k.gen, tasks[p] \ {k})
      BY <1>2 DEF PakeTimeout
    <2> QED BY <2>1, FailCause
  <1> QED BY <1>1, <1>2 DEF Timers

LEMMA CallsCause ==
  ASSUME CauseInv, NEW p \in Peer, Calls(p), View(Other(p))' = View(Other(p))
  PROVE  CauseHolds'
  <1>1. /\ tasks \in [Peer -> SUBSET Tasks] /\ hs \in [Peer -> Handshakes]
        /\ code \in [Peer -> Codes \cup {NoCode}] /\ Other(p) \in Peer /\ Other(p) # p
    BY TwoEnds DEF CauseInv, PairInv, HandshakeInv, TypeOK
  <1>2. CASE Start(p) \/ NotifyPeerJoined(p) \/ Retry(p)
    BY <1>2, PlainCause DEF Start, NotifyPeerJoined, Retry, net
  <1>3. CASE NotifyPeerLeft(p)
    <2>1. /\ Teardown(p, tasks[p]) /\ gen' = gen /\ code' = code
      BY <1>3 DEF NotifyPeerLeft, Disconnect
    <2>2. tasks'[p] = {k \in tasks[p] : k.at \notin Parked}
      BY <1>1, <2>1 DEF Teardown
    <2>3. CodeStands(p)
      BY <2>1 DEF CodeStands
    <2> QED BY <2>1, <2>2, <2>3, DownCause DEF Teardown
  <1>4. CASE AttachTransport(p)
    BY <1>4, AttachCause
  <1>5. CASE Leave(p)
    <2> DEFINE frame == [Task("seal", gen[p], None) EXCEPT
                           !.got = Sealed("Leave", keys[p]), !.on = chan[p]]
               running == tasks[p] \cup IF state[p] = "connected" /\ keys[p] # None
                                        THEN {frame} ELSE {}
    <2>1. /\ Teardown(p, running) /\ gen' = gen /\ code' = code
      BY <1>5 DEF Leave, Disconnect
    <2>2. frame.at = "seal"
      BY DEF Task
    <2>3. tasks'[p] = {k \in running : k.at \notin Parked}
      BY <1>1, <2>1 DEF Teardown
    <2>4. \A k \in running : k \in tasks[p] \/ k.at = "seal"
      BY <2>2
    <2>5. CodeStands(p)
      BY <2>1 DEF CodeStands
    <2> HIDE DEF frame, running
    <2> QED BY <2>1, <2>3, <2>4, <2>5, DownCause DEF Teardown
  <1>6. CASE Restart(p)
    <2>1. /\ Teardown(p, {}) /\ gen' = gen /\ code'[Other(p)] = code[Other(p)]
          /\ code'[p] = NoCode
      BY <1>1, <1>6 DEF Restart
    <2>2. tasks'[p] = {}
      BY <1>1, <2>1 DEF Teardown
    <2>3. CodeStands(p)
      BY <2>1 DEF CodeStands
    <2> QED BY <2>1, <2>2, <2>3, DownCause DEF Teardown
  <1>7. CASE SendText(p)
    <2> DEFINE t == Task("append", gen[p], None)
    <2>1. t.at = "append"
      BY DEF Task
    <2>2. Grounded(p, t) /\ t.at \notin ToConfirm
      BY <2>1
         DEF Grounded, Caused, FromTask, PakePoints, Parked, Chain, Keyed, ToConfirm, ToShare
    <2>3. /\ UNCHANGED <<gen, chan, code, shut, wire, hs>>
          /\ tasks'[p] = tasks[p] \cup {t}
      BY <1>1, <1>7 DEF SendText, orch, net
    <2> HIDE DEF t
    <2> QED BY <2>2, <2>3, PlainCause
  <1> QED BY <1>2, <1>3, <1>4, <1>5, <1>6, <1>7 DEF Calls

-----------------------------------------------------------------------------
(* Coroutines.                                                             *)

(* A coroutine that moves on keeps what it knows.                          *)
LEMMA Carries ==
  ASSUME NEW p, NEW k \in tasks[p], NEW l, l.gen = k.gen, l.t = k.t,
         k.at \in Chain \ {"verify"}, l.at \in Chain \ {"verify", "shareGot"},
         l.at \in Keyed => k.at \in Keyed /\ l.secret = k.secret,
         NEW g, NEW t, From(p, g, t)
  PROVE  FromTask(p, g, t, l)
  <1>1. FromTask(p, g, t, k)
    BY DEF From
  <1> QED BY <1>1 DEF FromTask

LEMMA SecretComes ==
  ASSUME NEW p \in Peer, NEW k, NEW m, NEW g, k.gen = gen[p], m.gen = g, m.code = code[p]
  PROVE  PakeSecret(p, k, m) = SecretWith(p, g)
  BY DEF PakeSecret, SecretWith

LEMMA KeygenCause ==
  ASSUME CauseInv, NEW p \in Peer, NEW k \in tasks[p], KeygenDone(p, k),
         View(Other(p))' = View(Other(p))
  PROVE  CauseHolds'
  <1> DEFINE h == [hs[p] EXCEPT !.own = gen[p]]
  <1>a. PairInv
    BY DEF CauseInv
  <1>1. /\ MaybeSign(p, h) /\ tasks'[p] = (tasks[p] \ {k}) \cup SignTasks(p, h)
        /\ Send(p, Hello(gen[p])) /\ UNCHANGED <<gen, chan, code, shut, keys>>
        /\ k.at = "keygen" /\ k.gen = gen[p] /\ chan[p] # 0
    BY <1>a, Running DEF KeygenDone, Resume, KeygenSuperseded
  <1>2. hs[p].transcript = None
    BY <1>a, <1>1, Running, RowOf DEF InStep, Local, FieldsAreCurrent
  <1>3. /\ h \in Handshakes /\ h.sigSent = hs[p].sigSent /\ h.session = hs[p].session
        /\ h.share = hs[p].share /\ h.confirm = hs[p].confirm
        /\ h.completing = hs[p].completing /\ h.pakeBegun = hs[p].pakeBegun
    BY <1>a, Running DEF Handshakes
  <1>4. Hello(gen[p]) \in Messages /\ Hello(gen[p]).kind = "Hello"
    BY <1>a, Running, MessageType DEF Hello, Message, Kinds
  <1>5. Posted(p)
    BY <1>a, <1>1, <1>4, SendPosted DEF Vouched
  <1>6. ASSUME NEW kind \in PakeKinds PROVE Withholds(p, kind)
    <2>1. Hello(gen[p]).kind # kind
      BY <1>4 DEF PakeKinds
    <2> QED BY <1>a, <1>1, <1>4, <2>1, PostsWithheld
  <1> HIDE DEF h
  <1> QED BY <1>1, <1>2, <1>3, <1>5, <1>6, SignCause

LEMMA SignDoneCause ==
  ASSUME CauseInv, NEW p \in Peer, NEW k \in tasks[p], SignDone(p, k),
         View(Other(p))' = View(Other(p)), Posted(p)
  PROVE  CauseHolds'
  <1> DEFINE m == Signature(k.t)
  <1>a. PairInv /\ Cause(p)
    BY DEF CauseInv
  <1>1. /\ Send(p, m) /\ hs' = [hs EXCEPT ![p].sigSent = TRUE]
        /\ tasks'[p] \subseteq tasks[p] /\ UNCHANGED <<gen, chan, code, shut>>
    BY <1>a, Running DEF SignDone, Resume
  <1>2. /\ hs'[p].transcript = hs[p].transcript /\ hs'[p].sigSent
        /\ hs'[p].session = hs[p].session /\ hs'[p].pakeBegun = hs[p].pakeBegun
        /\ hs'[p].share = hs[p].share /\ hs'[p].confirm = hs[p].confirm
        /\ hs'[p].completing = hs[p].completing
    BY <1>a, <1>1, Running DEF Handshakes
  <1>3. m.kind = "Signature" /\ m \in Messages
    <2>1. k.t \in Transcripts \cup {None}
      BY <1>a, Running DEF Tasks
    <2> QED BY <2>1, MessageType DEF Signature, Message, Kinds
  <1>4. Stays(p) /\ Coded(p)'
    BY <1>a, <1>1, <1>2 DEF Stays, Cause, Coded
  <1> HIDE DEF m
  <1>5. ASSUME NEW kind \in PakeKinds PROVE Takes(p, kind) /\ Withholds(p, kind)
    <2>1. m.kind # kind
      BY <1>3 DEF PakeKinds
    <2>2. Withholds(p, kind)
      BY <1>a, <1>1, <1>3, <2>1, PostsWithheld
    <2> QED BY <1>2, <2>2 DEF Takes, Stored
  <1> QED BY <1>1, <1>2, <1>4, <1>5, FieldsCause

(* A step that moves one coroutine on and sends nothing.                   *)
LEMMA QuietMove ==
  ASSUME CauseInv, NEW p \in Peer, View(Other(p))' = View(Other(p)),
         UNCHANGED <<gen, chan, code, shut, wire>>, chan[p] # 0,
         /\ hs'[p].transcript = hs[p].transcript /\ hs'[p].sigSent = hs[p].sigSent
         /\ hs'[p].share \in {hs[p].share, None} /\ hs'[p].confirm \in {hs[p].confirm, None}
         /\ hs'[p].session \in {hs[p].session, 0} /\ hs'[p].pakeBegun = hs[p].pakeBegun
         /\ hs'[p].completing = hs[p].completing,
         NEW k \in tasks[p], NEW l, tasks'[p] = (tasks[p] \ {k}) \cup {l},
         k.at \in Chain, k.gen = gen[p], l.gen = k.gen, Grounded(p, l),
         l.at \in ToShare => k.at \in ToShare, l.at \in ToConfirm => k.at \in ToConfirm
  PROVE  CauseHolds'
  <1>1. Stays(p) /\ Coded(p)'
    BY DEF Stays, Posted, CauseInv, Cause, Coded
  <1>2. ASSUME NEW kind \in PakeKinds
        PROVE  /\ Takes(p, kind) /\ Withholds(p, kind)
               /\ l.at \in Before(kind) => k.at \in Before(kind)
    BY DEF Takes, Stored, Withholds, Before
  <1> QED BY <1>1, <1>2, MoveCause

LEMMA VerifyCause ==
  ASSUME CauseInv, NEW p \in Peer, NEW k \in tasks[p], VerifyDone(p, k),
         View(Other(p))' = View(Other(p))
  PROVE  CauseHolds'
  <1>a. PairInv
    BY DEF CauseInv
  <1>1. CASE Fail(p, "SignatureMismatch", k.gen, tasks[p] \ {k})
    BY <1>1, FailCause
  <1>2. CASE SignatureHolds(k)
    <2> DEFINE l == [k EXCEPT !.at = "tofu"]
    <2>1. /\ tasks'[p] = (tasks[p] \ {k}) \cup {l}
          /\ UNCHANGED <<gen, chan, hs, code, shut, wire>> /\ k.at = "verify"
          /\ k.gen = gen[p] /\ chan[p] # 0
      BY <1>a, <1>2, Running DEF VerifyDone, Resume, net, InForce
    <2>2. l.at = "tofu" /\ l.gen = k.gen /\ l.t = k.t
      BY <1>a, Running DEF Tasks
    <2>3. Grounded(p, l)
      <3>1. Caused(p, l)
        BY <2>2 DEF Caused, PakePoints, Parked
      <3>2. ASSUME NEW g, NEW t, From(p, g, t) PROVE FromTask(p, g, t, l)
        <4>1. FromTask(p, g, t, k)
          BY <3>2 DEF From
        <4> QED BY <1>2, <2>1, <2>2, <4>1 DEF FromTask, SignatureHolds, Keyed
      <3> QED BY <3>1, <3>2 DEF Grounded
    <2>4. k.at \in ToShare /\ k.at \in ToConfirm /\ k.at \in Chain
      BY <2>1 DEF ToShare, ToConfirm, Chain
    <2> HIDE DEF l
    <2> QED BY <2>1, <2>2, <2>3, <2>4, QuietMove
  <1> QED BY <1>1, <1>2 DEF VerifyDone

LEMMA TofuCause ==
  ASSUME CauseInv, NEW p \in Peer, NEW k \in tasks[p], TofuDone(p, k),
         View(Other(p))' = View(Other(p))
  PROVE  CauseHolds'
  <1>a. PairInv
    BY DEF CauseInv
  <1>1. CASE Fail(p, "IdentityChanged", k.gen, tasks[p] \ {k})
    BY <1>1, FailCause
  <1>2. CASE IdentityUnchanged(p)
    <2> DEFINE l == [k EXCEPT !.at = IF code[p] = NoCode THEN "derive" ELSE "create",
                              !.first = (pinned[p] = "nobody")]
    <2>1. /\ tasks'[p] = (tasks[p] \ {k}) \cup {l} /\ k.at = "tofu"
          /\ UNCHANGED <<gen, chan, hs, code, shut, wire>>
          /\ k.gen = gen[p] /\ chan[p] # 0
      BY <1>a, <1>2, Running DEF TofuDone, Resume, orch, net, InForce
    <2>2. /\ l.at = IF code[p] = NoCode THEN "derive" ELSE "create"
          /\ l.gen = k.gen /\ l.t = k.t
      BY <1>a, Running DEF Tasks
    <2> HIDE DEF l
    <2>3. Grounded(p, l)
      <3>1. Caused(p, l)
        BY <2>2 DEF Caused, PakePoints, Parked
      <3>2. /\ k.at \in Chain \ {"verify"} /\ l.at \in Chain \ {"verify", "shareGot"}
            /\ l.at \notin Keyed
        BY <2>1, <2>2 DEF Chain, Keyed
      <3> QED BY <2>2, <3>1, <3>2, Carries DEF Grounded
    <2>4. k.at \in ToShare /\ k.at \in ToConfirm /\ k.at \in Chain
      BY <2>1 DEF ToShare, ToConfirm, Chain
    <2> QED BY <2>1, <2>2, <2>3, <2>4, QuietMove
  <1> QED BY <1>1, <1>2 DEF TofuDone

LEMMA CreateCause ==
  ASSUME CauseInv, NEW p \in Peer, NEW k \in tasks[p], CreateDone(p, k),
         View(Other(p))' = View(Other(p)), Posted(p)
  PROVE  CauseHolds'
  <1> DEFINE m == PakeShare(k.gen, code[p])
             w == [k EXCEPT !.at = "shareWait"]
             f == [k EXCEPT !.at = "finish", !.secret = PakeSecret(p, k, hs[p].share)]
  <1>a. PairInv /\ Cause(p)
    BY DEF CauseInv
  <1>1. /\ Send(p, m) /\ UNCHANGED <<gen, chan, code, shut>>
        /\ k.at = "create" /\ k.gen = gen[p] /\ chan[p] # 0 /\ code[p] # NoCode
    BY <1>a, Running DEF CreateDone, InForce, OwnTask, PakePoints
  <1>2. m \in Messages /\ m.kind = "PakeShare"
    BY <1>a, <1>1, Running, MessageType DEF PakeShare, Message, Kinds
  <1>3. Withholds(p, "PakeConfirm")
    BY <1>a, <1>1, <1>2, PostsWithheld
  <1>4. k.at \in Chain /\ k.at \in Before("PakeShare") /\ k.at \in Before("PakeConfirm")
    BY <1>1 DEF Chain, Before, ToShare, ToConfirm
  <1> HIDE DEF m
  <1>5. CASE hs[p].share = None
    <2>1. hs' = [hs EXCEPT ![p].session = k.gen] /\ tasks'[p] = (tasks[p] \ {k}) \cup {w}
      BY <1>a, <1>5, Running DEF CreateDone, Resume
    <2>2. /\ hs'[p].transcript = hs[p].transcript /\ hs'[p].sigSent = hs[p].sigSent
          /\ hs'[p].share = hs[p].share /\ hs'[p].confirm = hs[p].confirm
          /\ hs'[p].completing = hs[p].completing
      BY <1>a, <2>1, Running DEF Handshakes
    <2>3. w.at = "shareWait" /\ w.gen = k.gen /\ w.t = k.t
      BY <1>a, Running DEF Tasks
    <2> HIDE DEF w
    <2>4. Stays(p) /\ Coded(p)'
      BY <1>1, <2>2 DEF Stays, Coded
    <2>5. \A kind \in PakeKinds : Takes(p, kind)
      BY <2>2 DEF Takes, Stored
    <2>6. Grounded(p, w)
      <3>1. Caused(p, w)
        BY <1>1, <2>3 DEF Caused
      <3>2. /\ k.at \in Chain \ {"verify"} /\ w.at \in Chain \ {"verify", "shareGot"}
            /\ w.at \notin Keyed
        BY <1>1, <2>3 DEF Chain, Keyed
      <3> QED BY <2>3, <3>1, <3>2, Carries DEF Grounded
    <2>7. w.at \notin Before("PakeShare") /\ w.at \in Before("PakeConfirm")
      BY <2>3 DEF Before, ToShare, ToConfirm
    <2>8. ASSUME NEW kind \in PakeKinds
          PROVE  \/ Withholds(p, kind) /\ (w.at \in Before(kind) => k.at \in Before(kind))
                 \/ k.at \in Before(kind) /\ w.at \notin Before(kind)
      BY <1>3, <1>4, <2>7 DEF PakeKinds
    <2> QED BY <1>1, <1>4, <2>1, <2>2, <2>3, <2>4, <2>5, <2>6, <2>8, MoveCause
  <1>6. CASE hs[p].share # None
    <2>1. /\ hs' = [hs EXCEPT ![p].session = 0, ![p].share = None]
          /\ tasks'[p] = (tasks[p] \ {k}) \cup {f}
      BY <1>a, <1>6, Running DEF CreateDone, Resume
    <2>2. /\ hs'[p].transcript = hs[p].transcript /\ hs'[p].sigSent = hs[p].sigSent
          /\ hs'[p].share = None /\ hs'[p].confirm = hs[p].confirm
          /\ hs'[p].completing = hs[p].completing
      BY <1>a, <2>1, Running DEF Handshakes
    <2>3. /\ f.at = "finish" /\ f.gen = k.gen /\ f.t = k.t
          /\ f.secret = PakeSecret(p, k, hs[p].share)
      BY <1>a, Running DEF Tasks
    <2> HIDE DEF f
    <2>4. Stays(p) /\ Coded(p)'
      BY <1>1, <2>2 DEF Stays, Coded
    <2>5. \A kind \in PakeKinds : Takes(p, kind)
      BY <2>2 DEF Takes, Stored
    <2>6. Grounded(p, f)
      <3>1. Caused(p, f)
        BY <1>1, <2>3 DEF Caused, Parked
      <3>2. ASSUME NEW g, NEW t, From(p, g, t) PROVE FromTask(p, g, t, f)
        <4>1. FromTask(p, g, t, k) /\ hs[p].share.gen = g /\ hs[p].share.code = code[p]
          BY <1>6, <3>2 DEF From, FromFields
        <4>2. f.secret = SecretWith(p, g)
          BY <1>1, <2>3, <4>1, SecretComes
        <4> QED BY <1>1, <2>3, <4>1, <4>2 DEF FromTask, Chain
      <3> QED BY <3>1, <3>2 DEF Grounded
    <2>7. f.at \notin Before("PakeShare") /\ f.at \in Before("PakeConfirm")
      BY <2>3 DEF Before, ToShare, ToConfirm
    <2>8. ASSUME NEW kind \in PakeKinds
          PROVE  \/ Withholds(p, kind) /\ (f.at \in Before(kind) => k.at \in Before(kind))
                 \/ k.at \in Before(kind) /\ f.at \notin Before(kind)
      BY <1>3, <1>4, <2>7 DEF PakeKinds
    <2> QED BY <1>1, <1>4, <2>1, <2>2, <2>3, <2>4, <2>5, <2>6, <2>8, MoveCause
  <1> QED BY <1>5, <1>6

LEMMA ShareResumedCause ==
  ASSUME CauseInv, NEW p \in Peer, NEW k \in tasks[p], ShareResumed(p, k),
         View(Other(p))' = View(Other(p))
  PROVE  CauseHolds'
  <1> DEFINE f == [k EXCEPT !.at = "finish", !.secret = PakeSecret(p, k, k.got)]
  <1>a. PairInv /\ Cause(p)
    BY DEF CauseInv
  <1>1. /\ hs' = [hs EXCEPT ![p].session = 0, ![p].share = None]
        /\ tasks'[p] = (tasks[p] \ {k}) \cup {f}
        /\ UNCHANGED <<gen, chan, code, shut, wire>> /\ k.at = "shareGot"
        /\ hs[p].session = k.gen
    BY <1>a, Running DEF ShareResumed, Resume, net
  <1>2. /\ hs'[p].transcript = hs[p].transcript /\ hs'[p].sigSent = hs[p].sigSent
        /\ hs'[p].share = None /\ hs'[p].confirm = hs[p].confirm /\ hs'[p].session = 0
        /\ hs'[p].completing = hs[p].completing /\ hs'[p].pakeBegun = hs[p].pakeBegun
    BY <1>a, <1>1, Running DEF Handshakes
  <1>3. k.gen = gen[p] /\ chan[p] # 0
    <2>1. k.gen # 0
      BY <1>a, <1>1, Running DEF WellFormed, Chain
    <2>2. chan[p] = 0 => hs[p].session = 0
      BY <1>a, RowOf DEF Local, Quiet, Blank
    <2> QED BY <1>a, <1>1, <2>1, <2>2, Running DEF OwnFields
  <1>4. /\ f.at = "finish" /\ f.gen = k.gen /\ f.t = k.t
        /\ f.secret = PakeSecret(p, k, k.got)
    BY <1>a, Running DEF Tasks
  <1> HIDE DEF f
  <1>5. Grounded(p, f)
    <2>1. Caused(p, f)
      <3>1. Caused(p, k)
        BY <1>a DEF Cause
      <3> QED BY <1>1, <1>4, <3>1 DEF Caused, PakePoints, Parked
    <2>2. ASSUME NEW g, NEW t, From(p, g, t) PROVE FromTask(p, g, t, f)
      <3>1. FromTask(p, g, t, k)
        BY <2>2 DEF From
      <3>2. k.got.gen = g /\ k.got.code = code[p]
        BY <1>1, <1>3, <3>1 DEF FromTask
      <3>3. f.secret = SecretWith(p, g)
        BY <1>3, <1>4, <3>2, SecretComes
      <3> QED BY <1>1, <1>3, <1>4, <3>1, <3>3 DEF FromTask, Chain
    <2> QED BY <2>1, <2>2 DEF Grounded
  <1>6. f.at \notin ToShare /\ k.at \in ToConfirm /\ k.at \in Chain
    BY <1>1, <1>4 DEF ToShare, ToConfirm, Chain
  <1> QED BY <1>1, <1>2, <1>3, <1>4, <1>5, <1>6, QuietMove

LEMMA FinishCause ==
  ASSUME CauseInv, NEW p \in Peer, NEW k \in tasks[p], FinishDone(p, k),
         View(Other(p))' = View(Other(p))
  PROVE  CauseHolds'
  <1> DEFINE l == [k EXCEPT !.at = "tag"]
  <1>a. PairInv /\ Cause(p)
    BY DEF CauseInv
  <1>1. /\ tasks'[p] = (tasks[p] \ {k}) \cup {l} /\ k.at = "finish"
        /\ UNCHANGED <<gen, chan, hs, code, shut, wire>>
        /\ k.gen = gen[p] /\ chan[p] # 0
    BY <1>a, Running DEF FinishDone, Resume, orch, net, InForce
  <1>2. l.at = "tag" /\ l.gen = k.gen /\ l.t = k.t /\ l.secret = k.secret
    BY <1>a, Running DEF Tasks
  <1> HIDE DEF l
  <1>3. Grounded(p, l)
    <2>1. Caused(p, l)
      <3>1. Caused(p, k)
        BY <1>a DEF Cause
      <3> QED BY <1>1, <1>2, <3>1 DEF Caused, PakePoints, Parked
    <2>2. /\ k.at \in Chain \ {"verify"} /\ l.at \in Chain \ {"verify", "shareGot"}
          /\ k.at \in Keyed
      BY <1>1, <1>2 DEF Chain, Keyed
    <2> QED BY <1>2, <2>1, <2>2, Carries DEF Grounded
  <1>4. l.at \notin ToShare /\ k.at \in ToConfirm /\ k.at \in Chain
    BY <1>1, <1>2 DEF ToShare, ToConfirm, Chain
  <1> QED BY <1>1, <1>2, <1>3, <1>4, QuietMove

LEMMA TagCause ==
  ASSUME CauseInv, NEW p \in Peer, NEW k \in tasks[p], TagDone(p, k),
         View(Other(p))' = View(Other(p)), Posted(p)
  PROVE  CauseHolds'
  <1> DEFINE m == PakeConfirm(k.t, k.secret)
             w == [k EXCEPT !.at = "confirmWait"]
             c == [k EXCEPT !.at = "check", !.got = hs[p].confirm]
  <1>a. PairInv /\ Cause(p)
    BY DEF CauseInv
  <1>1. /\ Send(p, m) /\ UNCHANGED <<gen, chan, code, shut>>
        /\ k.at = "tag" /\ k.gen = gen[p] /\ chan[p] # 0 /\ code[p] # NoCode
    BY <1>a, Running DEF TagDone, InForce, OwnTask, PakePoints
  <1>2. m \in Messages /\ m.kind = "PakeConfirm"
    <2>1. k.t \in Transcripts \cup {None} /\ k.secret \in Secrets \cup {None}
      BY <1>a, Running DEF Tasks
    <2> QED BY <2>1, MessageType DEF PakeConfirm, Message, Kinds
  <1>3. Withholds(p, "PakeShare")
    BY <1>a, <1>1, <1>2, PostsWithheld
  <1>4. /\ k.at \in Chain /\ k.at \notin Before("PakeShare") /\ k.at \in Before("PakeConfirm")
        /\ k.at \in Keyed
    BY <1>1 DEF Chain, Before, ToShare, ToConfirm, Keyed
  <1> HIDE DEF m
  <1>5. CASE hs[p].confirm = None
    <2>1. hs' = hs /\ tasks'[p] = (tasks[p] \ {k}) \cup {w}
      BY <1>a, <1>5, Running DEF TagDone, Resume
    <2>2. w.at = "confirmWait" /\ w.gen = k.gen /\ w.t = k.t /\ w.secret = k.secret
      BY <1>a, Running DEF Tasks
    <2> HIDE DEF w
    <2>3. Stays(p) /\ Coded(p)'
      BY <1>1, <2>1 DEF Stays, Coded
    <2>4. \A kind \in PakeKinds : Takes(p, kind)
      BY <2>1 DEF Takes, Stored
    <2>5. Grounded(p, w)
      <3>1. Caused(p, w)
        BY <1>1, <2>2 DEF Caused
      <3>2. k.at \in Chain \ {"verify"} /\ w.at \in Chain \ {"verify", "shareGot"}
        BY <1>1, <2>2 DEF Chain
      <3> QED BY <1>4, <2>2, <3>1, <3>2, Carries DEF Grounded
    <2>6. w.at \notin Before("PakeShare") /\ w.at \notin Before("PakeConfirm")
      BY <2>2 DEF Before, ToShare, ToConfirm
    <2>7. ASSUME NEW kind \in PakeKinds
          PROVE  \/ Withholds(p, kind) /\ (w.at \in Before(kind) => k.at \in Before(kind))
                 \/ k.at \in Before(kind) /\ w.at \notin Before(kind)
      BY <1>3, <1>4, <2>6 DEF PakeKinds
    <2> QED BY <1>1, <1>4, <2>1, <2>2, <2>3, <2>4, <2>5, <2>7, MoveCause
  <1>6. CASE hs[p].confirm # None
    <2>1. hs' = [hs EXCEPT ![p].confirm = None] /\ tasks'[p] = (tasks[p] \ {k}) \cup {c}
      BY <1>a, <1>6, Running DEF TagDone, Resume
    <2>2. /\ hs'[p].transcript = hs[p].transcript /\ hs'[p].sigSent = hs[p].sigSent
          /\ hs'[p].share = hs[p].share /\ hs'[p].confirm = None
          /\ hs'[p].completing = hs[p].completing
      BY <1>a, <2>1, Running DEF Handshakes
    <2>3. /\ c.at = "check" /\ c.gen = k.gen /\ c.t = k.t /\ c.secret = k.secret
          /\ c.got = hs[p].confirm
      BY <1>a, Running DEF Tasks
    <2> HIDE DEF c
    <2>4. Stays(p) /\ Coded(p)'
      BY <1>1, <2>2 DEF Stays, Coded
    <2>5. \A kind \in PakeKinds : Takes(p, kind)
      BY <2>2 DEF Takes, Stored
    <2>6. Grounded(p, c)
      <3>1. Agree(p) => TagMatches(c)
        <4> SUFFICES ASSUME Agree(p) PROVE TagMatches(c)
          OBVIOUS
        <4>1. PICK g \in Nat, t \in Transcripts \cup {None} : From(p, g, t)
          BY <1>a, <1>1, Witnessed DEF Cause
        <4>2. FromTask(p, g, t, k) /\ FromFields(p, g, t)
          BY <4>1 DEF From
        <4>3. k.t = t /\ k.secret = SecretWith(p, g)
          BY <1>1, <1>4, <4>2 DEF FromTask
        <4>4. hs[p].confirm.secret = SecretWith(p, g) /\ hs[p].confirm.t = t
          BY <1>6, <4>2 DEF FromFields
        <4> QED BY <2>3, <4>3, <4>4 DEF TagMatches
      <3>2. Caused(p, c)
        BY <1>1, <2>3, <3>1 DEF Caused, Parked
      <3>3. k.at \in Chain \ {"verify"} /\ c.at \in Chain \ {"verify", "shareGot"}
        BY <1>1, <2>3 DEF Chain
      <3> QED BY <1>4, <2>3, <3>2, <3>3, Carries DEF Grounded
    <2>7. c.at \notin Before("PakeShare") /\ c.at \notin Before("PakeConfirm")
      BY <2>3 DEF Before, ToShare, ToConfirm
    <2>8. ASSUME NEW kind \in PakeKinds
          PROVE  \/ Withholds(p, kind) /\ (c.at \in Before(kind) => k.at \in Before(kind))
                 \/ k.at \in Before(kind) /\ c.at \notin Before(kind)
      BY <1>3, <1>4, <2>7 DEF PakeKinds
    <2> QED BY <1>1, <1>4, <2>1, <2>2, <2>3, <2>4, <2>5, <2>6, <2>8, MoveCause
  <1> QED BY <1>5, <1>6

LEMMA ConfirmResumedCause ==
  ASSUME CauseInv, NEW p \in Peer, NEW k \in tasks[p], ConfirmResumed(p, k),
         View(Other(p))' = View(Other(p))
  PROVE  CauseHolds'
  <1> DEFINE l == [k EXCEPT !.at = "check"]
  <1>a. PairInv /\ Cause(p)
    BY DEF CauseInv
  <1>1. /\ hs' = [hs EXCEPT ![p].confirm = None] /\ tasks'[p] = (tasks[p] \ {k}) \cup {l}
        /\ UNCHANGED <<gen, chan, code, shut, wire>>
        /\ k.at = "confirmGot" /\ k.gen = gen[p] /\ chan[p] # 0
    BY <1>a, Running DEF ConfirmResumed, Resume, net, InForce
  <1>2. /\ hs'[p].transcript = hs[p].transcript /\ hs'[p].sigSent = hs[p].sigSent
        /\ hs'[p].share = hs[p].share /\ hs'[p].confirm = None
        /\ hs'[p].session = hs[p].session
        /\ hs'[p].completing = hs[p].completing /\ hs'[p].pakeBegun = hs[p].pakeBegun
    BY <1>a, <1>1, Running DEF Handshakes
  <1>3. /\ l.at = "check" /\ l.gen = k.gen /\ l.t = k.t /\ l.secret = k.secret
        /\ l.got = k.got
    BY <1>a, Running DEF Tasks
  <1> HIDE DEF l
  <1>4. Grounded(p, l)
    <2>1. Caused(p, l)
      <3>1. Caused(p, k)
        BY <1>a DEF Cause
      <3>2. TagMatches(k) => TagMatches(l)
        BY <1>3 DEF TagMatches
      <3> QED BY <1>1, <1>3, <3>1, <3>2 DEF Caused, PakePoints, Parked
    <2>2. /\ k.at \in Chain \ {"verify"} /\ l.at \in Chain \ {"verify", "shareGot"}
          /\ k.at \in Keyed
      BY <1>1, <1>3 DEF Chain, Keyed
    <2> QED BY <1>3, <2>1, <2>2, Carries DEF Grounded
  <1>5. l.at \notin ToShare /\ l.at \notin ToConfirm /\ k.at \in Chain
    BY <1>1, <1>3 DEF ToShare, ToConfirm, Chain
  <1> QED BY <1>1, <1>2, <1>3, <1>4, <1>5, QuietMove

(* A coroutine past its tag waits for nothing of the peer any more.        *)
LEMMA PastTag ==
  ASSUME NEW p \in Peer, NEW k \in tasks[p], NEW l, l.gen = k.gen, l.t = k.t,
         k.at \in Chain \ {"verify"}, l.at \in {"derive", "store"}
  PROVE  Grounded(p, l) /\ l.at \notin ToConfirm
  <1>1. Caused(p, l)
    BY DEF Caused, PakePoints, Parked
  <1>2. l.at \in Chain \ {"verify", "shareGot"} /\ l.at \notin Keyed /\ l.at \notin ToConfirm
    BY DEF Chain, Keyed, ToConfirm, ToShare
  <1> QED BY <1>1, <1>2, Carries DEF Grounded

LEMMA CheckCause ==
  ASSUME CauseInv, NEW p \in Peer, NEW k \in tasks[p], CheckDone(p, k),
         View(Other(p))' = View(Other(p))
  PROVE  CauseHolds'
  <1>a. PairInv
    BY DEF CauseInv
  <1>1. CASE Fail(p, "PakeMismatch", k.gen, tasks[p] \ {k})
    BY <1>1, FailCause
  <1>2. CASE TagMatches(k)
    <2> DEFINE l == [k EXCEPT !.at = "derive"]
    <2>1. /\ tasks'[p] = (tasks[p] \ {k}) \cup IF Superseded(p, k) THEN {} ELSE {l}
          /\ UNCHANGED <<gen, chan, hs, code, shut, wire>> /\ k.at = "check"
      BY <1>a, <1>2, Running DEF CheckDone, Resume, orch, net
    <2>2. l.at = "derive" /\ l.gen = k.gen /\ l.t = k.t
      BY <1>a, Running DEF Tasks
    <2>3. k.at \in Chain \ {"verify"}
      BY <2>1 DEF Chain
    <2> HIDE DEF l
    <2>4. Grounded(p, l) /\ l.at \notin ToConfirm
      BY <2>2, <2>3, PastTag
    <2> QED BY <2>1, <2>4, PlainCause
  <1> QED BY <1>1, <1>2 DEF CheckDone

LEMMA DeriveCause ==
  ASSUME CauseInv, NEW p \in Peer, NEW k \in tasks[p], DeriveDone(p, k),
         View(Other(p))' = View(Other(p))
  PROVE  CauseHolds'
  <1>a. PairInv
    BY DEF CauseInv
  <1>1. CASE k.first
    <2> DEFINE l == [k EXCEPT !.at = "store"]
    <2>1. /\ tasks'[p] = (tasks[p] \ {k}) \cup {l}
          /\ UNCHANGED <<gen, chan, hs, code, shut, wire>> /\ k.at = "derive"
      BY <1>a, <1>1, Running DEF DeriveDone, Resume, orch, net
    <2>2. l.at = "store" /\ l.gen = k.gen /\ l.t = k.t
      BY <1>a, Running DEF Tasks
    <2>3. k.at \in Chain \ {"verify"}
      BY <2>1 DEF Chain
    <2> HIDE DEF l
    <2>4. Grounded(p, l) /\ l.at \notin ToConfirm
      BY <2>2, <2>3, PastTag
    <2> QED BY <2>1, <2>4, PlainCause
  <1>2. CASE ~k.first
    <2>1. UNCHANGED <<gen, chan, hs, code, shut, wire>> /\ tasks'[p] \subseteq tasks[p]
      BY <1>a, <1>2, Running DEF DeriveDone, Establish, Resume, net
    <2> QED BY <2>1, PlainCause
  <1> QED BY <1>1, <1>2

LEMMA StoreCause ==
  ASSUME CauseInv, NEW p \in Peer, NEW k \in tasks[p], StoreDone(p, k),
         View(Other(p))' = View(Other(p))
  PROVE  CauseHolds'
  <1>a. PairInv
    BY DEF CauseInv
  <1>1. UNCHANGED <<gen, chan, hs, code, shut, wire>> /\ tasks'[p] \subseteq tasks[p]
    BY <1>a, Running DEF StoreDone, Establish, Resume, orch, net
  <1> QED BY <1>1, PlainCause

LEMMA AppendCause ==
  ASSUME CauseInv, NEW p \in Peer, NEW k \in tasks[p], AppendDone(p, k),
         View(Other(p))' = View(Other(p))
  PROVE  CauseHolds'
  <1> DEFINE s == [Task("seal", gen[p], None) EXCEPT
                     !.got = Sealed("Frame", keys[p]), !.on = chan[p]]
  <1>a. PairInv
    BY DEF CauseInv
  <1>1. /\ tasks'[p] \subseteq tasks[p] \cup {s}
        /\ UNCHANGED <<gen, chan, hs, code, shut, wire>>
    BY <1>a, Running DEF AppendDone, Resume, orch, net
  <1>2. s.at = "seal"
    BY DEF Task
  <1> HIDE DEF s
  <1>3. Grounded(p, s) /\ s.at \notin ToConfirm
    BY <1>2 DEF Grounded, Caused, FromTask, PakePoints, Parked, Chain, Keyed, ToConfirm, ToShare
  <1> QED BY <1>1, <1>3, PlainCause

LEMMA SealCause ==
  ASSUME CauseInv, NEW p \in Peer, NEW k \in tasks[p], SealDone(p, k),
         View(Other(p))' = View(Other(p)), Posted(p)
  PROVE  CauseHolds'
  <1>a. PairInv /\ Cause(p)
    BY DEF CauseInv
  <1>1. /\ tasks'[p] = tasks[p] \ {k} /\ UNCHANGED <<gen, chan, hs, code, shut>>
        /\ k.at = "seal"
    BY <1>a, Running DEF SealDone, Resume, orch
  <1>2. /\ k.got \in Messages /\ k.got.kind \in {"Frame", "Leave"} /\ k.on \in 0 .. MaxConn
        /\ wire \in [0 .. MaxConn -> [Peer -> Seq(Messages)]] /\ Other(p) \in Peer
    <2>1. k.got # None /\ k.got.kind \in {"Frame", "Leave"}
      BY <1>a, <1>1, Running DEF OwnTask, WellFormed, Woken
    <2>2. k.got \in Messages \cup {None} /\ k.on \in 0 .. MaxConn
      BY <1>a, Running DEF Tasks
    <2>3. wire \in [0 .. MaxConn -> [Peer -> Seq(Messages)]]
      BY <1>a, Running DEF TypeOK
    <2> QED BY <2>1, <2>2, <2>3, OtherType
  <1>3. ASSUME NEW kind \in PakeKinds PROVE Takes(p, kind) /\ Withholds(p, kind)
    <2>1. k.got.kind # kind
      BY <1>2 DEF PakeKinds
    <2>2. CASE shut[k.on]
      BY <1>1, <2>2 DEF SealDone, Withholds, Takes, Stored
    <2>3. CASE ~shut[k.on]
      <3>1. wire' = [wire EXCEPT ![k.on][Other(p)] = Append(wire[k.on][Other(p)], k.got)]
        BY <2>3 DEF SealDone
      <3>2. Withholds(p, kind)
        BY <1>2, <2>1, <3>1 DEF Withholds
      <3> QED BY <1>1, <3>2 DEF Takes, Stored
    <2> QED BY <2>2, <2>3
  <1>4. Stays(p) /\ Coded(p)'
    BY <1>a, <1>1 DEF Stays, Cause, Coded
  <1> QED BY <1>1, <1>3, <1>4, FieldsCause

LEMMA CoroutineCause ==
  ASSUME CauseInv, NEW p \in Peer, Coroutine(p), View(Other(p))' = View(Other(p))
  PROVE  CauseHolds'
  <1>a. PairInv
    BY DEF CauseInv
  <1>1. PICK k \in tasks[p] :
          \/ Abandon(p, k)    \/ SendThrows(p, k)     \/ KeygenDone(p, k)
          \/ SignDone(p, k)   \/ VerifyDone(p, k)     \/ TofuDone(p, k)
          \/ CreateDone(p, k) \/ ShareResumed(p, k)   \/ FinishDone(p, k)
          \/ TagDone(p, k)    \/ ConfirmResumed(p, k) \/ CheckDone(p, k)
          \/ DeriveDone(p, k) \/ StoreDone(p, k)      \/ RepositoryRejects(p, k)
          \/ AppendDone(p, k) \/ SealDone(p, k)
    BY DEF Coroutine
  <1>2. CASE Abandon(p, k)
    <2>1. /\ tasks'[p] \subseteq tasks[p]
          /\ UNCHANGED <<gen, chan, hs, code, shut, wire>>
      BY <1>a, <1>2, Running DEF Abandon, Resume, orch, net
    <2> QED BY <2>1, PlainCause
  <1>3. CASE SendThrows(p, k) \/ RepositoryRejects(p, k)
    BY <1>3, FailCause DEF SendThrows, RepositoryRejects
  <1>4. CASE SignDone(p, k) \/ CreateDone(p, k) \/ TagDone(p, k) \/ SealDone(p, k)
    <2>1. Posted(p)
      BY <1>a, <1>4, SignDonePosts, CreatePosts, TagPosts, SealPosts
    <2> QED BY <1>4, <2>1, SignDoneCause, CreateCause, TagCause, SealCause
  <1> QED BY <1>1, <1>2, <1>3, <1>4, KeygenCause, VerifyCause, TofuCause,
             ShareResumedCause, FinishCause, ConfirmResumedCause, CheckCause, DeriveCause,
             StoreCause, AppendCause

-----------------------------------------------------------------------------
LEMMA InitCause == "dup" \notin Faults /\ Init => CauseInv
  <1> SUFFICES ASSUME "dup" \notin Faults, Init PROVE CauseInv
    OBVIOUS
  <1>1. PairInv
    BY InitPair
  <1>2. ASSUME NEW p \in Peer PROVE Cause(p)
    <2>1. Coded(p) /\ LeftBehind(p) /\ \A k \in tasks[p] : Caused(p, k)
      BY DEF Init, Coded, LeftBehind, Blank
    <2>2. OnceEach(p)
      BY DEF Init, OnceEach, Once, Together
    <2> QED BY <2>1, <2>2 DEF Cause
  <1> QED BY <1>1, <1>2 DEF CauseInv

LEMMA NextCause == CauseInv /\ [Next]_vars => CauseInv'
  <1> SUFFICES ASSUME CauseInv, [Next]_vars PROVE CauseInv'
    OBVIOUS
  <1>1. PairInv' /\ TypeOK /\ PairInv
    BY NextPair DEF CauseInv, PairInv, HandshakeInv
  <1>2. CASE OpenChannel \/ UNCHANGED vars
    <2>1. UNCHANGED <<gen, chan, hs, code, shut, wire, tasks>>
      BY <1>2 DEF OpenChannel, vars, orch, net, disk
    <2>2. \E p \in Peer : TRUE
      BY PeerAssumption
    <2>3. ASSUME NEW p \in Peer PROVE CauseHolds'
      <3>1. View(Other(p))' = View(Other(p))
        BY <1>2 DEF OpenChannel, vars, orch, net, disk, View
      <3> QED BY <2>1, <3>1, PlainCause
    <2> QED BY <1>1, <2>2, <2>3 DEF CauseInv, CauseHolds
  <1>3. ASSUME NEW p \in Peer, Calls(p) \/ Timers(p) \/ Inbound(p) \/ Coroutine(p)
        PROVE  CauseHolds'
    <2>1. View(Other(p))' = View(Other(p))
      BY <1>1, <1>3, TwoEnds, OthersKept DEF PairInv
    <2> QED BY <1>3, <2>1, CallsCause, TimersCause, InboundCause, CoroutineCause
  <1>4. CASE Next
    BY <1>1, <1>2, <1>3, <1>4 DEF Next, CauseInv, CauseHolds
  <1> QED BY <1>2, <1>4

(* Where no handshake message is repeated, each PAKE message comes once and*)
(* the tags an end compares with a peer that holds its code are equal, even*)
(* when that peer has gone and started another handshake: CauseInv is an   *)
(* invariant.                                                              *)
THEOREM CausesAreKept == "dup" \notin Faults /\ Spec => []CauseInv
  <1>1. "dup" \notin Faults /\ Init => CauseInv
    BY InitCause
  <1>2. CauseInv /\ [Next]_vars => CauseInv'
    BY NextCause
  <1> QED BY <1>1, <1>2, PTL DEF Spec

-----------------------------------------------------------------------------
(* The durable flag.                                                       *)

(* Only an authentication failure of that end sets the flag.               *)
LEMMA FlagOfFail ==
  ASSUME TypeOK, NEW p \in Peer, NEW q \in Peer, NEW kind, NEW origin, NEW running,
         Fail(q, kind, origin, running), ~durable[p], durable'[p]
  PROVE  q = p /\ kind \in AuthFailures
  <1>1. durable \in [Peer -> BOOLEAN]
    BY DEF TypeOK
  <1>2. durable' # durable
    OBVIOUS
  <1>3. durable' = [durable EXCEPT ![q] = durable[q] \/ kind \in AuthFailures]
    BY <1>2 DEF Fail, disk
  <1>4. q = p
    BY <1>1, <1>3
  <1>5. durable'[p] = (durable[p] \/ kind \in AuthFailures)
    BY <1>1, <1>3, <1>4
  <1> QED BY <1>4, <1>5

HasCause(p) == code[p] # code[Other(p)] \/ pinned[p] = "stranger"

(* A second PAKE message would set it, and there is none.                  *)
LEMMA InboundBlames ==
  ASSUME CauseInv, NEW p \in Peer, NEW q \in Peer, Inbound(q), ~durable[p], durable'[p]
  PROVE  FALSE
  <1>1. TypeOK /\ Cause(q)
    BY DEF CauseInv, PairInv, HandshakeInv
  <1>2. /\ "Malformed" \notin AuthFailures /\ "HandshakeFailed" \notin AuthFailures
    BY DEF AuthFailures
  <1>3. UNCHANGED durable => FALSE
    OBVIOUS
  <1>4. ~Fail(q, "Malformed", gen[q], tasks[q]) /\ ~Fail(q, "HandshakeFailed", gen[q], tasks[q])
    BY <1>1, <1>2, FlagOfFail
  <1>5. ASSUME NEW kind \in PakeKinds, Arrived(q, {kind}, {"handshaking", "verifying"})
        PROVE  Stored(q, kind) = None
    <2>1. Once(q, kind) /\ Inbox(q) # <<>> /\ chan[q] # 0 /\ Head(Inbox(q)).kind = kind
      BY <1>1, <1>5 DEF Cause, OnceEach, Arrived
    <2>2. Inbox(q) \in Seq(Messages)
      BY <1>1, OtherType DEF TypeOK, Inbox
    <2>3. ~NoneOf(kind, Inbox(q))
      BY <2>1, <2>2 DEF NoneOf
    <2> QED BY <2>1, <2>3 DEF Once
  <1>6. ~InboundPakeShare(q)
    <2>1. InboundPakeShare(q) => hs[q].share = None
      BY <1>5 DEF InboundPakeShare, PakeKinds, Stored
    <2> QED BY <1>3, <1>4, <2>1 DEF InboundPakeShare, disk
  <1>7. ~InboundPakeConfirm(q)
    <2>1. InboundPakeConfirm(q) => hs[q].confirm = None
      BY <1>5 DEF InboundPakeConfirm, PakeKinds, Stored
    <2> QED BY <1>3, <1>4, <2>1 DEF InboundPakeConfirm, disk
  <1>8. ~InboundHello(q) /\ ~InboundSignature(q)
    BY <1>3, <1>4 DEF InboundHello, InboundSignature, disk
  <1>9. ~InboundEarlyFrame(q) /\ ~InboundConnected(q) /\ ~DropUnattached(q)
    BY <1>3, <1>4 DEF InboundEarlyFrame, InboundConnected, DropUnattached, disk
  <1> QED BY <1>6, <1>7, <1>8, <1>9 DEF Inbound

(* The TOFU check and the comparison of the tags set it, with their cause. *)
LEMMA CoroutineBlames ==
  ASSUME CauseInv, NEW p \in Peer, NEW q \in Peer, Coroutine(q), ~durable[p], durable'[p]
  PROVE  HasCause(p)
  <1>1. TypeOK /\ PairInv /\ Cause(q)
    BY DEF CauseInv, PairInv, HandshakeInv
  <1>2. UNCHANGED durable => FALSE
    OBVIOUS
  <1>3. PICK k \in tasks[q] :
          \/ Abandon(q, k)    \/ SendThrows(q, k)     \/ KeygenDone(q, k)
          \/ SignDone(q, k)   \/ VerifyDone(q, k)     \/ TofuDone(q, k)
          \/ CreateDone(q, k) \/ ShareResumed(q, k)   \/ FinishDone(q, k)
          \/ TagDone(q, k)    \/ ConfirmResumed(q, k) \/ CheckDone(q, k)
          \/ DeriveDone(q, k) \/ StoreDone(q, k)      \/ RepositoryRejects(q, k)
          \/ AppendDone(q, k) \/ SealDone(q, k)
    BY DEF Coroutine
  <1>4. ASSUME NEW kind, Fail(q, kind, k.gen, tasks[q] \ {k}) PROVE q = p /\ kind \in AuthFailures
    BY <1>1, <1>4, FlagOfFail
  <1>5. /\ "SendFailed" \notin AuthFailures /\ "SignatureMismatch" \notin AuthFailures
        /\ "StoreFailed" \notin AuthFailures
    BY DEF AuthFailures
  <1>6. ~SendThrows(q, k) /\ ~RepositoryRejects(q, k) /\ ~VerifyDone(q, k)
    BY <1>2, <1>4, <1>5 DEF SendThrows, RepositoryRejects, VerifyDone, disk
  <1>7. CASE TofuDone(q, k)
    BY <1>2, <1>4, <1>7 DEF TofuDone, IdentityUnchanged, HasCause, disk
  <1>8. CASE CheckDone(q, k)
    <2>1. ~TagMatches(k) /\ q = p /\ k.at = "check"
      BY <1>2, <1>4, <1>8 DEF CheckDone, disk
    <2>2. Caused(p, k)
      BY <1>1, <2>1 DEF Cause
    <2>3. code[p] # NoCode /\ ~Agree(p)
      BY <2>1, <2>2 DEF Caused, PakePoints
    <2> QED BY <2>3 DEF Agree, HasCause
  <1>9. ~Abandon(q, k) /\ ~KeygenDone(q, k) /\ ~SignDone(q, k) /\ ~CreateDone(q, k)
    BY <1>2 DEF Abandon, KeygenDone, SignDone, CreateDone, disk
  <1>10. ~ShareResumed(q, k) /\ ~FinishDone(q, k) /\ ~TagDone(q, k) /\ ~ConfirmResumed(q, k)
    BY <1>2 DEF ShareResumed, FinishDone, TagDone, ConfirmResumed, disk
  <1>11. ~DeriveDone(q, k) /\ ~StoreDone(q, k) /\ ~AppendDone(q, k) /\ ~SealDone(q, k)
    BY <1>2 DEF DeriveDone, StoreDone, Establish, AppendDone, SealDone, disk
  <1> QED BY <1>3, <1>6, <1>7, <1>8, <1>9, <1>10, <1>11

LEMMA RefusedByStep ==
  ASSUME CauseInv, [Next]_vars, NEW p \in Peer, ~durable[p], durable'[p]
  PROVE  HasCause(p)
  <1>1. TypeOK
    BY DEF CauseInv, PairInv, HandshakeInv
  <1>2. UNCHANGED durable => FALSE
    OBVIOUS
  <1>3. PICK q \in Peer : Calls(q) \/ Timers(q) \/ Inbound(q) \/ Coroutine(q)
    BY <1>2 DEF Next, OpenChannel, vars, disk
  <1>4. ~Timers(q)
    <2>1. "Timeout" \notin AuthFailures
      BY DEF AuthFailures
    <2>2. \A origin, running : ~Fail(q, "Timeout", origin, running)
      BY <1>1, <2>1, FlagOfFail
    <2> QED BY <2>2 DEF Timers, HandshakeTimeout, PakeTimeout
  <1>5. ~Calls(q)
    <2>1. ~Start(q) /\ ~NotifyPeerJoined(q) /\ ~NotifyPeerLeft(q) /\ ~AttachTransport(q)
      BY <1>2 DEF Start, NotifyPeerJoined, NotifyPeerLeft, Disconnect, AttachTransport, disk
    <2>2. ~Leave(q) /\ ~Retry(q) /\ ~Restart(q) /\ ~SendText(q)
      BY <1>2 DEF Leave, Disconnect, Retry, Restart, SendText, disk
    <2> QED BY <2>1, <2>2 DEF Calls
  <1> QED BY <1>3, <1>4, <1>5, InboundBlames, CoroutineBlames

(* failHandshake marks a conversation as refused for good only for cause:  *)
(* the codes differ or another identity is pinned.  No message is repeated *)
(* here, since handlePakeShare takes a second share for an attack.         *)
THEOREM RefusedForCause == "dup" \notin Faults /\ Spec => AuthFailureHasCause
  <1>1. CauseInv /\ [Next]_vars =>
          [\A p \in Peer : ~durable[p] /\ durable'[p]
             => code[p] # code[Other(p)] \/ pinned[p] = "stranger"]_vars
    BY RefusedByStep DEF HasCause
  <1> QED BY <1>1, CausesAreKept, PTL DEF Spec, AuthFailureHasCause
=============================================================================
