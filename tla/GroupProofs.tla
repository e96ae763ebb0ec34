----------------------------- MODULE GroupProofs -----------------------------
(***************************************************************************)
(* Theorems about Group, for any members, cap, bounds and faults: one list *)
(* per epoch, epochs that only grow, an author that answers with the list  *)
(* in force, self-ejection only of the kicked, and verified links only to  *)
(* members.                                                                *)
(***************************************************************************)
EXTENDS Group, FiniteSetTheorems, TLAPS

-----------------------------------------------------------------------------
(* Types *)

LEMMA NoListType == NoList \in List
  BY DEF NoList, List

LEMMA SentType ==
  ASSUME NEW p \in Member, NEW peers \in SUBSET Member,
         NEW kind \in {"list", "request", "name"}, NEW list \in List
  PROVE  Sent(p, peers, kind, list) \subseteq Frame
  BY DEF Sent, Frame

LEMMA RequestType ==
  ASSUME NEW p \in Member, NEW peers \in SUBSET Member
  PROVE  Request(p, peers) \subseteq Frame
  BY NoListType, SentType DEF Request

LEMMA AnnounceType ==
  ASSUME NEW p \in Member, NEW peers \in SUBSET Member
  PROVE  Announce(p, peers) \subseteq Frame
  BY NoListType, SentType DEF Announce

LEMMA NewLinkType == NoLink \in Link /\ \A n \in Nat : NewLink(n) \in Link
  BY DEF NoLink, NewLink, Link

LEMMA ClosedType ==
  ASSUME TypeOK, NEW p \in Member, NEW peers
  PROVE  Closed(p, peers) \in [Member -> Link]
  BY NewLinkType DEF Closed, TypeOK

LEMMA CloseLinkType ==
  ASSUME TypeOK, NEW p \in Member, NEW q \in Member, CloseLink(p, q)
  PROVE  links' \in [Member -> [Member -> Link]] /\ wire' \subseteq Frame
  BY ClosedType DEF CloseLink, TypeOK

LEMMA SetLinkType ==
  ASSUME TypeOK, NEW p \in Member, NEW q \in Member, NEW link \in Link, SetLink(p, q, link)
  PROVE  links' \in [Member -> [Member -> Link]]
  BY DEF SetLink, TypeOK

LEMMA ConnectedType ==
  ASSUME TypeOK, NEW p \in Member, NEW q \in Member
  PROVE  Connected(p, q) \in Link /\ Verified(Connected(p, q)) \in Link
  <1>1. links[p][q] \in Link
    BY DEF TypeOK
  <1> QED BY <1>1 DEF Connected, Verified, Link

LEMMA PairType ==
  ASSUME NEW p \in Member, NEW q \in Member, p # q
  PROVE  {p, q} \in Pairs
  <1>1. IsFiniteSet({p}) /\ Cardinality({p}) = 1
    BY FS_Singleton
  <1>2. Cardinality({p} \cup {q}) = 2
    BY <1>1, FS_AddElement
  <1>3. {p} \cup {q} = {p, q}
    OBVIOUS
  <1> QED BY <1>2, <1>3 DEF Pairs

LEMMA InitType == Init => TypeOK
  <1> SUFFICES ASSUME Init PROVE TypeOK
    OBVIOUS
  <1>1. roster \in [Member -> List] /\ signed \in List
    BY NoListType, AuthorAssumption, NamesAssumption DEF Init, List
  <1>2. links \in [Member -> [Member -> Link]]
    BY NewLinkType DEF Init
  <1>3. running \in Mutation /\ queue \in Seq(Task)
    BY DEF Init, Mutation, Idle
  <1>4. dialled \in 0..MaxDials /\ kicks \in 0..MaxKicks
    BY BoundsAssumption DEF Init
  <1>5. localName \in [Member -> BOOLEAN]
    BY DEF Init
  <1>6. status \in [Member -> {"open", "left", "ejected"}] /\ verifying \in [Member -> SUBSET List]
    BY DEF Init
  <1>7. pc \subseteq Pairs /\ wire \subseteq Frame /\ kicked \subseteq Member
    BY DEF Init
  <1>8. answering \subseteq [to : Member, id : Nat, list : List]
    BY DEF Init
  <1> QED BY <1>1, <1>2, <1>3, <1>4, <1>5, <1>6, <1>7, <1>8 DEF TypeOK

LEMMA DialType ==
  ASSUME TypeOK, NEW p \in Member, NEW q \in Member, Dial(p, q)
  PROVE  TypeOK'
  <1> DEFINE id == dialled + 1
  <1> DEFINE Attached(a, b) == [links[a] EXCEPT ![b] = IF HasRoom(a, b) THEN NewLink(id) ELSE NoLink]
  <1>1. id \in Nat /\ id \in 0..MaxDials
    BY BoundsAssumption DEF Dial, TypeOK
  <1>2. \A a, b \in Member : Attached(a, b) \in [Member -> Link]
    BY <1>1, NewLinkType DEF TypeOK
  <1>3. links' \in [Member -> [Member -> Link]]
    BY <1>2 DEF Dial, TypeOK
  <1>4. pc' \subseteq Pairs
    BY PairType DEF Dial, TypeOK
  <1>5. wire' \subseteq Frame /\ dialled' \in 0..MaxDials
    BY <1>1 DEF Dial, TypeOK
  <1> QED BY <1>3, <1>4, <1>5 DEF Dial, TypeOK, AuthorVars

LEMMA AuthorConnectedType ==
  ASSUME TypeOK, NEW q \in Member, AuthorConnected(q)
  PROVE  TypeOK'
  <1>1. links' \in [Member -> [Member -> Link]]
    BY AuthorAssumption, ConnectedType, SetLinkType, CloseLinkType DEF AuthorConnected
  <1>2. wire' \subseteq Frame
    BY AuthorAssumption, AnnounceType, CloseLinkType DEF AuthorConnected, TypeOK
  <1>3. queue' \in Seq(Task)
    <2>1. links[Author][q].id \in Nat
      BY AuthorAssumption DEF TypeOK, Link
    <2>2. [kind |-> "add", who |-> q, id |-> links[Author][q].id] \in Task
      BY <2>1 DEF Task
    <2>3. queue \in Seq(Task)
      BY DEF TypeOK
    <2>4. queue' = queue \/ queue' = Append(queue, [kind |-> "add", who |-> q, id |-> links[Author][q].id])
      BY DEF AuthorConnected
    <2> QED BY <2>2, <2>3, <2>4
  <1> QED BY <1>1, <1>2, <1>3 DEF AuthorConnected, TypeOK

LEMMA MemberConnectedType ==
  ASSUME TypeOK, NEW p \in Member, NEW q \in Member, MemberConnected(p, q)
  PROVE  TypeOK'
  <1>1. [Connected(p, q) EXCEPT !.unlisted = roster[p].epoch # 0] \in Link
    BY ConnectedType DEF Link
  <1>2. links' \in [Member -> [Member -> Link]]
    BY <1>1, ConnectedType, SetLinkType DEF MemberConnected
  <1>3. wire' \subseteq Frame
    BY AnnounceType, RequestType DEF MemberConnected, TypeOK
  <1> QED BY <1>2, <1>3 DEF MemberConnected, TypeOK, AuthorVars

LEMMA ReceiveListType ==
  ASSUME TypeOK, NEW f \in wire, ReceiveList(f)
  PROVE  TypeOK'
  <1>1. f \in Frame
    BY DEF TypeOK
  <1>2. f.to \in Member /\ f.list \in List
    BY <1>1 DEF Frame
  <1>3. verifying' \in [Member -> SUBSET List] /\ wire' \subseteq Frame
    BY <1>2 DEF ReceiveList, TypeOK
  <1> QED BY <1>3 DEF ReceiveList, TypeOK, AuthorVars

LEMMA ReceiveRequestType ==
  ASSUME TypeOK, NEW f \in wire, ReceiveRequest(f)
  PROVE  TypeOK'
  <1> DEFINE p == f.to
  <1> DEFINE held == IF p = Author THEN signed ELSE roster[p]
  <1>1. f \in Frame
    BY DEF TypeOK
  <1>2. p \in Member /\ f.from \in Member
    BY <1>1 DEF Frame
  <1>3. held \in List
    BY <1>2 DEF TypeOK
  <1>4. wire' \subseteq Frame
    <2>1. Sent(p, {f.from}, "list", held) \subseteq Frame
      BY <1>2, <1>3, SentType
    <2> QED BY <2>1 DEF ReceiveRequest, TypeOK
  <1>5. answering' \subseteq [to : Member, id : Nat, list : List]
    <2>1. links[p][f.from].id \in Nat /\ roster[p] \in List
      BY <1>2 DEF TypeOK, Link
    <2> QED BY <1>2, <2>1 DEF ReceiveRequest, TypeOK
  <1> QED BY <1>4, <1>5 DEF ReceiveRequest, TypeOK

LEMMA ReceiveNameType ==
  ASSUME TypeOK, NEW f \in wire, ReceiveName(f)
  PROVE  TypeOK'
  <1> DEFINE p == f.to
  <1> DEFINE q == f.from
  <1>1. f \in Frame
    BY DEF TypeOK
  <1>2. p \in Member /\ q \in Member
    BY <1>1 DEF Frame
  <1>3. links[p][q] \in Link
    BY <1>2 DEF TypeOK
  <1>4. [links[p][q] EXCEPT !.announced = TRUE] \in Link
    BY <1>3 DEF Link
  <1>5. links' \in [Member -> [Member -> Link]]
    BY <1>2, <1>4, SetLinkType DEF ReceiveName
  <1>6. queue' \in Seq(Task)
    <2> DEFINE task == [kind |-> "name", who |-> q, id |-> links[p][q].id]
    <2>1. task \in Task
      BY <1>2, <1>3 DEF Task, Link
    <2>2. queue \in Seq(Task)
      BY DEF TypeOK
    <2>3. queue' = queue \/ queue' = Append(queue, task)
      BY DEF ReceiveName
    <2> QED BY <2>1, <2>2, <2>3
  <1>7. wire' \subseteq Frame
    BY DEF ReceiveName, TypeOK
  <1> QED BY <1>5, <1>6, <1>7 DEF ReceiveName, TypeOK

LEMMA AnswerSignedType ==
  ASSUME TypeOK, NEW a, AnswerSigned(a)
  PROVE  TypeOK'
  <1>1. a \in [to : Member, id : Nat, list : List]
    BY DEF AnswerSigned, TypeOK
  <1>2. signed' \in List
    BY <1>1 DEF AnswerSigned, Newer, TypeOK
  <1>3. wire' \subseteq Frame
    <2>1. Sent(Author, {a.to}, "list", a.list) \subseteq Frame
      BY <1>1, AuthorAssumption, SentType
    <2> QED BY <2>1 DEF AnswerSigned, TypeOK
  <1>4. answering' \subseteq [to : Member, id : Nat, list : List]
    BY DEF AnswerSigned, TypeOK
  <1> QED BY <1>2, <1>3, <1>4 DEF AnswerSigned, TypeOK

LEMMA LeavesType ==
  ASSUME TypeOK, NEW p \in Member, NEW why \in {"left", "ejected"}, Leaves(p, why)
  PROVE  /\ status' \in [Member -> {"open", "left", "ejected"}]
         /\ links' \in [Member -> [Member -> Link]]
         /\ pc' \subseteq Pairs
         /\ wire' \subseteq Frame
  BY ClosedType DEF Leaves, TypeOK

LEMMA ReconciledType ==
  ASSUME TypeOK, NEW p \in Member, NEW q \in Member, NEW list
  PROVE  Reconciled(p, q, list) \in Link
  <1>1. links[p][q] \in Link
    BY DEF TypeOK
  <1> QED BY <1>1, NewLinkType DEF Reconciled, Verified, Link

LEMMA VerifyDoneType ==
  ASSUME TypeOK, NEW p \in Member, NEW list \in verifying[p], VerifyDone(p, list)
  PROVE  TypeOK'
  <1>1. list \in List
    BY DEF TypeOK
  <1>2. verifying' \in [Member -> SUBSET List]
    BY DEF VerifyDone, TypeOK
  <1>3. CASE Adoptable(p, list)
    <2>1. Adopt(p, list)
      BY <1>3 DEF VerifyDone
    <2>2. roster' \in [Member -> List]
      BY <1>1, <2>1 DEF Adopt, TypeOK
    <2>3. CASE Removed(p, list)
      <3>1. Leaves(p, "ejected")
        BY <2>1, <2>3 DEF Adopt
      <3> QED BY <1>2, <2>2, <3>1, LeavesType DEF VerifyDone, TypeOK, AuthorVars
    <2>4. CASE ~Removed(p, list)
      <3>1. links' = [links EXCEPT ![p] = [q \in Member |-> Reconciled(p, q, list)]]
        BY <2>1, <2>4 DEF Adopt
      <3>2. links' \in [Member -> [Member -> Link]]
        BY <3>1, ReconciledType DEF TypeOK
      <3>3. wire' \subseteq Frame /\ UNCHANGED <<status, pc>>
        <4> DEFINE gone == {q \in Member : Evicted(p, q, list)}
        <4> DEFINE asks == IF p \in list.members THEN {} ELSE UpLinks(p) \ gone
        <4>1. Request(p, asks) \subseteq Frame
          BY RequestType DEF UpLinks
        <4>2. wire' = (wire \ Between(p, gone)) \cup Request(p, asks) /\ UNCHANGED <<status, pc>>
          BY <2>1, <2>4 DEF Adopt
        <4> QED BY <4>1, <4>2 DEF TypeOK
      <3> QED BY <1>2, <2>2, <3>2, <3>3 DEF VerifyDone, TypeOK, AuthorVars
    <2> QED BY <2>3, <2>4
  <1>4. CASE ~Adoptable(p, list)
    BY <1>2, <1>4 DEF VerifyDone, TypeOK, AuthorVars
  <1> QED BY <1>3, <1>4

LEMMA StartMutationType ==
  ASSUME TypeOK, StartMutation
  PROVE  TypeOK'
  <1> DEFINE t == Head(queue)
  <1>1. t \in Task /\ queue' \in Seq(Task)
    <2>1. queue \in Seq(Task) /\ queue # <<>>
      BY DEF StartMutation, TypeOK
    <2>2. queue' = Tail(queue)
      BY DEF StartMutation
    <2> QED BY <2>1, <2>2
  <1>2. t.who \in Member
    BY <1>1 DEF Task
  <1>3. links' \in [Member -> [Member -> Link]] /\ wire' \subseteq Frame
    <2>1. CloseLink(Author, t.who) \/ UNCHANGED <<links, wire>>
      BY DEF StartMutation
    <2> QED BY <1>2, <2>1, AuthorAssumption, CloseLinkType DEF TypeOK
  <1>4. running' \in Mutation
    <2>1. roster[Author] \in List
      BY AuthorAssumption DEF TypeOK
    <2>2. ASSUME NEW members \in SUBSET Member, NEW named \in SUBSET Member,
                 NEW removed \in SUBSET Member, Mutate(members, named, removed)
          PROVE  running' \in Mutation
      BY <2>2 DEF Mutate, Mutation
    <2>3. \/ UNCHANGED running
          \/ \E members, named, removed \in SUBSET Member : Mutate(members, named, removed)
      <3> DEFINE name == IF links[Author][t.who].announced THEN {t.who} ELSE {}
      <3>1. name \in SUBSET Member /\ {t.who} \in SUBSET Member /\ {} \in SUBSET Member
        BY <1>2
      <3>2. roster[Author].members \in SUBSET Member /\ roster[Author].named \in SUBSET Member
        BY <2>1 DEF List
      <3>3. \/ UNCHANGED running
            \/ Mutate(roster[Author].members \cup {t.who}, roster[Author].named \cup name, {})
            \/ Mutate(roster[Author].members \ {t.who}, roster[Author].named \ {t.who}, {t.who})
            \/ Mutate(roster[Author].members, roster[Author].named \cup {t.who}, {})
        BY DEF StartMutation
      <3> HIDE DEF name, t
      <3> QED BY <3>1, <3>2, <3>3
    <2> QED BY <2>2, <2>3 DEF TypeOK
  <1> QED BY <1>1, <1>3, <1>4 DEF StartMutation, TypeOK

LEMMA NewListType ==
  ASSUME TypeOK
  PROVE  NewList \in List
  <1>1. roster[Author] \in List /\ running \in Mutation
    BY AuthorAssumption DEF TypeOK
  <1> QED BY <1>1 DEF NewList, List, Mutation

LEMMA SignDoneType ==
  ASSUME TypeOK, SignDone
  PROVE  TypeOK'
  <1>1. roster' \in [Member -> List] /\ signed' \in List
    BY NewListType DEF SignDone, TypeOK
  <1>2. wire' \subseteq Frame
    <2>1. Gossip \subseteq Frame
      BY NewListType, AuthorAssumption, SentType DEF Gossip, UpLinks
    <2> QED BY <2>1 DEF SignDone, TypeOK
  <1>3. running' \in Mutation /\ kicked' \subseteq Member
    BY DEF SignDone, TypeOK, Mutation
  <1> QED BY <1>1, <1>2, <1>3 DEF SignDone, TypeOK

LEMMA GossipDoneType ==
  ASSUME TypeOK, GossipDone
  PROVE  TypeOK'
  <1>1. links' \in [Member -> [Member -> Link]]
    BY AuthorAssumption, ClosedType DEF GossipDone, TypeOK
  <1>2. running' \in Mutation /\ wire' \subseteq Frame
    BY DEF GossipDone, TypeOK, Mutation, Idle
  <1> QED BY <1>1, <1>2 DEF GossipDone, TypeOK

LEMMA KickType ==
  ASSUME TypeOK, NEW q \in Member, Kick(q)
  PROVE  TypeOK'
  <1>1. queue' \in Seq(Task)
    <2> DEFINE task == [kind |-> "kick", who |-> q, id |-> 0]
    <2>1. task \in Task
      BY DEF Task
    <2>2. queue \in Seq(Task) /\ queue' = Append(queue, task)
      BY DEF Kick, TypeOK
    <2> QED BY <2>1, <2>2
  <1>2. kicks' \in 0..MaxKicks
    BY BoundsAssumption DEF Kick, TypeOK
  <1> QED BY <1>1, <1>2 DEF Kick, TypeOK

LEMMA RenameType ==
  ASSUME TypeOK, NEW p \in Member, Rename(p)
  PROVE  TypeOK'
  <1>1. queue' \in Seq(Task)
    <2> DEFINE task == [kind |-> "self", who |-> p, id |-> 0]
    <2>1. task \in Task
      BY DEF Task
    <2>2. queue \in Seq(Task)
      BY DEF TypeOK
    <2>3. queue' = queue \/ queue' = Append(queue, task)
      BY DEF Rename
    <2> QED BY <2>1, <2>2, <2>3
  <1>2. wire' \subseteq Frame
    <2>1. Sent(p, UpLinks(p), "name", NoList) \subseteq Frame
      BY NoListType, SentType DEF UpLinks
    <2> QED BY <2>1 DEF Rename, TypeOK
  <1>3. localName' \in [Member -> BOOLEAN]
    BY DEF Rename, TypeOK
  <1> QED BY <1>1, <1>2, <1>3 DEF Rename, TypeOK

LEMMA EnvironmentType ==
  ASSUME TypeOK, NEW p \in Member, NEW q \in Member,
         Leave(p) \/ PendingTimeout(p, q) \/ Drop(p, q) \/ LinkLost(p, q)
  PROVE  TypeOK'
  <1>1. CASE Leave(p)
    BY <1>1, LeavesType DEF Leave, TypeOK, AuthorVars
  <1>2. CASE PendingTimeout(p, q)
    BY <1>2, CloseLinkType DEF PendingTimeout, TypeOK, AuthorVars
  <1>3. CASE Drop(p, q)
    BY <1>3 DEF Drop, TypeOK, AuthorVars
  <1>4. CASE LinkLost(p, q)
    BY <1>4, CloseLinkType DEF LinkLost, TypeOK, AuthorVars
  <1> QED BY <1>1, <1>2, <1>3, <1>4

LEMMA TypeStep ==
  ASSUME TypeOK, [Next]_vars
  PROVE  TypeOK'
  <1>1. CASE UNCHANGED vars
    BY <1>1 DEF TypeOK, vars
  <1>2. CASE \E p, q \in Member : Dial(p, q)
    BY <1>2, DialType
  <1>3. CASE Connect
    BY <1>3, AuthorConnectedType, MemberConnectedType DEF Connect
  <1>4. CASE Deliver
    BY <1>4, ReceiveListType, ReceiveRequestType, ReceiveNameType DEF Deliver
  <1>5. CASE Verify
    BY <1>5, VerifyDoneType DEF Verify
  <1>6. CASE Answer
    BY <1>6, AnswerSignedType DEF Answer
  <1>7. CASE Mutations
    BY <1>7, StartMutationType, SignDoneType, GossipDoneType DEF Mutations
  <1>8. CASE \E q \in Member : Kick(q)
    BY <1>8, KickType
  <1>9. CASE \E p \in Member : Rename(p)
    BY <1>9, RenameType
  <1>10. CASE Lost \/ Timeout \/ (\E p \in Member : Leave(p)) \/ (\E p, q \in Member : Drop(p, q))
    BY <1>10, EnvironmentType DEF Lost, Timeout
  <1> QED BY <1>1, <1>2, <1>3, <1>4, <1>5, <1>6, <1>7, <1>8, <1>9, <1>10 DEF Next

(* The sessions' variables keep their types: the lists that were checked
   structurally on receipt, the tasks and the frames are what TypeOK says. *)
THEOREM TypeCorrect == Spec => []TypeOK
  <1>1. TypeOK /\ [Next]_vars => TypeOK'
    BY TypeStep
  <1> QED BY InitType, <1>1, PTL DEF Spec

-----------------------------------------------------------------------------
(* The lists in circulation.  Only the author's signature makes a new one;  *)
(* every other step copies, delays or drops lists that are already there.   *)

Known == Lists \cup {NoList}

(* The author adopts no list, and has one from the start. *)
AuthorIsCanonical == verifying[Author] = {} /\ roster[Author].epoch > 0

LEMMA SentLists ==
  ASSUME NEW p, NEW peers, NEW kind, NEW list
  PROVE  \A f \in Sent(p, peers, kind, list) : f.list = list
  BY DEF Sent

LEMMA InformalLists ==
  ASSUME NEW p, NEW peers
  PROVE  /\ \A f \in Announce(p, peers) : f.list = NoList
         /\ \A f \in Request(p, peers) : f.list = NoList
  BY SentLists DEF Announce, Request

(* Where a list can be *)
LEMMA KnownLists ==
  /\ NoList \in Known
  /\ signed \in Known
  /\ \A p \in Member : roster[p] \in Known /\ verifying[p] \subseteq Known
  /\ \A f \in wire : f.list \in Known
  /\ \A a \in answering : a.list \in Known
  <1> DEFINE Rosters == {roster[p] : p \in Member}
  <1> DEFINE Verifying == UNION {verifying[p] : p \in Member}
  <1> DEFINE Wire == {f.list : f \in wire}
  <1> DEFINE Answers == {a.list : a \in answering}
  <1>1. \A p \in Member : roster[p] \in Rosters /\ verifying[p] \subseteq Verifying
    OBVIOUS
  <1>2. (\A f \in wire : f.list \in Wire) /\ (\A a \in answering : a.list \in Answers)
    OBVIOUS
  <1>3. Known = Rosters \cup {signed} \cup Verifying \cup Wire \cup Answers \cup {NoList}
    BY DEF Known, Lists
  <1> HIDE DEF Rosters, Verifying, Wire, Answers
  <1> QED BY <1>1, <1>2, <1>3

Placed(l) == \/ l = NoList
             \/ l = signed
             \/ \E p \in Member : l = roster[p] \/ l \in verifying[p]
             \/ \E f \in wire : l = f.list
             \/ \E a \in answering : l = a.list

LEMMA KnownIsPlaced == \A l \in Known : Placed(l)
  <1> DEFINE Rosters == {roster[p] : p \in Member}
  <1> DEFINE Verifying == UNION {verifying[p] : p \in Member}
  <1> DEFINE Wire == {f.list : f \in wire}
  <1> DEFINE Answers == {a.list : a \in answering}
  <1>1. (\A l \in Rosters : Placed(l)) /\ (\A l \in Verifying : Placed(l))
    BY DEF Placed
  <1>2. (\A l \in Wire : Placed(l)) /\ (\A l \in Answers : Placed(l))
    BY DEF Placed
  <1>3. Placed(signed) /\ Placed(NoList)
    BY DEF Placed
  <1>4. Known = Rosters \cup {signed} \cup Verifying \cup Wire \cup Answers \cup {NoList}
    BY DEF Known, Lists
  <1> HIDE DEF Rosters, Verifying, Wire, Answers
  <1> QED BY <1>1, <1>2, <1>3, <1>4

(* A step that commits no list *)
Copies == /\ signed' \in Known
          /\ \A p \in Member : roster'[p] \in Known /\ verifying'[p] \subseteq Known
          /\ \A f \in wire' : f.list \in Known
          /\ \A a \in answering' : a.list \in Known
          /\ roster'[Author] = roster[Author]
          /\ verifying'[Author] = {}
          /\ kicked' = kicked

LEMMA CloseLinkWire ==
  ASSUME NEW p, NEW q, CloseLink(p, q)
  PROVE  wire' \subseteq wire
  BY DEF CloseLink

LEMMA LinkStepsCopy ==
  ASSUME TypeOK, AuthorIsCanonical, NEW p \in Member, NEW q \in Member,
         Dial(p, q) \/ AuthorConnected(q) \/ MemberConnected(p, q) \/ PendingTimeout(p, q)
            \/ Drop(p, q) \/ LinkLost(p, q) \/ Leave(p) \/ Kick(q) \/ Rename(p)
            \/ StartMutation \/ GossipDone
  PROVE  Copies
  <1>1. UNCHANGED <<roster, signed, verifying, answering, kicked>>
    BY DEF Dial, AuthorConnected, MemberConnected, PendingTimeout, Drop, LinkLost, Leave,
           Kick, Rename, StartMutation, GossipDone, AuthorVars
  <1>2. \A f \in wire' : f \in wire \/ f.list = NoList
    <2>1. CASE AuthorConnected(q)
      BY <2>1, InformalLists, CloseLinkWire DEF AuthorConnected
    <2>2. CASE MemberConnected(p, q)
      BY <2>2, InformalLists DEF MemberConnected
    <2>3. CASE Rename(p)
      BY <2>3, SentLists DEF Rename
    <2>4. CASE PendingTimeout(p, q) \/ LinkLost(p, q) \/ StartMutation
      BY <2>4, CloseLinkWire DEF PendingTimeout, LinkLost, StartMutation
    <2>5. CASE Dial(p, q) \/ Drop(p, q) \/ Leave(p) \/ Kick(q) \/ GossipDone
      BY <2>5 DEF Dial, Drop, Leave, Leaves, Kick, GossipDone
    <2> QED BY <2>1, <2>2, <2>3, <2>4, <2>5
  <1> QED BY <1>1, <1>2, KnownLists DEF Copies, AuthorIsCanonical

LEMMA ReceiveCopies ==
  ASSUME TypeOK, AuthorIsCanonical, NEW f \in wire,
         ReceiveList(f) \/ ReceiveRequest(f) \/ ReceiveName(f)
  PROVE  Copies
  <1>1. f.to \in Member
    BY DEF TypeOK, Frame
  <1>2. CASE ReceiveList(f)
    <2>1. \A p \in Member : verifying'[p] \subseteq verifying[p] \cup {f.list}
      BY <1>1, <1>2 DEF ReceiveList, TypeOK
    <2>2. verifying'[Author] = verifying[Author]
      BY <1>1, <1>2, AuthorAssumption DEF ReceiveList, TypeOK
    <2> QED BY <1>2, <2>1, <2>2, KnownLists DEF ReceiveList, Copies, AuthorIsCanonical, AuthorVars
  <1>3. CASE ReceiveRequest(f)
    <2> DEFINE held == IF f.to = Author THEN signed ELSE roster[f.to]
    <2>1. held \in Known /\ roster[f.to] \in Known
      BY <1>1, KnownLists
    <2>2. \A g \in wire' : g \in wire \/ g.list = held
      BY <1>3, SentLists DEF ReceiveRequest
    <2>3. \A a \in answering' : a \in answering \/ a.list = roster[f.to]
      BY <1>3 DEF ReceiveRequest
    <2>4. UNCHANGED <<roster, signed, verifying, kicked>>
      BY <1>3 DEF ReceiveRequest
    <2> QED BY <2>1, <2>2, <2>3, <2>4, KnownLists DEF Copies, AuthorIsCanonical
  <1>4. CASE ReceiveName(f)
    BY <1>4, KnownLists DEF ReceiveName, Copies, AuthorIsCanonical
  <1> QED BY <1>2, <1>3, <1>4

LEMMA AnswerSignedCopies ==
  ASSUME TypeOK, AuthorIsCanonical, NEW a, AnswerSigned(a)
  PROVE  Copies
  <1>1. a.list \in Known /\ signed \in Known
    BY KnownLists DEF AnswerSigned
  <1>2. signed' \in Known
    BY <1>1 DEF AnswerSigned, Newer
  <1>3. \A f \in wire' : f \in wire \/ f.list = a.list
    BY SentLists DEF AnswerSigned
  <1> QED BY <1>1, <1>2, <1>3, KnownLists DEF AnswerSigned, Copies, AuthorIsCanonical

LEMMA VerifyDoneCopies ==
  ASSUME TypeOK, AuthorIsCanonical, NEW p \in Member, NEW list \in verifying[p],
         VerifyDone(p, list)
  PROVE  Copies
  <1>1. p # Author /\ list \in Known
    BY KnownLists DEF AuthorIsCanonical
  <1>2. \A r \in Member : verifying'[r] \subseteq verifying[r]
    BY DEF VerifyDone, TypeOK
  <1>3. \A r \in Member : roster'[r] = roster[r] \/ (r = p /\ roster'[r] = list)
    BY DEF VerifyDone, Adopt, TypeOK
  <1>4. \A f \in wire' : f \in wire \/ f.list = NoList
    BY InformalLists DEF VerifyDone, Adopt, Leaves
  <1>5. UNCHANGED <<signed, answering, kicked>>
    BY DEF VerifyDone, AuthorVars
  <1> QED BY <1>1, <1>2, <1>3, <1>4, <1>5, KnownLists, AuthorAssumption DEF Copies, AuthorIsCanonical

LEMMA StutterCopies ==
  ASSUME AuthorIsCanonical, UNCHANGED vars
  PROVE  Copies
  BY KnownLists DEF vars, Copies, AuthorIsCanonical

LEMMA StepCopies ==
  ASSUME TypeOK, AuthorIsCanonical, [Next]_vars, ~SignDone
  PROVE  Copies
  <1>1. CASE UNCHANGED vars
    BY <1>1, StutterCopies
  <1>2. CASE Verify
    BY <1>2, VerifyDoneCopies DEF Verify
  <1>3. CASE Answer
    BY <1>3, AnswerSignedCopies DEF Answer
  <1>4. CASE Deliver
    BY <1>4, ReceiveCopies DEF Deliver
  <1>5. CASE \/ \E p, q \in Member : Dial(p, q) \/ Drop(p, q)
            \/ Connect \/ Lost \/ Timeout
            \/ \E p \in Member : Kick(p) \/ Rename(p) \/ Leave(p)
    BY <1>5, LinkStepsCopy DEF Connect, Lost, Timeout
  <1>6. CASE Mutations
    BY <1>6, LinkStepsCopy, AuthorAssumption DEF Mutations
  <1> QED BY <1>1, <1>2, <1>3, <1>4, <1>5, <1>6 DEF Next

(* The one step that makes a list *)
LEMMA SignDoneLists ==
  ASSUME TypeOK, AuthorIsCanonical, SignDone
  PROVE  /\ Known' \subseteq Known \cup {NewList}
         /\ roster'[Author] = NewList
         /\ signed' = NewList
         /\ NewList.epoch = roster[Author].epoch + 1
         /\ kicked' = kicked \cup running.removed
         /\ UNCHANGED <<verifying, answering>>
  <1> DEFINE S == Known \cup {NewList}
  <1>1. \A p \in Member : roster'[p] = roster[p] \/ roster'[p] = NewList
    BY DEF SignDone, TypeOK
  <1>2. roster'[Author] = NewList
    BY AuthorAssumption DEF SignDone, TypeOK
  <1>3. \A f \in wire' : f \in wire \/ f.list = NewList
    BY SentLists DEF SignDone, Gossip
  <1>4. UNCHANGED <<verifying, answering>> /\ signed' = NewList /\ kicked' = kicked \cup running.removed
    BY DEF SignDone
  <1>5. /\ NoList \in S /\ signed' \in S
        /\ \A p \in Member : roster'[p] \in S /\ verifying'[p] \subseteq S
        /\ \A f \in wire' : f.list \in S
        /\ \A a \in answering' : a.list \in S
    BY <1>1, <1>3, <1>4, KnownLists
  <1>6. Known' \subseteq S
    <2> HIDE DEF S
    <2>1. (\A l \in Known : Placed(l))'
      BY KnownIsPlaced, PTL
    <2> QED BY <1>5, <2>1 DEF Placed
  <1>7. NewList.epoch = roster[Author].epoch + 1
    BY DEF NewList
  <1> QED BY <1>2, <1>4, <1>6, <1>7

LEMMA CopiesKnown ==
  ASSUME Copies
  PROVE  Known' \subseteq Known
  <1>1. (\A l \in Known : Placed(l))'
    BY KnownIsPlaced, PTL
  <1> QED BY <1>1, KnownLists DEF Copies, Placed

-----------------------------------------------------------------------------
(* The inductive invariant on lists *)

OneListPerEpoch == \A l, m \in Known : l.epoch = m.epoch => l = m
AuthorIsNewest == \A l \in Known : l.epoch <= roster[Author].epoch

(* What a newer list misses was kicked. *)
LossesAreKicks == \A l, m \in Known : l.epoch <= m.epoch => l.members \ m.members \subseteq kicked

(* Until the author has a signed list, those it signs for a request are its
   present one. *)
SignsCurrent == /\ SignedIsCurrent
                /\ signed.epoch = 0 => \A a \in answering : a.list = roster[Author]

(* A mutation that is being signed starts from the list in force. *)
MutationIsCurrent ==
    running.phase = "sign" => roster[Author].members \ running.members \subseteq running.removed

ListInv == /\ TypeOK
           /\ AuthorIsCanonical
           /\ OneListPerEpoch
           /\ AuthorIsNewest
           /\ LossesAreKicks
           /\ SignsCurrent
           /\ MutationIsCurrent
           /\ EjectedWasKicked

LEMMA KnownType ==
  ASSUME TypeOK
  PROVE  Known \subseteq List
  <1> SUFFICES ASSUME NEW l \in Known PROVE l \in List
    OBVIOUS
  <1>1. Placed(l)
    BY KnownIsPlaced
  <1>2. \A f \in wire : f.list \in List
    BY DEF TypeOK, Frame
  <1>3. \A a \in answering : a.list \in List
    BY DEF TypeOK
  <1> QED BY <1>1, <1>2, <1>3, NoListType DEF Placed, TypeOK

LEMMA InitLists == Init => ListInv
  <1> SUFFICES ASSUME Init PROVE ListInv
    OBVIOUS
  <1> DEFINE first == [epoch |-> 1, members |-> {Author}, named |-> Named \cap {Author}]
  <1>1. roster[Author] = first /\ \A p \in Member : roster[p] \in {first, NoList}
    BY AuthorAssumption DEF Init
  <1>2. \A l \in Known : l \in {first, NoList}
    <2>1. signed = NoList /\ wire = {} /\ answering = {} /\ \A p \in Member : verifying[p] = {}
      BY DEF Init
    <2> HIDE DEF first
    <2> QED BY <1>1, <2>1, KnownIsPlaced DEF Placed
  <1>3. TypeOK
    BY InitType
  <1>4. AuthorIsCanonical
    BY <1>1, AuthorAssumption DEF Init, AuthorIsCanonical
  <1>5. first.epoch = 1 /\ NoList.epoch = 0 /\ NoList.members = {}
    BY DEF NoList
  <1>6. OneListPerEpoch /\ AuthorIsNewest /\ LossesAreKicks
    <2> HIDE DEF first
    <2> QED BY <1>1, <1>2, <1>5 DEF OneListPerEpoch, AuthorIsNewest, LossesAreKicks
  <1>7. SignsCurrent /\ MutationIsCurrent /\ EjectedWasKicked
    BY DEF Init, SignsCurrent, SignedIsCurrent, MutationIsCurrent, EjectedWasKicked, NoList, Idle
  <1> QED BY <1>3, <1>4, <1>6, <1>7 DEF ListInv

(* A step that copies lists keeps what is said of all of them. *)
LEMMA CopiesKeep ==
  ASSUME ListInv, Copies
  PROVE  AuthorIsCanonical' /\ OneListPerEpoch' /\ AuthorIsNewest' /\ LossesAreKicks'
  <1>1. Known' \subseteq Known
    BY CopiesKnown
  <1>2. roster'[Author] = roster[Author] /\ verifying'[Author] = {} /\ kicked' = kicked
    BY DEF Copies
  <1>3. AuthorIsCanonical'
    BY <1>2 DEF ListInv, AuthorIsCanonical
  <1>4. OneListPerEpoch'
    BY <1>1 DEF ListInv, OneListPerEpoch
  <1>5. AuthorIsNewest'
    BY <1>1, <1>2 DEF ListInv, AuthorIsNewest
  <1>6. LossesAreKicks'
    BY <1>1, <1>2 DEF ListInv, LossesAreKicks
  <1> QED BY <1>3, <1>4, <1>5, <1>6

(* The author's signature extends the chain of lists by one. *)
LEMMA SignDoneKeeps ==
  ASSUME ListInv, SignDone
  PROVE  AuthorIsCanonical' /\ OneListPerEpoch' /\ AuthorIsNewest' /\ LossesAreKicks'
  <1> DEFINE e == roster[Author].epoch
  <1>1. /\ Known' \subseteq Known \cup {NewList}
        /\ roster'[Author] = NewList
        /\ NewList.epoch = e + 1
        /\ kicked' = kicked \cup running.removed
        /\ verifying' = verifying
    BY SignDoneLists DEF ListInv
  <1>2. e \in Nat /\ \A l \in Known : l.epoch \in Nat /\ l.epoch <= e
    BY KnownType, AuthorAssumption DEF ListInv, TypeOK, List, AuthorIsNewest
  <1>3. AuthorIsCanonical'
    BY <1>1, <1>2 DEF ListInv, AuthorIsCanonical
  <1>4. OneListPerEpoch'
    BY <1>1, <1>2 DEF ListInv, OneListPerEpoch
  <1>5. AuthorIsNewest'
    BY <1>1, <1>2 DEF ListInv, AuthorIsNewest
  <1>6. LossesAreKicks'
    <2>1. \A l \in Known : l.members \ NewList.members \subseteq kicked'
      <3>1. roster[Author].members \ running.members \subseteq running.removed
        BY DEF ListInv, MutationIsCurrent, SignDone
      <3>2. \A l \in Known : l.members \ roster[Author].members \subseteq kicked
        BY <1>2, KnownLists, AuthorAssumption DEF ListInv, LossesAreKicks
      <3>3. NewList.members = running.members
        BY DEF NewList
      <3> QED BY <1>1, <3>1, <3>2, <3>3
    <2>2. \A l, m \in Known : l.epoch <= m.epoch => l.members \ m.members \subseteq kicked'
      BY <1>1 DEF ListInv, LossesAreKicks
    <2>3. \A m \in Known : ~(NewList.epoch <= m.epoch)
      BY <1>1, <1>2
    <2> QED BY <1>1, <2>1, <2>2, <2>3 DEF LossesAreKicks
  <1> QED BY <1>3, <1>4, <1>5, <1>6

(* What signed, answering and running hold, step by step *)
LEMMA StepSigns ==
  ASSUME ListInv, [Next]_vars
  PROVE  SignsCurrent'
  <1>1. CASE SignDone
    <2>1. signed' = NewList /\ roster'[Author] = NewList /\ NewList.epoch = roster[Author].epoch + 1
      BY <1>1, SignDoneLists DEF ListInv
    <2>2. roster[Author].epoch \in Nat
      BY AuthorAssumption DEF ListInv, TypeOK, List
    <2> QED BY <2>1, <2>2 DEF SignsCurrent, SignedIsCurrent
  <1>2. CASE ~SignDone
    <2>1. roster'[Author] = roster[Author]
      BY <1>2, StepCopies DEF ListInv, Copies
    <2>2. \/ \E a \in answering : AnswerSigned(a)
          \/ /\ signed' = signed
             /\ \A a \in answering' : a \in answering \/ (signed.epoch = 0 /\ a.list = roster[Author])
      <3>1. CASE UNCHANGED <<signed, answering>>
        BY <3>1
      <3>2. CASE Deliver
        BY <3>2 DEF Deliver, ReceiveList, ReceiveRequest, ReceiveName, AuthorVars
      <3>3. CASE Answer
        BY <3>3 DEF Answer
      <3>4. CASE Verify
        BY <3>4 DEF Verify, VerifyDone, AuthorVars
      <3>5. CASE Connect \/ Lost \/ Timeout
        BY <3>5 DEF Connect, AuthorConnected, MemberConnected, Lost, LinkLost, Timeout,
                    PendingTimeout, AuthorVars
      <3>6. CASE Mutations
        BY <1>2, <3>6 DEF Mutations, StartMutation, GossipDone
      <3>7. CASE \/ \E p, q \in Member : Dial(p, q) \/ Drop(p, q)
                \/ \E p \in Member : Kick(p) \/ Rename(p) \/ Leave(p)
        BY <3>7 DEF Dial, Drop, Kick, Rename, Leave, AuthorVars
      <3> QED BY <3>1, <3>2, <3>3, <3>4, <3>5, <3>6, <3>7 DEF Next, vars
    <2>3. CASE \E a \in answering : AnswerSigned(a)
      <3>1. PICK a \in answering : AnswerSigned(a)
        BY <2>3
      <3>2. a.list \in Known /\ a.list \in List /\ signed \in List
        BY KnownLists, KnownType DEF ListInv, TypeOK
      <3>3. a.list.epoch <= roster[Author].epoch
        BY <3>2 DEF ListInv, AuthorIsNewest
      <3>4. CASE signed.epoch = 0
        <4>1. a.list = roster[Author]
          BY <3>4 DEF ListInv, SignsCurrent
        <4>2. signed' = roster[Author] /\ answering' \subseteq answering
          BY <3>1, <3>4, <4>1 DEF AnswerSigned, Newer, ListInv, AuthorIsCanonical
        <4> QED BY <2>1, <3>4, <4>2 DEF ListInv, SignsCurrent, SignedIsCurrent
      <3>5. CASE signed.epoch # 0
        <4>1. signed = roster[Author]
          BY <3>5 DEF ListInv, SignsCurrent, SignedIsCurrent
        <4>2. signed' = signed
          BY <3>1, <3>2, <3>3, <4>1 DEF AnswerSigned, Newer, List
        <4> QED BY <2>1, <3>5, <4>1, <4>2 DEF SignsCurrent, SignedIsCurrent
      <3> QED BY <3>4, <3>5
    <2>4. CASE /\ signed' = signed
               /\ \A a \in answering' : a \in answering \/ (signed.epoch = 0 /\ a.list = roster[Author])
      BY <2>1, <2>4 DEF ListInv, SignsCurrent, SignedIsCurrent
    <2> QED BY <2>2, <2>3, <2>4
  <1> QED BY <1>1, <1>2

LEMMA StepMutates ==
  ASSUME ListInv, [Next]_vars
  PROVE  MutationIsCurrent'
  <1>1. CASE SignDone
    BY <1>1 DEF SignDone, MutationIsCurrent, ListInv, TypeOK, Mutation
  <1>2. CASE ~SignDone
    <2>1. roster'[Author] = roster[Author]
      BY <1>2, StepCopies DEF ListInv, Copies
    <2>2. CASE running' = running
      BY <2>1, <2>2 DEF ListInv, MutationIsCurrent
    <2>3. CASE GossipDone
      BY <2>3 DEF GossipDone, MutationIsCurrent, Idle
    <2>4. CASE StartMutation /\ running' # running
      <3> DEFINE t == Head(queue)
      <3> DEFINE name == IF links[Author][t.who].announced THEN {t.who} ELSE {}
      <3>1. \/ Mutate(roster[Author].members \cup {t.who}, roster[Author].named \cup name, {})
            \/ Mutate(roster[Author].members \ {t.who}, roster[Author].named \ {t.who}, {t.who})
            \/ Mutate(roster[Author].members, roster[Author].named \cup {t.who}, {})
        BY <2>4 DEF StartMutation
      <3>2. roster[Author].members \ running'.members \subseteq running'.removed
        <4> HIDE DEF t, name
        <4> QED BY <3>1 DEF Mutate
      <3> QED BY <2>1, <3>2 DEF MutationIsCurrent
    <2>5. running' = running \/ GossipDone \/ StartMutation
      <3>1. CASE Deliver \/ Answer \/ Verify
        BY <3>1 DEF Deliver, ReceiveList, ReceiveRequest, ReceiveName, Answer, AnswerSigned,
                    Verify, VerifyDone, AuthorVars
      <3>2. CASE Connect \/ Lost \/ Timeout
        BY <3>2 DEF Connect, AuthorConnected, MemberConnected, Lost, LinkLost, Timeout,
                    PendingTimeout, AuthorVars
      <3>3. CASE \/ \E p, q \in Member : Dial(p, q) \/ Drop(p, q)
                \/ \E p \in Member : Kick(p) \/ Rename(p) \/ Leave(p)
        BY <3>3 DEF Dial, Drop, Kick, Rename, Leave, AuthorVars
      <3>4. CASE UNCHANGED vars
        BY <3>4 DEF vars
      <3>5. CASE Mutations
        BY <1>2, <3>5 DEF Mutations
      <3> QED BY <3>1, <3>2, <3>3, <3>4, <3>5 DEF Next
    <2> QED BY <2>2, <2>3, <2>4, <2>5
  <1> QED BY <1>1, <1>2

LEMMA StepEjects ==
  ASSUME ListInv, [Next]_vars
  PROVE  EjectedWasKicked'
  <1>1. kicked \subseteq kicked'
    BY StepCopies, SignDoneLists DEF ListInv, Copies
  <1>2. \A p \in Member : status'[p] = "ejected" =>
            \/ status[p] = "ejected"
            \/ \E list \in verifying[p] : AcceptsEpoch(p, list) /\ Removed(p, list)
    <2>1. CASE Verify
      <3>1. PICK r \in Member : \E list \in verifying[r] : VerifyDone(r, list)
        BY <2>1 DEF Verify
      <3>2. PICK list \in verifying[r] : VerifyDone(r, list)
        BY <3>1
      <3>3. status' = status \/ (status' = [status EXCEPT ![r] = "ejected"]
                                   /\ AcceptsEpoch(r, list) /\ Removed(r, list))
        BY <3>2 DEF VerifyDone, Adoptable, Adopt, Leaves
      <3> QED BY <3>3 DEF ListInv, TypeOK
    <2>2. CASE \E p \in Member : Leave(p)
      BY <2>2 DEF Leave, Leaves, ListInv, TypeOK
    <2>3. CASE status' = status
      BY <2>3
    <2>4. Verify \/ (\E p \in Member : Leave(p)) \/ status' = status
      <3>1. CASE Deliver \/ Answer \/ Mutations
        BY <3>1 DEF Deliver, ReceiveList, ReceiveRequest, ReceiveName, Answer, AnswerSigned,
                    Mutations, StartMutation, SignDone, GossipDone
      <3>2. CASE Connect \/ Lost \/ Timeout
        BY <3>2 DEF Connect, AuthorConnected, MemberConnected, Lost, LinkLost, Timeout, PendingTimeout
      <3>3. CASE \/ \E p, q \in Member : Dial(p, q) \/ Drop(p, q)
                \/ \E p \in Member : Kick(p) \/ Rename(p)
        BY <3>3 DEF Dial, Drop, Kick, Rename
      <3>4. CASE UNCHANGED vars
        BY <3>4 DEF vars
      <3> QED BY <3>1, <3>2, <3>3, <3>4 DEF Next
    <2> QED BY <2>1, <2>2, <2>3, <2>4
  <1>3. ASSUME NEW p \in Member, NEW list \in verifying[p], AcceptsEpoch(p, list), Removed(p, list)
        PROVE  p \in kicked
    <2>1. roster[p] \in Known /\ list \in Known
      BY KnownLists
    <2>2. roster[p].epoch \in Nat /\ list.epoch \in Nat
      BY <2>1, KnownType DEF ListInv, List
    <2>3. roster[p].epoch <= list.epoch
      BY <1>3, <2>2 DEF AcceptsEpoch
    <2> QED BY <1>3, <2>1, <2>3 DEF ListInv, LossesAreKicks, Removed
  <1> QED BY <1>1, <1>2, <1>3 DEF ListInv, EjectedWasKicked

LEMMA ListStep ==
  ASSUME ListInv, [Next]_vars
  PROVE  ListInv'
  <1>1. TypeOK'
    BY TypeStep DEF ListInv
  <1>2. AuthorIsCanonical' /\ OneListPerEpoch' /\ AuthorIsNewest' /\ LossesAreKicks'
    BY StepCopies, CopiesKeep, SignDoneKeeps DEF ListInv
  <1> QED BY <1>1, <1>2, StepSigns, StepMutates, StepEjects DEF ListInv

(* The lists in circulation form one chain that only the author extends, and
   whose losses are the kicked. *)
THEOREM ListInvariance == Spec => []ListInv
  <1>1. ListInv /\ [Next]_vars => ListInv'
    BY ListStep
  <1> QED BY InitLists, <1>1, PTL DEF Spec

(* Whatever joins, renames and kicks overlap, an epoch names one list. *)
THEOREM EpochsNameLists == Spec => []ListsAgree
  <1>1. ListInv => ListsAgree
    BY DEF ListInv, OneListPerEpoch, AuthorIsNewest, Known, ListsAgree
  <1> QED BY ListInvariance, <1>1, PTL

(* The author never answers with a list it has replaced. *)
THEOREM AnswersAreCurrent == Spec => []SignedIsCurrent
  <1>1. ListInv => SignedIsCurrent
    BY DEF ListInv, SignsCurrent
  <1> QED BY ListInvariance, <1>1, PTL

(* Only a kicked member ejects itself. *)
THEOREM JoinersStay == Spec => []EjectedWasKicked
  <1>1. ListInv => EjectedWasKicked
    BY DEF ListInv
  <1> QED BY ListInvariance, <1>1, PTL

(* No session goes back to an older list. *)
THEOREM EpochsGrow == Spec => EpochNeverRegresses
  <1>1. ASSUME ListInv, [Next]_vars
        PROVE  \A p \in Member : roster'[p].epoch >= roster[p].epoch
    <2>1. \A p \in Member : roster[p].epoch \in Nat
      BY <1>1 DEF ListInv, TypeOK, List
    <2>2. CASE UNCHANGED roster
      BY <2>1, <2>2
    <2>3. CASE SignDone
      <3>1. roster' = [roster EXCEPT ![Author] = NewList] /\ NewList.epoch = roster[Author].epoch + 1
        BY <2>3 DEF SignDone, NewList
      <3> QED BY <1>1, <2>1, <3>1, AuthorAssumption DEF ListInv, TypeOK
    <2>4. CASE Verify
      <3>1. PICK r \in Member : \E list \in verifying[r] : VerifyDone(r, list)
        BY <2>4 DEF Verify
      <3>2. PICK list \in verifying[r] : VerifyDone(r, list)
        BY <3>1
      <3>3. UNCHANGED roster \/ (roster' = [roster EXCEPT ![r] = list] /\ AcceptsEpoch(r, list))
        BY <3>2 DEF VerifyDone, Adoptable, Adopt
      <3>4. list.epoch \in Nat
        BY <1>1, <3>2 DEF ListInv, TypeOK, List
      <3> QED BY <1>1, <2>1, <3>3, <3>4 DEF ListInv, TypeOK, AcceptsEpoch
    <2>5. UNCHANGED roster \/ SignDone \/ Verify
      <3>1. CASE Deliver \/ Answer \/ Mutations
        BY <3>1 DEF Deliver, ReceiveList, ReceiveRequest, ReceiveName, Answer, AnswerSigned,
                    Mutations, StartMutation, GossipDone, AuthorVars
      <3>2. CASE Connect \/ Lost \/ Timeout
        BY <3>2 DEF Connect, AuthorConnected, MemberConnected, Lost, LinkLost, Timeout, PendingTimeout
      <3>3. CASE \/ \E p, q \in Member : Dial(p, q) \/ Drop(p, q)
                \/ \E p \in Member : Kick(p) \/ Rename(p) \/ Leave(p)
        BY <3>3 DEF Dial, Drop, Kick, Rename, Leave
      <3>4. CASE UNCHANGED vars
        BY <3>4 DEF vars
      <3> QED BY <1>1, <3>1, <3>2, <3>3, <3>4 DEF Next
    <2> QED BY <2>2, <2>3, <2>4, <2>5
  <1>2. ListInv /\ [Next]_vars => [\A p \in Member : roster'[p].epoch >= roster[p].epoch]_vars
    BY <1>1
  <1> QED BY ListInvariance, <1>2, PTL DEF Spec, EpochNeverRegresses

-----------------------------------------------------------------------------
(* Verified links *)

(* A session that ended has no links. *)
EndedIsUnlinked == \A p, q \in Member : ~Open(p) => links[p][q] = NoLink

VerifiedInv == ListInv /\ EndedIsUnlinked /\ VerifiedIsListed

(* A step that verifies nobody but listed members, and takes nothing out of the
   author's queue *)
Modest ==
    /\ UNCHANGED <<roster, running>>
    /\ queue' = queue \/ \E task \in Task : queue' = Append(queue, task)
    /\ \A p, q \in Member : links'[p][q].verified =>
          \/ links[p][q].verified /\ links'[p][q].id = links[p][q].id
          \/ q \in roster[p].members

LEMMA UnlinkedFields == NoLink.id = 0 /\ ~NoLink.up /\ ~NoLink.verified
  BY DEF NoLink, NewLink

LEMMA ClosedLink ==
  ASSUME TypeOK, NEW p \in Member, NEW q \in Member, CloseLink(p, q)
  PROVE  \A r, s \in Member : links'[r][s] = IF r = p /\ s = q THEN NoLink ELSE links[r][s]
  BY DEF CloseLink, Closed, TypeOK

LEMMA SetLinks ==
  ASSUME TypeOK, NEW p \in Member, NEW q \in Member, NEW link, SetLink(p, q, link)
  PROVE  \A r, s \in Member : links'[r][s] = IF r = p /\ s = q THEN link ELSE links[r][s]
  BY DEF SetLink, TypeOK

LEMMA DialLinks ==
  ASSUME TypeOK, NEW p \in Member, NEW q \in Member, Dial(p, q)
  PROVE  \A r, s \in Member :
            \/ links'[r][s] = links[r][s]
            \/ Open(r) /\ (links'[r][s] = NoLink \/ links'[r][s] = NewLink(dialled + 1))
  BY DEF Dial, TypeOK

LEMMA AdoptLinks ==
  ASSUME TypeOK, NEW p \in Member, NEW list, Adopt(p, list)
  PROVE  \A r, s \in Member :
            \/ r # p /\ links'[r][s] = links[r][s]
            \/ r = p /\ (links'[r][s] = NoLink \/ (links'[r][s] = Reconciled(p, s, list) /\ status' = status))
  <1>1. CASE Removed(p, list)
    <2>1. links' = [links EXCEPT ![p] = Closed(p, Member)]
      BY <1>1 DEF Adopt, Leaves
    <2> QED BY <2>1 DEF Closed, TypeOK
  <1>2. CASE ~Removed(p, list)
    <2>1. links' = [links EXCEPT ![p] = [q \in Member |-> Reconciled(p, q, list)]] /\ status' = status
      BY <1>2 DEF Adopt
    <2> QED BY <2>1 DEF TypeOK
  <1> QED BY <1>1, <1>2

LEMMA StepUnlinks ==
  ASSUME TypeOK, EndedIsUnlinked, [Next]_vars
  PROVE  EndedIsUnlinked'
  <1>1. ASSUME status' = status,
               \A r, s \in Member : links'[r][s] = links[r][s] \/ links'[r][s] = NoLink \/ Open(r)
        PROVE  EndedIsUnlinked'
    BY <1>1 DEF EndedIsUnlinked, Open
  <1>2. \A r, s \in Member : Exists(r, s) \/ links[r][s].up => Open(r)
    BY UnlinkedFields DEF EndedIsUnlinked, Exists
  <1>3. ASSUME NEW p \in Member, NEW q \in Member, Dial(p, q) PROVE EndedIsUnlinked'
    BY <1>1, <1>3, DialLinks DEF Dial
  <1>4. ASSUME NEW q \in Member, AuthorConnected(q) PROVE EndedIsUnlinked'
    BY <1>1, <1>2, <1>4, SetLinks, ClosedLink, AuthorAssumption DEF AuthorConnected, Connectable
  <1>5. ASSUME NEW p \in Member, NEW q \in Member, MemberConnected(p, q) PROVE EndedIsUnlinked'
    BY <1>1, <1>2, <1>5, SetLinks DEF MemberConnected, Connectable
  <1>6. CASE Deliver
    <2>1. PICK f \in wire : ReceiveList(f) \/ ReceiveRequest(f) \/ ReceiveName(f)
      BY <1>6 DEF Deliver
    <2>2. CASE ReceiveList(f) \/ ReceiveRequest(f)
      BY <1>1, <2>2 DEF ReceiveList, ReceiveRequest
    <2>3. CASE ReceiveName(f)
      <3>1. f.to \in Member /\ f.from \in Member
        BY DEF TypeOK, Frame
      <3> QED BY <1>1, <1>2, <2>3, <3>1, SetLinks DEF ReceiveName, Arrives
    <2> QED BY <2>1, <2>2, <2>3
  <1>7. CASE Verify
    <2>1. PICK p \in Member : \E list \in verifying[p] : VerifyDone(p, list)
      BY <1>7 DEF Verify
    <2>2. PICK list \in verifying[p] : VerifyDone(p, list)
      BY <2>1
    <2>3. CASE UNCHANGED <<links, status>>
      BY <2>3 DEF EndedIsUnlinked, Open
    <2>4. CASE Adopt(p, list) /\ Open(p)
      <3>1. CASE Removed(p, list)
        <4>1. status' = [status EXCEPT ![p] = "ejected"]
              /\ links' = [links EXCEPT ![p] = Closed(p, Member)]
          BY <2>4, <3>1 DEF Adopt, Leaves
        <4>2. \A r, s \in Member : links'[r][s] = IF r = p THEN NoLink ELSE links[r][s]
          BY <4>1 DEF Closed, TypeOK
        <4> QED BY <4>1, <4>2 DEF EndedIsUnlinked, Open, TypeOK
      <3>2. CASE ~Removed(p, list)
        <4>1. status' = status
          BY <2>4, <3>2 DEF Adopt
        <4> QED BY <1>1, <2>4, <4>1, AdoptLinks
      <3> QED BY <3>1, <3>2
    <2> QED BY <2>2, <2>3, <2>4 DEF VerifyDone, Adoptable
  <1>8. CASE Answer
    BY <1>1, <1>8 DEF Answer, AnswerSigned
  <1>9. CASE Mutations
    <2>1. CASE StartMutation
      <3>1. CloseLink(Author, Head(queue).who) \/ UNCHANGED links
        BY <2>1 DEF StartMutation
      <3>2. Head(queue).who \in Member
        <4>1. queue \in Seq(Task) /\ queue # <<>>
          BY <2>1 DEF StartMutation, TypeOK
        <4>2. Head(queue) \in Task
          BY <4>1
        <4> QED BY <4>2 DEF Task
      <3>3. status' = status
        BY <2>1 DEF StartMutation
      <3> QED BY <1>1, <3>1, <3>2, <3>3, ClosedLink, AuthorAssumption
    <2>2. CASE SignDone
      BY <1>1, <2>2 DEF SignDone
    <2>3. CASE GossipDone
      BY <1>1, <2>3, AuthorAssumption DEF GossipDone, Closed, TypeOK
    <2> QED BY <1>9, <2>1, <2>2, <2>3 DEF Mutations
  <1>10. CASE Lost \/ Timeout
    <2>1. PICK p, q \in Member : LinkLost(p, q) \/ PendingTimeout(p, q)
      BY <1>10 DEF Lost, Timeout
    <2>2. CloseLink(p, q) /\ status' = status
      BY <2>1 DEF LinkLost, PendingTimeout
    <2>3. \A r, s \in Member : links'[r][s] = IF r = p /\ s = q THEN NoLink ELSE links[r][s]
      BY <2>2, ClosedLink
    <2> QED BY <1>1, <2>2, <2>3
  <1>11. ASSUME NEW p \in Member, Leave(p) PROVE EndedIsUnlinked'
    <2>1. status' = [status EXCEPT ![p] = "left"] /\ links' = [links EXCEPT ![p] = Closed(p, Member)]
      BY <1>11 DEF Leave, Leaves
    <2>2. \A r, s \in Member : links'[r][s] = IF r = p THEN NoLink ELSE links[r][s]
      BY <2>1 DEF Closed, TypeOK
    <2> QED BY <2>1, <2>2 DEF EndedIsUnlinked, Open, TypeOK
  <1>12. CASE (\E p \in Member : Kick(p) \/ Rename(p)) \/ (\E p, q \in Member : Drop(p, q))
    BY <1>1, <1>12 DEF Kick, Rename, Drop
  <1>13. CASE UNCHANGED vars
    BY <1>1, <1>13 DEF vars
  <1> QED BY <1>3, <1>4, <1>5, <1>6, <1>7, <1>8, <1>9, <1>10, <1>11, <1>12, <1>13 DEF Next, Connect

(* Appending a task loses no pending admission. *)
LEMMA ModestKeeps ==
  ASSUME VerifiedInv, Modest
  PROVE  VerifiedIsListed'
  <1>1. UNCHANGED <<roster, running>>
    BY DEF Modest
  <1>2. ASSUME NEW q \in Member, AwaitsAdd(q), links'[Author][q].id = links[Author][q].id
        PROVE  AwaitsAdd(q)'
    <2>1. CASE running.phase = "sign" /\ q \in running.members
      BY <1>1, <2>1 DEF AwaitsAdd
    <2>2. ASSUME NEW i \in DOMAIN queue,
                 queue[i] = [kind |-> "add", who |-> q, id |-> links[Author][q].id]
          PROVE  AwaitsAdd(q)'
      <3>1. queue \in Seq(Task)
        BY DEF VerifiedInv, ListInv, TypeOK
      <3>2. i \in DOMAIN queue' /\ queue'[i] = queue[i]
        BY <2>2, <3>1 DEF Modest
      <3> QED BY <1>2, <2>2, <3>2 DEF AwaitsAdd
    <2> QED BY <1>2, <2>1, <2>2 DEF AwaitsAdd
  <1>3. ASSUME NEW p \in Member, NEW q \in Member, links'[p][q].verified
        PROVE  \/ q \in roster'[p].members
               \/ p = Author /\ (AwaitsAdd(q)' \/ AwaitsRemoval(q)')
    <2>1. CASE q \in roster[p].members
      BY <1>1, <2>1
    <2>2. CASE links[p][q].verified /\ links'[p][q].id = links[p][q].id
      <3>1. \/ q \in roster[p].members
            \/ p = Author /\ (AwaitsAdd(q) \/ AwaitsRemoval(q))
        BY <2>2 DEF VerifiedInv, VerifiedIsListed
      <3>2. AwaitsRemoval(q) => AwaitsRemoval(q)'
        BY <1>1 DEF AwaitsRemoval
      <3> QED BY <1>1, <1>2, <2>2, <3>1, <3>2
    <2> QED BY <1>3, <2>1, <2>2 DEF Modest
  <1> QED BY <1>3 DEF VerifiedIsListed

LEMMA AuthorConnectedKeeps ==
  ASSUME VerifiedInv, NEW q \in Member, AuthorConnected(q)
  PROVE  VerifiedIsListed'
  <1> DEFINE task == [kind |-> "add", who |-> q, id |-> links[Author][q].id]
  <1>1. TypeOK /\ UNCHANGED <<roster, running>>
    BY DEF VerifiedInv, ListInv, AuthorConnected
  <1>2. task \in Task
    BY <1>1, AuthorAssumption DEF TypeOK, Link, Task
  <1>3. CASE UNCHANGED queue
    <2>1. \A r, s \in Member : links'[r][s].verified =>
             links'[r][s] = links[r][s] \/ (r = Author /\ s = q /\ q \in roster[Author].members)
      <3>1. CASE CloseLink(Author, q)
        BY <1>1, <3>1, ClosedLink, UnlinkedFields, AuthorAssumption
      <3>2. CASE q \in roster[Author].members /\ SetLink(Author, q, Verified(Connected(Author, q)))
        BY <1>1, <3>2, SetLinks, AuthorAssumption
      <3>3. queue # Append(queue, task)
        <4>1. Len(Append(queue, task)) # Len(queue)
          BY <1>1, <1>2 DEF TypeOK
        <4> QED BY <4>1
      <3> QED BY <1>3, <3>1, <3>2, <3>3 DEF AuthorConnected
    <2>2. Modest
      BY <1>1, <1>3, <2>1 DEF Modest
    <2> QED BY <2>2, ModestKeeps
  <1>4. CASE queue' = Append(queue, task) /\ SetLink(Author, q, Verified(Connected(Author, q)))
    <2>1. \A r, s \in Member : links'[r][s] = IF r = Author /\ s = q
                                             THEN Verified(Connected(Author, q)) ELSE links[r][s]
      BY <1>1, <1>4, SetLinks, AuthorAssumption
    <2>2. links'[Author][q].id = links[Author][q].id
      <3>1. links[Author][q] \in Link
        BY <1>1, AuthorAssumption DEF TypeOK
      <3>2. links'[Author][q] = Verified(Connected(Author, q))
        BY <2>1, AuthorAssumption
      <3> QED BY <3>1, <3>2 DEF Verified, Connected, Link
    <2>3. AwaitsAdd(q)'
      <3>1. Len(queue) + 1 \in DOMAIN queue' /\ queue'[Len(queue) + 1] = task
        BY <1>1, <1>2, <1>4 DEF TypeOK
      <3> QED BY <2>2, <3>1 DEF AwaitsAdd
    <2>4. ASSUME NEW s \in Member, s # q, AwaitsAdd(s) PROVE AwaitsAdd(s)'
      <3>1. links'[Author][s].id = links[Author][s].id
        BY <2>1, <2>4, AuthorAssumption
      <3>2. CASE running.phase = "sign" /\ s \in running.members
        BY <1>1, <3>2 DEF AwaitsAdd
      <3>3. ASSUME NEW i \in DOMAIN queue,
                   queue[i] = [kind |-> "add", who |-> s, id |-> links[Author][s].id]
            PROVE  AwaitsAdd(s)'
        <4>1. i \in DOMAIN queue' /\ queue'[i] = queue[i]
          BY <1>1, <1>2, <1>4, <3>3 DEF TypeOK
        <4> QED BY <3>1, <3>3, <4>1 DEF AwaitsAdd
      <3> QED BY <2>4, <3>2, <3>3 DEF AwaitsAdd
    <2>5. \A s \in Member : AwaitsRemoval(s) => AwaitsRemoval(s)'
      BY <1>1 DEF AwaitsRemoval
    <2>6. ASSUME NEW r \in Member, NEW s \in Member, links'[r][s].verified
          PROVE  \/ s \in roster'[r].members
                 \/ r = Author /\ (AwaitsAdd(s)' \/ AwaitsRemoval(s)')
      <3>1. CASE r = Author /\ s = q
        BY <2>3, <3>1
      <3>2. CASE ~(r = Author /\ s = q)
        <4>1. links[r][s].verified
          BY <2>1, <2>6, <3>2
        <4>2. \/ s \in roster[r].members
              \/ r = Author /\ (AwaitsAdd(s) \/ AwaitsRemoval(s))
          BY <4>1 DEF VerifiedInv, VerifiedIsListed
        <4> QED BY <1>1, <2>4, <2>5, <3>2, <4>2
      <3> QED BY <3>1, <3>2
    <2> QED BY <2>6 DEF VerifiedIsListed
  <1> QED BY <1>3, <1>4 DEF AuthorConnected

LEMMA ModestLinkSteps ==
  ASSUME VerifiedInv, NEW p \in Member, NEW q \in Member,
         Dial(p, q) \/ MemberConnected(p, q) \/ PendingTimeout(p, q) \/ LinkLost(p, q)
            \/ Drop(p, q) \/ Leave(p) \/ Kick(q) \/ Rename(p)
  PROVE  Modest
  <1>1. TypeOK /\ UNCHANGED <<roster, running>>
    BY DEF VerifiedInv, ListInv, Dial, MemberConnected, PendingTimeout, LinkLost, Drop, Leave,
           Kick, Rename, AuthorVars
  <1>2. queue' = queue \/ \E task \in Task : queue' = Append(queue, task)
    <2>1. [kind |-> "kick", who |-> q, id |-> 0] \in Task /\ [kind |-> "self", who |-> p, id |-> 0] \in Task
      BY DEF Task
    <2>2. \/ queue' = queue
          \/ queue' = Append(queue, [kind |-> "kick", who |-> q, id |-> 0])
          \/ queue' = Append(queue, [kind |-> "self", who |-> p, id |-> 0])
      BY DEF Dial, MemberConnected, PendingTimeout, LinkLost, Drop, Leave, Kick, Rename, AuthorVars
    <2> QED BY <2>1, <2>2
  <1>3. ASSUME NEW r \in Member, NEW s \in Member, links'[r][s].verified
        PROVE  links'[r][s] = links[r][s] \/ s \in roster[r].members
    <2>1. CASE Dial(p, q)
      <3>1. ~NewLink(dialled + 1).verified
        BY DEF NewLink
      <3> QED BY <1>1, <1>3, <2>1, <3>1, DialLinks, UnlinkedFields
    <2>2. CASE MemberConnected(p, q)
      <3>1. CASE q \in roster[p].members /\ SetLink(p, q, Verified(Connected(p, q)))
        BY <1>1, <3>1, SetLinks
      <3>2. CASE SetLink(p, q, [Connected(p, q) EXCEPT !.unlisted = roster[p].epoch # 0])
                 /\ q \notin roster[p].members
        <4> DEFINE link == [Connected(p, q) EXCEPT !.unlisted = roster[p].epoch # 0]
        <4>1. links[p][q] \in Link
          BY <1>1 DEF TypeOK
        <4>2. link.verified = links[p][q].verified
          BY <4>1 DEF Connected, Link
        <4>3. links[p][q].verified => (p = Author \/ q \in roster[p].members)
          BY DEF VerifiedInv, VerifiedIsListed
        <4>4. p # Author
          BY <2>2 DEF MemberConnected
        <4>5. links'[r][s] = IF r = p /\ s = q THEN link ELSE links[r][s]
          BY <1>1, <3>2, SetLinks
        <4> QED BY <1>3, <3>2, <4>2, <4>3, <4>4, <4>5
      <3> QED BY <2>2, <3>1, <3>2 DEF MemberConnected
    <2>3. CASE PendingTimeout(p, q) \/ LinkLost(p, q)
      BY <1>1, <1>3, <2>3, ClosedLink, UnlinkedFields DEF PendingTimeout, LinkLost
    <2>4. CASE Leave(p)
      BY <1>1, <1>3, <2>4, UnlinkedFields DEF Leave, Leaves, Closed, TypeOK
    <2>5. CASE Drop(p, q) \/ Kick(q) \/ Rename(p)
      BY <2>5 DEF Drop, Kick, Rename
    <2> QED BY <2>1, <2>2, <2>3, <2>4, <2>5
  <1> QED BY <1>1, <1>2, <1>3 DEF Modest

LEMMA ModestReceipts ==
  ASSUME VerifiedInv,
         UNCHANGED vars \/ Answer \/ Deliver
  PROVE  Modest
  <1>1. TypeOK
    BY DEF VerifiedInv, ListInv
  <1>2. CASE UNCHANGED vars \/ Answer
    BY <1>2 DEF vars, Answer, AnswerSigned, Modest
  <1>3. CASE Deliver
    <2>1. PICK f \in wire : ReceiveList(f) \/ ReceiveRequest(f) \/ ReceiveName(f)
      BY <1>3 DEF Deliver
    <2>2. CASE ReceiveList(f) \/ ReceiveRequest(f)
      BY <2>2 DEF ReceiveList, ReceiveRequest, Modest, AuthorVars
    <2>3. CASE ReceiveName(f)
      <3>1. f.to \in Member /\ f.from \in Member
        BY <1>1 DEF TypeOK, Frame
      <3>2. links[f.to][f.from] \in Link
        BY <1>1, <3>1 DEF TypeOK
      <3>3. [kind |-> "name", who |-> f.from, id |-> links[f.to][f.from].id] \in Task
        BY <3>1, <3>2 DEF Task, Link
      <3>4. queue' = queue \/ \E task \in Task : queue' = Append(queue, task)
        BY <2>3, <3>3 DEF ReceiveName
      <3>5. \A r, s \in Member : links'[r][s] = links[r][s] \/
               (links'[r][s].verified = links[r][s].verified /\ links'[r][s].id = links[r][s].id)
        <4> DEFINE link == [links[f.to][f.from] EXCEPT !.announced = TRUE]
        <4>1. link.verified = links[f.to][f.from].verified /\ link.id = links[f.to][f.from].id
          BY <3>2 DEF Link
        <4>2. SetLink(f.to, f.from, link)
          BY <2>3 DEF ReceiveName
        <4> HIDE DEF link
        <4> QED BY <1>1, <3>1, <4>1, <4>2, SetLinks
      <3> QED BY <2>3, <3>4, <3>5 DEF ReceiveName, Modest
    <2> QED BY <2>1, <2>2, <2>3
  <1> QED BY <1>2, <1>3

LEMMA VerifyDoneKeeps ==
  ASSUME VerifiedInv, NEW p \in Member, NEW list \in verifying[p], VerifyDone(p, list)
  PROVE  VerifiedIsListed'
  <1>1. TypeOK /\ p # Author
    BY DEF VerifiedInv, ListInv, AuthorIsCanonical
  <1>2. UNCHANGED <<running, queue>>
    BY DEF VerifyDone, AuthorVars
  <1>3. CASE UNCHANGED <<roster, links>>
    BY <1>2, <1>3, ModestKeeps DEF Modest
  <1>4. CASE Adopt(p, list)
    <2>1. \A r \in Member : roster'[r] = IF r = p THEN list ELSE roster[r]
      BY <1>1, <1>4 DEF Adopt, TypeOK
    <2>2. \A r, s \in Member : r # p => links'[r][s] = links[r][s]
      BY <1>1, <1>4, AdoptLinks
    <2>3. \A s \in Member : links'[p][s].verified => s \in list.members
      <3>1. ASSUME NEW s \in Member, Reconciled(p, s, list).verified PROVE s \in list.members
        <4>1. links[p][s] \in Link
          BY <1>1 DEF TypeOK
        <4> QED BY <3>1, <4>1, UnlinkedFields DEF Reconciled, Evicted, Link
      <3> QED BY <1>1, <1>4, <3>1, AdoptLinks, UnlinkedFields
    <2>4. \A s \in Member : /\ AwaitsAdd(s) => AwaitsAdd(s)'
                            /\ AwaitsRemoval(s) => AwaitsRemoval(s)'
      BY <1>1, <1>2, <2>2, AuthorAssumption DEF AwaitsAdd, AwaitsRemoval
    <2>5. ASSUME NEW r \in Member, NEW s \in Member, links'[r][s].verified
          PROVE  \/ s \in roster'[r].members
                 \/ r = Author /\ (AwaitsAdd(s)' \/ AwaitsRemoval(s)')
      <3>1. CASE r = p
        BY <2>1, <2>3, <2>5, <3>1
      <3>2. CASE r # p
        <4>1. \/ s \in roster[r].members
              \/ r = Author /\ (AwaitsAdd(s) \/ AwaitsRemoval(s))
          BY <2>2, <2>5, <3>2 DEF VerifiedInv, VerifiedIsListed
        <4> QED BY <2>1, <2>4, <3>2, <4>1
      <3> QED BY <3>1, <3>2
    <2> QED BY <2>5 DEF VerifiedIsListed
  <1> QED BY <1>3, <1>4 DEF VerifyDone

(* The task at the head is the pending admission, or another one: then it
   stays in the queue. *)
LEMMA StartMutationKeeps ==
  ASSUME VerifiedInv, StartMutation
  PROVE  VerifiedIsListed'
  <1> DEFINE t == Head(queue)
  <1> DEFINE list == roster[Author]
  <1>1. /\ TypeOK /\ UNCHANGED roster
        /\ running = Idle
        /\ queue \in Seq(Task) /\ queue # <<>>
        /\ queue' = Tail(queue)
    BY DEF VerifiedInv, ListInv, TypeOK, StartMutation
  <1>2. t \in Task /\ t.who \in Member
    <2>1. t \in Task
      BY <1>1
    <2> QED BY <2>1 DEF Task
  <1>3. \A r, s \in Member : links'[r][s] = links[r][s] \/ links'[r][s] = NoLink
    <2>1. CloseLink(Author, t.who) \/ UNCHANGED links
      BY DEF StartMutation
    <2> QED BY <1>1, <1>2, <2>1, ClosedLink, AuthorAssumption
  <1>4. ASSUME NEW q \in Member, links'[Author][q].verified, q \notin list.members
        PROVE  AwaitsAdd(q)'
    <2>1. links'[Author][q] = links[Author][q] /\ links[Author][q].verified
      BY <1>3, <1>4, UnlinkedFields, AuthorAssumption
    <2>2. AwaitsAdd(q)
      <3>1. ~AwaitsRemoval(q)
        BY <1>1 DEF AwaitsRemoval, Idle
      <3> QED BY <1>4, <2>1, <3>1, AuthorAssumption DEF VerifiedInv, VerifiedIsListed
    <2>3. PICK i \in DOMAIN queue : queue[i] = [kind |-> "add", who |-> q, id |-> links[Author][q].id]
      BY <1>1, <2>2 DEF AwaitsAdd, Idle
    <2>4. CASE i # 1
      <3>1. i - 1 \in DOMAIN queue' /\ queue'[i - 1] = queue[i]
        BY <1>1, <2>3, <2>4
      <3> QED BY <2>1, <2>3, <3>1 DEF AwaitsAdd
    <2>5. CASE i = 1
      <3>1. t = [kind |-> "add", who |-> q, id |-> links[Author][q].id]
        BY <1>1, <2>3, <2>5
      <3>2. t.kind = "add" /\ t.who = q /\ StillLinked(t)
        BY <3>1 DEF StillLinked
      <3>3. Open(Author)
        BY <2>1, UnlinkedFields, AuthorAssumption DEF VerifiedInv, EndedIsUnlinked
      <3>4. ~Obsolete(t)
        BY <1>4, <3>2, <3>3 DEF Obsolete
      <3>5. ~CloseLink(Author, q)
        <4>1. CloseLink(Author, q) => links'[Author][q] = NoLink
          BY <1>1, ClosedLink, AuthorAssumption
        <4> QED BY <1>4, <4>1, UnlinkedFields
      <3>6. PICK named : Mutate(list.members \cup {q}, named, {})
        BY <3>2, <3>4, <3>5 DEF StartMutation
      <3>7. running'.phase = "sign" /\ q \in running'.members
        BY <3>6 DEF Mutate
      <3> QED BY <3>7 DEF AwaitsAdd
    <2> QED BY <2>4, <2>5
  <1>5. ASSUME NEW p \in Member, NEW q \in Member, links'[p][q].verified, p # Author
        PROVE  q \in roster[p].members
    <2>1. links[p][q].verified
      BY <1>3, <1>5, UnlinkedFields
    <2> QED BY <1>5, <2>1 DEF VerifiedInv, VerifiedIsListed
  <1> QED BY <1>1, <1>4, <1>5 DEF VerifiedIsListed

LEMMA SignDoneKeepsVerified ==
  ASSUME VerifiedInv, SignDone
  PROVE  VerifiedIsListed'
  <1>1. /\ TypeOK /\ UNCHANGED <<links, queue>>
        /\ running.phase = "sign"
        /\ running' = [running EXCEPT !.phase = "gossip"]
        /\ roster' = [roster EXCEPT ![Author] = NewList]
    BY DEF VerifiedInv, ListInv, SignDone
  <1>2. running \in Mutation /\ roster'[Author].members = running.members
        /\ \A p \in Member : p # Author => roster'[p] = roster[p]
    BY <1>1, AuthorAssumption DEF TypeOK, NewList
  <1>3. running'.phase = "gossip" /\ running'.removed = running.removed
    BY <1>1, <1>2 DEF Mutation
  <1>4. ASSUME NEW q \in Member, links[Author][q].verified
        PROVE  q \in roster'[Author].members \/ AwaitsAdd(q)' \/ AwaitsRemoval(q)'
    <2>1. CASE q \in roster[Author].members
      <3>1. q \in running.members \/ q \in running.removed
        BY <1>1, <2>1 DEF VerifiedInv, ListInv, MutationIsCurrent
      <3> QED BY <1>2, <1>3, <3>1 DEF AwaitsRemoval
    <2>2. CASE AwaitsAdd(q)
      BY <1>1, <1>2, <2>2 DEF AwaitsAdd
    <2>3. ~AwaitsRemoval(q)
      BY <1>1 DEF AwaitsRemoval
    <2> QED BY <1>4, <2>1, <2>2, <2>3, AuthorAssumption DEF VerifiedInv, VerifiedIsListed
  <1> QED BY <1>1, <1>2, <1>4 DEF VerifiedInv, VerifiedIsListed

LEMMA GossipDoneKeeps ==
  ASSUME VerifiedInv, GossipDone
  PROVE  VerifiedIsListed'
  <1> DEFINE victims == {q \in running.removed : links[Author][q].verified}
  <1>1. /\ TypeOK /\ UNCHANGED <<roster, queue>>
        /\ running.phase = "gossip"
        /\ links' = [links EXCEPT ![Author] = Closed(Author, victims)]
    BY DEF VerifiedInv, ListInv, GossipDone
  <1>2. \A r, s \in Member : links'[r][s] = IF r = Author /\ s \in victims THEN NoLink ELSE links[r][s]
    <2> HIDE DEF victims
    <2> QED BY <1>1 DEF Closed, TypeOK
  <1>3. ASSUME NEW q \in Member, links'[Author][q].verified
        PROVE  q \in roster[Author].members \/ AwaitsAdd(q)'
    <2>1. q \notin victims /\ links'[Author][q] = links[Author][q]
      BY <1>2, <1>3, UnlinkedFields, AuthorAssumption
    <2>2. ~AwaitsRemoval(q)
      BY <1>3, <2>1 DEF AwaitsRemoval
    <2>3. AwaitsAdd(q) => AwaitsAdd(q)'
      BY <1>1, <2>1 DEF AwaitsAdd
    <2> QED BY <1>3, <2>1, <2>2, <2>3, AuthorAssumption DEF VerifiedInv, VerifiedIsListed
  <1>4. ASSUME NEW p \in Member, NEW q \in Member, links'[p][q].verified, p # Author
        PROVE  q \in roster[p].members
    BY <1>2, <1>4 DEF VerifiedInv, VerifiedIsListed
  <1> QED BY <1>1, <1>3, <1>4 DEF VerifiedIsListed

LEMMA VerifiedStep ==
  ASSUME VerifiedInv, [Next]_vars
  PROVE  VerifiedInv'
  <1>1. ListInv' /\ EndedIsUnlinked'
    BY ListStep, StepUnlinks DEF VerifiedInv, ListInv
  <1> SUFFICES VerifiedIsListed'
    BY <1>1 DEF VerifiedInv
  <1>2. CASE Connect
    BY <1>2, AuthorConnectedKeeps, ModestLinkSteps, ModestKeeps DEF Connect
  <1>3. CASE UNCHANGED vars \/ Answer \/ Deliver
    BY <1>3, ModestReceipts, ModestKeeps
  <1>4. CASE Verify
    BY <1>4, VerifyDoneKeeps DEF Verify
  <1>5. CASE Mutations
    BY <1>5, StartMutationKeeps, SignDoneKeepsVerified, GossipDoneKeeps DEF Mutations
  <1>6. CASE Lost \/ Timeout \/ \E p, q \in Member : Dial(p, q) \/ Drop(p, q)
    BY <1>6, ModestLinkSteps, ModestKeeps DEF Lost, Timeout
  <1>7. CASE \E p \in Member : Kick(p) \/ Rename(p) \/ Leave(p)
    BY <1>7, ModestLinkSteps, ModestKeeps
  <1> QED BY <1>2, <1>3, <1>4, <1>5, <1>6, <1>7 DEF Next

(* Content goes to members, and is shown from members, only: every verified
   link leads to one, or at the author to one whose admission is pending or
   whose removal is being gossiped. *)
THEOREM OnlyMembersVerified == Spec => []VerifiedIsListed
  <1>1. Init => VerifiedInv
    <2>1. Init => EndedIsUnlinked /\ VerifiedIsListed
      BY UnlinkedFields DEF Init, EndedIsUnlinked, VerifiedIsListed
    <2> QED BY <2>1, InitLists DEF VerifiedInv
  <1>2. VerifiedInv /\ [Next]_vars => VerifiedInv'
    BY VerifiedStep
  <1>3. VerifiedInv => VerifiedIsListed
    BY DEF VerifiedInv
  <1> QED BY <1>1, <1>2, <1>3, PTL DEF Spec

=============================================================================
