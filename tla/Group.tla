-------------------------------- MODULE Group --------------------------------
(***************************************************************************)
(* GroupSession (group/group-session.ts): a group conversation as a mesh   *)
(* of pairwise links.  One member, the author, owns the member list: it    *)
(* appends whoever completes a link with it, signs each list under the     *)
(* next epoch and gossips it.  The others adopt the newest signed list     *)
(* they see, verify links against it and close those to members that are   *)
(* gone.                                                                   *)
(*                                                                         *)
(* A step is what one session runs between two awaits.  A member has one   *)
(* seat, hence one link per peer, and does not come back after it left.    *)
(* The handshake of a link is the single step LinkConnected (module        *)
(* Handshake models it), and a display name is either still empty or the   *)
(* one name of its member.                                                 *)
(***************************************************************************)
EXTENDS Naturals, Sequences, FiniteSets

CONSTANTS Member,     \* identities; each runs one GroupSession
          Author,     \* the member that created the group
          MaxMembers, \* maxMembers: entries of the list
          MaxDials,   \* bound: data channels opened
          MaxKicks,   \* bound: calls of kickMember
          Named,      \* members that start with a display name
          Renamers,   \* members that may choose a display name later
          Faults      \* what the environment does: "drop", "leave", "timeout"

ASSUME AuthorAssumption == Author \in Member
ASSUME BoundsAssumption == MaxMembers \in Nat /\ MaxDials \in Nat /\ MaxKicks \in Nat
ASSUME NamesAssumption == Named \subseteq Member /\ Renamers \subseteq Member

VARIABLES
    roster,     \* roster[p]: members with their epoch; epoch 0 is "no list yet"
    signed,     \* the author's membershipValue; epoch 0 is null
    links,      \* links[p][q]: p's GroupLink to q; id 0 is none
    status,     \* status[p]: "open", or why the session closed
    localName,  \* localName[p]: p has a display name
    pc,         \* pairs of members with an open data channel
    dialled,    \* data channels opened so far; numbers the links
    wire,       \* control frames that were sent, encrypted or not
    verifying,  \* verifying[p]: lists parked in verifyMembership
    answering,  \* membership requests parked in the author's first signature
    queue,      \* authorMutationQueue: tasks that have not started
    running,    \* the task in progress
    kicks,      \* calls of kickMember so far
    kicked      \* history: members that a committed list dropped

vars == <<roster, signed, links, status, localName, pc, dialled, wire,
          verifying, answering, queue, running, kicks, kicked>>

-----------------------------------------------------------------------------
(* Data *)

List == [epoch : Nat, members : SUBSET Member, named : SUBSET Member]
NoList == [epoch |-> 0, members |-> {}, named |-> {}]

Link == [id : Nat, up : BOOLEAN, verified : BOOLEAN, unlisted : BOOLEAN, announced : BOOLEAN]
NewLink(id) == [id |-> id, up |-> FALSE, verified |-> FALSE, unlisted |-> FALSE,
                announced |-> FALSE]
NoLink == NewLink(0)

Frame == [from : Member, to : Member, kind : {"list", "request", "name"}, list : List]
Task == [kind : {"add", "name", "self", "kick"}, who : Member, id : Nat]
Mutation == [phase : {"idle", "sign", "gossip"}, members : SUBSET Member,
             named : SUBSET Member, removed : SUBSET Member]
Idle == [phase |-> "idle", members |-> {}, named |-> {}, removed |-> {}]

Pairs == {pair \in SUBSET Member : Cardinality(pair) = 2}
Open(p) == status[p] = "open"
Exists(p, q) == links[p][q].id # 0
UpLinks(p) == {q \in Member : links[p][q].up}

-----------------------------------------------------------------------------
(* Links and frames *)

(* Both ends of the pair's current channel exist: a frame sent now arrives
   unless something happens to it. *)
Carries(p, q) == {p, q} \in pc /\ links[q][p].id = links[p][q].id

Sent(p, peers, kind, list) ==
    {[from |-> p, to |-> q, kind |-> kind, list |-> list] : q \in {r \in peers : Carries(p, r)}}

RequestByAnotherName(p, peers) == Sent(p, peers, "membership", NoList)
Request(p, peers) == Sent(p, peers, "request", NoList)
Announce(p, peers) == IF localName[p] THEN Sent(p, peers, "name", NoList) ELSE {}

(* closeLink for every peer of a set: the record is dropped and the
   orchestrator leaves, which closes the channel at this end.  Frames to this
   end are not heard any more; frames from it that are still being encrypted,
   the Leave frame among them, fail.  A peer whose own end is open is not told. *)
Closed(p, peers) == [q \in Member |-> IF q \in peers THEN NoLink ELSE links[p][q]]
Between(p, peers) == {f \in wire : \/ f.from = p /\ f.to \in peers
                                   \/ f.to = p /\ f.from \in peers}
CloseLink(p, q) == /\ links' = [links EXCEPT ![p] = Closed(p, {q})]
                   /\ wire' = wire \ Between(p, {q})

Init ==
    /\ roster = [p \in Member |->
                    IF p = Author
                    THEN [epoch |-> 1, members |-> {Author}, named |-> Named \cap {Author}]
                    ELSE NoList]
    /\ signed = NoList
    /\ links = [p \in Member |-> [q \in Member |-> NoLink]]
    /\ status = [p \in Member |-> "open"]
    /\ localName = [p \in Member |-> p \in Named]
    /\ pc = {}
    /\ dialled = 0
    /\ wire = {}
    /\ verifying = [p \in Member |-> {}]
    /\ answering = {}
    /\ queue = <<>>
    /\ running = Idle
    /\ kicks = 0
    /\ kicked = {}

AuthorVars == <<signed, answering, queue, running, kicks, kicked>>

(* attachLinkTransport at an end of the pair: the old link is closed first,
   and a session that holds all the links its cap allows refuses. *)
HasRoom(p, q) == Cardinality({r \in Member \ {q} : Exists(p, r)}) < MaxMembers - 1

(* A data channel opens between two seated members and is handed to both
   sessions.  If one refuses it, its manager tears the pair down and the other
   is left with a link over nothing. *)
Dial(p, q) ==
    LET id == dialled + 1
        Attached(a, b) == [links[a] EXCEPT ![b] = IF HasRoom(a, b) THEN NewLink(id) ELSE NoLink]
    IN  /\ p # q
        /\ Open(p) /\ Open(q)
        /\ {p, q} \notin pc
        /\ id <= MaxDials
        /\ dialled' = id
        /\ links' = [links EXCEPT ![p] = Attached(p, q), ![q] = Attached(q, p)]
        /\ pc' = IF HasRoom(p, q) /\ HasRoom(q, p) THEN pc \cup {{p, q}} ELSE pc
        /\ wire' = wire \ Between(p, {q})
        /\ UNCHANGED <<roster, status, localName, verifying, AuthorVars>>

(* markVerified *)
Verified(link) == [link EXCEPT !.verified = TRUE, !.unlisted = FALSE]

-----------------------------------------------------------------------------
(* onLinkConnected *)

Connectable(p, q) == /\ Exists(p, q) /\ ~links[p][q].up
                     /\ {p, q} \in pc

Connected(p, q) == [links[p][q] EXCEPT !.up = TRUE]
SetLink(p, q, link) == links' = [links EXCEPT ![p][q] = link]

(* At the author a known member is verified; anyone else joins by having
   completed the link, unless the list is full. *)
AuthorConnected(q) ==
    /\ Connectable(Author, q)
    /\ UNCHANGED <<roster, signed, status, localName, pc, dialled, verifying,
                   answering, running, kicks, kicked>>
    /\ \/ /\ q \in roster[Author].members
          /\ SetLink(Author, q, Verified(Connected(Author, q)))
          /\ wire' = wire \cup Announce(Author, {q})
          /\ UNCHANGED queue
       \/ /\ q \notin roster[Author].members
          /\ Cardinality(roster[Author].members) >= MaxMembers
          /\ CloseLink(Author, q)
          /\ UNCHANGED queue
       \/ /\ q \notin roster[Author].members
          /\ Cardinality(roster[Author].members) < MaxMembers
          /\ SetLink(Author, q, Verified(Connected(Author, q)))
          /\ wire' = wire \cup Announce(Author, {q})
          /\ queue' = Append(queue, [kind |-> "add", who |-> q, id |-> links[Author][q].id])

(* Elsewhere a listed peer is verified.  Without a list, or with one that does
   not name the peer, the peer is asked for its list. *)
MemberConnected(p, q) ==
    /\ p # Author
    /\ Connectable(p, q)
    /\ \/ /\ q \in roster[p].members
          /\ SetLink(p, q, Verified(Connected(p, q)))
          /\ wire' = wire \cup Announce(p, {q})
       \/ /\ q \notin roster[p].members
          /\ SetLink(p, q, [Connected(p, q) EXCEPT !.unlisted = roster[p].epoch # 0])
          /\ wire' = wire \cup Announce(p, {q}) \cup Request(p, {q})
    /\ UNCHANGED <<roster, status, localName, pc, dialled, verifying, AuthorVars>>

-----------------------------------------------------------------------------
(* onLinkControlFrame *)

(* acceptsEpoch *)
AcceptsEpoch(p, list) == list.epoch > roster[p].epoch

(* A frame reaches a link that is up; until then it is parked. *)
Arrives(f) == f \in wire /\ links[f.to][f.from].up

(* handleInboundMembership, to the await of verifyMembership *)
ReceiveList(f) ==
    /\ Arrives(f) /\ f.kind = "list"
    /\ wire' = wire \ {f}
    /\ verifying' = IF Open(f.to) /\ f.to # Author /\ AcceptsEpoch(f.to, f.list)
                    THEN [verifying EXCEPT ![f.to] = @ \cup {f.list}]
                    ELSE verifying
    /\ UNCHANGED <<roster, links, status, localName, pc, dialled, AuthorVars>>

(* answerMembershipRequest: a list in hand is sent; the author that has signed
   none yet signs its current one first. *)
ReceiveRequest(f) ==
    LET p == f.to
        held == IF p = Author THEN signed ELSE roster[p]
    IN  /\ Arrives(f) /\ f.kind = "request"
        /\ wire' = (wire \ {f}) \cup
                   (IF held.epoch # 0 THEN Sent(p, {f.from}, "list", held) ELSE {})
        /\ answering' = IF held.epoch = 0 /\ p = Author
                        THEN answering \cup {[to |-> f.from, id |-> links[p][f.from].id,
                                              list |-> roster[p]]}
                        ELSE answering
        /\ UNCHANGED <<roster, signed, links, status, localName, pc, dialled, verifying,
                       queue, running, kicks, kicked>>

(* identity_announcement: the author folds a new name into the list. *)
ReceiveName(f) ==
    LET p == f.to  q == f.from
    IN  /\ Arrives(f) /\ f.kind = "name"
        /\ wire' = wire \ {f}
        /\ SetLink(p, q, [links[p][q] EXCEPT !.announced = TRUE])
        /\ queue' = IF p = Author /\ q \in roster[p].members \ roster[p].named
                    THEN Append(queue, [kind |-> "name", who |-> q, id |-> links[p][q].id])
                    ELSE queue
        /\ UNCHANGED <<roster, signed, status, localName, pc, dialled, verifying,
                       answering, running, kicks, kicked>>

NewerUnchecked(list) == list
Newer(list) == IF list.epoch > signed.epoch THEN list ELSE signed

(* signCurrentMembership resumes: the list it signed becomes membershipValue
   unless a newer one landed meanwhile, and answers the request if the link is
   still the one that asked. *)
AnswerSigned(a) ==
    /\ a \in answering
    /\ answering' = answering \ {a}
    /\ signed' = Newer(a.list)
    /\ wire' = wire \cup (IF links[Author][a.to].id = a.id /\ links[Author][a.to].up
                          THEN Sent(Author, {a.to}, "list", a.list) ELSE {})
    /\ UNCHANGED <<roster, links, status, localName, pc, dialled, verifying,
                   queue, running, kicks, kicked>>

-----------------------------------------------------------------------------
(* Adoption: handleInboundMembership after the await *)

(* closeLink on every link, and the manager leaves the room with all its peer
   connections. *)
Leaves(p, why) ==
    /\ status' = [status EXCEPT ![p] = why]
    /\ links' = [links EXCEPT ![p] = Closed(p, Member)]
    /\ pc' = {pair \in pc : p \notin pair}
    /\ wire' = wire \ Between(p, Member)

(* What adoptMembership makes of a link: peers in the list are verified, links
   to removed members and links found unlisted before are closed, the others
   are flagged. *)
EvictedIfUnlistedBefore(p, q, list) == /\ q \notin list.members
                                       /\ links[p][q].up /\ links[p][q].unlisted
Evicted(p, q, list) ==
    LET link == links[p][q]
    IN  /\ q \notin list.members
        /\ \/ link.verified
           \/ link.up /\ link.unlisted
Reconciled(p, q, list) ==
    LET link == links[p][q]
    IN  IF Evicted(p, q, list) THEN NoLink
        ELSE IF ~link.up THEN link
        ELSE IF q \in list.members THEN Verified(link)
        ELSE [link EXCEPT !.unlisted = TRUE]

RemovedIfUnlisted(p, list) == p \notin list.members
Removed(p, list) == p \in roster[p].members \ list.members

(* A member that was listed and is not any more leaves.  One that was never
   listed waits, and asks every connected peer again. *)
Adopt(p, list) ==
    LET gone == {q \in Member : Evicted(p, q, list)}
        kept == UpLinks(p) \ gone
        asks == IF p \in list.members THEN {} ELSE kept
    IN  /\ roster' = [roster EXCEPT ![p] = list]
        /\ IF Removed(p, list)
           THEN Leaves(p, "ejected")
           ELSE /\ links' = [links EXCEPT ![p] = [q \in Member |-> Reconciled(p, q, list)]]
                /\ wire' = (wire \ Between(p, gone)) \cup Request(p, asks)
                /\ UNCHANGED <<status, pc>>

AdoptableUnchecked(p, list) == Open(p)
Adoptable(p, list) == Open(p) /\ AcceptsEpoch(p, list)

VerifyDone(p, list) ==
    /\ list \in verifying[p]
    /\ verifying' = [verifying EXCEPT ![p] = @ \ {list}]
    /\ IF Adoptable(p, list)
       THEN Adopt(p, list)
       ELSE UNCHANGED <<roster, links, status, pc, wire>>
    /\ UNCHANGED <<localName, dialled, AuthorVars>>

-----------------------------------------------------------------------------
(* The author's mutations, one at a time *)

Mutate(members, named, removed) ==
    running' = [phase |-> "sign", members |-> members, named |-> named, removed |-> removed]

(* The link a task was enqueued for is still in place. *)
StillLinked(t) == links[Author][t.who].id = t.id

(* Conditions under which a task does nothing, read when it starts. *)
Obsolete(t) ==
    LET list == roster[Author]
    IN  \/ ~Open(Author)
        \/ t.kind = "add" /\ (~StillLinked(t) \/ t.who \in list.members)
        \/ t.kind = "name" /\ (~StillLinked(t) \/ t.who \notin list.members \ list.named)
        \/ t.kind = "self" /\ Author \in list.named
        \/ t.kind = "kick" /\ t.who \notin list.members

(* authorAddMember, kickMember, updateDisplayName and refreshMemberDisplayName
   up to the await of the signature *)
StartMutation ==
    LET t == Head(queue)
        list == roster[Author]
        full == t.kind = "add" /\ Cardinality(list.members) >= MaxMembers
        name == IF links[Author][t.who].announced THEN {t.who} ELSE {}
    IN  /\ queue # <<>>
        /\ running = Idle
        /\ queue' = Tail(queue)
        /\ \/ Obsolete(t) /\ UNCHANGED <<running, links, wire>>
           \/ ~Obsolete(t) /\ full /\ CloseLink(Author, t.who) /\ UNCHANGED running
           \/ /\ ~Obsolete(t) /\ ~full
              /\ UNCHANGED <<links, wire>>
              /\ CASE t.kind = "add" ->
                        Mutate(list.members \cup {t.who}, list.named \cup name, {})
                   [] t.kind = "kick" ->
                        Mutate(list.members \ {t.who}, list.named \ {t.who}, {t.who})
                   [] OTHER ->
                        Mutate(list.members, list.named \cup {t.who}, {})
        /\ UNCHANGED <<roster, signed, status, localName, pc, dialled, verifying,
                       answering, kicks, kicked>>

(* The list as it is after the mutation *)
NewListUnbumped == [epoch |-> roster[Author].epoch, members |-> running.members,
                    named |-> running.named]
NewList == [epoch |-> roster[Author].epoch + 1, members |-> running.members, named |-> running.named]

GossipToMembers == Sent(Author, UpLinks(Author) \cap NewList.members, "list", NewList)
Gossip == Sent(Author, UpLinks(Author), "list", NewList)

(* applyMembershipChange after the signature: the list, its epoch and the signed
   list move together, and the gossip goes out on every connected link, that of
   a removed member included. *)
SignDone ==
    /\ running.phase = "sign"
    /\ roster' = [roster EXCEPT ![Author] = NewList]
    /\ signed' = NewList
    /\ wire' = wire \cup Gossip
    /\ running' = [running EXCEPT !.phase = "gossip"]
    /\ kicked' = kicked \cup running.removed
    /\ UNCHANGED <<links, status, localName, pc, dialled, verifying, answering, queue, kicks>>

(* All sends have settled: the gossip is on its way, and links to removed
   members are closed. *)
GossipDoneUnclosed ==
    /\ running.phase = "gossip"
    /\ running' = Idle
    /\ UNCHANGED <<roster, signed, links, status, localName, pc, dialled, wire,
                   verifying, answering, queue, kicks, kicked>>
GossipDone ==
    LET victims == {q \in running.removed : links[Author][q].verified}
    IN  /\ running.phase = "gossip"
        /\ links' = [links EXCEPT ![Author] = Closed(Author, victims)]
        /\ wire' = wire \ {f \in Between(Author, victims) : f.to = Author \/ f.list # signed}
        /\ running' = Idle
        /\ UNCHANGED <<roster, signed, status, localName, pc, dialled, verifying,
                       answering, queue, kicks, kicked>>

-----------------------------------------------------------------------------
(* Calls of the user *)

(* kickMember of a listed member *)
Kick(q) ==
    /\ Open(Author)
    /\ q \in roster[Author].members \ {Author}
    /\ kicks < MaxKicks
    /\ kicks' = kicks + 1
    /\ queue' = Append(queue, [kind |-> "kick", who |-> q, id |-> 0])
    /\ UNCHANGED <<roster, signed, links, status, localName, pc, dialled, wire,
                   verifying, answering, running, kicked>>

(* updateDisplayName from the empty name *)
Rename(p) ==
    /\ p \in Renamers /\ ~localName[p] /\ Open(p)
    /\ localName' = [localName EXCEPT ![p] = TRUE]
    /\ wire' = wire \cup Sent(p, UpLinks(p), "name", NoList)
    /\ queue' = IF p = Author THEN Append(queue, [kind |-> "self", who |-> p, id |-> 0]) ELSE queue
    /\ UNCHANGED <<roster, signed, links, status, pc, dialled, verifying, answering,
                   running, kicks, kicked>>

Leave(p) ==
    /\ "leave" \in Faults
    /\ Open(p)
    /\ Leaves(p, "left")
    /\ UNCHANGED <<roster, localName, dialled, verifying, AuthorVars>>

-----------------------------------------------------------------------------
(* Timers and the network *)

(* onPendingVerifyTimeout *)
PendingTimeout(p, q) ==
    /\ "timeout" \in Faults
    /\ Exists(p, q) /\ ~links[p][q].verified
    /\ CloseLink(p, q)
    /\ UNCHANGED <<roster, status, localName, pc, dialled, verifying, AuthorVars>>

(* The peer connection of a pair fails, with all that is on its way. *)
Drop(p, q) ==
    /\ "drop" \in Faults
    /\ {p, q} \in pc
    /\ pc' = pc \ {{p, q}}
    /\ wire' = wire \ Between(p, {q})
    /\ UNCHANGED <<roster, links, status, localName, dialled, verifying, AuthorVars>>

(* The manager of an end learns of it, or of the peer's departure: dropLink. *)
LinkLost(p, q) ==
    /\ Exists(p, q) /\ {p, q} \notin pc
    /\ CloseLink(p, q)
    /\ UNCHANGED <<roster, status, localName, pc, dialled, verifying, AuthorVars>>

-----------------------------------------------------------------------------
Deliver == \E f \in wire : ReceiveList(f) \/ ReceiveRequest(f) \/ ReceiveName(f)
Connect == \/ \E q \in Member : AuthorConnected(q)
           \/ \E p, q \in Member : MemberConnected(p, q)
Verify == \E p \in Member : \E list \in verifying[p] : VerifyDone(p, list)
Mutations == StartMutation \/ SignDone \/ GossipDone
Answer == \E a \in answering : AnswerSigned(a)
Lost == \E p, q \in Member : LinkLost(p, q)
Timeout == \E p, q \in Member : PendingTimeout(p, q)

Next ==
    \/ \E p, q \in Member : Dial(p, q)
    \/ Connect
    \/ Deliver
    \/ Verify
    \/ Answer
    \/ Mutations
    \/ Lost
    \/ Timeout
    \/ \E q \in Member : Kick(q)
    \/ \E p \in Member : Rename(p)
    \/ \E p \in Member : Leave(p)
    \/ \E p, q \in Member : Drop(p, q)

Spec == Init /\ [][Next]_vars

(* Promises settle, open channels deliver, armed timers fire and managers learn
   of a peer connection that is gone.  Users and new channels owe nothing. *)
Fairness == /\ WF_vars(Connect) /\ WF_vars(Deliver) /\ WF_vars(Verify)
            /\ WF_vars(Answer) /\ WF_vars(Mutations) /\ WF_vars(Lost) /\ WF_vars(Timeout)
FairSpec == Spec /\ Fairness

-----------------------------------------------------------------------------
(* Properties *)

TypeOK ==
    /\ roster \in [Member -> List]
    /\ signed \in List
    /\ links \in [Member -> [Member -> Link]]
    /\ status \in [Member -> {"open", "left", "ejected"}]
    /\ localName \in [Member -> BOOLEAN]
    /\ pc \subseteq Pairs
    /\ dialled \in 0..MaxDials
    /\ wire \subseteq Frame
    /\ verifying \in [Member -> SUBSET List]
    /\ answering \subseteq [to : Member, id : Nat, list : List]
    /\ queue \in Seq(Task)
    /\ running \in Mutation
    /\ kicks \in 0..MaxKicks
    /\ kicked \subseteq Member

(* Every list anybody holds, has sent or is about to adopt *)
Lists == {roster[p] : p \in Member} \cup {signed} \cup (UNION {verifying[p] : p \in Member})
            \cup {f.list : f \in wire} \cup {a.list : a \in answering}

(* The epoch names the list: whoever holds, has sent or is verifying a list of
   some epoch means the same members, and no list is ahead of the author's.
   Concurrent joins, renames and kicks must not mint two lists for one epoch. *)
ListsAgree ==
    /\ \A l, m \in Lists : l.epoch = m.epoch => l = m
    /\ \A l \in Lists : l.epoch <= roster[Author].epoch

(* The author answers requests with the list in force: the signature of its
   first list, however long it takes, does not replace a newer signed list. *)
SignedIsCurrent == signed.epoch # 0 => signed = roster[Author]

(* No session goes back to an older list, although two lists may be verified at
   the same time and the older one may be done last. *)
EpochNeverRegresses == [][\A p \in Member : roster'[p].epoch >= roster[p].epoch]_vars

(* A peer a link is verified for, to whom texts and files go and whose content
   is shown, is a member: by the own list, and at the author also while the
   task that adds it waits or signs, or the removal still gossips. *)
AwaitsAdd(q) ==
    \/ \E i \in DOMAIN queue : queue[i] = [kind |-> "add", who |-> q, id |-> links[Author][q].id]
    \/ running.phase = "sign" /\ q \in running.members
AwaitsRemoval(q) == running.phase = "gossip" /\ q \in running.removed

VerifiedIsListed ==
    \A p, q \in Member : links[p][q].verified =>
        \/ q \in roster[p].members
        \/ p = Author /\ (AwaitsAdd(q) \/ AwaitsRemoval(q))

(* Only a member the author has removed ejects itself: a joiner that is given a
   list from before its own admission stays and waits for the next. *)
EjectedWasKicked == \A p \in Member : status[p] = "ejected" => p \in kicked

(* p's end of its link to the author can still hear it. *)
Hears(p) == {p, Author} \in pc /\ links[p][Author].up

(* Gossip reaches the members it is for, the one just admitted and the one just
   removed included: a member the author is connected to when it signs a change
   comes to adopt that list or a later one, unless its own end of the link
   closes first. *)
Signings == 1..(MaxDials + MaxKicks)
Concerned == roster[Author].members \cup running.members
GossipArrives ==
    \A p \in Member \ {Author}, e \in Signings :
        (/\ running.phase = "sign" /\ roster[Author].epoch = e
         /\ p \in Concerned /\ links[Author][p].up /\ Hears(p))
            ~> (roster[p].epoch > e \/ ~Hears(p))

(* A member that waits, linked to the author, for a list with itself gets one.
   (group-session.ts:985: "it holds the list and waits for the epoch containing
   itself, which the author's gossip-on-bump delivers") *)
Waits(p) == /\ Hears(p) /\ links[Author][p].up
            /\ p \in roster[Author].members
WaitingMemberIsCovered == \A p \in Member : Waits(p) ~> (p \in roster[p].members \/ ~Waits(p))

=============================================================================
