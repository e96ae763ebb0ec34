------------------------------- MODULE MCGroup -------------------------------
(* Instances of Group for TLC. *)
EXTENDS Group

CONSTANT Seated \* members that have joined before the run starts

(* The state a group comes to rest in once Seated have joined, one by one: the
   author's list has been bumped for each, everybody holds it, and every pair
   has a verified link, numbered apart from those of the run. *)
SeatedInit ==
    LET list == [epoch |-> Cardinality(Seated), members |-> Seated, named |-> {}]
        settled == [NewLink(MaxDials + 1) EXCEPT !.up = TRUE, !.verified = TRUE]
        linked(p, q) == p # q /\ {p, q} \subseteq Seated
    IN  /\ roster = [p \in Member |-> IF p \in Seated THEN list ELSE NoList]
        /\ signed = list
        /\ links = [p \in Member |-> [q \in Member |-> IF linked(p, q) THEN settled ELSE NoLink]]
        /\ pc = {pair \in Pairs : pair \subseteq Seated}
        /\ status = [p \in Member |-> "open"]
        /\ localName = [p \in Member |-> FALSE]
        /\ verifying = [p \in Member |-> {}]
        /\ wire = {} /\ answering = {} /\ queue = <<>> /\ running = Idle
        /\ dialled = 0 /\ kicks = 0 /\ kicked = {}

SeatedSpec == SeatedInit /\ [][Next]_vars

(* Lists that their receiver will discard when they arrive, or when they are
   verified, make no difference: the epochs they are measured against only
   grow.  States that differ in nothing else count as one. *)
View == <<roster, signed, links, status, localName, pc, dialled,
          {f \in wire : f.kind = "list" =>
                f.to # Author /\ Open(f.to) /\ AcceptsEpoch(f.to, f.list)},
          [p \in Member |-> {l \in verifying[p] : Open(p) /\ AcceptsEpoch(p, l)}],
          answering, queue, running, kicks, kicked>>

=============================================================================
