--------------------------- MODULE ConnectionStates ---------------------------
(***************************************************************************)
(* The lifecycle ConnectionStateMachine promises for every endpoint        *)
(* (signaling/state-machine.ts).  An orchestrator never assigns its state  *)
(* except through transition(), which throws on an edge that is not in the *)
(* table: this is the abstract specification the Handshake module is shown *)
(* to implement.                                                           *)
(***************************************************************************)
CONSTANT Endpoint

VARIABLE state

States == {"idle", "waiting", "signaling", "handshaking", "verifying",
           "connected", "disconnected"}

(* TRANSITIONS, without the edge back to idle that every row has.          *)
Successors ==
  [idle         |-> {"waiting", "signaling"},
   waiting      |-> {"signaling", "handshaking", "disconnected"},
   signaling    |-> {"handshaking", "waiting", "disconnected"},
   handshaking  |-> {"verifying", "disconnected"},
   verifying    |-> {"connected", "disconnected"},
   connected    |-> {"disconnected"},
   disconnected |-> {"signaling"}]

Allowed(from, to) == to = "idle" \/ to \in Successors[from]

Init == state = [e \in Endpoint |-> "idle"]

Transition(e, next) ==
  /\ Allowed(state[e], next)
  /\ state' = [state EXCEPT ![e] = next]

Next == \E e \in Endpoint, next \in States : Transition(e, next)

Spec == Init /\ [][Next]_state
=============================================================================
