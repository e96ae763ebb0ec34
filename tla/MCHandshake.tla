----------------------------- MODULE MCHandshake -----------------------------
(* Two endpoints for TLC, and the invitations they may hold.               *)
EXTENDS Handshake, TLC

CONSTANTS alice, bob, c1, c2

MCPeer == {alice, bob}
MCCodes == {c1, c2}

(* Both hold the invitation's code, or none is used.                       *)
SameCode == {[p \in MCPeer |-> c1]}
Matching == SameCode \cup {[p \in MCPeer |-> NoCode]}

(* One side holds another code, or a link without one.                     *)
Differing == {[p \in MCPeer |-> IF p = alice THEN c1 ELSE c2]}

(* The invitation's code, typed correctly or not.                          *)
Typed == SameCode \cup Differing
=============================================================================
