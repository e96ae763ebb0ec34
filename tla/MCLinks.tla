------------------------------- MODULE MCLinks -------------------------------
(***************************************************************************)
(* What carries messages and files: the managers that connect the members  *)
(* of a group, the inbound side of one link before and as its handshake    *)
(* completes, the window through which a receiver takes its frames, and    *)
(* the transfers of files over a connected pair.  They share no state, so  *)
(* one behaviour moves one of them.                                        *)
(***************************************************************************)
EXTENDS ReplayWindow, FiniteSets

CONSTANTS Seat, MaxPeers, None, Faults, MaxFaults, MaxParked, MaxArrivals,
          alice, bob, NameCap, MimeCap, ChunkBytes, Budget, MaxTransfers, HighWater,
          MaxFrames, MaxSends, FileFaults

VARIABLES part, seat, present, links, session, parked, wire, made, faults,
          state, conversation, resolving, held, early, resolution, first, flush,
          arrived, heard, ingested, blamed,
          sender, receiver, open, channel, low, list, queue, refused

ASSUME MeshAssumption == IsFiniteSet(Seat) /\ MaxPeers \in Nat /\ MaxFaults \in Nat
ASSUME LinkAssumption == MaxParked \in Nat /\ MaxArrivals \in Nat
ASSUME FileAssumption ==
  /\ NameCap \in 1 .. 255 /\ MimeCap \in 1 .. 255
  /\ {ChunkBytes, Budget, MaxTransfers, HighWater, MaxSends} \subseteq Nat \ {0}
  /\ MaxFrames \in Nat /\ alice # bob

\* Files that are empty, fit, and are too large to send; two of the second kind
\* are too large together.
MixedFiles == {[size |-> n, name |-> 1, mime |-> 0] : n \in {0, 3, 5}}

M == INSTANCE Mesh
L == INSTANCE GroupLink
T == INSTANCE FileTransfer WITH
       Peer <- {alice, bob}, Files <- MixedFiles, Faults <- FileFaults,
       Uploads <- [p \in {alice, bob} |-> IF p = alice THEN MaxSends ELSE 0],
       MaxSequence <- MaxFrames, wire <- channel

meshVars == <<seat, present, links, session, parked, wire, made, faults>>
linkVars == <<state, conversation, resolving, held, early, resolution, first,
              flush, arrived, heard, ingested, blamed>>
fileVars == <<sender, receiver, open, channel, low, list, queue, refused>>

MCInit == /\ Init /\ M!Init /\ L!Init /\ T!Init
          /\ part \in {"window", "mesh", "link", "files"}

Rest(p) == /\ p # "window" => UNCHANGED vars
           /\ p # "mesh" => UNCHANGED meshVars
           /\ p # "link" => UNCHANGED linkVars
           /\ p # "files" => UNCHANGED fileVars

MCNext == /\ \/ part = "window" /\ Next
             \/ part = "mesh" /\ M!Next
             \/ part = "link" /\ L!Next
             \/ part = "files" /\ T!Next
          /\ Rest(part) /\ UNCHANGED part

MCSpec == MCInit /\ [][MCNext]_<<part, vars, meshVars, linkVars, fileVars>>

(* The properties of the managers, of the link and of the transfers.       *)
InStep == M!InStep
InboundIsFaithful == L!InboundIsFaithful
FramesInOrder == L!FramesInOrder
Accounts == T!Accounts
HonestPeer == T!HonestPeer
SurfacesOnce == T!SurfacesOnce
=============================================================================
