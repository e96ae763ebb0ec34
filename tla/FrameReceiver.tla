---------------------------- MODULE FrameReceiver ----------------------------
(***************************************************************************)
(* The receiving half of a session (framing/receiver.ts) as a record and   *)
(* the steps of its methods on it.  ingest() is serialized by a promise    *)
(* chain, so a frame waits while completeTransfer awaits the hash of an    *)
(* earlier one; the inactivity sweep and teardown() do not wait.           *)
(***************************************************************************)
EXTENDS Framing

(* An ActiveTransfer object, which a parked completeTransfer still holds   *)
(* after the map has let go of it.                                         *)
Transfers == [size : Nat, chunks : SUBSET Nat, received : Nat, dropped : BOOLEAN]
NoTransfer == [size |-> 0, chunks |-> {}, received |-> 0, dropped |-> TRUE]

(* Ways a transfer leaves the receiver, and per-transfer framing errors.   *)
Fates  == {"file", "cancelled", "timeout", "hash"}
Errors == {"TransferInactive", "ConcurrentTransfersExceeded", "SizeExceeded",
           "NameExceeded", "MimeExceeded", "UnknownTransfer", "ChunkOutOfRange", "Malformed", "DuplicateChunk"}

Receivers == [transfers : SUBSET Ids,        \* the keys of the map
              object : [Ids -> Transfers],
              hashing : Ids \cup {0},        \* completeTransfer in flight
              buffered : Nat,                \* totalBufferedBytes
              outstanding : Nat,             \* outstandingDeclaredBytes
              tornDown : BOOLEAN,
              fate : [Ids -> SUBSET Fates],
              errors : SUBSET (Ids \X Errors)]

NewReceiver == [transfers |-> {}, object |-> [id \in Ids |-> NoTransfer], hashing |-> 0,
                buffered |-> 0, outstanding |-> 0, tornDown |-> FALSE,
                fate |-> [id \in Ids |-> {}], errors |-> {}]

-----------------------------------------------------------------------------
(* Mutant: no latch, a transfer dropped twice is subtracted twice.         *)
DropUnlatched(r, id) ==
  LET o == r.object[id]
  IN [r EXCEPT !.transfers = @ \ {id}, !.object[id].dropped = TRUE,
               !.buffered = @ - o.received,
               !.outstanding = @ - (o.size - o.received)]

(* dropTransfer *)
Drop(r, id) ==
  LET o == r.object[id]
  IN IF o.dropped THEN r
     ELSE [r EXCEPT !.transfers = @ \ {id}, !.object[id].dropped = TRUE,
                    !.buffered = @ - o.received,
                    !.outstanding = @ - (o.size - o.received)]

Met(r, id, fate) == [r EXCEPT !.fate[id] = @ \cup {fate}]

(* completeTransfer starts once the last chunk is stored.                  *)
CompleteIfWhole(r, id) ==
  IF Cardinality(r.object[id].chunks) = ChunkCount(r.object[id].size)
  THEN [r EXCEPT !.hashing = id] ELSE r

(* handleManifest: its tests in their order, and the admission.            *)
ManifestError(r, f) ==
  IF DecodeError(f.plain, f.id) # "none" THEN DecodeError(f.plain, f.id)
  ELSE IF f.id \in r.transfers THEN "TransferInactive"
  ELSE IF Cardinality(r.transfers) >= MaxTransfers THEN "ConcurrentTransfersExceeded"
  ELSE IF r.buffered + r.outstanding + f.plain.size > Budget THEN "SizeExceeded"
  ELSE "none"

Admit(r, f) ==
  CompleteIfWhole(
    [r EXCEPT !.transfers = @ \cup {f.id}, !.outstanding = @ + f.plain.size,
              !.object[f.id] = [NoTransfer EXCEPT !.size = f.plain.size, !.dropped = FALSE]],
    f.id)

(* handleChunk, likewise.                                                  *)
ChunkError(r, f) ==
  LET o == r.object[f.id]
  IN IF f.id \notin r.transfers THEN "UnknownTransfer"
     ELSE IF f.chunk >= ChunkCount(o.size) THEN "ChunkOutOfRange"
     ELSE IF f.size # ChunkLength(o.size, f.chunk) THEN "Malformed"
     ELSE IF f.chunk \in o.chunks THEN "DuplicateChunk"
     ELSE IF o.received + f.size > o.size \/ r.buffered + f.size > Budget
     THEN "SizeExceeded"
     ELSE "none"

Store(r, f) ==
  CompleteIfWhole(
    [r EXCEPT !.object[f.id].chunks = @ \cup {f.chunk},
              !.object[f.id].received = @ + f.size,
              !.buffered = @ + f.size, !.outstanding = @ - f.size],
    f.id)

ErrorOf(r, f) ==
  CASE f.type = "manifest" -> ManifestError(r, f)
    [] f.type = "chunk"    -> ChunkError(r, f)
    [] f.type = "cancel"   -> "none"

(* _ingestSerialized, for a frame that decrypts.  "Malformed" alone would  *)
(* end the session; HonestPeer is that it never comes up.                  *)
Ingested(r, f) ==
  IF ErrorOf(r, f) # "none"
  THEN [r EXCEPT !.errors = @ \cup {<<f.id, ErrorOf(r, f)>>}]
  ELSE CASE f.type = "manifest" -> Admit(r, f)
         [] f.type = "chunk"    -> Store(r, f)
         [] f.type = "cancel"   -> IF f.id \in r.transfers
                                   THEN Met(Drop(r, f.id), f.id, "cancelled") ELSE r

(* Mutant: the map is not looked at again after the hash.                  *)
CompletedUnchecked(r, matches) ==
  LET id == r.hashing
  IN [Met(Drop(r, id), id, IF matches THEN "file" ELSE "hash") EXCEPT !.hashing = 0]

(* completeTransfer once sha256 resolved: a mismatch drops the transfer,   *)
(* one that teardown or the sweep dropped meanwhile is not surfaced.       *)
Completed(r, matches) ==
  LET id   == r.hashing
      live == ~r.tornDown /\ id \in r.transfers
  IN [IF ~matches THEN Met(Drop(r, id), id, "hash")
      ELSE IF live THEN Met(Drop(r, id), id, "file")
      ELSE Drop(r, id) EXCEPT !.hashing = 0]

(* Mutant: a transfer that never received a chunk does not time out.       *)
SweptStarted(r, idle) ==
  FoldSet(LAMBDA id, t : IF t.object[id].chunks = {} THEN t
                         ELSE Met(Drop(t, id), id, "timeout"), r, idle)

(* sweepInactiveTransfers, with the transfers that were idle too long.     *)
Swept(r, idle) ==
  FoldSet(LAMBDA id, t : Met(Drop(t, id), id, "timeout"), r, idle)

(* teardown() *)
ReceiverTeardown(r) ==
  [FoldSet(LAMBDA id, t : Drop(t, id), r, r.transfers) EXCEPT !.tornDown = TRUE]
=============================================================================
