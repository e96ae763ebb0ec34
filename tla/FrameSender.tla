----------------------------- MODULE FrameSender -----------------------------
(***************************************************************************)
(* The sending half of a session (framing/sender.ts) as a record and the   *)
(* steps of its methods on it.  sendFile() is a coroutine per transfer: it *)
(* awaits the hash, the encryption of each frame and, under backpressure,  *)
(* the drain of the data channel.                                          *)
(***************************************************************************)
EXTENDS Framing

(* Where the sendFile coroutine of a transfer is: `next` counts the frames *)
(* it has sent (the manifest, then the chunks), `ended` is how it returns. *)
NoFile == [size |-> 0, name |-> 0, mime |-> 0]
Unsent == [at |-> "none", file |-> NoFile, next |-> 0, ended |-> "none"]

Awaiting == {"hash", "seal", "drain"}
Running  == Awaiting \cup {"returning"}
Endings  == {"complete", "cancelled", "error"}

Sends == [at : Running \cup {"none", "done"}, file : [DOMAIN NoFile -> Nat],
          next : Nat, ended : Endings \cup {"none"}]

Senders == [sends : [Ids -> Sends],
            active : SUBSET Ids,      \* activeTransfers
            cancelled : SUBSET Ids,   \* cancelledTransfers
            announced : SUBSET Ids,   \* manifestSentTransfers
            aborts : SUBSET Ids,      \* TransferCancel frames being encrypted
            sequence : 0 .. MaxSequence + 1,
            tearingDown : BOOLEAN]

NewSender == [sends |-> [id \in Ids |-> Unsent], active |-> {}, cancelled |-> {},
              announced |-> {}, aborts |-> {}, sequence |-> 0, tearingDown |-> FALSE]

Allocated(s) == {id \in Ids : s.sends[id].at # "none"}
AtCap(s)     == Cardinality(s.active) >= MaxTransfers

-----------------------------------------------------------------------------
(* Mutant: the cancelled mark outlives the coroutine.                      *)
ReturnKeepsMark(s, id, ended) ==
  [s EXCEPT !.sends[id].at = "returning", !.sends[id].ended = ended,
            !.active = @ \ {id}, !.announced = @ \ {id}]

(* sendFile resolves or rejects; its finally releases the reservation on   *)
(* every path.                                                             *)
Return(s, id, ended) ==
  [s EXCEPT !.sends[id].at = "returning", !.sends[id].ended = ended,
            !.active = @ \ {id}, !.cancelled = @ \ {id}, !.announced = @ \ {id}]

(* beginFileTransfer, and sendFile up to the hash.                         *)
Begin(s, file) ==
  LET id == Cardinality(Allocated(s)) + 1
      t  == [s EXCEPT !.sends[id] = [Unsent EXCEPT !.at = "hash", !.file = file],
                      !.active = @ \cup {id}]
  IN IF file.size > Budget THEN Return(t, id, "error") ELSE t

(* sendEncryptedFrame up to its await: nextSequence may be exhausted.      *)
Seal(s, id) ==
  IF s.sequence > MaxSequence
  THEN Return(s, id, "error")
  ELSE [s EXCEPT !.sequence = @ + 1, !.sends[id].at = "seal"]

(* assertNotTearingDown(transferId), then the frame that comes next.       *)
Proceed(s, id, t) ==
  IF s.tearingDown THEN Return(s, id, "error")
  ELSE IF id \in s.cancelled THEN Return(s, id, "cancelled")
  ELSE t

(* The hash is there: the manifest counts as sent from here on, and is     *)
(* encoded.                                                                *)
Hashed(s, id) ==
  Proceed(s, id, IF EncodeError(s.sends[id].file) # "none" THEN Return(s, id, "error")
                 ELSE Seal([s EXCEPT !.announced = @ \cup {id}], id))

(* Mutant: the chunk index runs one ahead.                                 *)
FrameAhead(s, id) ==
  LET f == s.sends[id]
  IN IF f.next = 0 THEN ManifestFrame(id, f.file)
     ELSE ChunkFrame(id, f.next, ChunkLength(f.file.size, f.next - 1))

(* The frame whose encryption the coroutine awaits.                        *)
FrameOf(s, id) ==
  LET f == s.sends[id]
  IN IF f.next = 0 THEN ManifestFrame(id, f.file)
     ELSE ChunkFrame(id, f.next - 1, ChunkLength(f.file.size, f.next - 1))

(* The chunk loop: it ends, parks in waitForDrain, or seals a chunk.       *)
Loop(s, id, backpressured) ==
  IF s.sends[id].next = ChunkCount(s.sends[id].file.size) + 1
  THEN Return(s, id, "complete")
  ELSE Proceed(s, id, IF backpressured THEN [s EXCEPT !.sends[id].at = "drain"]
                      ELSE Seal(s, id))

Sent(s, id, backpressured) ==
  Loop([s EXCEPT !.sends[id].next = @ + 1], id, backpressured)

Waiters(s) == {id \in Ids : s.sends[id].at = "drain"}

(* handleDrain resolves every waiter; each tests the buffer again.         *)
Drained(s, backpressured) ==
  FoldSet(LAMBDA id, t : Loop(t, id, backpressured), s, Waiters(s))

(* Mutant: the waiter of a cancelled transfer stays parked.                *)
CancelKeepsWaiter(s, id) ==
  [s EXCEPT !.active = @ \ {id}, !.cancelled = @ \cup {id}]

(* cancelTransfer of an active id: its waiter is rejected, and the peer is *)
(* told once the manifest may have gone out.                               *)
CancelTransfer(s, id) ==
  LET t == [s EXCEPT !.active = @ \ {id}, !.cancelled = @ \cup {id}]
      u == IF id \in Waiters(s) THEN Return(t, id, "cancelled") ELSE t
  IN IF id \in s.announced /\ s.sequence <= MaxSequence
     THEN [u EXCEPT !.aborts = @ \cup {id}, !.sequence = @ + 1]
     ELSE u

(* Mutant: the drain waiters are dropped without being rejected.           *)
SenderTeardownKeepsWaiters(s) ==
  [s EXCEPT !.tearingDown = TRUE, !.active = {}, !.announced = {}]

(* teardown() *)
SenderTeardown(s) ==
  [FoldSet(LAMBDA id, t : Return(t, id, "error"), s, Waiters(s))
     EXCEPT !.tearingDown = TRUE, !.active = {}, !.announced = {}]
=============================================================================
