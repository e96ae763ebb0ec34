------------------------------- MODULE Framing -------------------------------
(***************************************************************************)
(* What the two halves of the framing layer share: the frames of a file    *)
(* transfer, how a file is cut into chunks, how a manifest is laid out, and *)
(* the limits of protocol/limits.ts.  Lengths of files are in units of     *)
(* which a chunk holds ChunkBytes; contents are left out.                  *)
(***************************************************************************)
EXTENDS Naturals, Sequences, FiniteSets, FiniteSetsExt

CONSTANTS
  Files,         \* files the host sends: lengths of [size, name, mime]
  ChunkBytes,    \* MAX_CHUNK_PLAINTEXT_BYTES
  Budget,        \* MAX_INCOMPLETE_TRANSFER_BYTES
  MaxTransfers,  \* MAX_CONCURRENT_TRANSFERS
  HighWater,     \* MAX_BUFFERED_DATA_BYTES, in frames
  NameCap,       \* MAX_MANIFEST_NAME_BYTES
  MimeCap,       \* MAX_MANIFEST_MIME_BYTES
  MaxSequence,   \* MAX_SEQUENCE
  MaxSends       \* bound: files one FrameSender ever sends

ASSUME LimitsAssumption ==
  /\ Files \subseteq [size : Nat, name : Nat, mime : Nat]
  /\ NameCap \in 1 .. 255 /\ MimeCap \in 1 .. 255
  /\ {ChunkBytes, Budget, MaxTransfers, HighWater, MaxSends} \subseteq Nat \ {0}
  /\ MaxSequence \in Nat

(* Transfer ids, in the order a FrameSender allocates them from            *)
(* FIRST_TRANSFER_ID: both ends use the same ones.                         *)
Ids == 1 .. MaxSends

ChunkCount(size) == (size + ChunkBytes - 1) \div ChunkBytes

ChunkLength(size, i) ==
  LET start == i * ChunkBytes
  IN (IF start + ChunkBytes < size THEN start + ChunkBytes ELSE size) - start

-----------------------------------------------------------------------------
(* The manifest (framing/manifest.ts).  Its plaintext is the id, the name  *)
(* and the MIME type, each after a byte that holds its length, and a tail  *)
(* of the size, the number of chunks and the hash.                         *)
IdBytes   == 4
TailBytes == 4 + 4 + 32

(* encodeManifest: what it refuses, in its order, and what it writes.      *)
EncodeError(file) ==
  IF file.name > NameCap THEN "NameExceeded"
  ELSE IF file.name = 0 THEN "Malformed"
  ELSE IF file.mime > MimeCap THEN "MimeExceeded"
  ELSE IF file.size > Budget THEN "SizeExceeded"
  ELSE "none"

Encoded(id, file) ==
  [id |-> id, name |-> file.name % 256, mime |-> file.mime % 256, size |-> file.size,
   chunks |-> ChunkCount(file.size),
   length |-> IdBytes + 1 + file.name + 1 + file.mime + TailBytes]

(* decodeManifest: it goes through the plaintext field by field.           *)
DecodeError(plain, id) ==
  LET mimeAt == IdBytes + 1 + plain.name
      tailAt == mimeAt + 1 + plain.mime
  IN IF plain.length < IdBytes + 2 \/ plain.id # id THEN "Malformed"
     ELSE IF mimeAt > plain.length \/ plain.name = 0 THEN "Malformed"
     ELSE IF plain.name > NameCap THEN "NameExceeded"
     ELSE IF mimeAt = plain.length \/ tailAt > plain.length THEN "Malformed"
     ELSE IF plain.mime > MimeCap THEN "MimeExceeded"
     ELSE IF tailAt + TailBytes # plain.length THEN "Malformed"
     ELSE IF plain.size > Budget THEN "SizeExceeded"
     ELSE IF plain.chunks # ChunkCount(plain.size) THEN "Malformed"
     ELSE "none"

-----------------------------------------------------------------------------
NoPlain == [id |-> 0, name |-> 0, mime |-> 0, size |-> 0, chunks |-> 0, length |-> 0]

Frames == [type : {"manifest", "chunk", "cancel"}, id : Ids, size : Nat, chunk : Nat,
           plain : [DOMAIN NoPlain -> Nat]]

ManifestFrame(id, file) == [type |-> "manifest", id |-> id, size |-> file.size, chunk |-> 0,
                            plain |-> Encoded(id, file)]
ChunkFrame(id, i, n)    == [type |-> "chunk", id |-> id, size |-> n, chunk |-> i,
                            plain |-> NoPlain]
CancelFrame(id)         == [type |-> "cancel", id |-> id, size |-> 0, chunk |-> 0,
                            plain |-> NoPlain]
=============================================================================
