---------------------------- MODULE StorageProofs ----------------------------
(***************************************************************************)
(* What the web provider and its storage keep, for any conversations,      *)
(* bundles, stored disks and numbers of mounts and derivations; and that   *)
(* the mobile app's file stays openable, for any loads and deaths of the   *)
(* process.                                                                *)
(***************************************************************************)
EXTENDS MCProvider, TLAPS, FiniteSetTheorems, SequenceTheorems

(* Rows of the store.                                                      *)
Rows(f) == \A c \in DOMAIN f : /\ f[c] = [peer |-> f[c].peer, failed |-> f[c].failed]
                               /\ f[c].failed \in BOOLEAN

Derivation == [op : {"unlock", "set"}, stale : BOOLEAN]
MountRecord == [at : {"none", "loading", "opening", "hydrating", "published", "ended"},
                cancelled : BOOLEAN,
                db : {"none", "opening", "open", "absent", "closed"}]

(* The values of the variables that booting and the vault speak of.        *)
BootTypes ==
    /\ open \in BOOLEAN /\ mode \in {"auto", "passphrase"} /\ kind \in {"memory", "browser"}
    /\ vault \in [key : BOOLEAN, locked : BOOLEAN, inner : BOOLEAN]
    /\ kdf \subseteq Derivation
    /\ life \in 0 .. MaxMounts /\ mounts \in [Mount -> MountRecord]

(* The vault holds a key exactly when it is unlocked, from the first mount *)
(* on.  A derivation that may still open it was begun by the controller at *)
(* work, since the last lock().                                            *)
VaultIsSound ==
    /\ life > 0 => vault.locked = ~vault.key
    /\ open => vault.inner = vault.key
    /\ \A k \in kdf : ~k.stale => open /\ (k.op = "set" => vault.key)

(* Every mount but the last was cleaned up; a controller at work is the    *)
(* last one's.  An effect that has found the vault unlocked, and was not   *)
(* cleaned up, finds it unlocked when it comes to publish.                 *)
MountsAreSound ==
    /\ \A m \in Mount : /\ m < life => mounts[m].cancelled
                        /\ m > life => mounts[m] = NotMounted
    /\ open => life > 0 /\ mounts[life].at = "published" /\ ~mounts[life].cancelled
    /\ \A m \in Mount :
          mounts[m].at \in {"opening", "hydrating"} /\ ~mounts[m].cancelled => vault.key

(* What keeps a failure in sight: the durable record, or else the flag of  *)
(* the conversation, or a queued mark whose replay has not begun.          *)
FailuresAreKept ==
    IF durable.works
    THEN owed \subseteq durable.flags
    ELSE open => \A c \in owed :
                    /\ c \in DOMAIN conv
                    /\ conv[c].failed \/ c \in queue.pending \ queue.flushing

BootInv == BootTypes /\ VaultIsSound /\ MountsAreSound /\ PublishedIsLive
RowInv == Rows(conv) /\ Rows(disk.conv)
FailInv ==
    /\ durable = [works |-> durable.works, flags |-> durable.flags]
    /\ durable.works \in BOOLEAN
    /\ queue = [pending |-> queue.pending, flushing |-> queue.flushing]
    /\ FailuresAreKept

WebInv == BootInv /\ RowInv /\ FailInv

bootVars == <<open, kind, mode, vault, kdf, life, mounts>>

-----------------------------------------------------------------------------
(* What the operations on rows return: rows, that keep the marks and the   *)
(* pinned peers of those they had.                                         *)
KeepsMarks(f) == \A c \in DOMAIN conv \cap DOMAIN f : conv[c].failed => f[c].failed
KeepsPeers(f) ==
    \A c \in DOMAIN conv \cap DOMAIN f : conv[c].peer # Nobody => f[c].peer = conv[c].peer
KeepsRows(f) == Rows(f) /\ KeepsMarks(f) /\ KeepsPeers(f)

LEMMA SameRows == ASSUME Rows(conv) PROVE KeepsRows(conv)
BY DEF KeepsRows, KeepsMarks, KeepsPeers

LEMMA NoRows == KeepsRows(<<>>)
BY DEF KeepsRows, KeepsMarks, KeepsPeers, Rows

(* A row with one field overwritten.                                       *)
LEMMA SetFailed ==
  ASSUME NEW r, r = [peer |-> r.peer, failed |-> r.failed], NEW b \in BOOLEAN
  PROVE  [r EXCEPT !.failed = b] = [peer |-> r.peer, failed |-> b]
OBVIOUS

LEMMA SetPeer ==
  ASSUME NEW r, r = [peer |-> r.peer, failed |-> r.failed], NEW p0
  PROVE  [r EXCEPT !.peer = p0] = [peer |-> p0, failed |-> r.failed]
OBVIOUS

LEMMA MarkedRows ==
  ASSUME Rows(conv), NEW c
  PROVE  /\ KeepsRows(Marked(c)) /\ DOMAIN Marked(c) = DOMAIN conv
         /\ c \in DOMAIN conv => Marked(c)[c].failed
<1>1. CASE c \notin DOMAIN conv
  BY <1>1, SameRows DEF Marked
<1>2. CASE c \in DOMAIN conv
  <2> DEFINE r == [conv[c] EXCEPT !.failed = TRUE]
  <2>1. r = [peer |-> conv[c].peer, failed |-> TRUE]
    BY <1>2, SetFailed DEF Rows
  <2>2. r.peer = conv[c].peer /\ r.failed = TRUE /\ r = [peer |-> r.peer, failed |-> r.failed]
    BY <2>1
  <2>3. Marked(c) = [conv EXCEPT ![c] = r]
    BY <1>2 DEF Marked
  <2> HIDE DEF r
  <2> QED
    BY <1>2, <2>2, <2>3 DEF KeepsRows, KeepsMarks, KeepsPeers, Rows
<1> QED
  BY <1>1, <1>2

LEMMA CreatedRows ==
  ASSUME Rows(conv), NEW c
  PROVE  /\ KeepsRows(Created(c)) /\ DOMAIN Created(c) = DOMAIN conv \cup {c}
BY DEF Created, Put, KeepsRows, KeepsMarks, KeepsPeers, Rows

LEMMA WithoutRows ==
  ASSUME Rows(conv), NEW C
  PROVE  KeepsRows(Without(conv, C)) /\ DOMAIN Without(conv, C) = DOMAIN conv \ C
BY DEF Without, KeepsRows, KeepsMarks, KeepsPeers, Rows

LEMMA PinnedRows ==
  ASSUME Rows(conv), NEW c \in DOMAIN conv, NEW p0
  PROVE  KeepsRows(Pinned(c, p0)) /\ DOMAIN Pinned(c, p0) = DOMAIN conv
<1> DEFINE q0 == IF conv[c].peer = Nobody THEN p0 ELSE conv[c].peer
           r == [conv[c] EXCEPT !.peer = q0]
<1>1. r = [peer |-> q0, failed |-> conv[c].failed]
  BY SetPeer DEF Rows
<1>2. /\ conv[c].peer # Nobody => r.peer = conv[c].peer
      /\ r.failed = conv[c].failed /\ r = [peer |-> r.peer, failed |-> r.failed]
  BY <1>1
<1>3. Pinned(c, p0) = [conv EXCEPT ![c] = r]
  BY DEF Pinned
<1> HIDE DEF r
<1> QED
  BY <1>2, <1>3 DEF KeepsRows, KeepsMarks, KeepsPeers, Rows

(* Replace overwrites the peer, and only that.                             *)
LEMMA ReplacedRows ==
  ASSUME Rows(conv), NEW c \in DOMAIN conv, NEW p0
  PROVE  Rows(Replaced(c, p0)) /\ KeepsMarks(Replaced(c, p0)) /\ DOMAIN Replaced(c, p0) = DOMAIN conv
<1> DEFINE r == [conv[c] EXCEPT !.peer = p0]
<1>1. r = [peer |-> p0, failed |-> conv[c].failed]
  BY SetPeer DEF Rows
<1>2. r.failed = conv[c].failed /\ r = [peer |-> r.peer, failed |-> r.failed]
  BY <1>1
<1>3. Replaced(c, p0) = [conv EXCEPT ![c] = r]
  BY DEF Replaced
<1> HIDE DEF r
<1> QED
  BY <1>2, <1>3 DEF KeepsMarks, Rows

(* The replay of the queue flags every conversation it knows.              *)
LEMMA OpenedRows ==
  ASSUME Rows(conv), Opened
  PROVE  /\ KeepsRows(conv') /\ DOMAIN conv' = DOMAIN conv
         /\ \A c \in DOMAIN conv \cap queue.pending : conv'[c].failed
<1>1. conv' = [c \in DOMAIN conv |->
                [conv[c] EXCEPT !.failed = conv[c].failed \/ c \in queue.pending]]
  BY DEF Opened
<1>2. ASSUME NEW c \in DOMAIN conv
      PROVE  conv'[c] = [peer |-> conv[c].peer, failed |-> (conv[c].failed \/ c \in queue.pending)]
  <2>1. conv'[c] = [conv[c] EXCEPT !.failed = conv[c].failed \/ c \in queue.pending]
    BY <1>1
  <2>2. (conv[c].failed \/ c \in queue.pending) \in BOOLEAN
    OBVIOUS
  <2> QED
    BY <2>1, <2>2, SetFailed DEF Rows
<1>3. ASSUME NEW c \in DOMAIN conv
      PROVE  /\ conv'[c].peer = conv[c].peer
             /\ conv'[c].failed = (conv[c].failed \/ c \in queue.pending)
             /\ conv'[c].failed \in BOOLEAN
             /\ conv'[c] = [peer |-> conv'[c].peer, failed |-> conv'[c].failed]
  <2> DEFINE b == conv[c].failed \/ c \in queue.pending
  <2>1. conv'[c] = [peer |-> conv[c].peer, failed |-> b]
    BY <1>2
  <2>2. b \in BOOLEAN
    OBVIOUS
  <2> HIDE DEF b
  <2>3. conv'[c].peer = conv[c].peer /\ conv'[c].failed = b
    BY <2>1
  <2> USE DEF b
  <2> QED
    BY <2>1, <2>2, <2>3, Zenon
<1>4. DOMAIN conv' = DOMAIN conv
  BY <1>1
<1> QED
  BY <1>3, <1>4 DEF KeepsRows, KeepsMarks, KeepsPeers, Rows

-----------------------------------------------------------------------------
(* Booting and the vault.                                                  *)
LEMMA SameBoot ==
  ASSUME BootInv, UNCHANGED bootVars
  PROVE  BootInv'
BY DEF BootInv, bootVars, BootTypes, VaultIsSound, MountsAreSound, PublishedIsLive

(* A vault as its manager makes it.                                        *)
LEMMA VaultFacts ==
  ASSUME vault \in [key : BOOLEAN, locked : BOOLEAN, inner : BOOLEAN]
  PROVE  /\ vault.key \in BOOLEAN /\ vault.locked \in BOOLEAN /\ vault.inner \in BOOLEAN
         /\ Locked(vault) \in [key : BOOLEAN, locked : BOOLEAN, inner : BOOLEAN]
         /\ Locked(vault).key = FALSE /\ Locked(vault).locked = TRUE
         /\ Locked(vault).inner = (vault.inner /\ vault.locked)
<1>1. vault.key \in BOOLEAN /\ vault.locked \in BOOLEAN /\ vault.inner \in BOOLEAN
  OBVIOUS
<1> DEFINE b == vault.inner /\ vault.locked
<1>2. b \in BOOLEAN
  OBVIOUS
<1> HIDE DEF b
<1>3. Locked(vault) = [key |-> FALSE, locked |-> TRUE, inner |-> b]
  BY DEF Locked, b
<1>4. /\ Locked(vault) \in [key : BOOLEAN, locked : BOOLEAN, inner : BOOLEAN]
      /\ Locked(vault).key = FALSE /\ Locked(vault).locked = TRUE /\ Locked(vault).inner = b
  BY <1>2, <1>3
<1> QED
  BY <1>1, <1>4, Zenon DEF b

LEMMA StaledFacts ==
  ASSUME NEW K, K \subseteq Derivation
  PROVE  Staled(K) \subseteq Derivation /\ \A k \in Staled(K) : k.stale
BY DEF Staled, Derivation

LEMMA NewDerivation ==
  ASSUME NEW op \in {"unlock", "set"}
  PROVE  [op |-> op, stale |-> FALSE] \in Derivation
BY DEF Derivation

(* The steps of the vault, while a controller works or after it.           *)
LEMMA VaultStep ==
  ASSUME BootInv, VaultSteps, UNCHANGED <<life, mounts>>
  PROVE  BootInv'
<1> USE DEF BootInv
<1>0. vault.key \in BOOLEAN /\ vault.locked \in BOOLEAN /\ vault.inner \in BOOLEAN
  BY VaultFacts DEF BootTypes
<1>1. CASE Lock
  <2>1. open /\ vault' = Locked(vault) /\ kdf' = Staled(kdf) /\ UNCHANGED <<open, mode, kind>>
    BY <1>1 DEF Lock
  <2>2. BootTypes'
    BY <2>1, VaultFacts, StaledFacts DEF BootTypes
  <2>3. VaultIsSound'
    <3>1. vault'.key = FALSE /\ vault'.locked = TRUE /\ vault'.inner = (vault.inner /\ vault.locked)
      BY <2>1, VaultFacts DEF BootTypes
    <3>2. life > 0 /\ vault.locked = ~vault.key /\ vault.inner = vault.key
      BY <2>1 DEF VaultIsSound, MountsAreSound
    <3>3. vault'.inner = vault'.key /\ vault'.locked = ~vault'.key
      BY <3>1, <3>2, <1>0, Zenon
    <3>4. \A k \in kdf' : k.stale
      BY <2>1, StaledFacts DEF BootTypes
    <3> QED
      BY <3>3, <3>4, Zenon DEF VaultIsSound
  <2>4. MountsAreSound'
    <3>1. ASSUME NEW m \in Mount, mounts[m].at \in {"opening", "hydrating"}
          PROVE  mounts[m].cancelled
      BY <2>1, <3>1 DEF MountsAreSound, BootTypes, NotMounted, Mount
    <3> QED
      BY <2>1, <3>1 DEF MountsAreSound
  <2> QED
    BY <2>1, <2>2, <2>3, <2>4 DEF PublishedIsLive
<1>2. ASSUME Opened, open, UNCHANGED <<open, kind, mode>>, kdf' \subseteq kdf
      PROVE  BootInv'
  <2>1. vault' = [key |-> TRUE, locked |-> FALSE, inner |-> TRUE]
    BY <1>2 DEF Opened
  <2>2. /\ vault' \in [key : BOOLEAN, locked : BOOLEAN, inner : BOOLEAN]
        /\ vault'.key = TRUE /\ vault'.locked = FALSE /\ vault'.inner = TRUE
    BY <2>1
  <2>3. BootTypes'
    BY <1>2, <2>2 DEF BootTypes
  <2>4. VaultIsSound'
    BY <1>2, <2>2 DEF VaultIsSound
  <2>5. MountsAreSound'
    BY <1>2, <2>2 DEF MountsAreSound
  <2> QED
    BY <1>2, <2>3, <2>4, <2>5 DEF PublishedIsLive
<1>3. CASE Unlock
  <2>1. CASE mode = "auto" /\ Opened /\ UNCHANGED kdf
    BY <1>2, <1>3, <2>1 DEF Unlock
  <2>2. CASE Parks([op |-> "unlock", stale |-> FALSE]) /\ UNCHANGED vault
    <3>1. open /\ UNCHANGED <<open, kind, mode>>
      BY <1>3 DEF Unlock
    <3>2. kdf' = kdf \cup {[op |-> "unlock", stale |-> FALSE]}
      BY <2>2 DEF Parks
    <3>3. BootTypes'
      BY <3>1, <3>2, <2>2, NewDerivation DEF BootTypes
    <3>4. VaultIsSound'
      BY <3>1, <3>2, <2>2 DEF VaultIsSound
    <3> QED
      BY <3>1, <3>3, <3>4, <2>2 DEF MountsAreSound, PublishedIsLive
  <2> QED
    BY <1>3, <2>1, <2>2 DEF Unlock
<1>4. CASE SetPassphrase
  <2>1. open /\ vault.key /\ UNCHANGED <<open, kind, mode, vault>>
    BY <1>4 DEF SetPassphrase
  <2>2. kdf' = kdf \cup {[op |-> "set", stale |-> FALSE]}
    BY <1>4 DEF SetPassphrase, Parks
  <2>3. BootTypes'
    BY <2>1, <2>2, NewDerivation DEF BootTypes
  <2>4. VaultIsSound'
    BY <2>1, <2>2 DEF VaultIsSound
  <2> QED
    BY <2>1, <2>3, <2>4 DEF MountsAreSound, PublishedIsLive
<1>5. ASSUME NEW k \in kdf, Derived(k)
      PROVE  BootInv'
  <2>1. kdf' = kdf \ {k} /\ UNCHANGED <<open, kind>>
    BY <1>5 DEF Derived
  <2>2. CASE k.op = "unlock" /\ ~k.stale /\ Opened /\ UNCHANGED mode
    BY <1>2, <2>1, <2>2 DEF VaultIsSound
  <2>3. CASE UNCHANGED <<vault, mode>>
    <3>1. BootTypes' /\ VaultIsSound'
      BY <2>1, <2>3 DEF BootTypes, VaultIsSound
    <3> QED
      BY <3>1, <2>1, <2>3 DEF MountsAreSound, PublishedIsLive
  <2>4. CASE k.op = "set" /\ mode' = "passphrase" /\ k.stale /\ vault' = vault
    <3>1. BootTypes' /\ VaultIsSound'
      BY <2>1, <2>4 DEF BootTypes, VaultIsSound
    <3> QED
      BY <3>1, <2>1, <2>4 DEF MountsAreSound, PublishedIsLive
  <2>5. CASE /\ k.op = "set" /\ mode' = "passphrase" /\ ~k.stale
             /\ vault' = [vault EXCEPT !.locked = FALSE]
    <3>1. open /\ vault.key
      BY <2>5 DEF VaultIsSound
    <3>2. life > 0 /\ vault.inner = vault.key
      BY <3>1 DEF VaultIsSound, MountsAreSound
    <3>3. /\ vault' \in [key : BOOLEAN, locked : BOOLEAN, inner : BOOLEAN]
          /\ vault'.key = vault.key /\ vault'.locked = FALSE /\ vault'.inner = vault.inner
      BY <2>5 DEF BootTypes
    <3>4. BootTypes'
      BY <2>1, <2>5, <3>3 DEF BootTypes
    <3>5. vault'.key /\ ~vault'.locked /\ vault'.locked = ~vault'.key /\ vault'.inner = vault'.key
      BY <3>1, <3>2, <3>3, Zenon
    <3>6. VaultIsSound'
      BY <2>1, <3>1, <3>5 DEF VaultIsSound
    <3>7. MountsAreSound'
      BY <2>1, <3>5 DEF MountsAreSound
    <3> QED
      BY <3>4, <3>6, <3>7, <2>1 DEF PublishedIsLive
  <2>6. CASE k.op = "unlock" /\ UNCHANGED <<vault, queue, conv, mode>>
    BY <2>3, <2>6
  <2>7. CASE /\ k.op = "set" /\ mode' = "passphrase"
             /\ vault' = IF k.stale THEN vault ELSE [vault EXCEPT !.locked = FALSE]
    BY <2>4, <2>5, <2>7
  <2> QED
    BY <1>5, <2>2, <2>6, <2>7 DEF Derived
<1> QED
  BY <1>1, <1>3, <1>4, <1>5 DEF VaultSteps

(* Every other step of the storage leaves them alone.                      *)
LEMMA OtherStorageSteps ==
  ASSUME StorageNext, UNCHANGED <<life, mounts>>
  PROVE  VaultSteps \/ UNCHANGED bootVars
<1> USE DEF bootVars
<1>1. CASE SessionSteps
  BY <1>1
     DEF SessionSteps, Fail, Create, ClearConversation, FlushSettles, Pin, AppendMessage
<1>2. CASE WorkSteps
  BY <1>2 DEF WorkSteps, ClearAll, Sealed, ClearDrops, ClearForgets
<1>3. CASE ImportSteps
  BY <1>3
     DEF ImportSteps, ImportStarts, ImportThrows, ImportWipes, ImportDrops, ImportForgets,
       ImportPins, ImportSeals, ImportFinishes, ImportEnds, ImportTakes, ImportAppends
<1> QED
  BY <1>1, <1>2, <1>3 DEF StorageNext

LEMMA BootInit == ASSUME ProviderInit PROVE BootInv
<1>1. /\ kind = "memory" /\ open = FALSE /\ mode \in {"auto", "passphrase"} /\ kdf = {}
      /\ vault = [key |-> FALSE, locked |-> FALSE, inner |-> FALSE]
      /\ life = 0 /\ mounts = [m \in Mount |-> NotMounted]
  BY DEF ProviderInit, Init
<1>2. open \in BOOLEAN
  BY <1>1, Zenon
<1>3. NotMounted \in MountRecord /\ NotMounted.at = "none"
  BY DEF NotMounted, MountRecord
<1>4. vault \in [key : BOOLEAN, locked : BOOLEAN, inner : BOOLEAN]
  BY <1>1
<1>5. BootTypes
  BY <1>1, <1>2, <1>3, <1>4, MountsAssumption DEF BootTypes
<1>6. VaultIsSound
  BY <1>1 DEF VaultIsSound
<1> QED
  BY <1>1, <1>3, <1>5, <1>6 DEF BootInv, MountsAreSound, PublishedIsLive, Mount

LEMMA SetMount ==
  ASSUME BootTypes, NEW m \in Mount, NEW r \in MountRecord,
         mounts' = [mounts EXCEPT ![m] = r]
  PROVE  /\ mounts' \in [Mount -> MountRecord] /\ mounts'[m] = r
         /\ \A n \in Mount \ {m} : mounts'[n] = mounts[n]
BY DEF BootTypes

(* A mount known from its stage.                                           *)
LEMMA MountFacts ==
  ASSUME BootInv, NEW m \in Mount
  PROVE  /\ mounts[m] \in MountRecord
         /\ mounts[m].at # "none" => m <= life
         /\ mounts[m].db # "none" => m <= life
         /\ mounts[m].at # "none" /\ ~mounts[m].cancelled => m = life
BY DEF BootInv, BootTypes, MountsAreSound, NotMounted, Mount

(* An effect that goes on, and neither publishes nor is unmounted.         *)
LEMMA EffectMoves ==
  ASSUME BootInv, UNCHANGED <<open, kind, mode, vault, kdf, life>>,
         NEW m \in Mount, m <= life, NEW r \in MountRecord,
         mounts' = [mounts EXCEPT ![m] = r],
         r.cancelled = mounts[m].cancelled,
         r.at = "published" => (kind = "browser" => r.db = "open"),
         (r.at = "published") <=> (mounts[m].at = "published"),
         r.at \in {"opening", "hydrating"} /\ ~r.cancelled => vault.key
  PROVE  BootInv'
<1> USE DEF BootInv
<1>1. /\ mounts' \in [Mount -> MountRecord] /\ mounts'[m] = r
      /\ \A n \in Mount \ {m} : mounts'[n] = mounts[n]
  BY SetMount
<1>2. BootTypes' /\ VaultIsSound'
  BY <1>1 DEF BootTypes, VaultIsSound
<1>3. MountsAreSound'
  <2>1. ASSUME NEW n \in Mount
        PROVE  /\ n < life => mounts'[n].cancelled
               /\ n > life => mounts'[n] = NotMounted
               /\ mounts'[n].at \in {"opening", "hydrating"} /\ ~mounts'[n].cancelled => vault.key
    BY <1>1 DEF MountsAreSound, BootTypes, Mount
  <2>2. open => life > 0 /\ mounts'[life].at = "published" /\ ~mounts'[life].cancelled
    BY <1>1 DEF MountsAreSound, BootTypes, Mount
  <2> QED
    BY <2>1, <2>2 DEF MountsAreSound
<1>4. PublishedIsLive'
  BY <1>1 DEF PublishedIsLive
<1> QED
  BY <1>2, <1>3, <1>4

LEMMA MountsStep ==
  ASSUME BootInv, Mounts
  PROVE  BootInv'
<1> USE DEF BootInv
<1>1. /\ life < MaxMounts /\ (life > 0 => mounts[life].cancelled) /\ life' = life + 1
      /\ vault' = [key |-> mode = "auto", locked |-> mode # "auto", inner |-> FALSE]
      /\ UNCHANGED <<kind, open, mode>>
  BY DEF Mounts
<1> DEFINE r == [at |-> "loading", cancelled |-> FALSE, db |-> "opening"]
<1>2. mounts' = [mounts EXCEPT ![life + 1] = r] /\ kdf' = kdf
  BY DEF Mounts, storage
<1>3. r \in MountRecord /\ r.at = "loading"
  <2>1. FALSE \in BOOLEAN
    OBVIOUS
  <2> QED
    BY <2>1 DEF MountRecord
<1>4. life + 1 \in Mount /\ life \in Nat
  BY <1>1, MountsAssumption DEF BootTypes, Mount
<1> HIDE DEF r
<1>5. /\ mounts' \in [Mount -> MountRecord] /\ mounts'[life + 1] = r
      /\ \A n \in Mount \ {life + 1} : mounts'[n] = mounts[n]
  BY <1>2, <1>3, <1>4, SetMount
<1>6. ~open
  BY <1>1 DEF MountsAreSound
<1>7. /\ vault' \in [key : BOOLEAN, locked : BOOLEAN, inner : BOOLEAN]
      /\ vault'.locked = ~vault'.key
  <2> DEFINE b == mode = "auto"
  <2>1. b \in BOOLEAN /\ (~b) \in BOOLEAN
    OBVIOUS
  <2>2. vault' = [key |-> b, locked |-> ~b, inner |-> FALSE]
    BY <1>1
  <2> HIDE DEF b
  <2>3. vault'.key = b /\ vault'.locked = ~b
    BY <2>2
  <2>4. vault' \in [key : BOOLEAN, locked : BOOLEAN, inner : BOOLEAN]
    BY <2>1, <2>2
  <2> QED
    BY <2>3, <2>4, Zenon
<1>8. BootTypes'
  BY <1>1, <1>2, <1>4, <1>5, <1>7 DEF BootTypes, Mount
<1>9. VaultIsSound'
  BY <1>1, <1>2, <1>6, <1>7 DEF VaultIsSound
<1>10. MountsAreSound'
  <2>1. ASSUME NEW n \in Mount
        PROVE  /\ n < life' => mounts'[n].cancelled
               /\ n > life' => mounts'[n] = NotMounted
               /\ mounts'[n].at \in {"opening", "hydrating"} => mounts'[n].cancelled
    <3>1. CASE n = life + 1
      BY <3>1, <1>1, <1>3, <1>4, <1>5
    <3>2. CASE n = life
      <4>1. n # life + 1 /\ mounts'[n] = mounts[n] /\ mounts[n].cancelled
        BY <3>2, <1>1, <1>4, <1>5 DEF Mount
      <4> QED
        BY <4>1, <3>2, <1>1, <1>4
    <3>3. CASE n < life
      BY <3>3, <1>1, <1>4, <1>5 DEF MountsAreSound, Mount
    <3>4. CASE n > life + 1
      BY <3>4, <1>1, <1>4, <1>5 DEF MountsAreSound, Mount, NotMounted
    <3> QED
      BY <3>1, <3>2, <3>3, <3>4, <1>4 DEF Mount
  <2> QED
    BY <2>1, <1>1, <1>6 DEF MountsAreSound
<1>11. PublishedIsLive'
  <2>1. ASSUME NEW n \in Mount, mounts'[n].at = "published" PROVE FALSE
    <3>1. n # life + 1 /\ mounts[n].at = "published"
      BY <2>1, <1>3, <1>5
    <3> QED
      BY <3>1, <1>6 DEF PublishedIsLive
  <2> QED
    BY <2>1 DEF PublishedIsLive
<1> QED
  BY <1>8, <1>9, <1>10, <1>11

(* An effect that publishes is the current mount's: nothing is published.  *)
LEMMA PublishStep ==
  ASSUME BootInv, NEW m \in Mount, mounts[m].at \in {"opening", "hydrating"},
         ~mounts[m].cancelled, NEW k \in {"memory", "browser"},
         NEW db \in {"open", "absent", "closed"}, k = "browser" => db = "open",
         Publishes(m, k, db)
  PROVE  BootInv' /\ ~open /\ open'
<1> USE DEF BootInv
<1>1. m = life /\ mounts[m] \in MountRecord /\ vault.key
  BY MountFacts DEF MountsAreSound
<1> DEFINE r == [mounts[m] EXCEPT !.at = "published", !.db = db]
<1>2. /\ mounts' = [mounts EXCEPT ![m] = r] /\ kind' = k /\ open' = TRUE
      /\ vault' = [vault EXCEPT !.inner = TRUE] /\ UNCHANGED <<mode, kdf, life>>
  BY DEF Publishes
<1>3. /\ r \in MountRecord /\ r.at = "published" /\ r.db = db
      /\ r.cancelled = mounts[m].cancelled
  BY <1>1 DEF MountRecord
<1> HIDE DEF r
<1>4. /\ mounts' \in [Mount -> MountRecord] /\ mounts'[m] = r
      /\ \A n \in Mount \ {m} : mounts'[n] = mounts[n]
  BY <1>2, <1>3, SetMount
<1>5. ~open
  BY <1>1 DEF MountsAreSound
<1>6. vault.locked = ~vault.key
  BY <1>1 DEF VaultIsSound, BootTypes, Mount
<1>7. /\ vault' \in [key : BOOLEAN, locked : BOOLEAN, inner : BOOLEAN]
      /\ vault'.key = vault.key /\ vault'.locked = vault.locked /\ vault'.inner = TRUE
  <2>1. TRUE \in BOOLEAN
    OBVIOUS
  <2> QED
    BY <1>2, <2>1 DEF BootTypes
<1>8. vault'.inner = vault'.key /\ vault'.key /\ vault'.locked = ~vault'.key
  <2>1. vault.key = TRUE
    BY <1>1 DEF BootTypes
  <2> QED
    BY <2>1, <1>6, <1>7, Zenon
<1>9. open' \in BOOLEAN
  BY <1>2, Zenon
<1>10. BootTypes'
  BY <1>2, <1>4, <1>7, <1>9 DEF BootTypes
<1>11. VaultIsSound'
  BY <1>2, <1>5, <1>8 DEF VaultIsSound
<1>12. life > 0
  BY <1>1 DEF Mount
<1>13. MountsAreSound'
  BY <1>1, <1>2, <1>3, <1>4, <1>8, <1>12 DEF MountsAreSound
<1>14. PublishedIsLive'
  <2>1. ASSUME NEW n \in Mount, mounts'[n].at = "published" PROVE n = m
    BY <2>1, <1>4, <1>5 DEF PublishedIsLive
  <2> QED
    BY <2>1, <1>1, <1>2, <1>3, <1>4 DEF PublishedIsLive
<1> QED
  BY <1>2, <1>5, <1>10, <1>11, <1>13, <1>14

LEMMA EffectStep ==
  ASSUME BootInv, NEW m \in Mount,
         DatabaseOpens(m) \/ Loads(m) \/ LoadFails(m) \/ DatabaseSettles(m) \/ Hydrates(m)
  PROVE  BootInv'
<1> USE DEF storage
<1>0. mounts[m] \in MountRecord
  BY MountFacts
<1>1. ASSUME NEW db \in {"none", "opening", "open", "absent", "closed"}, Ends(m, db),
             mounts[m].at \in {"loading", "opening", "hydrating"},
             UNCHANGED <<open, kind, mode, vault, kdf, life>>
      PROVE  BootInv'
  <2> DEFINE r == [mounts[m] EXCEPT !.at = "ended", !.db = db]
  <2>1. mounts' = [mounts EXCEPT ![m] = r]
    BY <1>1 DEF Ends
  <2>2. r \in MountRecord /\ r.cancelled = mounts[m].cancelled /\ r.at = "ended"
    BY <1>0 DEF MountRecord
  <2>3. m <= life
    BY <1>1, MountFacts
  <2> HIDE DEF r
  <2> QED
    BY <1>1, <2>1, <2>2, <2>3, EffectMoves
<1>2. CASE DatabaseOpens(m)
  <2>1. PICK db \in {"open", "absent"} : mounts' = [mounts EXCEPT ![m].db = db]
    BY <1>2 DEF DatabaseOpens
  <2> DEFINE r == [mounts[m] EXCEPT !.db = db]
  <2>2. mounts' = [mounts EXCEPT ![m] = r]
    BY <2>1
  <2>3. r \in MountRecord /\ r.cancelled = mounts[m].cancelled /\ r.at = mounts[m].at
    BY <1>0 DEF MountRecord
  <2>4. m <= life /\ mounts[m].db = "opening" /\ UNCHANGED <<open, kind, mode, vault, kdf, life>>
    BY <1>2, MountFacts DEF DatabaseOpens
  <2>5. r.at = "published" => kind # "browser"
    BY <2>3, <2>4 DEF BootInv, PublishedIsLive
  <2>6. r.at \in {"opening", "hydrating"} /\ ~r.cancelled => vault.key
    BY <2>3 DEF BootInv, MountsAreSound
  <2> HIDE DEF r
  <2> QED
    BY <2>2, <2>3, <2>4, <2>5, <2>6, EffectMoves
<1>3. CASE Loads(m)
  <2>1. mounts[m].at = "loading" /\ UNCHANGED <<open, kind, mode, vault, kdf, life>>
    BY <1>3 DEF Loads
  <2>2. CASE mounts[m].cancelled \/ vault.locked
    <3>1. Ends(m, mounts[m].db) /\ mounts[m].db \in {"none", "opening", "open", "absent", "closed"}
      BY <1>0, <1>3, <2>2 DEF Loads, MountRecord
    <3> QED
      BY <1>1, <2>1, <3>1
  <2>3. CASE ~mounts[m].cancelled /\ ~vault.locked
    <3> DEFINE r == [mounts[m] EXCEPT !.at = "opening"]
    <3>1. mounts' = [mounts EXCEPT ![m] = r]
      BY <1>3, <2>3 DEF Loads
    <3>2. r \in MountRecord /\ r.cancelled = mounts[m].cancelled /\ r.at = "opening"
      BY <1>0 DEF MountRecord
    <3>3. m = life /\ m <= life
      BY <2>1, <2>3, MountFacts
    <3>4. vault.key
      <4>1. vault.locked = ~vault.key /\ vault.key \in BOOLEAN
        BY <3>3 DEF BootInv, VaultIsSound, BootTypes, Mount
      <4> QED
        BY <4>1, <2>3, Zenon
    <3> HIDE DEF r
    <3> QED
      BY <2>1, <3>1, <3>2, <3>3, <3>4, EffectMoves
  <2> QED
    BY <2>2, <2>3
<1>4. CASE LoadFails(m)
  <2>1. Ends(m, mounts[m].db) /\ mounts[m].db \in {"none", "opening", "open", "absent", "closed"}
    BY <1>0, <1>4 DEF LoadFails, MountRecord
  <2> QED
    BY <1>1, <1>4, <2>1 DEF LoadFails
<1>5. CASE DatabaseSettles(m)
  <2>1. CASE mounts[m].cancelled
    <3>1. Ends(m, IF mounts[m].db = "open" THEN "closed" ELSE "absent")
      BY <1>5, <2>1 DEF DatabaseSettles
    <3> QED
      BY <1>1, <1>5, <2>1, <3>1 DEF DatabaseSettles
  <2>2. CASE ~mounts[m].cancelled /\ mounts[m].db = "absent"
    BY <1>5, <2>2, PublishStep DEF DatabaseSettles
  <2>3. CASE ~mounts[m].cancelled /\ mounts[m].db # "absent"
    <3> DEFINE r == [mounts[m] EXCEPT !.at = "hydrating"]
    <3>1. mounts' = [mounts EXCEPT ![m] = r] /\ UNCHANGED <<open, kind, mode, vault, kdf, life>>
      BY <1>5, <2>3 DEF DatabaseSettles
    <3>2. r \in MountRecord /\ r.cancelled = mounts[m].cancelled /\ r.at = "hydrating"
      BY <1>0 DEF MountRecord
    <3>3. m <= life /\ mounts[m].at = "opening" /\ vault.key
      BY <1>5, <2>3, MountFacts DEF DatabaseSettles, BootInv, MountsAreSound
    <3> HIDE DEF r
    <3> QED
      BY <3>1, <3>2, <3>3, EffectMoves
  <2> QED
    BY <2>1, <2>2, <2>3
<1>6. CASE Hydrates(m)
  <2>1. CASE mounts[m].cancelled
    BY <1>1, <1>6, <2>1 DEF Hydrates
  <2>2. CASE ~mounts[m].cancelled
    <3>1. Publishes(m, "browser", "open") \/ Publishes(m, "memory", "closed")
      BY <1>6, <2>2 DEF Hydrates
    <3> QED
      BY <1>6, <2>2, <3>1, PublishStep DEF Hydrates
  <2> QED
    BY <2>1, <2>2
<1> QED
  BY <1>2, <1>3, <1>4, <1>5, <1>6

LEMMA UnmountStep ==
  ASSUME BootInv, Unmounts
  PROVE  BootInv'
<1> USE DEF BootInv
<1>1. /\ life > 0 /\ ~mounts[life].cancelled /\ vault' = Locked(vault) /\ kdf' = Staled(kdf)
      /\ open' = FALSE /\ UNCHANGED <<kind, mode, life>>
  BY DEF Unmounts
<1>2. life \in Mount /\ mounts[life] \in MountRecord
  BY <1>1 DEF BootTypes, Mount
<1> DEFINE r == [mounts[life] EXCEPT !.cancelled = TRUE,
                    !.at = IF open THEN "ended" ELSE @,
                    !.db = IF open /\ @ = "open" THEN "closed" ELSE @]
<1>3. mounts' = [mounts EXCEPT ![life] = r]
  BY DEF Unmounts
<1>4. r.cancelled = TRUE /\ r.at = IF open THEN "ended" ELSE mounts[life].at
  BY <1>2 DEF MountRecord
<1>5. r \in MountRecord
  <2>1. TRUE \in BOOLEAN
    OBVIOUS
  <2> QED
    BY <1>2, <2>1 DEF MountRecord
<1> HIDE DEF r
<1>6. /\ mounts' \in [Mount -> MountRecord] /\ mounts'[life] = r
      /\ \A n \in Mount \ {life} : mounts'[n] = mounts[n]
  BY <1>2, <1>3, <1>5, SetMount
<1>7. /\ vault' \in [key : BOOLEAN, locked : BOOLEAN, inner : BOOLEAN]
      /\ vault'.key = FALSE /\ vault'.locked = TRUE
      /\ kdf' \subseteq Derivation /\ \A k \in kdf' : k.stale
  BY <1>1, VaultFacts, StaledFacts DEF BootTypes
<1>8. open' \in BOOLEAN /\ ~open'
  BY <1>1, Zenon
<1>9. BootTypes'
  BY <1>1, <1>6, <1>7, <1>8 DEF BootTypes
<1>10. VaultIsSound'
  <2>1. vault'.locked = ~vault'.key
    BY <1>7, Zenon
  <2> QED
    BY <2>1, <1>7, <1>8, Zenon DEF VaultIsSound
<1>11. MountsAreSound'
  <2>1. ASSUME NEW n \in Mount
        PROVE  /\ n < life => mounts'[n].cancelled
               /\ n > life => mounts'[n] = NotMounted
               /\ mounts'[n].at \in {"opening", "hydrating"} => mounts'[n].cancelled
    <3>1. CASE n = life
      BY <3>1, <1>4, <1>6 DEF BootTypes
    <3>2. CASE n # life
      BY <3>2, <1>6 DEF MountsAreSound, BootTypes, Mount, NotMounted
    <3> QED
      BY <3>1, <3>2
  <2> QED
    BY <2>1, <1>1, <1>8 DEF MountsAreSound
<1>12. PublishedIsLive'
  <2>1. ASSUME NEW n \in Mount, mounts'[n].at = "published" PROVE FALSE
    BY <2>1, <1>4, <1>6 DEF PublishedIsLive
  <2> QED
    BY <2>1 DEF PublishedIsLive
<1> QED
  BY <1>9, <1>10, <1>11, <1>12

LEMMA BootStep ==
  ASSUME BootInv, [Next]_vars
  PROVE  BootInv'
<1>1. CASE Mounts
  BY <1>1, MountsStep
<1>2. CASE Unmounts
  BY <1>2, UnmountStep
<1>3. ASSUME NEW m \in Mount,
             \/ DatabaseOpens(m) \/ Loads(m) \/ LoadFails(m)
             \/ DatabaseSettles(m) \/ Hydrates(m)
      PROVE  BootInv'
  BY <1>3, EffectStep
<1>4. CASE StorageNext /\ UNCHANGED <<life, mounts, disk, faults>>
  BY <1>4, VaultStep, OtherStorageSteps, SameBoot
<1>5. CASE UNCHANGED vars
  BY <1>5, SameBoot DEF vars, storage, bootVars
<1> QED
  BY <1>1, <1>2, <1>3, <1>4, <1>5 DEF Next, Boot

-----------------------------------------------------------------------------
(* The rows.  No step of the storage takes a mark off a conversation it    *)
(* keeps, and none but a Replace changes a pinned peer.                    *)
LEMMA StorageRows ==
  ASSUME Rows(conv), StorageNext
  PROVE  /\ Rows(conv') /\ KeepsMarks(conv')
         /\ Rewrites \/ KeepsPeers(conv')
<1>1. ASSUME KeepsRows(conv') PROVE Rows(conv') /\ KeepsMarks(conv') /\ KeepsPeers(conv')
  BY <1>1 DEF KeepsRows
<1>2. CASE UNCHANGED conv
  <2>1. conv' = conv /\ KeepsRows(conv)
    BY <1>2, SameRows
  <2> QED
    BY <2>1 DEF KeepsRows
<1>3. CASE VaultSteps
  <2>1. UNCHANGED conv \/ Opened
    BY <1>3 DEF VaultSteps, Lock, Unlock, SetPassphrase, Derived
  <2> QED
    BY <1>1, <1>2, <2>1, OpenedRows
<1>4. CASE SessionSteps
  <2>1. PICK c : \/ Fail(c) \/ Create(c) \/ ClearConversation(c) \/ FlushSettles(c)
                 \/ \E p0 \in Peer : Pin(c, p0)
                 \/ \E t \in Text : AppendMessage(c, t)
    BY <1>4 DEF SessionSteps
  <2>2. UNCHANGED conv \/ conv' = Marked(c) \/ conv' = Created(c) \/ conv' = Without(conv, {c})
        \/ \E p0 : c \in DOMAIN conv /\ conv' = Pinned(c, p0)
    BY <2>1
       DEF Fail, Create, ClearConversation, ClearStarts, FlushSettles, Pin, AppendMessage
  <2>3. CASE conv' = Marked(c)
    BY <2>3, <1>1, MarkedRows
  <2>4. CASE conv' = Created(c)
    BY <2>4, <1>1, CreatedRows
  <2>5. CASE conv' = Without(conv, {c})
    BY <2>5, <1>1, WithoutRows
  <2>6. ASSUME NEW p0, c \in DOMAIN conv, conv' = Pinned(c, p0)
        PROVE  Rows(conv') /\ KeepsMarks(conv') /\ KeepsPeers(conv')
    BY <2>6, <1>1, PinnedRows
  <2> QED
    BY <2>2, <2>3, <2>4, <2>5, <2>6, <1>2
<1>5. CASE WorkSteps
  <2>1. UNCHANGED conv \/ \E C : conv' = Without(conv, C)
    BY <1>5 DEF WorkSteps, ClearAll, ClearStarts, Sealed, ClearDrops, ClearForgets
  <2> QED
    BY <2>1, <1>1, <1>2, WithoutRows
<1>6. CASE ImportSteps
  <2>1. CASE UNCHANGED conv
    BY <2>1, <1>2
  <2>2. CASE ImportWipes
    BY <2>2, <1>1, <1>2, NoRows DEF ImportWipes
  <2>3. CASE ImportDrops
    BY <2>3, <1>1, <1>2, WithoutRows DEF ImportDrops
  <2>4. CASE ImportPins
    <3>1. UNCHANGED conv \/ \E c \in DOMAIN conv : \E p0 :
             conv' = IF Rewrites THEN Replaced(c, p0) ELSE Pinned(c, p0)
      BY <2>4 DEF ImportPins
    <3>2. ASSUME NEW c \in DOMAIN conv, NEW p0,
                 conv' = IF Rewrites THEN Replaced(c, p0) ELSE Pinned(c, p0)
          PROVE  /\ Rows(conv') /\ KeepsMarks(conv')
                 /\ Rewrites \/ KeepsPeers(conv')
      BY <3>2, <1>1, PinnedRows, ReplacedRows
    <3> QED
      BY <3>1, <3>2, <1>2
  <2>5. CASE ImportFinishes
    <3>1. UNCHANGED conv \/ \E c : conv' = Marked(c)
      BY <2>5 DEF ImportFinishes, Remarked
    <3> QED
      BY <3>1, <1>1, <1>2, MarkedRows
  <2>6. CASE \E h \in imp.todo : ImportTakes(h)
    <3>1. UNCHANGED conv \/ \E c : conv' = Created(c)
      BY <2>6 DEF ImportTakes
    <3> QED
      BY <3>1, <1>1, <1>2, CreatedRows
  <2>7. CASE ImportStarts \/ ImportThrows \/ ImportForgets \/ ImportSeals \/ ImportEnds
             \/ \E t \in imp.left : ImportAppends(t)
    BY <2>7, <1>2 DEF ImportStarts, ImportThrows, ImportForgets, ImportSeals, ImportEnds,
         ImportAppends
  <2> QED
    BY <1>6, <2>2, <2>3, <2>4, <2>5, <2>6, <2>7 DEF ImportSteps
<1> QED
  BY <1>3, <1>4, <1>5, <1>6 DEF StorageNext

LEMMA StoredRows ==
  ASSUME NEW f, f = [c \in DOMAIN f |-> [peer |-> f[c].peer, failed |-> f[c].failed]],
         \A c \in DOMAIN f : f[c].failed \in BOOLEAN
  PROVE  Rows(f)
BY DEF Rows

LEMMA RowInit == ASSUME ProviderInit PROVE RowInv
<1>1. PICK d \in Disks : conv = d.conv
  BY DEF ProviderInit, Init
<1>2. Rows(d.conv)
  <2> DEFINE f == d.conv
  <2>1. /\ f = [c \in DOMAIN f |-> [peer |-> f[c].peer, failed |-> f[c].failed]]
        /\ \A c \in DOMAIN f : f[c].failed \in BOOLEAN
    BY DisksAssumption
  <2> HIDE DEF f
  <2>2. Rows(f)
    BY <2>1, StoredRows
  <2> QED BY <2>2 DEF f
<1>3. disk.conv = conv
  BY DEF ProviderInit
<1> QED BY <1>1, <1>2, <1>3 DEF RowInv

(* Booting shows the stored rows to a controller, or takes them back.      *)
LEMMA PublishedRows ==
  ASSUME RowInv, NEW m, NEW k, NEW db, Publishes(m, k, db)
  PROVE  RowInv'
<1>1. conv' = disk.conv \/ conv' = <<>>
  BY DEF Publishes
<1>2. disk' = disk \/ disk' = [conv |-> <<>>, rows |-> {}]
  BY DEF Publishes
<1>3. Rows(<<>>)
  BY NoRows DEF KeepsRows
<1> QED
  BY <1>1, <1>2, <1>3 DEF RowInv

LEMMA RowStep ==
  ASSUME RowInv, [Next]_vars
  PROVE  RowInv'
<1>0. Rows(<<>>)
  BY NoRows DEF KeepsRows
<1>1. CASE Mounts
  BY <1>0, <1>1 DEF RowInv, Mounts, Emptied
<1>2. CASE Unmounts
  <2>1. conv' = <<>> /\ (disk' = [conv |-> conv, rows |-> rows] \/ disk' = disk)
    BY <1>2 DEF Unmounts, Emptied
  <2> QED
    BY <1>0, <2>1 DEF RowInv
<1>3. ASSUME NEW m \in Mount,
             \/ DatabaseOpens(m) \/ Loads(m) \/ LoadFails(m)
             \/ DatabaseSettles(m) \/ Hydrates(m)
      PROVE  RowInv'
  <2>1. UNCHANGED <<conv, disk>> \/ \E k, db : Publishes(m, k, db)
    BY <1>3 DEF DatabaseOpens, Loads, LoadFails, DatabaseSettles, Hydrates, storage
  <2> QED
    BY <2>1, PublishedRows DEF RowInv
<1>4. CASE StorageNext /\ UNCHANGED <<life, mounts, disk, faults>>
  BY <1>4, StorageRows DEF RowInv
<1>5. CASE UNCHANGED vars
  BY <1>5 DEF vars, storage, RowInv
<1> QED
  BY <1>1, <1>2, <1>3, <1>4, <1>5 DEF Next, Boot

-----------------------------------------------------------------------------
(* The failures.                                                           *)
LEMMA FailInit == ASSUME ProviderInit PROVE FailInv
<1>1. PICK d \in Disks : conv = d.conv /\ durable = [works |-> d.durable, flags |-> d.flags]
  BY DEF ProviderInit, Init
<1>2. /\ durable.works = d.durable /\ durable.flags = d.flags
      /\ durable = [works |-> durable.works, flags |-> durable.flags]
  BY <1>1
<1>3. /\ queue = NoQueue /\ open = FALSE
      /\ owed = durable.flags \cup {c \in DOMAIN conv : conv[c].failed}
  BY DEF ProviderInit, Init
<1>4. d.durable \in BOOLEAN
  BY DisksAssumption
<1>5. d.durable => \A c \in DOMAIN d.conv : d.conv[c].failed => c \in d.flags
  BY DisksAssumption
<1>6. durable.works => owed \subseteq durable.flags
  BY <1>1, <1>2, <1>3, <1>5
<1>7. queue = [pending |-> queue.pending, flushing |-> queue.flushing]
  BY <1>3 DEF NoQueue
<1>8. durable.works \in BOOLEAN
  BY <1>2, <1>4
<1> QED
  BY <1>2, <1>3, <1>6, <1>7, <1>8 DEF FailInv, FailuresAreKept

(* While the record and the queue stand, a step may give up what is owed,  *)
(* or keep its conversations.                                              *)
LEMMA FailuresStay ==
  ASSUME FailInv, UNCHANGED <<durable, queue>>, open' => open, owed' \subseteq owed,
         KeepsMarks(conv'), \A c \in owed' \cap DOMAIN conv : c \in DOMAIN conv'
  PROVE  FailInv'
BY DEF FailInv, FailuresAreKept, KeepsMarks

(* The record and the queue, when a conversation is marked.                *)
LEMMA DurablyMarked ==
  ASSUME FailInv, NEW c, durable' = MarkedDurably(c)
  PROVE  /\ durable'.works = durable.works
         /\ durable' = [works |-> durable'.works, flags |-> durable'.flags]
         /\ durable.works => durable'.flags = durable.flags \cup {c}
<1>1. CASE durable.works
  <2> DEFINE F == durable.flags \cup {c}
  <2>1. durable' = [durable EXCEPT !.flags = F]
    BY <1>1 DEF MarkedDurably
  <2> HIDE DEF F
  <2>2. durable' = [works |-> durable.works, flags |-> F]
    BY <2>1 DEF FailInv
  <2> QED
    BY <2>2 DEF F
<1>2. CASE ~durable.works
  BY <1>2 DEF MarkedDurably, FailInv
<1> QED
  BY <1>1, <1>2

LEMMA QueuedFacts ==
  ASSUME NEW c, queue' = Queued(c)
  PROVE  /\ queue' = [pending |-> queue'.pending, flushing |-> queue'.flushing]
         /\ queue'.pending = queue.pending \cup {c}
         /\ queue'.flushing = queue.flushing \ {c}
BY DEF Queued

(* A failure is recorded: by failHandshake, or again by the restore.       *)
LEMMA FailureIsRecorded ==
  ASSUME FailInv, Rows(conv), UNCHANGED open, NEW c,
         durable' = MarkedDurably(c),
         IF vault.locked THEN queue' = Queued(c) /\ UNCHANGED conv
                         ELSE conv' = Marked(c) /\ UNCHANGED queue,
         owed' \subseteq owed \cup (IF Keeps(c) THEN {c} ELSE {})
  PROVE  FailInv'
<1>1. /\ durable'.works = durable.works /\ durable.works \in BOOLEAN
      /\ durable' = [works |-> durable'.works, flags |-> durable'.flags]
      /\ durable.works => durable'.flags = durable.flags \cup {c}
  BY DurablyMarked DEF FailInv
<1>2. queue' = [pending |-> queue'.pending, flushing |-> queue'.flushing]
  BY QueuedFacts DEF FailInv
<1>3. CASE durable.works
  <2>1. owed' \subseteq durable'.flags
    BY <1>1, <1>3 DEF FailInv, FailuresAreKept
  <2> QED
    BY <1>1, <1>2, <1>3, <2>1 DEF FailInv, FailuresAreKept
<1>4. CASE ~durable.works
  <2>1. owed' \subseteq owed \cup (IF c \in DOMAIN conv THEN {c} ELSE {})
    BY <1>4 DEF Keeps
  <2>2. DOMAIN conv' = DOMAIN conv /\ KeepsMarks(conv')
    BY MarkedRows, SameRows DEF KeepsRows
  <2>3. ASSUME open, NEW d \in owed'
        PROVE  d \in DOMAIN conv' /\ (conv'[d].failed \/ d \in queue'.pending \ queue'.flushing)
    <3>1. CASE d \in owed /\ (vault.locked => d # c)
      <4>1. d \in DOMAIN conv /\ (conv[d].failed \/ d \in queue.pending \ queue.flushing)
        BY <3>1, <2>3, <1>4 DEF FailInv, FailuresAreKept
      <4>2. d \in queue.pending \ queue.flushing => d \in queue'.pending \ queue'.flushing
        BY <3>1, QueuedFacts
      <4> QED
        BY <4>1, <4>2, <2>2 DEF KeepsMarks
    <3>2. CASE d = c /\ vault.locked
      <4>1. d \in DOMAIN conv
        BY <3>2, <2>1, <2>3, <1>4 DEF FailInv, FailuresAreKept
      <4> QED
        BY <4>1, <3>2, <2>2, QueuedFacts
    <3>3. CASE d = c /\ d \notin owed /\ ~vault.locked
      BY <3>3, <2>1, <2>3, MarkedRows
    <3> QED
      BY <3>1, <3>2, <3>3, <2>1, <2>3
  <2> QED
    BY <1>1, <1>2, <1>4, <2>3 DEF FailInv, FailuresAreKept
<1> QED
  BY <1>3, <1>4

(* The queue is replayed.                                                  *)
LEMMA OpenedKeeps ==
  ASSUME FailInv, Rows(conv), Opened, UNCHANGED <<open, durable, owed>>
  PROVE  FailInv'
<1> DEFINE F == queue.flushing \cup queue.pending
<1>1. queue' = [queue EXCEPT !.flushing = F]
  BY DEF Opened
<1> HIDE DEF F
<1>2. queue' = [pending |-> queue.pending, flushing |-> F]
  BY <1>1 DEF FailInv
<1>3. /\ DOMAIN conv' = DOMAIN conv /\ KeepsMarks(conv')
      /\ \A c \in DOMAIN conv \cap queue.pending : conv'[c].failed
  BY OpenedRows DEF KeepsRows
<1>4. queue' = [pending |-> queue'.pending, flushing |-> queue'.flushing]
  BY <1>2
<1>5. FailuresAreKept'
  BY <1>3 DEF FailInv, FailuresAreKept, KeepsMarks
<1> QED
  BY <1>4, <1>5 DEF FailInv

(* The durable record is cleared for some conversations, or for all.       *)
LEMMA ForgetKeeps ==
  ASSUME FailInv, UNCHANGED <<open, queue, conv>>, owed' \subseteq owed, NEW F,
         durable' = [durable EXCEPT !.flags = F], durable.works => owed' \subseteq F
  PROVE  FailInv'
<1>1. durable' = [works |-> durable.works, flags |-> F]
  BY DEF FailInv
<1>2. /\ durable'.works = durable.works /\ durable'.flags = F
      /\ durable' = [works |-> durable'.works, flags |-> durable'.flags]
  BY <1>1
<1> QED
  BY <1>2 DEF FailInv, FailuresAreKept

LEMMA StorageKeeps ==
  ASSUME FailInv, Rows(conv), StorageNext
  PROVE  FailInv'
<1>0. KeepsMarks(conv')
  BY StorageRows
<1>1. CASE UNCHANGED <<open, durable, queue, conv, owed>>
  BY <1>0, <1>1, FailuresStay
<1>2. CASE VaultSteps
  <2>1. UNCHANGED <<open, durable, queue, conv, owed>> \/ (Opened /\ UNCHANGED <<open, durable, owed>>)
    BY <1>2 DEF VaultSteps, Lock, Unlock, SetPassphrase, Derived
  <2> QED
    BY <2>1, <1>1, OpenedKeeps
<1>3. CASE SessionSteps
  <2>1. PICK c \in Conversation :
           \/ Fail(c) \/ Create(c) \/ ClearConversation(c) \/ FlushSettles(c)
           \/ \E p0 \in Peer : Pin(c, p0)
           \/ \E t \in Text : AppendMessage(c, t)
    BY <1>3 DEF SessionSteps
  <2>2. CASE Fail(c)
    <3>1. /\ UNCHANGED open /\ durable' = MarkedDurably(c)
          /\ IF vault.locked THEN queue' = Queued(c) /\ UNCHANGED conv
                             ELSE conv' = Marked(c) /\ UNCHANGED queue
          /\ owed' \subseteq owed \cup (IF Keeps(c) THEN {c} ELSE {})
      BY <2>2 DEF Fail
    <3> QED
      BY <3>1, FailureIsRecorded
  <2>3. CASE Create(c)
    <3>1. UNCHANGED <<open, durable, queue, owed>> /\ conv' = Created(c)
      BY <2>3 DEF Create
    <3> QED
      BY <3>1, <1>0, CreatedRows, FailuresStay
  <2>4. CASE ClearConversation(c)
    <3>1. /\ UNCHANGED <<open, durable, queue>> /\ owed' = owed \ {c}
          /\ conv' = conv \/ conv' = Without(conv, {c})
      BY <2>4 DEF ClearConversation, ClearStarts
    <3>2. \A d \in owed' \cap DOMAIN conv : d \in DOMAIN conv'
      BY <3>1, WithoutRows
    <3> QED
      BY <3>1, <3>2, <1>0, FailuresStay
  <2>5. CASE FlushSettles(c)
    <3> DEFINE P == queue.pending \ {c}
               F == queue.flushing \ {c}
    <3>1. /\ queue' = [pending |-> P, flushing |-> F] /\ c \in queue.flushing
          /\ UNCHANGED <<open, durable, conv, owed>>
      BY <2>5 DEF FlushSettles
    <3> HIDE DEF P, F
    <3>2. /\ queue'.pending = P /\ queue'.flushing = F
          /\ queue' = [pending |-> queue'.pending, flushing |-> queue'.flushing]
      BY <3>1
    <3>3. queue.pending \ queue.flushing = queue'.pending \ queue'.flushing
      BY <3>1, <3>2 DEF P, F
    <3> QED
      BY <3>1, <3>2, <3>3 DEF FailInv, FailuresAreKept
  <2>6. ASSUME NEW p0 \in Peer, Pin(c, p0) PROVE FailInv'
    <3>1. UNCHANGED <<open, durable, queue, owed>> /\ conv' = Pinned(c, p0) /\ c \in DOMAIN conv
      BY <2>6 DEF Pin
    <3> QED
      BY <3>1, <1>0, PinnedRows, FailuresStay
  <2>7. CASE \E t \in Text : AppendMessage(c, t)
    BY <2>7, <1>1 DEF AppendMessage
  <2> QED
    BY <2>1, <2>2, <2>3, <2>4, <2>5, <2>6, <2>7
<1>4. CASE WorkSteps
  <2>1. CASE ClearAll
    <3>1. UNCHANGED <<open, durable, queue>> /\ owed' = {}
      BY <2>1 DEF ClearAll
    <3> QED
      BY <3>1, <1>0, FailuresStay
  <2>2. ASSUME NEW w \in work, Sealed(w) PROVE FailInv'
    BY <2>2, <1>1 DEF Sealed
  <2>3. ASSUME NEW w \in work, ClearDrops(w) PROVE FailInv'
    <3>1. /\ UNCHANGED <<open, durable, queue>>
          /\ owed' \subseteq owed \ w.convs
          /\ conv' = conv \/ conv' = Without(conv, w.convs)
      BY <2>3 DEF ClearDrops
    <3>2. \A d \in owed' \cap DOMAIN conv : d \in DOMAIN conv'
      BY <3>1, WithoutRows
    <3> QED
      BY <3>1, <3>2, <1>0, FailuresStay
  <2>4. ASSUME NEW w \in work, ClearForgets(w) PROVE FailInv'
    <3> DEFINE F == IF w.all THEN {} ELSE durable.flags \ w.convs
    <3>1. /\ UNCHANGED <<open, queue, conv>> /\ durable' = [durable EXCEPT !.flags = F]
          /\ owed' = IF w.all THEN {} ELSE owed \ w.convs
      BY <2>4 DEF ClearForgets
    <3>2. owed' \subseteq owed /\ (durable.works => owed' \subseteq F)
      BY <3>1 DEF FailInv, FailuresAreKept
    <3> HIDE DEF F
    <3> QED
      BY <3>1, <3>2, ForgetKeeps
  <2> QED
    BY <1>4, <2>1, <2>2, <2>3, <2>4 DEF WorkSteps
<1>5. CASE ImportSteps
  <2>1. CASE ImportWipes \/ ImportDrops
    <3>1. UNCHANGED <<open, durable, queue>> /\ owed' = {}
      BY <2>1 DEF ImportWipes, ImportDrops
    <3> QED
      BY <3>1, <1>0, FailuresStay
  <2>2. CASE ImportForgets
    <3>1. UNCHANGED <<open, queue, conv>> /\ durable' = [durable EXCEPT !.flags = {}] /\ owed' = {}
      BY <2>2 DEF ImportForgets
    <3> QED
      BY <3>1, ForgetKeeps
  <2>3. CASE ImportPins
    <3>1. /\ UNCHANGED <<open, durable, queue, owed>>
          /\ \/ UNCHANGED conv
             \/ \E c \in DOMAIN conv : \E p0 : conv' = Replaced(c, p0) \/ conv' = Pinned(c, p0)
      BY <2>3 DEF ImportPins
    <3>2. DOMAIN conv' = DOMAIN conv
      BY <3>1, PinnedRows, ReplacedRows
    <3> QED
      BY <3>1, <3>2, <1>0, FailuresStay
  <2>4. CASE \E h \in imp.todo : ImportTakes(h)
    <3>1. /\ UNCHANGED <<open, durable, queue, owed>>
          /\ UNCHANGED conv \/ \E c : conv' = Created(c)
      BY <2>4 DEF ImportTakes
    <3>2. DOMAIN conv \subseteq DOMAIN conv'
      BY <3>1, CreatedRows
    <3> QED
      BY <3>1, <3>2, <1>0, FailuresStay
  <2>5. CASE ImportFinishes
    <3>1. CASE UNCHANGED <<durable, queue, conv, owed>>
      BY <3>1, <2>5, <1>1 DEF ImportFinishes
    <3>2. CASE /\ Remarked(imp.cur.conv)
               /\ owed' = IF Keeps(imp.cur.conv) THEN owed \cup {imp.cur.conv} ELSE owed
      <4>1. /\ UNCHANGED open
            /\ owed' \subseteq owed \cup (IF Keeps(imp.cur.conv) THEN {imp.cur.conv} ELSE {})
        BY <3>2, <2>5 DEF ImportFinishes
      <4> QED
        BY <3>2, <4>1, FailureIsRecorded DEF Remarked
    <3> QED
      BY <2>5, <3>1, <3>2 DEF ImportFinishes
  <2>6. CASE ImportStarts \/ ImportThrows \/ ImportSeals \/ ImportEnds
             \/ \E t \in imp.left : ImportAppends(t)
    BY <2>6, <1>1 DEF ImportStarts, ImportThrows, ImportSeals, ImportEnds, ImportAppends
  <2> QED
    BY <1>5, <2>1, <2>2, <2>3, <2>4, <2>5, <2>6 DEF ImportSteps
<1> QED
  BY <1>2, <1>3, <1>4, <1>5 DEF StorageNext

(* Without a durable record, nothing is owed to a new controller but what  *)
(* the rows it shows are flagged with.                                     *)
LEMMA PublishedKeeps ==
  ASSUME FailInv, NEW m, NEW k, NEW db, Publishes(m, k, db)
  PROVE  FailInv'
<1>1. UNCHANGED <<durable, queue>>
  BY DEF Publishes
<1>2. CASE durable.works
  BY <1>1, <1>2 DEF Publishes, FailInv, FailuresAreKept
<1>3. CASE ~durable.works
  <2>1. owed' = {c \in owed : Flagged(c)'}
    BY <1>3 DEF Publishes
  <2>2. \A c \in owed' : c \in DOMAIN conv' /\ conv'[c].failed
    BY <2>1 DEF Flagged
  <2> QED
    BY <1>1, <1>3, <2>2 DEF FailInv, FailuresAreKept
<1> QED
  BY <1>2, <1>3

LEMMA FailStep ==
  ASSUME BootInv, FailInv, RowInv, [Next]_vars
  PROVE  FailInv'
<1>1. CASE Mounts
  <2>1. ~open /\ UNCHANGED <<open, durable, owed>> /\ queue' = NoQueue
    BY <1>1 DEF Mounts, Emptied, BootInv, MountsAreSound
  <2>2. queue' = [pending |-> queue'.pending, flushing |-> queue'.flushing]
    BY <2>1 DEF NoQueue
  <2> QED
    BY <2>1, <2>2 DEF FailInv, FailuresAreKept
<1>2. CASE Unmounts
  <2>1. /\ open' = FALSE /\ UNCHANGED durable /\ queue' = NoQueue
        /\ durable.works => owed' = owed
    BY <1>2 DEF Unmounts, Emptied
  <2>2. queue' = [pending |-> queue'.pending, flushing |-> queue'.flushing]
    BY <2>1 DEF NoQueue
  <2> QED
    BY <2>1, <2>2 DEF FailInv, FailuresAreKept
<1>3. ASSUME NEW m \in Mount,
             \/ DatabaseOpens(m) \/ Loads(m) \/ LoadFails(m)
             \/ DatabaseSettles(m) \/ Hydrates(m)
      PROVE  FailInv'
  <2>1. UNCHANGED <<open, durable, queue, conv, owed>> \/ \E k, db : Publishes(m, k, db)
    BY <1>3 DEF DatabaseOpens, Loads, LoadFails, DatabaseSettles, Hydrates, storage
  <2> QED
    BY <2>1, PublishedKeeps DEF FailInv, FailuresAreKept
<1>4. CASE StorageNext
  BY <1>4, StorageKeeps DEF RowInv
<1>5. CASE UNCHANGED vars
  BY <1>5 DEF vars, storage, FailInv, FailuresAreKept
<1> QED
  BY <1>1, <1>2, <1>3, <1>4, <1>5 DEF Next, Boot

-----------------------------------------------------------------------------
(* What the provider and its storage keep, in every run of the web app:    *)
(* the invariant the theorems below follow from.                           *)
THEOREM WebStaysSound == MCSpec => []WebInv
<1>1. MCInit => WebInv
  BY BootInit, RowInit, FailInit DEF MCInit, WebInv
<1>2. WebInv /\ [MCNext]_<<app, vars, mobileVars>> => WebInv'
  <2> SUFFICES ASSUME WebInv, [MCNext]_<<app, vars, mobileVars>> PROVE WebInv'
    OBVIOUS
  <2>1. [Next]_vars
    BY DEF MCNext
  <2> QED
    BY <2>1, BootStep, RowStep, FailStep DEF WebInv
<1> QED
  BY <1>1, <1>2, PTL DEF MCSpec

(* A conversation whose authentication failed stays refused until it is    *)
(* cleared: whatever locks, imports, failed restores and reloads overlap   *)
(* the mark, its queue and its replay.                                     *)
THEOREM FailuresAreRemembered == MCSpec => []AuthFailedRemembered
<1>1. ASSUME WebInv PROVE AuthFailedRemembered
  <2> SUFFICES ASSUME open, durable.works \/ ~vault.locked, NEW c \in owed
               PROVE  Hydrated(c)
    BY DEF AuthFailedRemembered
  <2>1. CASE durable.works
    BY <1>1, <2>1 DEF WebInv, FailInv, FailuresAreKept, Hydrated
  <2>2. CASE ~durable.works
    BY <1>1, <2>2 DEF WebInv, FailInv, FailuresAreKept, Hydrated, GetAuthFailed, Flagged
  <2> QED
    BY <2>1, <2>2
<1> QED
  BY <1>1, WebStaysSound, PTL

(* lock() holds until an unlock called after it, for any number of         *)
(* derivations that were running when it came.                             *)
THEOREM LocksHold == MCSpec => LockHolds
<1>1. ASSUME WebInv, [Next]_vars, open, open', vault.locked, ~vault'.locked
      PROVE  mode = "auto" \/ [op |-> "unlock", stale |-> FALSE] \in kdf
  <2>1. life > 0 /\ vault.locked = ~vault.key /\ vault.key \in BOOLEAN
    BY <1>1 DEF WebInv, BootInv, BootTypes, VaultIsSound, MountsAreSound
  <2>2. ~vault.key
    BY <2>1, <1>1, Zenon
  <2>3. CASE Mounts \/ Unmounts
    BY <2>3, <1>1 DEF Mounts, Unmounts, WebInv, BootInv, MountsAreSound
  <2>4. ASSUME NEW m \in Mount,
               \/ DatabaseOpens(m) \/ Loads(m) \/ LoadFails(m)
               \/ DatabaseSettles(m) \/ Hydrates(m)
        PROVE  FALSE
    <3>1. vault' = vault \/ vault' = [vault EXCEPT !.inner = TRUE]
      BY <2>4
         DEF DatabaseOpens, Loads, LoadFails, DatabaseSettles, Hydrates, Publishes, storage
    <3>2. vault'.locked = vault.locked
      BY <3>1, <1>1 DEF WebInv, BootInv, BootTypes
    <3> QED
      BY <3>2, <1>1
  <2>5. CASE Lock
    BY <2>5, <1>1, VaultFacts DEF Lock, WebInv, BootInv, BootTypes
  <2>6. CASE Unlock
    BY <2>6, <1>1 DEF Unlock
  <2>7. CASE SetPassphrase
    BY <2>7, <1>1 DEF SetPassphrase
  <2>8. ASSUME NEW k \in kdf, Derived(k)
        PROVE  [op |-> "unlock", stale |-> FALSE] \in kdf
    <3>1. CASE k.op = "unlock" /\ ~k.stale
      BY <3>1, <1>1 DEF WebInv, BootInv, BootTypes, Derivation
    <3>2. CASE k.op = "set" /\ ~k.stale
      BY <3>2, <2>2, <1>1 DEF WebInv, BootInv, VaultIsSound
    <3>3. CASE k.stale
      BY <3>3, <2>8, <1>1 DEF Derived
    <3>4. k.op \in {"unlock", "set"}
      BY <1>1 DEF WebInv, BootInv, BootTypes, Derivation
    <3> QED
      BY <3>1, <3>2, <3>3, <3>4
  <2>9. CASE UNCHANGED vault
    BY <2>9, <1>1
  <2>10. CASE StorageNext /\ UNCHANGED <<life, mounts, disk, faults>>
    <3>1. VaultSteps \/ UNCHANGED bootVars
      BY <2>10, OtherStorageSteps
    <3> QED
      BY <3>1, <2>5, <2>6, <2>7, <2>8, <2>9 DEF VaultSteps, bootVars
  <2> QED
    BY <1>1, <2>3, <2>4, <2>9, <2>10 DEF Next, Boot, vars, storage
<1>2. ASSUME WebInv, [MCNext]_<<app, vars, mobileVars>>
      PROVE  [open /\ open' /\ vault.locked /\ ~vault'.locked
                => mode = "auto" \/ [op |-> "unlock", stale |-> FALSE] \in kdf]_vars
  BY <1>1, <1>2 DEF MCNext
<1> QED
  BY <1>2, WebStaysSound, PTL DEF MCSpec, LockHolds

(* A pinned peer is never replaced by another one while its conversation   *)
(* exists, except by Replace.                                              *)
THEOREM PinsStay == MCSpec => PinsAreKept
<1>1. ASSUME WebInv, [Next]_vars, NEW c \in DOMAIN conv \cap DOMAIN conv',
             open, open', ~Rewrites, conv[c].peer # Nobody
      PROVE  conv'[c].peer = conv[c].peer
  <2>1. CASE Mounts \/ Unmounts
    BY <2>1, <1>1 DEF Mounts, Unmounts, WebInv, BootInv, MountsAreSound
  <2>2. ASSUME NEW m \in Mount,
               \/ DatabaseOpens(m) \/ Loads(m) \/ LoadFails(m)
               \/ DatabaseSettles(m) \/ Hydrates(m)
        PROVE  UNCHANGED conv
    <3>1. CASE ~UNCHANGED conv
      <4>1. /\ mounts[m].at \in {"opening", "hydrating"} /\ ~mounts[m].cancelled
        BY <2>2, <3>1
           DEF DatabaseOpens, Loads, LoadFails, DatabaseSettles, Hydrates, storage
      <4>2. m = life
        BY <4>1, <1>1, MountFacts DEF WebInv
      <4> QED
        BY <4>1, <4>2, <1>1 DEF WebInv, BootInv, MountsAreSound
    <3> QED
      BY <3>1
  <2>3. CASE StorageNext
    BY <2>3, <1>1, StorageRows DEF WebInv, RowInv, KeepsPeers
  <2>4. CASE UNCHANGED conv
    BY <2>4
  <2> QED
    BY <1>1, <2>1, <2>2, <2>3, <2>4 DEF Next, Boot, vars, storage
<1>2. ASSUME WebInv, [MCNext]_<<app, vars, mobileVars>>
      PROVE  [\A c \in DOMAIN conv \cap DOMAIN conv' :
                open /\ open' /\ ~Rewrites /\ conv[c].peer # Nobody
                  => conv'[c].peer = conv[c].peer]_vars
  BY <1>1, <1>2 DEF MCNext
<1> QED
  BY <1>2, WebStaysSound, PTL DEF MCSpec, PinsAreKept

-----------------------------------------------------------------------------
(* The mobile app.                                                         *)
LoadRecord == [at : {"none", "reading", "writing", "done", "failed"}, key : Nat]
LifeRecord == [at : {"none", "waiting", "generating", "loaded", "published", "ended"},
               cancelled : BOOLEAN, load : Nat, epoch : Nat, holds : Nat]

(* The values of the variables.                                            *)
MobileTypes ==
    /\ keychain \in Nat /\ cipher \in Nat /\ stored \in Nat /\ epoch \in Nat
    /\ instance \in Nat /\ registered \in BOOLEAN /\ memo \in Mobile!Load \cup {0}
    /\ loads \in [Mobile!Load -> LoadRecord]
    /\ lives \in [Mobile!Life -> LifeRecord]
    /\ current \in 0 .. MaxLives

(* The memo names the one load that is under way or has ended well: no two *)
(* loads of one process make keys.  A key is written only into an empty    *)
(* keychain, and a load that ended well has the key that is in it.         *)
LoadsAreAlone ==
    \A l \in Mobile!Load :
       /\ loads[l].at \in {"reading", "writing", "done"} => memo = l
       /\ loads[l].at = "writing" => keychain = 0 /\ loads[l].key = l
       /\ loads[l].at = "done" => keychain # 0 /\ loads[l].key = keychain

(* Every mount but the last was cleaned up.  A mount that awaits its key   *)
(* finds the epoch moved on exactly when it has been cleaned up.           *)
MountsAreTold ==
    \A m \in Mobile!Life :
       /\ m < current => lives[m].cancelled
       /\ m > current => lives[m] = Mobile!Unborn
       /\ lives[m].at = "waiting" =>
             /\ lives[m].load \in Mobile!Load
             /\ lives[m].epoch <= epoch
             /\ lives[m].cancelled <=> lives[m].epoch # epoch

MobileInv == MobileTypes /\ LoadsAreAlone /\ MountsAreTold /\ Mobile!FileIsOpenable

LEMMA MobileInit == ASSUME Mobile!Init PROVE MobileInv
<1>1. /\ loads = [l \in Mobile!Load |-> Mobile!Unstarted]
      /\ lives = [m \in Mobile!Life |-> Mobile!Unborn] /\ current = 0
  BY DEF Mobile!Init
<1>2. loads \in [Mobile!Load -> LoadRecord]
  BY <1>1 DEF Mobile!Unstarted, LoadRecord
<1>3. lives \in [Mobile!Life -> LifeRecord]
  BY <1>1 DEF Mobile!Unborn, LifeRecord
<1>4. MobileTypes
  <2>1. /\ keychain = 0 /\ cipher = 0 /\ stored = 0 /\ epoch = 0 /\ instance = 0 /\ memo = 0
        /\ registered = FALSE
    BY DEF Mobile!Init
  <2>2. current \in 0 .. MaxLives
    BY <1>1, LivesAssumption
  <2>4. memo \in Mobile!Load \cup {0} /\ registered \in BOOLEAN
    BY <2>1, Zenon
  <2>3. keychain \in Nat /\ cipher \in Nat /\ stored \in Nat /\ epoch \in Nat /\ instance \in Nat
    BY <2>1
  <2> QED
    BY <1>2, <1>3, <2>2, <2>3, <2>4, Zenon DEF MobileTypes
<1>5. LoadsAreAlone
  BY <1>1 DEF LoadsAreAlone, Mobile!Unstarted
<1>6. MountsAreTold
  BY <1>1 DEF MountsAreTold, Mobile!Unborn, Mobile!Life
<1>7. Mobile!FileIsOpenable
  BY DEF Mobile!Init, Mobile!FileIsOpenable
<1> QED
  BY <1>4, <1>5, <1>6, <1>7 DEF MobileInv

(* A mount shares the load under way, or begins one that never was.        *)
LEMMA SharedFacts ==
  ASSUME MobileInv, Mobile!CanLoad
  PROVE  /\ Mobile!Shared \in Mobile!Load
         /\ memo # 0 => Mobile!Shared = memo
         /\ memo = 0 => loads[Mobile!Shared].at = "none"
BY DEF MobileInv, MobileTypes, Mobile!CanLoad, Mobile!Shared, Mobile!Fresh

LEMMA SetLoad ==
  ASSUME MobileTypes, NEW l \in Mobile!Load, NEW k \in LoadRecord,
         loads' = [loads EXCEPT ![l] = k]
  PROVE  /\ loads' \in [Mobile!Load -> LoadRecord]
         /\ loads'[l] = k /\ \A j \in Mobile!Load \ {l} : loads'[j] = loads[j]
BY DEF MobileTypes

LEMMA SetLife ==
  ASSUME MobileTypes, NEW m \in Mobile!Life, NEW r \in LifeRecord,
         lives' = [lives EXCEPT ![m] = r]
  PROVE  /\ lives' \in [Mobile!Life -> LifeRecord]
         /\ lives'[m] = r /\ \A n \in Mobile!Life \ {m} : lives'[n] = lives[n]
BY DEF MobileTypes

LEMMA MountInv == ASSUME MobileInv, Mobile!Mount PROVE MobileInv'
<1> DEFINE l == Mobile!Shared
           n == current + 1
           k == [loads[l] EXCEPT !.at = IF @ = "none" THEN "reading" ELSE @]
           r == [at |-> "waiting", cancelled |-> FALSE, load |-> l, epoch |-> epoch, holds |-> 0]
<1>1. /\ MobileTypes /\ LoadsAreAlone /\ MountsAreTold /\ Mobile!FileIsOpenable
      /\ l \in Mobile!Load /\ (memo # 0 => l = memo) /\ (memo = 0 => loads[l].at = "none")
      /\ n \in Mobile!Life /\ current \in Nat /\ (current > 0 => lives[current].cancelled)
  BY SharedFacts, LivesAssumption DEF MobileInv, Mobile!Mount, MobileTypes, Mobile!Life
<1>2. /\ UNCHANGED <<keychain, cipher, stored, epoch, instance, registered>>
      /\ current' = n /\ memo' = l
      /\ loads' = [loads EXCEPT ![l] = k] /\ lives' = [lives EXCEPT ![n] = r]
  BY DEF Mobile!Mount
<1> HIDE DEF l
<1>3. /\ k \in LoadRecord /\ k.key = loads[l].key
      /\ k.at = (IF loads[l].at = "none" THEN "reading" ELSE loads[l].at)
  BY <1>1 DEF MobileTypes, LoadRecord
<1>4. r \in LifeRecord
  BY <1>1 DEF MobileTypes, LifeRecord, Mobile!Load
<1> HIDE DEF k
<1>5. /\ loads' \in [Mobile!Load -> LoadRecord]
      /\ loads'[l] = k /\ \A j \in Mobile!Load \ {l} : loads'[j] = loads[j]
  BY <1>1, <1>2, <1>3, SetLoad
<1>6. /\ lives' \in [Mobile!Life -> LifeRecord]
      /\ lives'[n] = r /\ \A m \in Mobile!Life \ {n} : lives'[m] = lives[m]
  BY <1>1, <1>2, <1>4, SetLife
<1>7. MobileTypes'
  BY <1>1, <1>2, <1>5, <1>6 DEF MobileTypes, Mobile!Life
<1>8. LoadsAreAlone'
  BY <1>1, <1>2, <1>3, <1>5 DEF LoadsAreAlone, MobileTypes, Mobile!Load
<1>9. MountsAreTold'
  BY <1>1, <1>2, <1>6 DEF MountsAreTold, MobileTypes, Mobile!Life
<1>10. Mobile!FileIsOpenable'
  BY <1>1, <1>2, <1>6
     DEF Mobile!FileIsOpenable, Mobile!IsReady, MobileTypes, MountsAreTold, Mobile!Life
<1> QED
  BY <1>7, <1>8, <1>9, <1>10 DEF MobileInv

(* A load that fails forgets the memo, which is its own.                   *)
LEMMA RejectedInv ==
  ASSUME MobileInv, NEW l \in Mobile!Load, loads[l].at \in {"reading", "writing"},
         Mobile!Rejected(l),
         cipher # 0 => keychain' = keychain, keychain' \in Nat,
         UNCHANGED <<cipher, stored, epoch, instance, registered, lives, current>>
  PROVE  MobileInv'
<1> DEFINE k == [loads[l] EXCEPT !.at = "failed"]
<1>1. MobileTypes /\ LoadsAreAlone /\ MountsAreTold /\ Mobile!FileIsOpenable /\ l # 0
  BY DEF MobileInv, Mobile!Load
<1>2. k \in LoadRecord /\ k.at = "failed" /\ memo = l /\ memo' = 0
  BY <1>1 DEF MobileTypes, LoadRecord, LoadsAreAlone, Mobile!Rejected
<1>3. loads' = [loads EXCEPT ![l] = k]
  BY DEF Mobile!Rejected
<1> HIDE DEF k
<1>4. /\ loads' \in [Mobile!Load -> LoadRecord]
      /\ loads'[l] = k /\ \A j \in Mobile!Load \ {l} : loads'[j] = loads[j]
  BY <1>1, <1>2, <1>3, SetLoad
<1>5. MobileTypes'
  BY <1>1, <1>2, <1>4 DEF MobileTypes
<1>6. LoadsAreAlone'
  BY <1>1, <1>2, <1>4 DEF LoadsAreAlone
<1>7. MountsAreTold'
  BY <1>1 DEF MountsAreTold
<1>8. Mobile!FileIsOpenable'
  BY <1>1 DEF Mobile!FileIsOpenable, Mobile!IsReady
<1> QED
  BY <1>5, <1>6, <1>7, <1>8 DEF MobileInv

LEMMA ReadsInv == ASSUME MobileInv, NEW l \in Mobile!Load, Mobile!Reads(l) PROVE MobileInv'
<1>1. /\ MobileTypes /\ LoadsAreAlone /\ MountsAreTold /\ Mobile!FileIsOpenable /\ l # 0 /\ l \in Nat
      /\ loads[l].at = "reading" /\ memo = l
      /\ UNCHANGED <<keychain, cipher, stored, epoch, instance, registered, lives, current>>
  BY DEF MobileInv, Mobile!Load, Mobile!Reads, LoadsAreAlone
<1>2. CASE Mobile!Rejected(l)
  BY <1>1, <1>2, RejectedInv DEF MobileTypes
<1>3. CASE ~Mobile!Rejected(l)
  <2> DEFINE k == IF keychain # 0 THEN [at |-> "done", key |-> keychain]
                  ELSE [at |-> "writing", key |-> l]
  <2>1. loads' = [loads EXCEPT ![l] = k] /\ memo' = memo
    BY <1>3 DEF Mobile!Reads
  <2>2. /\ k \in LoadRecord
        /\ \/ k.at = "done" /\ k.key = keychain /\ keychain # 0
           \/ k.at = "writing" /\ k.key = l /\ keychain = 0
    BY <1>1 DEF MobileTypes, LoadRecord
  <2> HIDE DEF k
  <2>3. /\ loads' \in [Mobile!Load -> LoadRecord]
        /\ loads'[l] = k /\ \A j \in Mobile!Load \ {l} : loads'[j] = loads[j]
    BY <1>1, <2>1, <2>2, SetLoad
  <2>4. MobileTypes' /\ LoadsAreAlone' /\ MountsAreTold' /\ Mobile!FileIsOpenable'
    BY <1>1, <2>1, <2>2, <2>3
       DEF MobileTypes, LoadsAreAlone, MountsAreTold, Mobile!FileIsOpenable, Mobile!IsReady
  <2> QED
    BY <2>4 DEF MobileInv
<1> QED
  BY <1>2, <1>3

LEMMA WritesInv == ASSUME MobileInv, NEW l \in Mobile!Load, Mobile!Writes(l)
  PROVE MobileInv'
<1>1. /\ MobileTypes /\ LoadsAreAlone /\ MountsAreTold /\ Mobile!FileIsOpenable /\ l # 0 /\ l \in Nat
      /\ loads[l].at = "writing" /\ loads[l].key = l /\ memo = l /\ keychain = 0 /\ cipher = 0
      /\ UNCHANGED <<cipher, stored, epoch, instance, registered, lives, current>>
  BY DEF MobileInv, Mobile!Load, Mobile!Writes, LoadsAreAlone, Mobile!FileIsOpenable
<1>2. CASE Mobile!Rejected(l)
  <2>1. keychain' \in Nat
    BY <1>1, <1>2 DEF Mobile!Writes, MobileTypes
  <2> QED
    BY <1>1, <1>2, <2>1, RejectedInv
<1>3. CASE ~Mobile!Rejected(l)
  <2> DEFINE k == [loads[l] EXCEPT !.at = "done"]
  <2>1. loads' = [loads EXCEPT ![l] = k] /\ memo' = memo /\ keychain' = l
    BY <1>1, <1>3 DEF Mobile!Writes
  <2>2. k \in LoadRecord /\ k.at = "done" /\ k.key = l
    BY <1>1 DEF MobileTypes, LoadRecord
  <2> HIDE DEF k
  <2>3. /\ loads' \in [Mobile!Load -> LoadRecord]
        /\ loads'[l] = k /\ \A j \in Mobile!Load \ {l} : loads'[j] = loads[j]
    BY <1>1, <2>1, <2>2, SetLoad
  <2>4. MobileTypes' /\ LoadsAreAlone' /\ MountsAreTold' /\ Mobile!FileIsOpenable'
    BY <1>1, <2>1, <2>2, <2>3
       DEF MobileTypes, LoadsAreAlone, MountsAreTold, Mobile!FileIsOpenable, Mobile!IsReady
  <2> QED
    BY <2>4 DEF MobileInv
<1> QED
  BY <1>2, <1>3

(* Moving a mount on once it has its key.                                  *)
LEMMA MoveMount ==
  ASSUME MobileInv, NEW m \in Mobile!Life, lives[m].at # "none",
         NEW r \in LifeRecord, r.at \in {"generating", "loaded", "published", "ended"},
         r.cancelled = lives[m].cancelled, lives' = [lives EXCEPT ![m] = r],
         UNCHANGED <<current, epoch>>
  PROVE  MountsAreTold' /\ lives' \in [Mobile!Life -> LifeRecord]
         /\ \A n \in Mobile!Life : lives'[n].cancelled = lives[n].cancelled
<1>1. MobileTypes /\ MountsAreTold
  BY DEF MobileInv
<1>2. /\ lives' \in [Mobile!Life -> LifeRecord]
      /\ lives'[m] = r /\ \A n \in Mobile!Life \ {m} : lives'[n] = lives[n]
  BY <1>1, SetLife
<1>3. ~(m > current)
  BY <1>1 DEF MountsAreTold, Mobile!Unborn
<1> QED
  BY <1>1, <1>2, <1>3 DEF MountsAreTold

LEMMA ResumesInv == ASSUME MobileInv, NEW m \in Mobile!Life, Mobile!Resumes(m)
  PROVE MobileInv'
<1> DEFINE l == lives[m].load
           key == loads[l].key
           opens == loads[l].at = "done" /\ ~Mobile!LostRace(m)
           goesOn == loads[l].at = "done" /\ ~lives[m].cancelled
           r == [lives[m] EXCEPT !.at = IF ~goesOn THEN "ended" ELSE IF stored # 0 THEN "loaded"
                                        ELSE "generating",
                                 !.holds = IF goesOn THEN stored ELSE 0]
<1>1. /\ MobileTypes /\ LoadsAreAlone /\ MountsAreTold /\ Mobile!FileIsOpenable
      /\ lives[m].at = "waiting" /\ lives[m] \in LifeRecord /\ l \in Mobile!Load
      /\ UNCHANGED <<keychain, stored, loads, memo, epoch, current>>
  BY DEF MobileInv, Mobile!Resumes, MobileTypes, MountsAreTold
<1>2. /\ instance' = IF opens THEN key ELSE instance
      /\ cipher' = IF opens /\ cipher = 0 THEN key ELSE cipher
      /\ registered' = (registered \/ goesOn)
      /\ lives' = [lives EXCEPT ![m] = r]
  BY DEF Mobile!Resumes
<1>3. opens <=> goesOn
  BY <1>1 DEF Mobile!LostRace, MountsAreTold
<1>4. opens => /\ key = keychain /\ key # 0 /\ key \in Nat
               /\ m = current
  <2>1. loads[l].at = "done" => key = keychain /\ key # 0 /\ key \in Nat
    BY <1>1 DEF LoadsAreAlone, MobileTypes
  <2>2. ~lives[m].cancelled => m = current
    BY <1>1 DEF MountsAreTold, Mobile!Unborn, Mobile!Life, MobileTypes
  <2> QED
    BY <1>3, <2>1, <2>2
<1>5. /\ r \in LifeRecord /\ r.cancelled = lives[m].cancelled
      /\ r.at \in {"generating", "loaded", "ended"}
  <2>1. stored \in Nat
    BY <1>1 DEF MobileTypes
  <2> QED
    BY <1>1, <2>1 DEF LifeRecord
<1>6. ~lives[m].cancelled => opens \/ loads[l].at # "done"
  BY <1>3
<1> HIDE DEF r
<1>7. MountsAreTold' /\ lives' \in [Mobile!Life -> LifeRecord]
      /\ \A n \in Mobile!Life : lives'[n].cancelled = lives[n].cancelled
  BY <1>1, <1>2, <1>5, MoveMount
<1>8. opens => ~lives[m].cancelled
  BY <1>3
<1> HIDE DEF opens, goesOn, key, l
<1>9. MobileTypes'
  BY <1>1, <1>2, <1>4, <1>7 DEF MobileTypes
<1>10. LoadsAreAlone'
  BY <1>1 DEF LoadsAreAlone
<1>11. Mobile!FileIsOpenable'
  <2>1. CASE opens
    BY <1>1, <1>2, <1>4, <1>7, <1>8, <2>1 DEF Mobile!FileIsOpenable, Mobile!IsReady
  <2>2. CASE ~opens
    <3>1. UNCHANGED <<instance, cipher, registered>>
      BY <1>1, <1>2, <1>3, <2>2 DEF MobileTypes
    <3>2. instance # 0 => lives'[current].cancelled = lives[current].cancelled
      BY <1>1, <1>2, <3>1, <1>7, <1>5, SetLife DEF Mobile!FileIsOpenable, MobileTypes
    <3> QED
      BY <1>1, <3>1, <3>2 DEF Mobile!FileIsOpenable, Mobile!IsReady
  <2> QED
    BY <2>1, <2>2
<1> QED
  BY <1>7, <1>9, <1>10, <1>11 DEF MobileInv

LEMMA GeneratesInv == ASSUME MobileInv, NEW m \in Mobile!Life, Mobile!Generates(m)
  PROVE MobileInv'
<1>1. /\ MobileTypes /\ LoadsAreAlone /\ MountsAreTold /\ Mobile!FileIsOpenable
      /\ lives[m].at = "generating" /\ lives[m] \in LifeRecord /\ m \in Nat
      /\ UNCHANGED <<keychain, cipher, loads, memo, epoch, instance, registered, current>>
  BY DEF MobileInv, Mobile!Generates, MobileTypes, Mobile!Life
<1>2. m <= current /\ current \in Mobile!Life
  BY <1>1 DEF MountsAreTold, Mobile!Unborn, MobileTypes, Mobile!Life
<1>3. PICK r \in LifeRecord : /\ r.at \in {"loaded", "ended"}
                             /\ r.cancelled = lives[m].cancelled
                             /\ lives' = [lives EXCEPT ![m] = r] /\ stored' \in Nat
  <2>1. CASE ~Mobile!IsReady
    <3> DEFINE r == [lives[m] EXCEPT !.at = "ended"]
    <3>1. r \in LifeRecord /\ r.at = "ended" /\ r.cancelled = lives[m].cancelled
      BY <1>1 DEF LifeRecord
    <3>2. lives' = [lives EXCEPT ![m] = r] /\ stored' \in Nat
      BY <1>1, <2>1 DEF Mobile!Generates, MobileTypes
    <3> QED
      BY <3>1, <3>2
  <2>2. CASE Mobile!IsReady
    <3> DEFINE r == [lives[m] EXCEPT !.at = "loaded", !.holds = m]
    <3>1. r \in LifeRecord /\ r.at = "loaded" /\ r.cancelled = lives[m].cancelled
      BY <1>1 DEF LifeRecord
    <3>2. lives' = [lives EXCEPT ![m] = r] /\ stored' \in Nat
      BY <1>1, <2>2 DEF Mobile!Generates
    <3> QED
      BY <3>1, <3>2
  <2> QED
    BY <2>1, <2>2
<1>4. MountsAreTold' /\ lives' \in [Mobile!Life -> LifeRecord]
      /\ \A n \in Mobile!Life : lives'[n].cancelled = lives[n].cancelled
  BY <1>1, <1>3, MoveMount
<1>5. MobileTypes'
  BY <1>1, <1>3, <1>4 DEF MobileTypes
<1>6. LoadsAreAlone' /\ Mobile!FileIsOpenable'
  BY <1>1, <1>2, <1>4 DEF LoadsAreAlone, Mobile!FileIsOpenable, Mobile!IsReady
<1> QED
  BY <1>4, <1>5, <1>6 DEF MobileInv

LEMMA PublishesInv == ASSUME MobileInv, NEW m \in Mobile!Life, Mobile!Publishes(m)
  PROVE MobileInv'
<1> DEFINE r == [lives[m] EXCEPT !.at = IF lives[m].cancelled THEN "ended" ELSE "published"]
<1>1. /\ MobileTypes /\ LoadsAreAlone /\ MountsAreTold /\ Mobile!FileIsOpenable
      /\ lives[m].at = "loaded" /\ lives[m] \in LifeRecord
      /\ UNCHANGED <<keychain, cipher, stored, loads, memo, epoch, instance, registered, current>>
      /\ lives' = [lives EXCEPT ![m] = r]
  BY DEF MobileInv, Mobile!Publishes, MobileTypes
<1>2. m <= current /\ current \in Mobile!Life
  BY <1>1 DEF MountsAreTold, Mobile!Unborn, MobileTypes, Mobile!Life
<1>3. r \in LifeRecord /\ r.at \in {"published", "ended"} /\ r.cancelled = lives[m].cancelled
  BY <1>1 DEF LifeRecord
<1> HIDE DEF r
<1>4. MountsAreTold' /\ lives' \in [Mobile!Life -> LifeRecord]
      /\ \A n \in Mobile!Life : lives'[n].cancelled = lives[n].cancelled
  BY <1>1, <1>3, MoveMount
<1>5. MobileTypes'
  BY <1>1, <1>4 DEF MobileTypes
<1>6. LoadsAreAlone' /\ Mobile!FileIsOpenable'
  BY <1>1, <1>2, <1>4 DEF LoadsAreAlone, Mobile!FileIsOpenable, Mobile!IsReady
<1> QED
  BY <1>4, <1>5, <1>6 DEF MobileInv

(* The cleanup moves the epoch on, so the mount that awaits its key sees it. *)
LEMMA UnmountInv == ASSUME MobileInv, Mobile!Unmount PROVE MobileInv'
<1> DEFINE r == [lives[current] EXCEPT !.cancelled = TRUE,
                                       !.at = IF @ = "published" THEN "ended" ELSE @]
<1>1. /\ MobileTypes /\ LoadsAreAlone /\ MountsAreTold /\ Mobile!FileIsOpenable
      /\ current \in Mobile!Life /\ lives[current] \in LifeRecord
      /\ UNCHANGED <<keychain, cipher, stored, loads, memo, current>>
      /\ epoch' = epoch + 1 /\ instance' = 0 /\ registered' = FALSE
      /\ lives' = [lives EXCEPT ![current] = r]
  <2>1. MobileTypes /\ LoadsAreAlone /\ MountsAreTold /\ Mobile!FileIsOpenable
    BY DEF MobileInv
  <2>2. current \in Mobile!Life
    BY <2>1 DEF Mobile!Unmount, MobileTypes, Mobile!Life
  <2>3. lives[current] \in LifeRecord
    BY <2>1, <2>2 DEF MobileTypes
  <2>4. /\ UNCHANGED <<keychain, cipher, stored, loads, memo, current>>
        /\ epoch' = epoch + 1 /\ instance' = 0 /\ registered' = FALSE
    BY DEF Mobile!Unmount, Mobile!Close
  <2>5. lives' = [lives EXCEPT ![current] = r]
    BY DEF Mobile!Unmount
  <2> QED
    BY <2>1, <2>2, <2>3, <2>4, <2>5
<1>2. /\ r \in LifeRecord /\ r.cancelled = TRUE /\ r.load = lives[current].load
      /\ r.epoch = lives[current].epoch
      /\ (r.at = "waiting" => lives[current].at = "waiting")
  BY <1>1 DEF LifeRecord
<1> HIDE DEF r
<1>3. /\ lives' \in [Mobile!Life -> LifeRecord]
      /\ lives'[current] = r /\ \A n \in Mobile!Life \ {current} : lives'[n] = lives[n]
  BY <1>1, <1>2, SetLife
<1>4. MobileTypes'
  <2>1. /\ epoch' \in Nat /\ instance' \in Nat /\ keychain' \in Nat /\ cipher' \in Nat
        /\ stored' \in Nat
    BY <1>1 DEF MobileTypes
  <2>2. registered' \in BOOLEAN
    BY <1>1, Zenon
  <2>3. /\ memo' \in Mobile!Load \cup {0} /\ current' \in 0 .. MaxLives
        /\ loads' \in [Mobile!Load -> LoadRecord]
    BY <1>1 DEF MobileTypes
  <2> QED
    BY <1>3, <2>1, <2>2, <2>3, Zenon DEF MobileTypes
<1>5. LoadsAreAlone' /\ Mobile!FileIsOpenable'
  BY <1>1 DEF LoadsAreAlone, Mobile!FileIsOpenable, Mobile!IsReady
<1>6. MountsAreTold'
  <2> SUFFICES ASSUME NEW m \in Mobile!Life
               PROVE  /\ m < current => lives'[m].cancelled
                      /\ m > current => lives'[m] = Mobile!Unborn
                      /\ lives'[m].at = "waiting" =>
                            /\ lives'[m].load \in Mobile!Load
                            /\ lives'[m].epoch <= epoch'
                            /\ lives'[m].cancelled <=> lives'[m].epoch # epoch'
    BY <1>1 DEF MountsAreTold
  <2>1. epoch \in Nat /\ lives[m] \in LifeRecord /\ m \in Nat /\ current \in Nat
    BY <1>1 DEF MobileTypes, Mobile!Life
  <2>2. lives[m].epoch \in Nat
    BY <2>1 DEF LifeRecord
  <2>3. CASE m = current
    BY <1>1, <1>2, <1>3, <2>1, <2>2, <2>3 DEF MountsAreTold
  <2>4. CASE m < current
    <3>1. lives'[m] = lives[m] /\ lives[m].cancelled /\ ~(m > current)
      BY <1>1, <1>3, <2>1, <2>4 DEF MountsAreTold
    <3>2. lives[m].at = "waiting" => /\ lives[m].load \in Mobile!Load
                                     /\ lives[m].epoch <= epoch
      BY <1>1 DEF MountsAreTold
    <3>3. lives[m].at = "waiting" => lives[m].epoch <= epoch' /\ lives[m].epoch # epoch'
      BY <1>1, <2>1, <2>2, <3>2
    <3> QED
      BY <3>1, <3>2, <3>3
  <2>5. CASE m > current
    <3>1. ~(m < current) /\ m # current
      BY <2>1, <2>5
    <3>2. lives'[m] = lives[m] /\ lives[m] = Mobile!Unborn
      BY <1>1, <1>3, <2>5, <3>1 DEF MountsAreTold
    <3>3. Mobile!Unborn.at # "waiting"
      BY DEF Mobile!Unborn
    <3> QED
      BY <3>1, <3>2, <3>3
  <2> QED
    BY <2>1, <2>3, <2>4, <2>5
<1> QED
  BY <1>4, <1>5, <1>6 DEF MobileInv

(* A death leaves keychain and file.  A write under way lands only where the *)
(* keychain, and so the file, had no key.                                    *)
LEMMA CrashInv == ASSUME MobileInv, Mobile!Crash PROVE MobileInv'
<1>1. /\ MobileTypes /\ LoadsAreAlone /\ MountsAreTold /\ Mobile!FileIsOpenable
      /\ UNCHANGED <<cipher, stored, current>>
      /\ memo' = 0 /\ epoch' = 0 /\ instance' = 0 /\ registered' = FALSE
      /\ current \in Nat
  BY DEF MobileInv, Mobile!Crash, MobileTypes
<1>2. keychain' \in Nat /\ (cipher # 0 => keychain' = keychain)
  <2>1. CASE keychain' = keychain
    BY <1>1, <2>1 DEF MobileTypes
  <2>2. CASE keychain' # keychain
    <3>1. PICK l \in Mobile!Load : loads[l].at = "writing" /\ keychain' = loads[l].key
      BY <2>2 DEF Mobile!Crash
    <3> QED
      BY <1>1, <3>1 DEF LoadsAreAlone, Mobile!FileIsOpenable, Mobile!Load
  <2> QED
    BY <2>1, <2>2
<1>3. /\ loads' \in [Mobile!Load -> LoadRecord]
      /\ \A l \in Mobile!Load : loads'[l].at \in {"none", "failed"}
  BY DEF Mobile!Crash, Mobile!Unstarted, LoadRecord
<1>4. /\ lives' \in [Mobile!Life -> LifeRecord]
      /\ \A m \in Mobile!Life : /\ m > current => lives'[m] = Mobile!Unborn
                                /\ ~(m > current) => lives'[m].cancelled
                                /\ lives'[m].at # "waiting"
  <2> DEFINE e == [Mobile!Unborn EXCEPT !.at = "ended", !.cancelled = TRUE]
  <2>1. e \in LifeRecord /\ e.at = "ended" /\ e.cancelled = TRUE
    BY DEF LifeRecord, Mobile!Unborn
  <2>2. Mobile!Unborn \in LifeRecord /\ Mobile!Unborn.at = "none"
    BY DEF LifeRecord, Mobile!Unborn
  <2>3. lives' = [m \in Mobile!Life |-> IF m > current THEN Mobile!Unborn ELSE e]
    BY DEF Mobile!Crash
  <2> HIDE DEF e
  <2> QED
    BY <2>1, <2>2, <2>3
<1>5. MobileTypes'
  BY <1>1, <1>2, <1>3, <1>4 DEF MobileTypes
<1>6. LoadsAreAlone'
  BY <1>3 DEF LoadsAreAlone
<1>7. MountsAreTold'
  <2>1. current' = current
    BY <1>1
  <2>2. ASSUME NEW m \in Mobile!Life
        PROVE  /\ m < current => lives'[m].cancelled
               /\ m > current => lives'[m] = Mobile!Unborn
               /\ lives'[m].at # "waiting"
    <3>1. m \in Nat /\ current \in Nat
      BY <1>1, LivesAssumption DEF Mobile!Life
    <3>2. m < current => ~(m > current)
      BY <3>1
    <3> QED
      BY <1>4, <3>2
  <2> QED
    BY <2>1, <2>2 DEF MountsAreTold
<1>8. Mobile!FileIsOpenable'
  BY <1>1, <1>2 DEF Mobile!FileIsOpenable, Mobile!IsReady
<1> QED
  BY <1>5, <1>6, <1>7, <1>8 DEF MobileInv

LEMMA MobileStep == ASSUME MobileInv, [Mobile!Next]_(Mobile!vars) PROVE MobileInv'
<1>1. CASE Mobile!Mount
  BY <1>1, MountInv
<1>2. CASE Mobile!Unmount
  BY <1>2, UnmountInv
<1>3. CASE Mobile!Crash
  BY <1>3, CrashInv
<1>4. ASSUME NEW l \in Mobile!Load, Mobile!Reads(l) \/ Mobile!Writes(l) PROVE MobileInv'
  BY <1>4, ReadsInv, WritesInv
<1>5. ASSUME NEW m \in Mobile!Life, Mobile!Resumes(m) \/ Mobile!Generates(m) \/ Mobile!Publishes(m)
      PROVE MobileInv'
  BY <1>5, ResumesInv, GeneratesInv, PublishesInv
<1>6. CASE UNCHANGED Mobile!vars
  BY <1>6
     DEF Mobile!vars, MobileInv, MobileTypes, LoadsAreAlone, MountsAreTold,
          Mobile!FileIsOpenable, Mobile!IsReady
<1> QED
  BY <1>1, <1>2, <1>3, <1>4, <1>5, <1>6 DEF Mobile!Next

-----------------------------------------------------------------------------
(* Whatever mounts and cleanups overlap, the store a mount uses is its own *)
(* and stays readable: on the web a published controller is the current    *)
(* mount's, over an open database and with a key unless it is locked; on   *)
(* the mobile, with any keychain faults and deaths of the process, the     *)
(* keychain holds the key the file was made with, and no instance or       *)
(* registration outlives its mount.                                        *)
THEOREM MountsStaySound == MCSpec => []MountsOwnTheirStore
<1>1. MCInit => MobileInv
  BY MobileInit DEF MCInit
<1>2. MobileInv /\ [MCNext]_<<app, vars, mobileVars>> => MobileInv'
  <2> SUFFICES ASSUME MobileInv, [MCNext]_<<app, vars, mobileVars>> PROVE MobileInv'
    OBVIOUS
  <2>1. [Mobile!Next]_(Mobile!vars)
    BY DEF MCNext, mobileVars, Mobile!vars
  <2> QED
    BY <2>1, MobileStep
<1>3. WebInv /\ MobileInv => MountsOwnTheirStore
  <2> SUFFICES ASSUME WebInv, MobileInv PROVE MountsOwnTheirStore
    OBVIOUS
  <2>1. LockedIsKeyless
    BY DEF WebInv, BootInv, VaultIsSound, MountsAreSound, LockedIsKeyless
  <2> QED
    BY <2>1 DEF WebInv, BootInv, MobileInv, MountsOwnTheirStore
<1> QED
  BY <1>1, <1>2, <1>3, WebStaysSound, PTL DEF MCSpec

-----------------------------------------------------------------------------
(* Induction over numbers and over the subsets of a finite set.            *)

(* A nonempty set of numbers has a least element.                          *)
LEMMA LeastElement ==
  ASSUME NEW S0 \in SUBSET Nat, S0 # {}
  PROVE  \E x \in S0 : \A y \in S0 : ~ (y < x)
<1> DEFINE U == {0..k : k \in S0}
<1>1. U \subseteq FiniteSubsetsOf(Nat)
  <2> SUFFICES ASSUME NEW k \in S0 PROVE 0..k \in FiniteSubsetsOf(Nat)
    OBVIOUS
  <2>1. IsFiniteSet(0..k)
    BY FS_Interval
  <2>2. 0..k \subseteq Nat
    OBVIOUS
  <2> QED BY <2>1, <2>2 DEF FiniteSubsetsOf
<1>2. U # {}
  OBVIOUS
<1>3. PICK A \in U : \A B \in U : ~ (<<B, A>> \in StrictSubsetOrdering(Nat))
  <2> HIDE DEF U
  <2> QED BY <1>1, <1>2, FS_StrictSubsetOrderingWellFounded, WFMin
<1>4. PICK x \in S0 : A = 0..x
  OBVIOUS
<1>5. ASSUME NEW y \in S0, y < x PROVE FALSE
  <2>1. 0..y \in U /\ 0..y \subseteq 0..x /\ 0..y # 0..x
    <3>1. x \in 0..x /\ x \notin 0..y
      BY <1>5
    <3> QED BY <1>5, <3>1
  <2>2. 0..y \in SUBSET Nat /\ 0..x \in SUBSET Nat
    OBVIOUS
  <2> QED BY <1>3, <1>4, <2>1, <2>2 DEF StrictSubsetOrdering
<1> QED BY <1>5

(* Induction up to n.                                                      *)
LEMMA CountUp ==
  ASSUME NEW n \in Nat, NEW S, 0 \in S, \A i \in 0..n : i \in S /\ i < n => i + 1 \in S
  PROVE  0..n \subseteq S
<1> SUFFICES ASSUME (0..n) \ S # {} PROVE FALSE
  OBVIOUS
<1>1. PICK x \in (0..n) \ S : \A y \in (0..n) \ S : ~ (y < x)
  <2>1. (0..n) \ S \in SUBSET Nat
    OBVIOUS
  <2> QED BY <2>1, LeastElement
<1>2. x # 0 /\ x - 1 \in 0..n
  BY <1>1
<1>3. x - 1 \in S
  BY <1>1, <1>2
<1> QED BY <1>1, <1>2, <1>3

(* The element that a fold takes from a set.                               *)
Taken(s) == CHOOSE x \in s : TRUE

LEMMA SetInduction ==
  ASSUME NEW D, IsFiniteSet(D), NEW K, {} \in K,
         \A s \in SUBSET D : s # {} /\ s \ {Taken(s)} \in K => s \in K
  PROVE  SUBSET D \subseteq K
<1> DEFINE U == {s \in SUBSET D : s \notin K}
<1> SUFFICES ASSUME U # {} PROVE FALSE
  OBVIOUS
<1>1. U \subseteq FiniteSubsetsOf(D)
  BY FS_Subset DEF FiniteSubsetsOf
<1>2. PICK A \in U : \A B \in U : ~ (<<B, A>> \in StrictSubsetOrdering(D))
  <2> HIDE DEF U
  <2> QED BY <1>1, FS_StrictSubsetOrderingWellFounded, WFMin
<1>3. Taken(A) \in A
  BY DEF Taken
<1>4. A \ {Taken(A)} \in SUBSET D /\ A \ {Taken(A)} # A /\ A \ {Taken(A)} \subseteq A
  BY <1>3
<1>5. A \ {Taken(A)} \in K
  BY <1>2, <1>4 DEF StrictSubsetOrdering
<1> QED BY <1>4, <1>5


LEMMA MaxFacts ==
  ASSUME NEW n \in Nat, NEW t \in SUBSET (1..n), t # {}
  PROVE  Max(t) \in t /\ \A y \in t : y <= Max(t)
<1> DEFINE U == {x \in Nat : \E y \in t : x = n - y}
<1>1. U \in SUBSET Nat /\ U # {}
  <2>1. PICK y \in t : TRUE
    OBVIOUS
  <2>2. n - y \in U
    BY <2>1
  <2> QED BY <2>2
<1>2. PICK x \in U : \A z \in U : ~ (z < x)
  <2> HIDE DEF U
  <2> QED BY <1>1, LeastElement
<1>3. PICK m \in t : x = n - m
  BY <1>2
<1>4. \A y \in t : m >= y
  <2> SUFFICES ASSUME NEW y \in t PROVE m >= y
    OBVIOUS
  <2>1. n - y \in U
    OBVIOUS
  <2> QED BY <1>2, <1>3, <2>1
<1>5. Max(t) \in t /\ \A y \in t : Max(t) >= y
  BY <1>4 DEF Max
<1> QED BY <1>5

LEMMA MinFacts ==
  ASSUME NEW t \in SUBSET Nat, t # {}
  PROVE  Min(t) \in t
<1>1. PICK m \in t : \A y \in t : ~ (y < m)
  BY LeastElement
<1>2. \A y \in t : m <= y
  BY <1>1
<1> QED BY <1>2 DEF Min

-----------------------------------------------------------------------------
(* What validateConversations reads, entry by entry.                       *)

(* No error is the first of them exactly when none is one.                 *)
LEMMA FirstFacts ==
  ASSUME NEW s, DOMAIN s \in SUBSET Nat
  PROVE  FirstError(s) = "none" <=> \A i \in DOMAIN s : s[i] = "none"
<1> DEFINE found == {i \in DOMAIN s : s[i] # "none"}
<1>1. FirstError(s) = IF found = {} THEN "none" ELSE s[Min(found)]
  BY DEF FirstError
<1>2. found # {} => s[Min(found)] # "none"
  <2>1. found # {} => Min(found) \in found
    BY MinFacts
  <2> QED BY <2>1
<1>3. found = {} <=> \A i \in DOMAIN s : s[i] = "none"
  OBVIOUS
<1> HIDE DEF found
<1> QED BY <1>1, <1>2, <1>3

(* One entry, or one message, of a payload.                                *)
Adds(entry, acc, x) == IF entry THEN AddEntry(acc, x) ELSE AddMessage(acc, x)

IsReading(f, D, s, base, entry) ==
  f = [t \in SUBSET D |-> IF t = {} THEN base
                          ELSE Adds(entry, f[t \ {Max(t)}], s[Max(t)])]

LEMMA ReadingExists ==
  ASSUME NEW n \in Nat, NEW s, NEW base, NEW entry
  PROVE  \E f : IsReading(f, 1..n, s, base, entry)
<1> DEFINE K == {k \in Nat : \E f : IsReading(f, 1..k, s, base, entry)}
<1>1. 0 \in K
  <2> DEFINE f == [t \in SUBSET (1..0) |-> base]
  <2>1. \A t \in SUBSET (1..0) : t = {}
    OBVIOUS
  <2>2. IsReading(f, 1..0, s, base, entry)
    BY <2>1 DEF IsReading
  <2> HIDE DEF f
  <2> QED BY <2>2
<1>2. ASSUME NEW k \in Nat, NEW f, IsReading(f, 1..k, s, base, entry)
      PROVE  \E g : IsReading(g, 1..(k+1), s, base, entry)
  <2> DEFINE g == [t \in SUBSET (1..(k+1)) |->
                     IF t \in SUBSET (1..k) THEN f[t]
                     ELSE Adds(entry, f[t \ {Max(t)}], s[Max(t)])]
  <2>1. ASSUME NEW t \in SUBSET (1..(k+1)), t # {}
        PROVE  /\ t \ {Max(t)} \in SUBSET (1..k)
               /\ g[t] = Adds(entry, g[t \ {Max(t)}], s[Max(t)])
    <3>1. Max(t) \in t /\ \A y \in t : y <= Max(t)
      <4>1. k + 1 \in Nat
        OBVIOUS
      <4> QED BY <2>1, <4>1, MaxFacts
    <3>2. t \ {Max(t)} \in SUBSET (1..k) /\ t \ {Max(t)} \in SUBSET (1..(k+1))
      <4> DEFINE m == Max(t)
      <4>1. m \in 1..(k+1) /\ \A y \in t : y \in 1..(k+1) /\ y <= m
        BY <3>1
      <4> HIDE DEF m
      <4>2. ASSUME NEW y \in t, y # m PROVE y \in 1..k
        BY <4>1, <4>2
      <4>3. t \ {m} \in SUBSET (1..k) /\ t \ {m} \in SUBSET (1..(k+1))
        BY <4>1, <4>2
      <4> QED BY <4>3 DEF m
    <3>3. g[t \ {Max(t)}] = f[t \ {Max(t)}]
      BY <3>2
    <3>4. CASE t \in SUBSET (1..k)
      <4>1. f[t] = Adds(entry, f[t \ {Max(t)}], s[Max(t)])
        BY <1>2, <2>1, <3>4 DEF IsReading
      <4> QED BY <3>2, <3>3, <3>4, <4>1
    <3>5. CASE t \notin SUBSET (1..k)
      BY <3>2, <3>3, <3>5
    <3> QED BY <3>2, <3>4, <3>5
  <2>2. g[{}] = base
    <3>1. f[{}] = base
      BY <1>2 DEF IsReading
    <3> QED BY <3>1
  <2>3. g = [t \in SUBSET (1..(k+1)) |-> g[t]]
    OBVIOUS
  <2>4. IsReading(g, 1..(k+1), s, base, entry)
    <3> HIDE DEF g
    <3> QED BY <2>1, <2>2, <2>3 DEF IsReading
  <2> QED BY <2>4
<1>3. 0..n \subseteq K
  <2>1. \A i \in 0..n : i \in K /\ i < n => i + 1 \in K
    BY <1>2
  <2> HIDE DEF K
  <2> QED BY <1>1, <2>1, CountUp
<1> QED BY <1>3

(* f counts the steps of a fold over the first k of s.                     *)
IsRead(a, s, base, entry) ==
  /\ a = [k \in 0..Len(s) |-> a[k]] /\ a[0] = base
  /\ \A k \in 0..(Len(s) - 1) : a[k + 1] = Adds(entry, a[k], s[k + 1])

LEMMA ReadingIsRead ==
  ASSUME NEW S, NEW s \in Seq(S), NEW base, NEW entry, NEW f,
         IsReading(f, 1..Len(s), s, base, entry)
  PROVE  IsRead([k \in 0..Len(s) |-> f[1..k]], s, base, entry)
<1> DEFINE n == Len(s)
           a == [k \in 0..n |-> f[1..k]]
<1>0. n \in Nat
  OBVIOUS
<1> HIDE DEF n
<1>1. a[0] = base
  <2>1. 1..0 = {} /\ {} \in SUBSET (1..n)
    BY <1>0
  <2>2. f[{}] = base
    BY <2>1 DEF IsReading, n
  <2> QED BY <1>0, <2>1, <2>2
<1>2. ASSUME NEW k \in 0..(n-1) PROVE a[k+1] = Adds(entry, a[k], s[k+1])
  <2> DEFINE t == 1..(k+1)
  <2>1. k \in 0..n /\ k + 1 \in 0..n /\ t \in SUBSET (1..n) /\ k + 1 \in t
    BY <1>0
  <2>2. Max(t) = k + 1
    <3>1. Max(t) \in t /\ \A y \in t : y <= Max(t)
      BY <1>0, <2>1, MaxFacts
    <3> QED BY <2>1, <3>1
  <2>3. t \ {k + 1} = 1..k
    BY <2>1
  <2>4. f[t] = Adds(entry, f[t \ {Max(t)}], s[Max(t)])
    <3> HIDE DEF t
    <3> QED BY <2>1 DEF IsReading, n
  <2> QED BY <2>1, <2>2, <2>3, <2>4
<1> QED BY <1>1, <1>2 DEF IsRead, n

LEMMA EntriesRead ==
  ASSUME NEW S, NEW s \in Seq(S), NEW base
  PROVE  \E a : IsRead(a, s, base, TRUE) /\ FoldLeft(AddEntry, base, s) = a[Len(s)]
<1> DEFINE D == 1..Len(s)
           F == CHOOSE f : f = [t \in SUBSET D |->
                  IF t = {} THEN base ELSE AddEntry(f[t \ {Max(t)}], s[Max(t)])]
<1>1. Len(s) \in Nat /\ DOMAIN s = D
  OBVIOUS
<1>2. F = [t \in SUBSET D |-> IF t = {} THEN base ELSE AddEntry(F[t \ {Max(t)}], s[Max(t)])]
  <2>1. PICK f : IsReading(f, D, s, base, TRUE)
    BY <1>1, ReadingExists
  <2>2. f = [t \in SUBSET D |-> IF t = {} THEN base ELSE AddEntry(f[t \ {Max(t)}], s[Max(t)])]
    BY <2>1 DEF IsReading, Adds
  <2> HIDE DEF D
  <2> QED BY <2>2
<1>3. FoldLeft(AddEntry, base, s) = F[D]
  BY <1>1 DEF FoldLeft, MapThenFoldSet
<1>4. IsReading(F, D, s, base, TRUE)
  <2> HIDE DEF F, D
  <2> QED BY <1>2 DEF IsReading, Adds
<1>5. IsRead([k \in 0..Len(s) |-> F[1..k]], s, base, TRUE)
  <2> HIDE DEF F
  <2> QED BY <1>4, ReadingIsRead
<1>6. [k \in 0..Len(s) |-> F[1..k]][Len(s)] = F[D]
  <2> HIDE DEF F
  <2> QED BY <1>1
<1> HIDE DEF F, D
<1> QED BY <1>3, <1>5, <1>6

LEMMA MessagesRead ==
  ASSUME NEW S, NEW s \in Seq(S), NEW base
  PROVE  \E a : IsRead(a, s, base, FALSE) /\ FoldLeft(AddMessage, base, s) = a[Len(s)]
<1> DEFINE D == 1..Len(s)
           F == CHOOSE f : f = [t \in SUBSET D |->
                  IF t = {} THEN base ELSE AddMessage(f[t \ {Max(t)}], s[Max(t)])]
<1>1. Len(s) \in Nat /\ DOMAIN s = D
  OBVIOUS
<1>2. F = [t \in SUBSET D |-> IF t = {} THEN base ELSE AddMessage(F[t \ {Max(t)}], s[Max(t)])]
  <2>1. PICK f : IsReading(f, D, s, base, FALSE)
    BY <1>1, ReadingExists
  <2>2. f = [t \in SUBSET D |-> IF t = {} THEN base ELSE AddMessage(f[t \ {Max(t)}], s[Max(t)])]
    BY <2>1 DEF IsReading, Adds
  <2> HIDE DEF D
  <2> QED BY <2>2
<1>3. FoldLeft(AddMessage, base, s) = F[D]
  BY <1>1 DEF FoldLeft, MapThenFoldSet
<1>4. IsReading(F, D, s, base, FALSE)
  <2> HIDE DEF F, D
  <2> QED BY <1>2 DEF IsReading, Adds
<1>5. IsRead([k \in 0..Len(s) |-> F[1..k]], s, base, FALSE)
  <2> HIDE DEF F
  <2> QED BY <1>4, ReadingIsRead
<1>6. [k \in 0..Len(s) |-> F[1..k]][Len(s)] = F[D]
  <2> HIDE DEF F
  <2> QED BY <1>1
<1> HIDE DEF F, D
<1> QED BY <1>3, <1>5, <1>6

SpelledAs(x) == Hex(x.conv, x.upper)
NoReading == [error |-> "none", convs |-> <<>>, seen |-> {}]

IsAcc(acc) == acc = [error |-> acc.error, convs |-> acc.convs, seen |-> acc.seen]

LEMMA AccSet ==
  ASSUME NEW acc, IsAcc(acc)
  PROVE  acc \in [error : {acc.error}, convs : {acc.convs}, seen : {acc.seen}]
BY DEF IsAcc

LEMMA ExceptError ==
  ASSUME NEW A, NEW B, NEW C, NEW acc \in [error : A, convs : B, seen : C], NEW w
  PROVE  [acc EXCEPT !.error = w] = [error |-> w, convs |-> acc.convs, seen |-> acc.seen]
OBVIOUS

LEMMA ExceptConvs ==
  ASSUME NEW A, NEW B, NEW C, NEW acc \in [error : A, convs : B, seen : C], NEW w
  PROVE  [acc EXCEPT !.convs = w] = [error |-> acc.error, convs |-> w, seen |-> acc.seen]
OBVIOUS

(* The entries of a payload up to the k-th have been read.                 *)
FlawlessTo(s, k) == \A i \in 1..k : s[i].flaw = "none"
ListedTo(acc, s, k) ==
  /\ acc.seen = {} /\ acc.convs = [h \in DOMAIN acc.convs |-> acc.convs[h]]
  /\ DOMAIN acc.convs = {SpelledAs(s[i]) : i \in 1..k}
  /\ \A h \in DOMAIN acc.convs :
        /\ acc.convs[h] = [peer |-> acc.convs[h].peer, texts |-> {}]
        /\ \E i \in 1..k : SpelledAs(s[i]) = h /\ acc.convs[h].peer = s[i].peer
EntriesTo(acc, s, k) ==
  /\ IsAcc(acc)
  /\ (acc.error = "none") <=> FlawlessTo(s, k)
  /\ (acc.error = "none") => ListedTo(acc, s, k)

LEMMA PeerErrorIsError ==
  ASSUME NEW f PROVE PeerError(f) # "none"
BY DEF PeerError

LEMMA EntryStep ==
  ASSUME NEW s, NEW k \in Nat, NEW acc, NEW e, e = s[k + 1], EntriesTo(acc, s, k),
         e.flaw \in {"none"} \cup EntryFlaws
  PROVE  EntriesTo(AddEntry(acc, e), s, k + 1)
<1> DEFINE d == AddEntry(acc, e)
<1>0. IsAcc(acc) /\ \A i \in 1..(k+1) : i \in 1..k \/ i = k + 1
  BY DEF EntriesTo
<1>a. k + 1 \in 1..(k+1) /\ 1..k \subseteq 1..(k+1)
  OBVIOUS
<1>1. CASE acc.error # "none"
  <2>1. d = acc
    BY <1>1 DEF AddEntry
  <2>2. ~ FlawlessTo(s, k + 1)
    <3>1. ~ FlawlessTo(s, k)
      BY <1>1 DEF EntriesTo
    <3> QED BY <3>1, <1>a DEF FlawlessTo
  <2>3. EntriesTo(acc, s, k + 1)
    BY <1>0, <1>1, <2>2 DEF EntriesTo
  <2> QED BY <2>1, <2>3
<1>2. CASE acc.error = "none" /\ e.flaw \in EntryFlaws
  <2>1. d = [acc EXCEPT !.error = PeerError(e.flaw)]
    BY <1>2 DEF AddEntry
  <2>2. d = [error |-> PeerError(e.flaw), convs |-> acc.convs, seen |-> acc.seen]
    BY <2>1, <1>0, AccSet, ExceptError
  <2>3. d.error # "none" /\ IsAcc(d)
    BY <2>2, PeerErrorIsError DEF IsAcc
  <2>4. e.flaw # "none"
    BY <1>2 DEF EntryFlaws, IdFlaws, PeerFlaws
  <2>5. ~ FlawlessTo(s, k + 1)
    BY <2>4, <1>a DEF FlawlessTo
  <2> QED BY <2>3, <2>5 DEF EntriesTo
<1>3. CASE acc.error = "none" /\ e.flaw \notin EntryFlaws
  <2> DEFINE h0 == SpelledAs(e)
             v0 == [peer |-> e.peer, texts |-> {}]
             c == Put(acc.convs, h0, v0)
  <2>1. d = [acc EXCEPT !.convs = c]
    BY <1>3 DEF AddEntry, SpelledAs
  <2>2. d = [error |-> "none", convs |-> c, seen |-> acc.seen]
    <3> HIDE DEF c
    <3> QED BY <2>1, <1>0, <1>3, AccSet, ExceptConvs
  <2>3. d.error = "none" /\ IsAcc(d) /\ d.convs = c /\ d.seen = acc.seen
    <3> HIDE DEF c
    <3> QED BY <2>2 DEF IsAcc
  <2>4. FlawlessTo(s, k)  /\ ListedTo(acc, s, k)
    BY <1>3 DEF EntriesTo
  <2>5. FlawlessTo(s, k + 1)
    <3>1. e.flaw = "none"
      BY <1>3
    <3> QED BY <2>4, <1>0, <3>1 DEF FlawlessTo
  <2>6. DOMAIN c = DOMAIN acc.convs \cup {h0} /\ c[h0] = v0
        /\ \A h \in DOMAIN acc.convs : h # h0 => c[h] = acc.convs[h]
    BY DEF Put
  <2>7. DOMAIN c = {SpelledAs(s[i]) : i \in 1..(k+1)}
    <3>1. h0 = SpelledAs(s[k+1])
      OBVIOUS
    <3>2. DOMAIN acc.convs = {SpelledAs(s[i]) : i \in 1..k}
      BY <2>4 DEF ListedTo
    <3> HIDE DEF c, h0
    <3> QED BY <2>6, <3>1, <3>2, <1>0, <1>a
  <2>8. ASSUME NEW h \in DOMAIN c
        PROVE  /\ c[h] = [peer |-> c[h].peer, texts |-> {}]
               /\ \E i \in 1..(k+1) : SpelledAs(s[i]) = h /\ c[h].peer = s[i].peer
    <3>1. CASE h = h0
      <4>1. c[h] = [peer |-> c[h].peer, texts |-> {}] /\ c[h].peer = s[k+1].peer
        <5>1. c[h] = v0
          BY <2>6, <3>1
        <5> HIDE DEF c
        <5> QED BY <5>1
      <4>2. SpelledAs(s[k+1]) = h
        BY <3>1
      <4> QED BY <4>1, <4>2, <1>a
    <3>2. CASE h # h0
      <4> HIDE DEF c, h0
      <4>1. h \in DOMAIN acc.convs /\ c[h] = acc.convs[h]
        BY <2>6, <2>8, <3>2
      <4> QED BY <4>1, <2>4, <1>a DEF ListedTo
    <3> QED BY <3>1, <3>2
  <2>9. ListedTo(d, s, k + 1)
    <3>1. acc.seen = {}
      BY <2>4 DEF ListedTo
    <3>2. c = [h \in DOMAIN c |-> c[h]]
      BY DEF Put
    <3> HIDE DEF c, d
    <3> QED BY <2>3, <2>7, <2>8, <3>1, <3>2 DEF ListedTo
  <2> QED BY <2>3, <2>5, <2>9 DEF EntriesTo
<1> QED BY <1>1, <1>2, <1>3

LEMMA EntriesAreRead ==
  ASSUME NEW S, NEW s \in Seq(S), \A i \in DOMAIN s : s[i].flaw \in {"none"} \cup EntryFlaws
  PROVE  EntriesTo(FoldLeft(AddEntry, NoReading, s), s, Len(s))
<1> DEFINE n == Len(s)
<1>0. n \in Nat /\ DOMAIN s = 1..n
  OBVIOUS
<1>1. PICK a : IsRead(a, s, NoReading, TRUE) /\ FoldLeft(AddEntry, NoReading, s) = a[n]
  BY EntriesRead
<1> DEFINE K == {k \in 0..n : EntriesTo(a[k], s, k)}
<1> HIDE DEF n
<1>2. 0 \in K
  <2>1. a[0] = NoReading
    BY <1>1 DEF IsRead
  <2>2. EntriesTo(NoReading, s, 0)
    <3>1. 1..0 = {}
      OBVIOUS
    <3>2. NoReading.error = "none" /\ NoReading.convs = <<>> /\ NoReading.seen = {} /\ IsAcc(NoReading)
      BY DEF NoReading, IsAcc
    <3>3. DOMAIN NoReading.convs = {}
      BY <3>2
    <3>4. FlawlessTo(s, 0)
      BY <3>1 DEF FlawlessTo
    <3>5. ListedTo(NoReading, s, 0)
      <4>1. <<>> = [h \in DOMAIN <<>> |-> <<>>[h]]
        OBVIOUS
      <4> QED BY <3>1, <3>2, <3>3, <4>1 DEF ListedTo
    <3> QED BY <3>2, <3>4, <3>5 DEF EntriesTo
  <2> QED BY <1>0, <2>1, <2>2
<1>3. ASSUME NEW i \in 0..n, i \in K, i < n PROVE i + 1 \in K
  <2>1. i \in 0..(n-1) /\ i + 1 \in 0..n /\ i \in Nat /\ i + 1 \in DOMAIN s
    BY <1>0, <1>3
  <2>2. a[i+1] = AddEntry(a[i], s[i+1])
    BY <1>1, <2>1 DEF IsRead, Adds, n
  <2>3. EntriesTo(a[i], s, i) /\ s[i+1].flaw \in {"none"} \cup EntryFlaws
    BY <1>3, <2>1
  <2>4. EntriesTo(AddEntry(a[i], s[i+1]), s, i + 1)
    BY <2>1, <2>3, EntryStep
  <2> QED BY <2>1, <2>2, <2>4
<1>4. 0..n \subseteq K
  <2> HIDE DEF K
  <2> QED BY <1>0, <1>2, <1>3, CountUp
<1>5. n \in 0..n
  BY <1>0
<1> QED BY <1>1, <1>4, <1>5 DEF n

LEMMA ExceptSeen ==
  ASSUME NEW A, NEW B, NEW C, NEW acc \in [error : A, convs : B, seen : C], NEW w
  PROVE  [acc EXCEPT !.seen = w] = [error |-> acc.error, convs |-> acc.convs, seen |-> w]
OBVIOUS

WithText(acc, h, x) == [acc EXCEPT !.convs[h].texts = @ \cup {x}, !.seen = @ \cup {x}]

LEMMA TextAdded ==
  ASSUME NEW acc, IsAcc(acc), NEW h, NEW x, NEW P, NEW T, acc.convs[h] \in [peer : P, texts : T]
  PROVE  WithText(acc, h, x) =
           [error |-> acc.error,
            convs |-> [acc.convs EXCEPT ![h] = [peer |-> acc.convs[h].peer,
                                                texts |-> acc.convs[h].texts \cup {x}]],
            seen |-> acc.seen \cup {x}]
<1> DEFINE r == acc.convs[h]
           nr == [r EXCEPT !.texts = @ \cup {x}]
           nc == [acc.convs EXCEPT ![h] = nr]
<1>0. acc \in [error : {acc.error}, convs : {acc.convs}, seen : {acc.seen}]
  BY AccSet
<1>1. WithText(acc, h, x) = [acc EXCEPT !.convs = nc, !.seen = @ \cup {x}]
  BY <1>0 DEF WithText
<1>2. nr = [peer |-> r.peer, texts |-> r.texts \cup {x}]
  <2> HIDE DEF r
  <2> QED BY DEF r
<1> HIDE DEF nr
<1>3. [acc EXCEPT !.convs = nc, !.seen = @ \cup {x}]
        = [error |-> acc.error, convs |-> nc, seen |-> acc.seen \cup {x}]
  <2> HIDE DEF nc
  <2> DEFINE e == [acc EXCEPT !.convs = nc]
  <2>1. e = [error |-> acc.error, convs |-> nc, seen |-> acc.seen]
    BY <1>0, ExceptConvs
  <2>2. [acc EXCEPT !.convs = nc, !.seen = @ \cup {x}] = [e EXCEPT !.seen = acc.seen \cup {x}]
    BY <1>0
  <2>3. e \in [error : {acc.error}, convs : {nc}, seen : {acc.seen}]
    BY <2>1
  <2> HIDE DEF e
  <2>4. [e EXCEPT !.seen = acc.seen \cup {x}]
          = [error |-> e.error, convs |-> e.convs, seen |-> acc.seen \cup {x}]
    BY <2>3, ExceptSeen
  <2> QED BY <2>1, <2>2, <2>4
<1> QED BY <1>1, <1>2, <1>3

(* The messages of a payload up to the k-th, filed under what they name.   *)
TextsTo(s, k, h) == {s[i].id : i \in {j \in 1..k : SpelledAs(s[j]) = h}}
IdsTo(s, k) == {s[i].id : i \in 1..k}
SoundTo(C, s, k) ==
  /\ \A i \in 1..k : s[i].flaw = "none" /\ SpelledAs(s[i]) \in C
  /\ \A i, j \in 1..k : i # j => s[i].id # s[j].id
  /\ \A h \in C : Cardinality(TextsTo(s, k, h)) <= MaxMessages
FiledTo(acc, base, s, k) ==
  /\ acc.seen = IdsTo(s, k)
  /\ acc.convs = [h \in DOMAIN base |-> [peer |-> base[h].peer, texts |-> TextsTo(s, k, h)]]
MessagesTo(acc, base, s, k) ==
  /\ IsAcc(acc)
  /\ (acc.error = "none") <=> SoundTo(DOMAIN base, s, k)
  /\ (acc.error = "none") => FiledTo(acc, base, s, k)

LEMMA TextsGrow ==
  ASSUME NEW s, NEW k \in Nat, NEW h
  PROVE  /\ IsFiniteSet(TextsTo(s, k, h))
         /\ TextsTo(s, k, h) \subseteq IdsTo(s, k)
         /\ SpelledAs(s[k+1]) = h => TextsTo(s, k + 1, h) = TextsTo(s, k, h) \cup {s[k+1].id}
         /\ SpelledAs(s[k+1]) # h => TextsTo(s, k + 1, h) = TextsTo(s, k, h)
<1>1. IsFiniteSet(TextsTo(s, k, h))
  <2>1. IsFiniteSet(1..k)
    BY FS_Interval
  <2>2. IsFiniteSet({j \in 1..k : SpelledAs(s[j]) = h})
    BY <2>1, FS_Subset
  <2> DEFINE D == {j \in 1..k : SpelledAs(s[j]) = h}
             f == [i \in D |-> s[i].id]
  <2>3. f \in Surjection(D, TextsTo(s, k, h))
    BY DEF Surjection, TextsTo
  <2> QED BY <2>2, <2>3, FS_Surjection
<1>2. 1..(k+1) = (1..k) \cup {k+1} /\ k + 1 \in 1..(k+1)
  OBVIOUS
<1>3. SpelledAs(s[k+1]) = h =>
        {j \in 1..(k+1) : SpelledAs(s[j]) = h} = {j \in 1..k : SpelledAs(s[j]) = h} \cup {k+1}
  BY <1>2
<1>4. SpelledAs(s[k+1]) # h =>
        {j \in 1..(k+1) : SpelledAs(s[j]) = h} = {j \in 1..k : SpelledAs(s[j]) = h}
  BY <1>2
<1>5. SpelledAs(s[k+1]) = h => TextsTo(s, k + 1, h) = TextsTo(s, k, h) \cup {s[k+1].id}
  BY <1>3 DEF TextsTo
<1>6. SpelledAs(s[k+1]) # h => TextsTo(s, k + 1, h) = TextsTo(s, k, h)
  BY <1>4 DEF TextsTo
<1> QED BY <1>1, <1>5, <1>6 DEF TextsTo, IdsTo

LEMMA TwoErrors ==
  ASSUME NEW a, NEW b
  PROVE  FirstError(<<a, b>>) = "none" <=> a = "none" /\ b = "none"
<1> DEFINE s == <<a, b>>
<1>1. DOMAIN s = 1..2 /\ s[1] = a /\ s[2] = b
  OBVIOUS
<1>2. /\ DOMAIN s \in SUBSET Nat
      /\ (\A i \in DOMAIN s : s[i] = "none") <=> a = "none" /\ b = "none"
  BY <1>1
<1> HIDE DEF s
<1>3. FirstError(s) = "none" <=> \A i \in DOMAIN s : s[i] = "none"
  BY <1>2, FirstFacts
<1> QED BY <1>2, <1>3 DEF s

LEMMA MessageErrorFacts ==
  ASSUME NEW acc, NEW m
  PROVE  MessageError(acc, m) = "none" <=>
           /\ SpelledAs(m) \in DOMAIN acc.convs
           /\ ~ (Cardinality(acc.convs[SpelledAs(m)].texts) >= MaxMessages)
           /\ m.id \notin acc.seen /\ m.flaw \notin MessageFlaws
<1>1. CASE SpelledAs(m) \notin DOMAIN acc.convs
  BY <1>1 DEF MessageError, SpelledAs
<1>2. CASE SpelledAs(m) \in DOMAIN acc.convs
  <2> DEFINE full == Cardinality(acc.convs[SpelledAs(m)].texts) >= MaxMessages
             bad == m.id \in acc.seen \/ m.flaw \in MessageFlaws
             a == Refuses(full, "SizeLimitExceeded")
             b == Refuses(bad, "MalformedBundle")
  <2>1. MessageError(acc, m) = FirstError(<<a, b>>)
    BY <1>2 DEF MessageError, SpelledAs
  <2>2. (a = "none" <=> ~full) /\ (b = "none" <=> ~bad)
    BY DEF Refuses
  <2>3. FirstError(<<a, b>>) = "none" <=> a = "none" /\ b = "none"
    <3> HIDE DEF a, b
    <3> QED BY TwoErrors
  <2> HIDE DEF a, b
  <2> QED BY <1>2, <2>1, <2>2, <2>3
<1> QED BY <1>1, <1>2

(* One more message keeps what was read sound exactly when it passes.      *)
LEMMA SoundGrows ==
  ASSUME NEW C, NEW s, NEW k \in Nat, SoundTo(C, s, k),
         s[k+1].flaw \in {"none"} \cup MessageFlaws
  PROVE  SoundTo(C, s, k + 1) <=>
           /\ SpelledAs(s[k+1]) \in C
           /\ ~ (Cardinality(TextsTo(s, k, SpelledAs(s[k+1]))) >= MaxMessages)
           /\ s[k+1].id \notin IdsTo(s, k) /\ s[k+1].flaw \notin MessageFlaws
<1> DEFINE h0 == SpelledAs(s[k+1])
           x == s[k+1].id
           T == TextsTo(s, k, h0)
<1>0. k + 1 \in 1..(k+1) /\ 1..k \subseteq 1..(k+1) /\ k + 1 \notin 1..k
      /\ \A i \in 1..(k+1) : i \in 1..k \/ i = k + 1
  OBVIOUS
<1>1. s[k+1].flaw = "none" <=> s[k+1].flaw \notin MessageFlaws
  BY DEF MessageFlaws
<1>2. /\ IsFiniteSet(T) /\ T \subseteq IdsTo(s, k) /\ TextsTo(s, k + 1, h0) = T \cup {x}
      /\ Cardinality(T) \in Nat
  BY TextsGrow, FS_CardinalityType
<1>3. x \notin T => Cardinality(T \cup {x}) = Cardinality(T) + 1
  BY <1>2, FS_AddElement
<1>4. x \in IdsTo(s, k) <=> \E i \in 1..k : s[i].id = x
  BY DEF IdsTo
<1>5. ASSUME SoundTo(C, s, k + 1)
      PROVE  /\ h0 \in C /\ ~ (Cardinality(T) >= MaxMessages)
             /\ x \notin IdsTo(s, k) /\ s[k+1].flaw \notin MessageFlaws
  <2>1. h0 \in C /\ s[k+1].flaw = "none"
    BY <1>0, <1>5 DEF SoundTo
  <2>2. x \notin IdsTo(s, k)
    <3> SUFFICES ASSUME NEW i \in 1..k, s[i].id = x PROVE FALSE
      BY <1>4
    <3>1. i # k + 1 /\ i \in 1..(k+1)
      BY <1>0
    <3> QED BY <1>0, <1>5, <3>1 DEF SoundTo
  <2>3. Cardinality(T \cup {x}) <= MaxMessages
    BY <1>2, <1>5, <2>1 DEF SoundTo
  <2>4. Cardinality(T) + 1 <= MaxMessages
    BY <1>2, <1>3, <2>2, <2>3
  <2>5. ~ (Cardinality(T) >= MaxMessages)
    <3> HIDE DEF T
    <3> QED BY <1>2, <2>4, CapsAssumption
  <2> HIDE DEF T, h0, x
  <2> QED BY <1>1, <2>1, <2>2, <2>5
<1>6. ASSUME h0 \in C, ~ (Cardinality(T) >= MaxMessages), x \notin IdsTo(s, k),
             s[k+1].flaw \notin MessageFlaws
      PROVE  SoundTo(C, s, k + 1)
  <2>1. \A i \in 1..(k+1) : s[i].flaw = "none" /\ SpelledAs(s[i]) \in C
    BY <1>0, <1>1, <1>6 DEF SoundTo
  <2>2. ASSUME NEW i \in 1..(k+1), NEW j \in 1..(k+1), i # j PROVE s[i].id # s[j].id
    <3>1. CASE i \in 1..k /\ j \in 1..k
      BY <3>1, <2>2 DEF SoundTo
    <3>2. CASE i = k + 1
      <4>1. j \in 1..k
        BY <1>0, <2>2, <3>2
      <4> QED BY <1>4, <1>6, <3>2, <4>1
    <3>3. CASE j = k + 1
      <4>1. i \in 1..k
        BY <1>0, <2>2, <3>3
      <4> QED BY <1>4, <1>6, <3>3, <4>1
    <3> QED BY <1>0, <3>1, <3>2, <3>3
  <2>3. ASSUME NEW h \in C PROVE Cardinality(TextsTo(s, k + 1, h)) <= MaxMessages
    <3>1. CASE h = h0
      <4>1. x \notin T
        BY <1>2, <1>6
      <4>2. Cardinality(TextsTo(s, k + 1, h0)) = Cardinality(T) + 1
        BY <1>2, <1>3, <4>1
      <4>3. Cardinality(T) + 1 <= MaxMessages
        <5> DEFINE n == Cardinality(T)
        <5>1. n \in Nat /\ ~ (n >= MaxMessages)
          BY <1>2, <1>6
        <5> HIDE DEF n
        <5>2. n + 1 <= MaxMessages
          BY <5>1, CapsAssumption
        <5> QED BY <5>2 DEF n
      <4> HIDE DEF T, h0, x
      <4> QED BY <3>1, <4>2, <4>3
    <3>2. CASE h # h0
      <4>1. TextsTo(s, k + 1, h) = TextsTo(s, k, h)
        BY <3>2, TextsGrow
      <4> QED BY <4>1 DEF SoundTo
    <3> QED BY <3>1, <3>2
  <2> HIDE DEF T, h0, x
  <2> QED BY <2>1, <2>2, <2>3 DEF SoundTo
<1> QED BY <1>5, <1>6

LEMMA UnsoundStays ==
  ASSUME NEW C, NEW s, NEW k \in Nat, SoundTo(C, s, k + 1)
  PROVE  SoundTo(C, s, k)
<1>0. 1..k \subseteq 1..(k+1)
  OBVIOUS
<1>1. ASSUME NEW h \in C PROVE Cardinality(TextsTo(s, k, h)) <= MaxMessages
  <2>1. TextsTo(s, k, h) \subseteq TextsTo(s, k + 1, h)
    BY TextsGrow
  <2>2. IsFiniteSet(TextsTo(s, k + 1, h))
    <3>1. k + 1 \in Nat
      OBVIOUS
    <3> QED BY <3>1, TextsGrow
  <2>3. Cardinality(TextsTo(s, k, h)) <= Cardinality(TextsTo(s, k + 1, h))
        /\ Cardinality(TextsTo(s, k, h)) \in Nat /\ Cardinality(TextsTo(s, k + 1, h)) \in Nat
    BY <2>1, <2>2, FS_Subset, FS_CardinalityType
  <2>4. Cardinality(TextsTo(s, k + 1, h)) <= MaxMessages
    BY DEF SoundTo
  <2> QED BY <2>3, <2>4, CapsAssumption
<1> QED BY <1>0, <1>1 DEF SoundTo

LEMMA PairFields ==
  ASSUME NEW v, NEW a, NEW b, v = [peer |-> a, texts |-> b]
  PROVE  v.peer = a /\ v.texts = b /\ v \in [peer : {a}, texts : {b}]
OBVIOUS

LEMMA MessageStep ==
  ASSUME NEW base, NEW s, NEW k \in Nat, NEW acc, NEW m, m = s[k + 1],
         MessagesTo(acc, base, s, k), m.flaw \in {"none"} \cup MessageFlaws
  PROVE  MessagesTo(AddMessage(acc, m), base, s, k + 1)
<1> DEFINE d == AddMessage(acc, m)
           w == MessageError(acc, m)
           C == DOMAIN base
           h0 == SpelledAs(m)
<1>0. IsAcc(acc)
  BY DEF MessagesTo
<1>1. CASE acc.error # "none"
  <2>1. d = acc
    BY <1>1 DEF AddMessage
  <2>2. ~ SoundTo(C, s, k + 1)
    <3>1. ~ SoundTo(C, s, k)
      BY <1>1 DEF MessagesTo
    <3> QED BY <3>1, UnsoundStays
  <2>3. MessagesTo(acc, base, s, k + 1)
    BY <1>0, <1>1, <2>2 DEF MessagesTo
  <2> QED BY <2>1, <2>3
<1>2. CASE acc.error = "none"
  <2>1. SoundTo(C, s, k) /\ FiledTo(acc, base, s, k)
    BY <1>2 DEF MessagesTo
  <2>2. DOMAIN acc.convs = C
        /\ \A h \in C : acc.convs[h] = [peer |-> base[h].peer, texts |-> TextsTo(s, k, h)]
    BY <2>1 DEF FiledTo
  <2>a. \A h \in C : /\ acc.convs[h].peer = base[h].peer
                     /\ acc.convs[h].texts = TextsTo(s, k, h)
                     /\ acc.convs[h] \in [peer : {base[h].peer}, texts : {TextsTo(s, k, h)}]
    <3> SUFFICES ASSUME NEW h \in C
                 PROVE  /\ acc.convs[h].peer = base[h].peer
                        /\ acc.convs[h].texts = TextsTo(s, k, h)
                        /\ acc.convs[h] \in [peer : {base[h].peer}, texts : {TextsTo(s, k, h)}]
      OBVIOUS
    <3> DEFINE v == acc.convs[h]
               a == base[h].peer
               b == TextsTo(s, k, h)
    <3>1. v = [peer |-> a, texts |-> b]
      BY <2>2
    <3> HIDE DEF v, a, b
    <3>2. v.peer = a /\ v.texts = b /\ v \in [peer : {a}, texts : {b}]
      BY <3>1, PairFields
    <3> QED BY <3>2 DEF v, a, b
  <2>3. w = "none" <=> SoundTo(C, s, k + 1)
    <3>1. w = "none" <=>
            /\ h0 \in C /\ ~ (Cardinality(acc.convs[h0].texts) >= MaxMessages)
            /\ m.id \notin acc.seen /\ m.flaw \notin MessageFlaws
      <4> HIDE DEF C, h0
      <4> QED BY <2>2, MessageErrorFacts DEF h0
    <3>2. SoundTo(C, s, k + 1) <=>
            /\ h0 \in C /\ ~ (Cardinality(TextsTo(s, k, h0)) >= MaxMessages)
            /\ m.id \notin IdsTo(s, k) /\ m.flaw \notin MessageFlaws
      <4> HIDE DEF C
      <4> QED BY <2>1, SoundGrows
    <3>3. acc.seen = IdsTo(s, k)
      BY <2>1 DEF FiledTo
    <3>4. h0 \in C => acc.convs[h0].texts = TextsTo(s, k, h0)
      BY <2>a
    <3> HIDE DEF w, C, h0
    <3> QED BY <3>1, <3>2, <3>3, <3>4
  <2>4. CASE w # "none"
    <3>1. d = [acc EXCEPT !.error = w]
      BY <1>2, <2>4 DEF AddMessage
    <3>2. d = [error |-> w, convs |-> acc.convs, seen |-> acc.seen]
      <4> HIDE DEF w
      <4> QED BY <3>1, <1>0, AccSet, ExceptError
    <3>3. IsAcc(d) /\ d.error # "none"
      BY <2>4, <3>2 DEF IsAcc
    <3>4. ~ SoundTo(C, s, k + 1)
      BY <2>3, <2>4
    <3> QED BY <3>3, <3>4 DEF MessagesTo
  <2>5. CASE w = "none"
    <3>0. h0 \in C
      BY <2>3, <2>5 DEF SoundTo
    <3>1. d = WithText(acc, h0, m.id)
      BY <1>2, <2>5 DEF AddMessage, WithText, SpelledAs
    <3> DEFINE r == [peer |-> acc.convs[h0].peer, texts |-> acc.convs[h0].texts \cup {m.id}]
               nc == [acc.convs EXCEPT ![h0] = r]
    <3>2. d = [error |-> acc.error, convs |-> nc, seen |-> acc.seen \cup {m.id}]
      <4>1. acc.convs[h0] \in [peer : {base[h0].peer}, texts : {TextsTo(s, k, h0)}]
        BY <2>a, <3>0
      <4> HIDE DEF h0
      <4> QED BY <1>0, <3>1, <4>1, TextAdded
    <3>3. d.error = "none" /\ IsAcc(d) /\ d.convs = nc /\ d.seen = acc.seen \cup {m.id}
      <4> HIDE DEF nc
      <4> QED BY <1>2, <3>2 DEF IsAcc
    <3>4. SoundTo(C, s, k + 1)
      BY <2>3, <2>5
    <3>5. acc.seen \cup {m.id} = IdsTo(s, k + 1)
      <4>1. 1..(k+1) = (1..k) \cup {k+1}
        OBVIOUS
      <4>2. acc.seen = IdsTo(s, k)
        BY <2>1 DEF FiledTo
      <4> QED BY <4>1, <4>2 DEF IdsTo
    <3>6. DOMAIN nc = C /\ \A h \in C : nc[h] = [peer |-> base[h].peer, texts |-> TextsTo(s, k + 1, h)]
      <4>1. DOMAIN nc = C
        BY <2>2
      <4>2. ASSUME NEW h \in C
            PROVE  nc[h] = [peer |-> base[h].peer, texts |-> TextsTo(s, k + 1, h)]
        <5>1. CASE h = h0
          <6>1. nc[h] = r
            <7> HIDE DEF r
            <7> QED BY <2>2, <5>1, <3>0
          <6>2. r = [peer |-> base[h].peer, texts |-> TextsTo(s, k, h) \cup {m.id}]
            BY <2>a, <5>1
          <6>3. TextsTo(s, k + 1, h) = TextsTo(s, k, h) \cup {m.id}
            BY <5>1, TextsGrow
          <6> QED BY <6>1, <6>2, <6>3
        <5>2. CASE h # h0
          <6>1. nc[h] = acc.convs[h]
            <7> HIDE DEF r
            <7> QED BY <2>2, <5>2
          <6>2. TextsTo(s, k + 1, h) = TextsTo(s, k, h)
            BY <5>2, TextsGrow
          <6> QED BY <2>2, <6>1, <6>2
        <5> QED BY <5>1, <5>2
      <4> QED BY <4>1, <4>2
    <3>7. nc = [h \in DOMAIN base |-> [peer |-> base[h].peer, texts |-> TextsTo(s, k + 1, h)]]
      <4>1. nc = [h \in C |-> nc[h]]
        <5>1. nc = [h \in DOMAIN acc.convs |-> nc[h]]
          OBVIOUS
        <5> HIDE DEF nc
        <5> QED BY <5>1, <2>2
      <4> HIDE DEF nc
      <4> QED BY <3>6, <4>1
    <3>8. FiledTo(d, base, s, k + 1)
      <4> HIDE DEF nc, d
      <4> QED BY <3>3, <3>5, <3>7 DEF FiledTo
    <3> QED BY <3>3, <3>4, <3>8 DEF MessagesTo
  <2> QED BY <2>4, <2>5
<1> QED BY <1>1, <1>2

LEMMA MessagesAreRead ==
  ASSUME NEW S, NEW s \in Seq(S), \A i \in DOMAIN s : s[i].flaw \in {"none"} \cup MessageFlaws,
         NEW first, IsAcc(first), first.error = "none", first.seen = {},
         \A h \in DOMAIN first.convs :
            first.convs[h] = [peer |-> first.convs[h].peer, texts |-> {}],
         first.convs = [h \in DOMAIN first.convs |-> first.convs[h]]
  PROVE  MessagesTo(FoldLeft(AddMessage, first, s), first.convs, s, Len(s))
<1> DEFINE n == Len(s)
           base == first.convs
<1>0. n \in Nat /\ DOMAIN s = 1..n
  OBVIOUS
<1>1. PICK a : IsRead(a, s, first, FALSE) /\ FoldLeft(AddMessage, first, s) = a[n]
  BY MessagesRead
<1> DEFINE K == {k \in 0..n : MessagesTo(a[k], base, s, k)}
<1> HIDE DEF n, base
<1>2. 0 \in K
  <2>1. a[0] = first
    BY <1>1 DEF IsRead
  <2>2. MessagesTo(first, base, s, 0)
    <3>1. 1..0 = {} /\ IdsTo(s, 0) = {} /\ \A h : TextsTo(s, 0, h) = {}
      BY DEF IdsTo, TextsTo
    <3>2. SoundTo(DOMAIN base, s, 0)
      <4>1. \A h \in DOMAIN base : Cardinality(TextsTo(s, 0, h)) = 0
        BY <3>1, FS_EmptySet
      <4>2. 0 <= MaxMessages
        BY CapsAssumption
      <4>3. \A h \in DOMAIN base : Cardinality(TextsTo(s, 0, h)) <= MaxMessages
        BY <4>1, <4>2
      <4>4. 1..0 = {}
        OBVIOUS
      <4> QED BY <4>3, <4>4 DEF SoundTo
    <3>3. \A h \in DOMAIN base : base[h] = [peer |-> base[h].peer, texts |-> TextsTo(s, 0, h)]
      BY <3>1 DEF base
    <3>4. base = [h \in DOMAIN base |-> [peer |-> base[h].peer, texts |-> TextsTo(s, 0, h)]]
      <4>1. base = [h \in DOMAIN base |-> base[h]]
        BY DEF base
      <4> QED BY <3>3, <4>1
    <3>5. FiledTo(first, base, s, 0)
      BY <3>1, <3>4 DEF FiledTo, base
    <3> QED BY <3>2, <3>5 DEF MessagesTo
  <2> QED BY <1>0, <2>1, <2>2
<1>3. ASSUME NEW i \in 0..n, i \in K, i < n PROVE i + 1 \in K
  <2>1. i \in 0..(n-1) /\ i + 1 \in 0..n /\ i \in Nat /\ i + 1 \in DOMAIN s
    BY <1>0, <1>3
  <2>2. a[i+1] = AddMessage(a[i], s[i+1])
    BY <1>1, <2>1 DEF IsRead, Adds, n
  <2>3. MessagesTo(a[i], base, s, i) /\ s[i+1].flaw \in {"none"} \cup MessageFlaws
    BY <1>3, <2>1
  <2>4. MessagesTo(AddMessage(a[i], s[i+1]), base, s, i + 1)
    BY <2>1, <2>3, MessageStep
  <2> QED BY <2>1, <2>2, <2>4
<1>4. 0..n \subseteq K
  <2> HIDE DEF K
  <2> QED BY <1>0, <1>2, <1>3, CountUp
<1>5. n \in 0..n
  BY <1>0
<1> QED BY <1>1, <1>4, <1>5 DEF n, base

LEMMA ErrorsStay ==
  ASSUME NEW S, NEW s \in Seq(S), NEW first, first.error # "none"
  PROVE  FoldLeft(AddMessage, first, s) = first
<1> DEFINE n == Len(s)
<1>0. n \in Nat
  OBVIOUS
<1>1. PICK a : IsRead(a, s, first, FALSE) /\ FoldLeft(AddMessage, first, s) = a[n]
  BY MessagesRead
<1> DEFINE K == {k \in 0..n : a[k] = first}
<1> HIDE DEF n
<1>2. 0 \in K
  BY <1>0, <1>1 DEF IsRead
<1>3. ASSUME NEW i \in 0..n, i \in K, i < n PROVE i + 1 \in K
  <2>1. i \in 0..(n-1) /\ i + 1 \in 0..n
    BY <1>0, <1>3
  <2>2. a[i+1] = AddMessage(a[i], s[i+1])
    BY <1>1, <2>1 DEF IsRead, Adds, n
  <2>3. AddMessage(first, s[i+1]) = first
    BY DEF AddMessage
  <2> QED BY <1>3, <2>1, <2>2, <2>3
<1>4. 0..n \subseteq K
  <2> HIDE DEF K
  <2> QED BY <1>0, <1>2, <1>3, CountUp
<1>5. n \in 0..n
  BY <1>0
<1> QED BY <1>1, <1>4, <1>5 DEF n

(* A payload whose fields have the flaws the decoders test for, or none.    *)
IsPayload(file, S, Q) ==
  /\ file.convs \in Seq(S) /\ file.messages \in Seq(Q)
  /\ \A i \in DOMAIN file.convs : file.convs[i].flaw \in {"none"} \cup EntryFlaws
  /\ \A i \in DOMAIN file.messages : file.messages[i].flaw \in {"none"} \cup MessageFlaws

Spelled(file) == {SpelledAs(file.convs[i]) : i \in DOMAIN file.convs}
TextsUnder(file, h) == TextsTo(file.messages, Len(file.messages), h)

(* What the whole payload comes to.                                        *)
SoundPayload(file) ==
  /\ FlawlessTo(file.convs, Len(file.convs))
  /\ SoundTo(Spelled(file), file.messages, Len(file.messages))
ReadAs(convs, file) ==
  /\ DOMAIN convs = Spelled(file)
  /\ convs = [h \in Spelled(file) |-> [peer |-> convs[h].peer, texts |-> TextsUnder(file, h)]]
  /\ \A h \in Spelled(file) :
        \E i \in DOMAIN file.convs :
           SpelledAs(file.convs[i]) = h /\ convs[h].peer = file.convs[i].peer

Reading(file) == FoldLeft(AddMessage, FoldLeft(AddEntry, NoReading, file.convs), file.messages)

LEMMA ReadingIsExact ==
  ASSUME NEW S, NEW Q, NEW file, IsPayload(file, S, Q)
  PROVE  /\ Reading(file).error = "none" <=> SoundPayload(file)
         /\ Reading(file).error = "none" => ReadAs(Reading(file).convs, file)
<1> DEFINE first == FoldLeft(AddEntry, NoReading, file.convs)
           last == FoldLeft(AddMessage, first, file.messages)
           c == file.convs
           m == file.messages
<1>1. c \in Seq(S) /\ m \in Seq(Q) /\ DOMAIN c = 1..Len(c) /\ DOMAIN m = 1..Len(m)
      /\ (\A i \in DOMAIN c : c[i].flaw \in {"none"} \cup EntryFlaws)
      /\ (\A i \in DOMAIN m : m[i].flaw \in {"none"} \cup MessageFlaws)
  BY DEF IsPayload
<1>2. EntriesTo(first, c, Len(c))
  <2> HIDE DEF c
  <2> QED BY <1>1, EntriesAreRead DEF c
<1>3. last = Reading(file)
  BY DEF Reading
<1> HIDE DEF first, last
<1>4. CASE first.error # "none"
  <2>1. last = first
    BY <1>1, <1>4, ErrorsStay DEF last
  <2>2. ~ FlawlessTo(c, Len(c))
    BY <1>2, <1>4 DEF EntriesTo
  <2> QED BY <1>3, <1>4, <2>1, <2>2 DEF SoundPayload
<1>5. CASE first.error = "none"
  <2>1. FlawlessTo(c, Len(c)) /\ ListedTo(first, c, Len(c)) /\ IsAcc(first)
    BY <1>2, <1>5 DEF EntriesTo
  <2> DEFINE base == first.convs
  <2>2. first.seen = {} /\ DOMAIN base = Spelled(file)
        /\ \A h \in DOMAIN base :
             /\ base[h] = [peer |-> base[h].peer, texts |-> {}]
             /\ \E i \in DOMAIN c : SpelledAs(c[i]) = h /\ base[h].peer = c[i].peer
    BY <2>1, <1>1 DEF ListedTo, Spelled
  <2>3. base = [h \in DOMAIN base |-> base[h]]
    BY <2>1 DEF ListedTo
  <2>4. MessagesTo(last, base, m, Len(m))
    BY <1>1, <1>5, <2>1, <2>2, <2>3, MessagesAreRead DEF last
  <2>5. last.error = "none" <=> SoundPayload(file)
    BY <2>1, <2>2, <2>4 DEF MessagesTo, SoundPayload
  <2>6. ASSUME last.error = "none" PROVE ReadAs(last.convs, file)
    <3>1. last.convs = [h \in DOMAIN base |-> [peer |-> base[h].peer, texts |-> TextsTo(m, Len(m), h)]]
      BY <2>4, <2>6 DEF MessagesTo, FiledTo
    <3> HIDE DEF base
    <3>2. DOMAIN last.convs = Spelled(file)
      BY <2>2, <3>1
    <3>3. \A h \in Spelled(file) : last.convs[h].peer = base[h].peer
      <4> SUFFICES ASSUME NEW h \in Spelled(file) PROVE last.convs[h].peer = base[h].peer
        OBVIOUS
      <4> DEFINE v == last.convs[h]
                 a == base[h].peer
                 b == TextsTo(m, Len(m), h)
      <4>1. v = [peer |-> a, texts |-> b]
        BY <2>2, <3>1
      <4> HIDE DEF v, a, b
      <4>2. v.peer = a
        BY <4>1, PairFields
      <4> QED BY <4>2 DEF v, a
    <3>4. last.convs = [h \in Spelled(file) |-> [peer |-> last.convs[h].peer, texts |-> TextsUnder(file, h)]]
      BY <2>2, <3>1, <3>3 DEF TextsUnder
    <3>5. \A h \in Spelled(file) : \E i \in DOMAIN file.convs :
           SpelledAs(file.convs[i]) = h /\ last.convs[h].peer = file.convs[i].peer
      BY <2>2, <3>3
    <3> QED BY <3>2, <3>4, <3>5 DEF ReadAs
  <2> QED BY <1>3, <2>5, <2>6
<1> QED BY <1>4, <1>5

Fits(file) == /\ Len(file.convs) <= MaxConversations
              /\ Len(file.messages) <= MaxConversations * MaxMessages

LEMMA FourErrors ==
  ASSUME NEW a, NEW b, NEW c, NEW d
  PROVE  FirstError(<<a, b, c, d>>) = "none" <=> a = "none" /\ b = "none" /\ c = "none" /\ d = "none"
<1> DEFINE s == <<a, b, c, d>>
<1>1. DOMAIN s = 1..4 /\ s[1] = a /\ s[2] = b /\ s[3] = c /\ s[4] = d
  OBVIOUS
<1>2. /\ DOMAIN s \in SUBSET Nat
      /\ (\A i \in DOMAIN s : s[i] = "none") <=> a = "none" /\ b = "none" /\ c = "none" /\ d = "none"
  BY <1>1
<1> HIDE DEF s
<1>3. FirstError(s) = "none" <=> \A i \in DOMAIN s : s[i] = "none"
  BY <1>2, FirstFacts
<1> QED BY <1>2, <1>3 DEF s

LEMMA ValidatedFacts ==
  ASSUME NEW S, NEW Q, NEW file, file.convs \in Seq(S), file.messages \in Seq(Q)
  PROVE  /\ Validated(file).convs = Reading(file).convs
         /\ Validated(file).error = "none" <=>
              /\ file.flaw = "none" /\ Fits(file)
              /\ Reading(file).error = "none" /\ file.identity # "broken"
<1> DEFINE a == Refuses(file.flaw # "none", "MalformedBundle")
           b == Refuses(\/ Len(file.convs) > MaxConversations
                        \/ Len(file.messages) > MaxConversations * MaxMessages, "SizeLimitExceeded")
           c == Reading(file).error
           d == IdentityError(file.identity)
<1>1. Validated(file) = [error |-> FirstError(<<a, b, c, d>>), convs |-> Reading(file).convs]
  BY DEF Validated, Reading, NoReading
<1>2. a = "none" <=> file.flaw = "none"
  BY DEF Refuses
<1>3. d = "none" <=> file.identity # "broken"
  BY DEF IdentityError, Refuses
<1>4. b = "none" <=> Fits(file)
  <2> DEFINE n == Len(file.convs)
             k == Len(file.messages)
             max == MaxConversations * MaxMessages
  <2>1. n \in Nat /\ k \in Nat
    OBVIOUS
  <2>2. MaxConversations \in Nat /\ max \in Nat
    BY CapsAssumption
  <2>3. b = "none" <=> ~ (n > MaxConversations \/ k > max)
    BY DEF Refuses
  <2>4. Fits(file) <=> n <= MaxConversations /\ k <= max
    BY DEF Fits
  <2> HIDE DEF n, k, max, b
  <2> QED BY <2>1, <2>2, <2>3, <2>4
<1> HIDE DEF a, b, c, d
<1>5. FirstError(<<a, b, c, d>>) = "none" <=> a = "none" /\ b = "none" /\ c = "none" /\ d = "none"
  BY FourErrors
<1>6. Validated(file).error = FirstError(<<a, b, c, d>>) /\ Validated(file).convs = Reading(file).convs
  BY <1>1
<1> QED BY <1>2, <1>3, <1>4, <1>5, <1>6 DEF c

(* The messages under a spelling are as many as their ids.                 *)
Sent(file, c, u) == {x \in Elements(file.messages) : x.conv = c /\ x.upper = u}

LEMMA AsManyAsIds ==
  ASSUME NEW Q, NEW file, file.messages \in Seq(Q), NEW c, NEW u,
         \A i, j \in DOMAIN file.messages : i # j => file.messages[i].id # file.messages[j].id
  PROVE  Cardinality(Sent(file, c, u)) = Cardinality(TextsUnder(file, Hex(c, u)))
<1> DEFINE m == file.messages
           D == Sent(file, c, u)
           f == [x \in D |-> x.id]
<1>1. DOMAIN m = 1..Len(m) /\ Len(m) \in Nat
  OBVIOUS
<1>2. \A x : SpelledAs(x) = Hex(c, u) <=> x.conv = c /\ x.upper = u
  BY DEF SpelledAs, Hex
<1>3. TextsUnder(file, Hex(c, u)) = {x.id : x \in D}
  <2>1. TextsUnder(file, Hex(c, u)) = {m[i].id : i \in {j \in DOMAIN m : m[j].conv = c /\ m[j].upper = u}}
    <3>1. {j \in 1..Len(m) : SpelledAs(m[j]) = Hex(c, u)} = {j \in DOMAIN m : m[j].conv = c /\ m[j].upper = u}
      BY <1>1, <1>2
    <3> QED BY <3>1 DEF TextsUnder, TextsTo
  <2> HIDE DEF m
  <2>2. D = {x \in {m[i] : i \in DOMAIN m} : x.conv = c /\ x.upper = u}
    BY DEF Sent, Elements, m
  <2> HIDE DEF D
  <2> QED BY <2>1, <2>2
<1>4. f \in Bijection(D, TextsUnder(file, Hex(c, u)))
  <2>1. f \in Surjection(D, TextsUnder(file, Hex(c, u)))
    <3> HIDE DEF D
    <3> QED BY <1>3 DEF Surjection
  <2>2. \A x, y \in D : x # y => x.id # y.id
    <3>1. \A x \in D : \E i \in DOMAIN m : x = m[i]
      BY DEF Sent, Elements
    <3> HIDE DEF D
    <3> QED BY <3>1
  <2>3. f \in Injection(D, TextsUnder(file, Hex(c, u)))
    <3> HIDE DEF D
    <3> QED BY <2>1, <2>2 DEF Injection, IsInjective, Surjection
  <2> QED BY <2>1, <2>3 DEF Bijection
<1>5. IsFiniteSet(TextsUnder(file, Hex(c, u)))
  BY <1>1, TextsGrow DEF TextsUnder
<1>6. IsFiniteSet(D)
  <2>1. D \subseteq Elements(m)
    BY DEF Sent
  <2>2. IsFiniteSet(Elements(m))
    <3>1. IsFiniteSet(DOMAIN m)
      <4> DEFINE n == Len(m)
      <4>1. DOMAIN m = 1..n /\ n \in Nat
        BY <1>1
      <4> HIDE DEF n, m
      <4>2. IsFiniteSet(1..n)
        BY <4>1, FS_Interval
      <4> QED BY <4>1, <4>2
    <3> DEFINE g == [i \in DOMAIN m |-> m[i]]
    <3>2. g \in Surjection(DOMAIN m, Elements(m))
      BY DEF Surjection, Elements
    <3> QED BY <3>1, <3>2, FS_Surjection
  <2> QED BY <2>1, <2>2, FS_Subset
<1> HIDE DEF f, D
<1>7. Cardinality(D) = Cardinality(TextsUnder(file, Hex(c, u)))
  BY <1>4, <1>6, FS_Bijection DEF ExistsBijection
<1> QED BY <1>7 DEF D

LEMMA SoundIsWellFormed ==
  ASSUME NEW S, NEW Q, NEW file, IsPayload(file, S, Q)
  PROVE  WellFormed(file) <=> /\ file.flaw = "none" /\ Fits(file) /\ SoundPayload(file)
                              /\ file.identity # "broken"
<1> DEFINE e == file.convs
           m == file.messages
           once == \A i, j \in DOMAIN m : i # j => m[i].id # m[j].id
           listed == \A x \in Elements(m) :
                       /\ x.flaw = "none"
                       /\ \E y \in Elements(e) : y.conv = x.conv /\ y.upper = x.upper
                       /\ Cardinality(Sent(file, x.conv, x.upper)) <= MaxMessages
           flawless == \A y \in Elements(e) : y.flaw = "none"
<1>1. WellFormed(file) <=> /\ file.flaw = "none" /\ Fits(file) /\ file.identity # "broken"
                           /\ once /\ listed /\ flawless
  BY DEF WellFormed, Fits, Sent
<1>2. DOMAIN e = 1..Len(e) /\ DOMAIN m = 1..Len(m)
  BY DEF IsPayload
<1>3. flawless <=> FlawlessTo(e, Len(e))
  BY <1>2 DEF FlawlessTo, Elements
<1>4. \A x : (\E y \in Elements(e) : y.conv = x.conv /\ y.upper = x.upper) <=> SpelledAs(x) \in Spelled(file)
  <2>1. \A x, y : SpelledAs(x) = SpelledAs(y) <=> x.conv = y.conv /\ x.upper = y.upper
    BY DEF SpelledAs, Hex
  <2> QED BY <2>1 DEF Elements, Spelled
<1>5. once => \A x : Cardinality(Sent(file, x.conv, x.upper)) = Cardinality(TextsUnder(file, SpelledAs(x)))
  BY AsManyAsIds DEF IsPayload, SpelledAs
<1>6. ASSUME once, listed PROVE SoundTo(Spelled(file), m, Len(m))
  <2>1. ASSUME NEW i \in 1..Len(m) PROVE m[i].flaw = "none" /\ SpelledAs(m[i]) \in Spelled(file)
    BY <1>2, <1>4, <1>6 DEF Elements
  <2>2. ASSUME NEW h \in Spelled(file) PROVE Cardinality(TextsTo(m, Len(m), h)) <= MaxMessages
    <3>1. CASE \E i \in 1..Len(m) : SpelledAs(m[i]) = h
      <4>1. PICK i \in 1..Len(m) : SpelledAs(m[i]) = h
        BY <3>1
      <4>2. m[i] \in Elements(m)
        BY <1>2 DEF Elements
      <4>3. Cardinality(Sent(file, m[i].conv, m[i].upper)) <= MaxMessages
        BY <1>6, <4>2
      <4> QED BY <1>5, <1>6, <4>1, <4>3 DEF TextsUnder
    <3>2. CASE ~ \E i \in 1..Len(m) : SpelledAs(m[i]) = h
      <4>1. TextsTo(m, Len(m), h) = {}
        BY <3>2 DEF TextsTo
      <4>2. Cardinality({}) = 0
        BY FS_EmptySet
      <4> QED BY <4>1, <4>2, CapsAssumption
    <3> QED BY <3>1, <3>2
  <2>3. \A i, j \in 1..Len(m) : i # j => m[i].id # m[j].id
    BY <1>2, <1>6
  <2> QED BY <2>1, <2>2, <2>3 DEF SoundTo
<1>7. ASSUME SoundTo(Spelled(file), m, Len(m)) PROVE once /\ listed
  <2>1. once
    BY <1>2, <1>7 DEF SoundTo
  <2>2. ASSUME NEW x \in Elements(m)
        PROVE  /\ x.flaw = "none"
               /\ \E y \in Elements(e) : y.conv = x.conv /\ y.upper = x.upper
               /\ Cardinality(Sent(file, x.conv, x.upper)) <= MaxMessages
    <3>1. PICK i \in 1..Len(m) : x = m[i]
      BY <1>2 DEF Elements
    <3>2. x.flaw = "none" /\ SpelledAs(x) \in Spelled(file)
      BY <1>7, <3>1 DEF SoundTo
    <3>3. Cardinality(TextsTo(m, Len(m), SpelledAs(x))) <= MaxMessages
      BY <1>7, <3>2 DEF SoundTo
    <3> QED BY <1>4, <1>5, <2>1, <3>2, <3>3 DEF TextsUnder
  <2> QED BY <2>1, <2>2
<1> HIDE DEF once, listed, flawless
<1> QED BY <1>1, <1>3, <1>6, <1>7 DEF SoundPayload

LEMMA ValidationFacts ==
  ASSUME NEW S, NEW Q, NEW file, IsPayload(file, S, Q)
  PROVE  /\ Validated(file).error = "none" <=> WellFormed(file)
         /\ Validated(file).error = "none" => ReadAs(Validated(file).convs, file)
BY ReadingIsExact, SoundIsWellFormed, ValidatedFacts DEF IsPayload

LEMMA PayloadsArePayloads ==
  ASSUME NEW file \in Payloads
  PROVE  IsPayload(file, Conversations, Messages)
<1>1. PICK s \in UpTo(2, Conversations), m \in UpTo(2, Messages), i \in {"none", "broken"} :
        file = Payload(s, m, i)
  BY DEF Payloads
<1>2. file.convs = s /\ file.messages = m
  BY <1>1 DEF Payload
<1>3. ASSUME NEW R, NEW r \in UpTo(2, R) PROVE r \in Seq(R) /\ \A k \in DOMAIN r : r[k] \in R
  <2>1. PICK n \in 0..2 : r \in [1..n -> R]
    BY <1>3 DEF UpTo
  <2>2. n \in Nat
    OBVIOUS
  <2> QED BY <2>1, <2>2
<1>4. \A e \in Conversations : e.flaw \in {"none"} \cup EntryFlaws
  BY DEF Conversations, Entry, EntryFlaws, PeerFlaws
<1>5. \A e \in Messages : e.flaw \in {"none"} \cup MessageFlaws
  BY DEF Messages, Message, MessageFlaws
<1>6. s \in Seq(Conversations) /\ \A k \in DOMAIN s : s[k] \in Conversations
  BY <1>3
<1>7. m \in Seq(Messages) /\ \A k \in DOMAIN m : m[k] \in Messages
  BY <1>3
<1> QED BY <1>2, <1>4, <1>5, <1>6, <1>7 DEF IsPayload

(* What validateConversations accepts is what it should, and it files every  *)
(* message under the conversation the message names.                       *)
THEOREM ValidationStaysExact == MCSpec => []ValidationIsExact
<1>1. ASSUME NEW file \in Payloads
      PROVE  /\ (Validated(file).error = "none") = WellFormed(file)
             /\ Validated(file).error = "none" =>
                  \A h \in DOMAIN Validated(file).convs :
                     Validated(file).convs[h].texts =
                       {m.id : m \in {k \in Elements(file.messages) : Hex(k.conv, k.upper) = h}}
  <2>1. IsPayload(file, Conversations, Messages)
    BY PayloadsArePayloads
  <2>2. /\ Validated(file).error = "none" <=> WellFormed(file)
        /\ Validated(file).error = "none" => ReadAs(Validated(file).convs, file)
    BY <2>1, ValidationFacts
  <2>3. (Validated(file).error = "none") = WellFormed(file)
    <3>1. WellFormed(file) \in BOOLEAN
      BY DEF WellFormed
    <3> QED BY <2>2, <3>1
  <2>4. ASSUME Validated(file).error = "none", NEW h \in DOMAIN Validated(file).convs
        PROVE  Validated(file).convs[h].texts =
                 {m.id : m \in {k \in Elements(file.messages) : Hex(k.conv, k.upper) = h}}
    <3> DEFINE c == Validated(file).convs
               v == c[h]
               a == c[h].peer
               b == TextsUnder(file, h)
    <3>1. v = [peer |-> a, texts |-> b]
      <4> HIDE DEF c
      <4>1. ReadAs(c, file) /\ h \in DOMAIN c
        BY <2>2, <2>4 DEF c
      <4> QED BY <4>1 DEF ReadAs
    <3>2. v.texts = b
      <4> HIDE DEF v, a, b
      <4> QED BY <3>1, PairFields
    <3>3. b = {m.id : m \in {k \in Elements(file.messages) : Hex(k.conv, k.upper) = h}}
      <4> DEFINE m == file.messages
      <4>1. DOMAIN m = 1..Len(m)
        BY <2>1 DEF IsPayload
      <4> HIDE DEF m
      <4>2. {x.id : x \in {k \in Elements(m) : Hex(k.conv, k.upper) = h}}
              = {m[i].id : i \in {j \in 1..Len(m) : SpelledAs(m[j]) = h}}
        BY <4>1 DEF Elements, SpelledAs
      <4> QED BY <4>2 DEF TextsUnder, TextsTo, m
    <3> QED BY <3>2, <3>3
  <2> QED BY <2>3, <2>4
<1>2. ValidationIsExact
  BY <1>1 DEF ValidationIsExact
<1> QED BY <1>2, PTL

-----------------------------------------------------------------------------
(* What is stored, what is on its way to be stored, and under which ids.   *)
IsConv(f) == f = [c \in DOMAIN f |-> f[c]] /\ IsFiniteSet(DOMAIN f)
Fine(R) == /\ IsFiniteSet(R)
           /\ \A r \in R : r = <<r[1], r[2]>> /\ r[2] # Blank
           /\ \A r, s \in R : r[2] = s[2] => r = s
IdsOf(R) == {r[2] : r \in R}

(* The import: whose texts it reads, which it still has to append.         *)
SourceTexts(i, h) == IF i.mode = "restore" THEN i.back[h.conv].texts ELSE i.from[h].texts
SourcesOf(i) == IF i.mode = "restore" THEN {Hex(c, FALSE) : c \in DOMAIN i.back} ELSE DOMAIN i.from
OwedOf(i, h) == SourceTexts(i, h) \ i.ids
BackOf(i) == UNION {i.back[c].texts : c \in DOMAIN i.back}
OwedBy(i, H) == UNION {OwedOf(i, h) : h \in H}
ComingOf(i) ==
  CASE i.step = "forget" -> OwedBy(i, DOMAIN i.from)
    [] i.step = "next" -> OwedBy(i, i.todo)
    [] i.step \in {"pin", "text"} -> i.left \cup OwedBy(i, i.todo)
    [] i.step = "seal" -> i.left \cup {i.text} \cup OwedBy(i, i.todo)
    [] OTHER -> {}

Apart(f) == \A h, g \in DOMAIN f : h # g => f[h].texts \cap f[g].texts = {}
IsImport(i) ==
  i = [mode |-> i.mode, step |-> i.step, from |-> i.from, todo |-> i.todo, cur |-> i.cur,
       left |-> i.left, text |-> i.text, ids |-> i.ids, back |-> i.back]
Turns(i) ==
  /\ i.step \in {"next", "pin", "text", "seal"} => i.todo \subseteq SourcesOf(i)
  /\ i.step \in {"pin", "text", "seal"} =>
        i.cur \in SourcesOf(i) \ i.todo /\ i.left \subseteq OwedOf(i, i.cur)
  /\ i.step = "seal" => i.text \in OwedOf(i, i.cur) \ i.left /\ i.text # Blank
  /\ i.step = "forget" => i.mode = "replace"
  /\ i.step \in {"wipe", "drop"} => i.mode \in {"replace", "restore"}
Reads(i) ==
  /\ \A h \in DOMAIN i.from : i.from[h].texts \subseteq FileTexts
  /\ Apart(i.from) /\ Apart(i.back)
  /\ i.mode # "merge" => i.ids = {}
ImportOK(i) == /\ IsImport(i) /\ Turns(i) /\ Reads(i)
               /\ i.step \in {"idle", "wipe", "drop", "forget", "next", "pin", "text", "seal"}
               /\ i.mode \in {"none", "merge", "replace", "restore"}

KeptInv == Fine(rows) /\ Fine(disk.rows) /\ IsConv(conv) /\ IsConv(disk.conv)
IdleInv == ~open => work = {} /\ imp = NoImport
UsedInv == /\ FileTexts \subseteq used /\ IdsOf(rows) \subseteq used
           /\ IdsOf(disk.rows) \subseteq used /\ BackOf(imp) \subseteq used
IsAppend(w) == w = [op |-> "append", conv |-> w.conv, text |-> w.text]
IsClear(w) == w = [op |-> "clear", convs |-> w.convs, all |-> w.all, at |-> w.at]
Fresh(t) == /\ t \in used /\ t # Blank
            /\ t \notin FileTexts /\ t \notin IdsOf(rows) /\ t \notin BackOf(imp)
WorkInv == /\ \A w \in work : (IsAppend(w) /\ Fresh(w.text)) \/ IsClear(w)
           /\ \A w, v \in work : IsAppend(w) /\ IsAppend(v) /\ w.text = v.text => w = v
NoDrop == imp.step # "drop" /\ \A w \in work : IsClear(w) => w.at # "drop"
InMemory == open /\ kind = "memory"
OrphanInv == InMemory => NoOrphans /\ NoDrop
ComingInv == InMemory => ComingOf(imp) \cap IdsOf(rows) = {}

StoreInv == /\ KeptInv /\ IdleInv /\ UsedInv /\ WorkInv /\ OrphanInv
            /\ ImportOK(imp) /\ ComingInv

LEMMA SourceFacts ==
  ASSUME NEW h
  PROVE  Source(h).texts = SourceTexts(imp, h)
BY DEF Source, SourceTexts

LEMMA SourcesApart ==
  ASSUME NEW i, ImportOK(i), NEW h \in SourcesOf(i), NEW g \in SourcesOf(i), h # g
  PROVE  SourceTexts(i, h) \cap SourceTexts(i, g) = {}
<1>1. CASE i.mode = "restore"
  <2>1. PICK c \in DOMAIN i.back : h = Hex(c, FALSE)
    BY <1>1 DEF SourcesOf
  <2>2. PICK d \in DOMAIN i.back : g = Hex(d, FALSE)
    BY <1>1 DEF SourcesOf
  <2>3. h.conv = c /\ g.conv = d /\ c # d
    BY <2>1, <2>2 DEF Hex
  <2> QED BY <1>1, <2>3 DEF SourceTexts, ImportOK, Reads, Apart
<1>2. CASE i.mode # "restore"
  BY <1>2 DEF SourcesOf, SourceTexts, ImportOK, Reads, Apart
<1> QED BY <1>1, <1>2

LEMMA SourcesKnown ==
  ASSUME NEW i, ImportOK(i), NEW h \in SourcesOf(i)
  PROVE  SourceTexts(i, h) \subseteq FileTexts \cup BackOf(i)
<1>1. CASE i.mode = "restore"
  <2>1. PICK c \in DOMAIN i.back : h = Hex(c, FALSE)
    BY <1>1 DEF SourcesOf
  <2>2. h.conv = c
    BY <2>1 DEF Hex
  <2> QED BY <1>1, <2>2 DEF SourceTexts, BackOf
<1>2. CASE i.mode # "restore"
  BY <1>2 DEF SourcesOf, SourceTexts, ImportOK, Reads
<1> QED BY <1>1, <1>2

(* A step of an import, or one that stores nothing: rows may go.           *)
LEMMA ImportFewer ==
  ASSUME StoreInv, open, UNCHANGED <<open, kind, used, work, disk>>,
         rows' \subseteq rows, IsConv(conv'), ImportOK(imp'),
         BackOf(imp') \subseteq BackOf(imp) \cup IdsOf(rows),
         InMemory => /\ NoOrphans' /\ imp'.step # "drop"
                     /\ ComingOf(imp') \cap IdsOf(rows') = {}
  PROVE  StoreInv'
<1>1. KeptInv'
  <2>1. Fine(rows')
    BY FS_Subset DEF StoreInv, KeptInv, Fine
  <2> QED BY <2>1 DEF StoreInv, KeptInv, Fine
<1>2. IdleInv'
  BY DEF IdleInv
<1>3. BackOf(imp)' = BackOf(imp') /\ IdsOf(rows)' = IdsOf(rows') /\ IdsOf(rows') \subseteq IdsOf(rows)
  BY DEF BackOf, IdsOf
<1>4. UsedInv'
  <2>1. BackOf(imp') \subseteq used
    BY DEF StoreInv, UsedInv
  <2> QED BY <1>3, <2>1 DEF StoreInv, UsedInv, IdsOf
<1>5. WorkInv'
  <2>1. ASSUME NEW t, Fresh(t) PROVE Fresh(t)'
    BY <1>3, <2>1 DEF Fresh
  <2>2. \A w \in work : (IsAppend(w) /\ Fresh(w.text)) \/ IsClear(w)
    BY DEF StoreInv, WorkInv
  <2>3. ASSUME NEW w \in work PROVE (IsAppend(w) /\ Fresh(w.text)') \/ IsClear(w)
    BY <2>1, <2>2
  <2> QED BY <2>3 DEF StoreInv, WorkInv
<1>6. InMemory' <=> InMemory
  BY DEF InMemory
<1>7. OrphanInv'
  <2>1. NoDrop /\ imp'.step # "drop" => NoDrop'
    BY DEF NoDrop
  <2> QED BY <1>6, <2>1 DEF StoreInv, OrphanInv
<1>8. ComingInv'
  <2>1. ComingOf(imp)' = ComingOf(imp')
    BY DEF ComingOf, OwedBy, OwedOf, SourceTexts
  <2> QED BY <1>3, <1>6, <2>1 DEF ComingInv
<1>9. ImportOK(imp)'
  <2>1. ImportOK(imp)' = ImportOK(imp')
    BY DEF ImportOK, IsImport, Turns, Reads, SourcesOf, OwedOf, SourceTexts, Apart
  <2> QED BY <2>1
<1> QED BY <1>1, <1>2, <1>4, <1>5, <1>7, <1>8, <1>9 DEF StoreInv

(* A step that stores nothing and starts nothing.                          *)
Grows == IsConv(conv') /\ DOMAIN conv \subseteq DOMAIN conv'

LEMMA ImportMoves ==
  ASSUME StoreInv, Grows, UNCHANGED <<open, kind, rows, used, work, disk>>, open,
         ImportOK(imp'), BackOf(imp') \subseteq BackOf(imp) \cup IdsOf(rows),
         InMemory => ComingOf(imp') \cap IdsOf(rows) = {}, imp'.step # "drop" \/ ~InMemory
  PROVE  StoreInv'
<1>1. InMemory => NoOrphans'
  BY DEF StoreInv, OrphanInv, NoOrphans, Grows
<1>2. IsConv(conv') /\ rows' \subseteq rows /\ IdsOf(rows') = IdsOf(rows)
  BY DEF Grows
<1> QED BY <1>1, <1>2, ImportFewer

LEMMA QuietStep ==
  ASSUME StoreInv, Grows, UNCHANGED <<open, kind, rows, used, work, imp, disk>>
  PROVE  StoreInv'
<1>1. CASE open
  <2>1. ImportOK(imp') /\ BackOf(imp') \subseteq BackOf(imp) \cup IdsOf(rows)
    BY DEF StoreInv
  <2>2. (InMemory => ComingOf(imp') \cap IdsOf(rows) = {}) /\ (imp'.step # "drop" \/ ~InMemory)
    BY DEF StoreInv, ComingInv, OrphanInv, NoDrop
  <2> QED BY <1>1, <2>1, <2>2, ImportMoves
<1>2. CASE ~open
  <2>1. KeptInv'
    BY DEF StoreInv, KeptInv, Grows
  <2>2. IdleInv' /\ UsedInv' /\ WorkInv' /\ ImportOK(imp)'
    <3>1. IdleInv' /\ UsedInv' /\ WorkInv'
      BY DEF StoreInv, IdleInv, UsedInv, WorkInv, Fresh, BackOf
    <3>2. ImportOK(imp)'
      BY DEF StoreInv, ImportOK, IsImport, Turns, Reads, SourcesOf, OwedOf, SourceTexts, Apart
    <3> QED BY <3>1, <3>2
  <2>3. OrphanInv' /\ ComingInv'
    BY <1>2 DEF OrphanInv, ComingInv, InMemory
  <2> QED BY <2>1, <2>2, <2>3 DEF StoreInv
<1> QED BY <1>1, <1>2

(* What the operations on conversations return.                            *)
LEMMA ConvChanges ==
  ASSUME IsConv(conv), Rows(conv), NEW c, NEW p0, NEW C
  PROVE  /\ IsConv(Marked(c)) /\ DOMAIN Marked(c) = DOMAIN conv
         /\ IsConv(Created(c)) /\ DOMAIN conv \subseteq DOMAIN Created(c)
         /\ IsConv(Without(conv, C)) /\ DOMAIN Without(conv, C) = DOMAIN conv \ C
         /\ c \in DOMAIN conv => /\ IsConv(Pinned(c, p0)) /\ DOMAIN Pinned(c, p0) = DOMAIN conv
                                 /\ IsConv(Replaced(c, p0)) /\ DOMAIN Replaced(c, p0) = DOMAIN conv
<1>1. IsConv(Marked(c)) /\ DOMAIN Marked(c) = DOMAIN conv
  BY MarkedRows DEF Marked, IsConv
<1>2. IsConv(Created(c)) /\ DOMAIN conv \subseteq DOMAIN Created(c)
  <2>1. DOMAIN Created(c) = DOMAIN conv \cup {c}
    BY CreatedRows
  <2>2. IsFiniteSet(DOMAIN conv \cup {c})
    BY FS_AddElement DEF IsConv
  <2>3. Created(c) = [d \in DOMAIN Created(c) |-> Created(c)[d]]
    BY DEF Created, Put, IsConv
  <2> QED BY <2>1, <2>2, <2>3 DEF IsConv
<1>3. IsConv(Without(conv, C)) /\ DOMAIN Without(conv, C) = DOMAIN conv \ C
  <2>1. IsFiniteSet(DOMAIN conv \ C)
    BY FS_Subset DEF IsConv
  <2> QED BY <2>1 DEF IsConv, Without
<1>4. ASSUME c \in DOMAIN conv
      PROVE  /\ IsConv(Pinned(c, p0)) /\ DOMAIN Pinned(c, p0) = DOMAIN conv
             /\ IsConv(Replaced(c, p0)) /\ DOMAIN Replaced(c, p0) = DOMAIN conv
  <2>1. DOMAIN Pinned(c, p0) = DOMAIN conv /\ DOMAIN Replaced(c, p0) = DOMAIN conv
    BY DEF Pinned, Replaced
  <2>2. Pinned(c, p0) = [d \in DOMAIN Pinned(c, p0) |-> Pinned(c, p0)[d]]
    BY DEF Pinned
  <2>3. Replaced(c, p0) = [d \in DOMAIN Replaced(c, p0) |-> Replaced(c, p0)[d]]
    BY DEF Replaced
  <2> QED BY <2>1, <2>2, <2>3 DEF IsConv
<1> QED BY <1>1, <1>2, <1>3, <1>4

storeVars == <<open, kind, rows, used, work, imp, disk>>

LEMMA OpenedGrows ==
  ASSUME IsConv(conv), Rows(conv), Opened
  PROVE  Grows
<1>1. DOMAIN conv' = DOMAIN conv
  BY OpenedRows
<1>2. conv' = [c \in DOMAIN conv' |-> conv'[c]]
  BY DEF Opened
<1> QED BY <1>1, <1>2 DEF Grows, IsConv

LEMMA SameGrows ==
  ASSUME IsConv(conv), conv' = conv
  PROVE  Grows
BY DEF Grows

LEMMA VaultQuiet ==
  ASSUME StoreInv, Rows(conv), VaultSteps, UNCHANGED disk
  PROVE  StoreInv'
<1>0. IsConv(conv)
  BY DEF StoreInv, KeptInv
<1>1. (Opened \/ UNCHANGED conv) /\ UNCHANGED storeVars
  BY DEF VaultSteps, Lock, Unlock, SetPassphrase, Derived, Parks, storeVars
<1>2. Grows
  BY <1>0, <1>1, OpenedGrows, SameGrows
<1> QED BY <1>1, <1>2, QuietStep DEF storeVars

LEMMA MarksQuiet ==
  ASSUME StoreInv, Rows(conv), UNCHANGED disk, NEW c,
         Fail(c) \/ Create(c) \/ FlushSettles(c) \/ \E p0 \in Peer : Pin(c, p0)
  PROVE  StoreInv'
<1>0. IsConv(conv)
  BY DEF StoreInv, KeptInv
<1>1. CASE Fail(c)
  <2>1. (conv' = conv \/ conv' = Marked(c)) /\ UNCHANGED storeVars
    BY <1>1 DEF Fail, storeVars
  <2>2. CASE conv' = conv
    BY <1>0, <2>1, <2>2, SameGrows, QuietStep DEF storeVars
  <2>3. CASE conv' = Marked(c)
    <3>1. Grows
      BY <1>0, <2>3, ConvChanges DEF Grows
    <3> QED BY <2>1, <3>1, QuietStep DEF storeVars
  <2> QED BY <2>1, <2>2, <2>3
<1>2. CASE Create(c)
  <2>1. conv' = Created(c) /\ UNCHANGED storeVars
    BY <1>2 DEF Create, storeVars
  <2>2. Grows
    BY <1>0, <2>1, ConvChanges DEF Grows
  <2> QED BY <2>1, <2>2, QuietStep DEF storeVars
<1>3. CASE FlushSettles(c)
  <2>1. conv' = conv /\ UNCHANGED storeVars
    BY <1>3 DEF FlushSettles, storeVars
  <2> QED BY <1>0, <2>1, SameGrows, QuietStep DEF storeVars
<1>4. ASSUME NEW p0 \in Peer, Pin(c, p0) PROVE StoreInv'
  <2>1. c \in DOMAIN conv /\ conv' = Pinned(c, p0) /\ UNCHANGED storeVars
    BY <1>4 DEF Pin, storeVars
  <2>2. Grows
    BY <1>0, <2>1, ConvChanges DEF Grows
  <2> QED BY <2>1, <2>2, QuietStep DEF storeVars
<1> QED BY <1>1, <1>2, <1>3, <1>4

(* The import is not touched.                                              *)
LEMMA SameImport ==
  ASSUME UNCHANGED imp
  PROVE  /\ BackOf(imp)' = BackOf(imp) /\ ComingOf(imp)' = ComingOf(imp)
         /\ ImportOK(imp) => ImportOK(imp)'
<1>1. BackOf(imp)' = BackOf(imp)
  BY DEF BackOf
<1>2. ComingOf(imp)' = ComingOf(imp)
  BY DEF ComingOf, OwedBy, OwedOf, SourceTexts
<1>3. ImportOK(imp) => ImportOK(imp)'
  BY DEF ImportOK, IsImport, Turns, Reads, SourcesOf, OwedOf, SourceTexts, Apart
<1> QED BY <1>1, <1>2, <1>3

LEMMA AppendKinds ==
  ASSUME NEW c, NEW t, NEW w, w = [op |-> "append", conv |-> c, text |-> t]
  PROVE  IsAppend(w) /\ w.text = t /\ w.conv = c /\ ~ IsClear(w) /\ w.op = "append"
BY DEF IsAppend, IsClear

LEMMA ClearKinds ==
  ASSUME NEW C, NEW all, NEW at, NEW w,
         w = [op |-> "clear", convs |-> C, all |-> all, at |-> at]
  PROVE  IsClear(w) /\ w.at = at /\ w.convs = C /\ w.all = all /\ ~ IsAppend(w) /\ w.op = "clear"
BY DEF IsAppend, IsClear

LEMMA AppendInvStep ==
  ASSUME StoreInv, UNCHANGED disk, NEW c, NEW t \in Text, AppendMessage(c, t)
  PROVE  StoreInv'
<1> DEFINE w0 == [op |-> "append", conv |-> c, text |-> t]
<1>1. /\ open /\ t \notin used /\ used' = used \cup {t} /\ work' = work \cup {w0}
      /\ UNCHANGED <<open, kind, conv, rows, imp>>
  BY DEF AppendMessage
<1>2. IsAppend(w0) /\ w0.text = t /\ ~ IsClear(w0)
  BY AppendKinds
<1> HIDE DEF w0
<1>3. KeptInv' /\ IdleInv'
  BY <1>1 DEF StoreInv, KeptInv, IdleInv
<1>4. UsedInv'
  BY <1>1, SameImport DEF StoreInv, UsedInv
<1>5. ASSUME NEW x, Fresh(x) PROVE Fresh(x)' /\ x \in used
  BY <1>1, <1>5, SameImport DEF Fresh
<1>6. Fresh(t)'
  <2>1. t # Blank
    BY FilesAssumption
  <2>2. t \in used' /\ t \notin FileTexts /\ t \notin IdsOf(rows) /\ t \notin BackOf(imp)
    BY <1>1 DEF StoreInv, UsedInv
  <2> QED BY <1>1, <2>1, <2>2, SameImport DEF Fresh
<1>7. WorkInv'
  <2>1. ASSUME NEW w \in work' PROVE (IsAppend(w) /\ Fresh(w.text)') \/ IsClear(w)
    <3>1. CASE w = w0
      BY <1>2, <1>6, <3>1
    <3>2. CASE w \in work
      BY <1>5, <3>2 DEF StoreInv, WorkInv
    <3> QED BY <1>1, <3>1, <3>2
  <2>2. ASSUME NEW w \in work, IsAppend(w) PROVE w.text # t
    <3>1. ~ IsClear(w)
      <4>1. w.op = "append"
        BY <2>2 DEF IsAppend
      <4> QED BY <4>1 DEF IsClear
    <3>2. Fresh(w.text)
      BY <3>1 DEF StoreInv, WorkInv
    <3> QED BY <1>1, <1>5, <3>2
  <2>3. ASSUME NEW w \in work', NEW v \in work', IsAppend(w), IsAppend(v), w.text = v.text
        PROVE  w = v
    <3>1. CASE w \in work /\ v \in work
      BY <2>3, <3>1 DEF StoreInv, WorkInv
    <3>2. CASE w = w0
      BY <1>1, <1>2, <2>2, <2>3, <3>2
    <3>3. CASE v = w0
      BY <1>1, <1>2, <2>2, <2>3, <3>3
    <3> QED BY <1>1, <3>1, <3>2, <3>3
  <2> QED BY <2>1, <2>3 DEF WorkInv
<1>8. OrphanInv' /\ ComingInv'
  <2>1. InMemory' <=> InMemory
    BY <1>1 DEF InMemory
  <2>2. NoOrphans => NoOrphans'
    BY <1>1 DEF NoOrphans
  <2>3. NoDrop => NoDrop'
    BY <1>1, <1>2 DEF NoDrop
  <2>4. ComingInv'
    BY <1>1, <2>1, SameImport DEF StoreInv, ComingInv
  <2> QED BY <2>1, <2>2, <2>3, <2>4 DEF StoreInv, OrphanInv
<1> QED BY <1>1, <1>3, <1>4, <1>7, <1>8, SameImport DEF StoreInv

LEMMA WorkKinds ==
  ASSUME StoreInv, NEW w \in work
  PROVE  /\ open
         /\ w.op = "append" => IsAppend(w) /\ Fresh(w.text)
         /\ w.op = "clear" => IsClear(w)
<1>1. open
  BY DEF StoreInv, IdleInv
<1>2. (IsAppend(w) /\ Fresh(w.text)) \/ IsClear(w)
  BY DEF StoreInv, WorkInv
<1>3. IsAppend(w) => w.op = "append"
  BY DEF IsAppend
<1>4. IsClear(w) => w.op = "clear"
  BY DEF IsClear
<1> QED BY <1>1, <1>2, <1>3, <1>4

(* Rows go, and at most one clear is begun or moves on.                    *)
LEMMA FewerRows ==
  ASSUME StoreInv, open, UNCHANGED <<open, kind, used, imp, disk>>,
         rows' \subseteq rows, IsConv(conv'), NEW d, IsClear(d), ~ IsAppend(d),
         work' \subseteq work \cup {d},
         InMemory => NoOrphans' /\ d.at # "drop"
  PROVE  StoreInv'
<1>1. KeptInv'
  <2>1. Fine(rows')
    BY FS_Subset DEF StoreInv, KeptInv, Fine
  <2> QED BY <2>1 DEF StoreInv, KeptInv, Fine
<1>2. IdleInv'
  BY DEF IdleInv
<1>3. IdsOf(rows') \subseteq IdsOf(rows) /\ IdsOf(rows)' = IdsOf(rows')
  BY DEF IdsOf
<1>4. UsedInv'
  BY <1>3, SameImport DEF StoreInv, UsedInv, IdsOf
<1>5. WorkInv'
  <2>1. ASSUME NEW t, Fresh(t) PROVE Fresh(t)'
    BY <1>3, <2>1, SameImport DEF Fresh
  <2>2. ASSUME NEW w \in work' PROVE (IsAppend(w) /\ Fresh(w.text)') \/ IsClear(w)
    BY <2>1 DEF StoreInv, WorkInv
  <2>3. ASSUME NEW w \in work', NEW v \in work', IsAppend(w), IsAppend(v), w.text = v.text
        PROVE  w = v
    BY <2>3 DEF StoreInv, WorkInv
  <2> QED BY <2>2, <2>3 DEF WorkInv
<1>6. InMemory' <=> InMemory
  BY DEF InMemory
<1>7. OrphanInv'
  <2>1. NoDrop /\ d.at # "drop" => NoDrop'
    BY DEF NoDrop
  <2> QED BY <1>6, <2>1 DEF StoreInv, OrphanInv
<1>8. ComingInv'
  BY <1>3, <1>6, SameImport DEF StoreInv, ComingInv
<1> QED BY <1>1, <1>2, <1>4, <1>5, <1>7, <1>8, SameImport DEF StoreInv

LEMMA ClearStartsInv ==
  ASSUME StoreInv, Rows(conv), open, NEW C, NEW gone, NEW all, ClearStarts(C, gone, all),
         UNCHANGED <<open, kind, used, imp, disk>>,
         InMemory => \A r \in rows \ gone : r[1] \notin C
  PROVE  StoreInv'
<1>0. IsConv(conv) /\ rows' = rows \ gone /\ rows' \subseteq rows
  BY DEF StoreInv, KeptInv, ClearStarts
<1>1. CASE kind = "browser" /\ gone # {}
  <2> DEFINE d == Clearing(C, all)
  <2>1. work' = work \cup {d} /\ conv' = conv
    BY <1>1 DEF ClearStarts
  <2>2. IsClear(d) /\ ~ IsAppend(d)
    BY ClearKinds DEF Clearing
  <2>3. ~ InMemory
    BY <1>1 DEF InMemory
  <2> HIDE DEF d
  <2> QED BY <1>0, <2>1, <2>2, <2>3, FewerRows
<1>2. CASE ~ (kind = "browser" /\ gone # {})
  <2> DEFINE d == [Clearing(C, all) EXCEPT !.at = "forget"]
  <2>1. work' = work \cup {d} /\ conv' = Without(conv, C)
    BY <1>2 DEF ClearStarts
  <2>2. d = [op |-> "clear", convs |-> C, all |-> all, at |-> "forget"]
    BY DEF Clearing
  <2>3. IsClear(d) /\ ~ IsAppend(d) /\ d.at # "drop"
    <3> HIDE DEF d
    <3> QED BY <2>2, ClearKinds
  <2>4. IsConv(conv') /\ DOMAIN conv' = DOMAIN conv \ C
    BY <1>0, <2>1, ConvChanges
  <2>5. InMemory => NoOrphans'
    <3>1. InMemory => NoOrphans
      BY DEF StoreInv, OrphanInv
    <3> QED BY <1>0, <2>4, <3>1 DEF NoOrphans
  <2> HIDE DEF d
  <2> QED BY <1>0, <2>1, <2>3, <2>4, <2>5, FewerRows
<1> QED BY <1>1, <1>2

LEMMA ClearsInv ==
  ASSUME StoreInv, Rows(conv), UNCHANGED disk, ClearAll \/ \E c \in Conversation : ClearConversation(c)
  PROVE  StoreInv'
<1>1. CASE ClearAll
  <2>1. open /\ ClearStarts(DOMAIN conv, rows, TRUE) /\ UNCHANGED <<open, kind, used, imp>>
    BY <1>1 DEF ClearAll
  <2> QED BY <2>1, ClearStartsInv
<1>2. ASSUME NEW c \in Conversation, ClearConversation(c) PROVE StoreInv'
  <2>1. open /\ ClearStarts({c}, RowsOf({c}), FALSE) /\ UNCHANGED <<open, kind, used, imp>>
    BY <1>2 DEF ClearConversation
  <2>2. \A r \in rows \ RowsOf({c}) : r[1] \notin {c}
    BY DEF RowsOf
  <2> QED BY <2>1, <2>2, ClearStartsInv
<1> QED BY <1>1, <1>2

LEMMA ClearMovesInv ==
  ASSUME StoreInv, Rows(conv), UNCHANGED disk, NEW w \in work, ClearDrops(w) \/ ClearForgets(w)
  PROVE  StoreInv'
<1>0. IsConv(conv) /\ open /\ IsClear(w)
  BY WorkKinds DEF StoreInv, KeptInv, ClearDrops, ClearForgets
<1>1. UNCHANGED <<open, kind, used, imp, rows>>
  BY DEF ClearDrops, ClearForgets
<1>2. ~ IsAppend(w)
  BY <1>0 DEF IsClear, IsAppend
<1>3. CASE ClearDrops(w)
  <2> DEFINE d == [w EXCEPT !.at = "forget"]
  <2>1. /\ w.at = "drop"
        /\ \/ work' = (work \ {w}) \cup {d} /\ conv' = Without(conv, w.convs)
           \/ work' = work \ {w} /\ conv' = conv
    BY <1>3 DEF ClearDrops
  <2>2. ~ InMemory
    BY <1>0, <2>1 DEF StoreInv, OrphanInv, NoDrop
  <2>3. IsClear(d) /\ ~ IsAppend(d)
    <3>1. d = [op |-> "clear", convs |-> w.convs, all |-> w.all, at |-> "forget"]
      BY <1>0 DEF IsClear
    <3> HIDE DEF d
    <3> QED BY <3>1, ClearKinds
  <2>4. IsConv(conv') /\ work' \subseteq work \cup {d}
    <3> HIDE DEF d
    <3>1. CASE work' = (work \ {w}) \cup {d} /\ conv' = Without(conv, w.convs)
      BY <1>0, <3>1, ConvChanges
    <3>2. CASE work' = work \ {w} /\ conv' = conv
      BY <1>0, <3>2
    <3> QED BY <2>1, <3>1, <3>2
  <2> HIDE DEF d
  <2> QED BY <1>0, <1>1, <2>2, <2>3, <2>4, FewerRows
<1>4. CASE ClearForgets(w)
  <2>1. w.at = "forget" /\ work' = work \ {w} /\ conv' = conv
    BY <1>4 DEF ClearForgets
  <2>2. InMemory => NoOrphans' /\ w.at # "drop"
    BY <1>1, <2>1 DEF StoreInv, OrphanInv, NoOrphans
  <2> QED BY <1>0, <1>1, <1>2, <2>1, <2>2, FewerRows
<1> QED BY <1>3, <1>4

(* One row more, under an id of its own.                                   *)
LEMMA FineMore ==
  ASSUME NEW R, Fine(R), NEW c, NEW t, t # Blank, t \notin IdsOf(R)
  PROVE  Fine(R \cup {<<c, t>>}) /\ IdsOf(R \cup {<<c, t>>}) = IdsOf(R) \cup {t}
<1> DEFINE z == <<c, t>>
<1>1. z = <<z[1], z[2]>> /\ z[2] = t
  OBVIOUS
<1> HIDE DEF z
<1>2. IsFiniteSet(R \cup {z})
  BY FS_AddElement DEF Fine
<1>3. \A r \in R : r[2] # t
  BY DEF IdsOf
<1>4. IdsOf(R \cup {z}) = IdsOf(R) \cup {t}
  BY <1>1 DEF IdsOf
<1>5. Fine(R \cup {z})
  BY <1>1, <1>2, <1>3 DEF Fine
<1> QED BY <1>4, <1>5 DEF z

(* What an import has still to append comes from a bundle, or from what the *)
(* Replace had read.                                                       *)
LEMMA OwedKnown ==
  ASSUME NEW i, ImportOK(i), NEW H, H \subseteq SourcesOf(i)
  PROVE  OwedBy(i, H) \subseteq FileTexts \cup BackOf(i)
BY SourcesKnown DEF OwedBy, OwedOf

LEMMA ComingKnown ==
  ASSUME NEW i, ImportOK(i)
  PROVE  ComingOf(i) \subseteq FileTexts \cup BackOf(i)
<1> DEFINE K == FileTexts \cup BackOf(i)
<1>1. \A h \in SourcesOf(i) : OwedOf(i, h) \subseteq K
  BY SourcesKnown DEF OwedOf
<1>2. CASE i.step = "forget"
  <2>1. SourcesOf(i) = DOMAIN i.from
    BY <1>2 DEF SourcesOf, ImportOK, Turns
  <2>2. ComingOf(i) = OwedBy(i, DOMAIN i.from)
    BY <1>2 DEF ComingOf
  <2> QED BY <2>1, <2>2, OwedKnown
<1>3. CASE i.step = "next"
  <2>1. i.todo \subseteq SourcesOf(i) /\ ComingOf(i) = OwedBy(i, i.todo)
    BY <1>3 DEF ImportOK, Turns, ComingOf
  <2> QED BY <2>1, OwedKnown
<1>4. CASE i.step \in {"pin", "text"}
  <2>1. i.todo \subseteq SourcesOf(i) /\ i.cur \in SourcesOf(i) /\ i.left \subseteq OwedOf(i, i.cur)
        /\ ComingOf(i) = i.left \cup OwedBy(i, i.todo)
    BY <1>4 DEF ImportOK, Turns, ComingOf
  <2>2. OwedBy(i, i.todo) \subseteq K
    BY <2>1, OwedKnown
  <2> HIDE DEF K
  <2> QED BY <1>1, <2>1, <2>2 DEF K
<1>5. CASE i.step = "seal"
  <2>1. i.todo \subseteq SourcesOf(i) /\ i.cur \in SourcesOf(i) /\ i.left \subseteq OwedOf(i, i.cur)
        /\ i.text \in OwedOf(i, i.cur) /\ ComingOf(i) = i.left \cup {i.text} \cup OwedBy(i, i.todo)
    BY <1>5 DEF ImportOK, Turns, ComingOf
  <2>2. OwedBy(i, i.todo) \subseteq K
    BY <2>1, OwedKnown
  <2> HIDE DEF K
  <2> QED BY <1>1, <2>1, <2>2 DEF K
<1>6. CASE i.step \notin {"forget", "next", "pin", "text", "seal"}
  BY <1>6 DEF ComingOf
<1> QED BY <1>2, <1>3, <1>4, <1>5, <1>6

LEMMA SealedInv ==
  ASSUME StoreInv, UNCHANGED disk, NEW w \in work, Sealed(w)
  PROVE  StoreInv'
<1>0. open /\ IsAppend(w) /\ Fresh(w.text)
  BY WorkKinds DEF Sealed
<1>1. /\ work' = work \ {w} /\ UNCHANGED <<open, kind, conv, used, imp>>
      /\ \/ rows' = rows
         \/ w.conv \in DOMAIN conv /\ rows' = rows \cup {<<w.conv, w.text>>}
  BY DEF Sealed, Inserts
<1>2. CASE rows' = rows
  <2>1. KeptInv' /\ IdleInv'
    BY <1>0, <1>1, <1>2 DEF StoreInv, KeptInv, IdleInv
  <2>2. UsedInv'
    BY <1>1, <1>2, SameImport DEF StoreInv, UsedInv
  <2>3. ASSUME NEW t, Fresh(t) PROVE Fresh(t)'
    BY <1>1, <1>2, <2>3, SameImport DEF Fresh
  <2>4. WorkInv'
    BY <1>1, <2>3 DEF StoreInv, WorkInv
  <2>5. InMemory' <=> InMemory
    BY <1>1 DEF InMemory
  <2>6. OrphanInv' /\ ComingInv'
    BY <1>1, <1>2, <2>5, SameImport DEF StoreInv, OrphanInv, ComingInv, NoOrphans, NoDrop
  <2> QED BY <1>1, <2>1, <2>2, <2>4, <2>6, SameImport DEF StoreInv
<1>3. CASE w.conv \in DOMAIN conv /\ rows' = rows \cup {<<w.conv, w.text>>}
  <2>0. Fine(rows) /\ w.text # Blank /\ w.text \notin IdsOf(rows) /\ w.text \in used
        /\ w.text \notin FileTexts /\ w.text \notin BackOf(imp)
    BY <1>0 DEF StoreInv, KeptInv, Fresh
  <2>1. Fine(rows') /\ IdsOf(rows') = IdsOf(rows) \cup {w.text} /\ IdsOf(rows)' = IdsOf(rows')
    BY <1>3, <2>0, FineMore DEF IdsOf
  <2>2. KeptInv' /\ IdleInv'
    BY <1>0, <1>1, <2>1 DEF StoreInv, KeptInv, IdleInv, Fine
  <2>3. UsedInv'
    BY <1>1, <2>0, <2>1, SameImport DEF StoreInv, UsedInv
  <2>4. ASSUME NEW t, Fresh(t), t # w.text PROVE Fresh(t)'
    BY <1>1, <2>1, <2>4, SameImport DEF Fresh
  <2>5. WorkInv'
    <3>1. ASSUME NEW v \in work', ~ IsClear(v) PROVE IsAppend(v) /\ Fresh(v.text)'
      <4>1. IsAppend(v) /\ Fresh(v.text) /\ v # w
        BY <1>1, <3>1 DEF StoreInv, WorkInv
      <4>2. v.text # w.text
        BY <1>0, <1>1, <4>1 DEF StoreInv, WorkInv
      <4> QED BY <2>4, <4>1, <4>2
    <3> QED BY <1>1, <3>1 DEF StoreInv, WorkInv
  <2>6. InMemory' <=> InMemory
    BY <1>1 DEF InMemory
  <2>7. OrphanInv'
    <3>1. NoOrphans => NoOrphans'
      BY <1>1, <1>3 DEF NoOrphans
    <3>2. NoDrop => NoDrop'
      BY <1>1 DEF NoDrop
    <3> QED BY <2>6, <3>1, <3>2 DEF StoreInv, OrphanInv
  <2>8. ComingInv'
    <3>1. w.text \notin ComingOf(imp)
      BY <2>0, ComingKnown DEF StoreInv
    <3> QED BY <1>1, <2>1, <2>6, <3>1, SameImport DEF StoreInv, ComingInv
  <2> QED BY <1>1, <2>2, <2>3, <2>5, <2>7, <2>8, SameImport DEF StoreInv
<1> QED BY <1>1, <1>2, <1>3

-----------------------------------------------------------------------------
(* The steps of an import.                                                 *)
LEMMA Importing ==
  ASSUME StoreInv, imp.mode # "none" \/ imp.step # "idle"
  PROVE  open
BY DEF StoreInv, IdleInv, NoImport

(* It reads the bundle, or what the Replace had read, as before.           *)
SameReading(j) == /\ IsImport(j) /\ j.mode = imp.mode /\ j.from = imp.from
                  /\ j.back = imp.back /\ j.ids = imp.ids

LEMMA SameReadingFacts ==
  ASSUME ImportOK(imp), NEW j, SameReading(j)
  PROVE  /\ SourcesOf(j) = SourcesOf(imp) /\ BackOf(j) = BackOf(imp) /\ Reads(j)
         /\ j.mode \in {"none", "merge", "replace", "restore"}
         /\ \A h : OwedOf(j, h) = OwedOf(imp, h)
         /\ \A H : OwedBy(j, H) = OwedBy(imp, H)
<1>1. SourcesOf(j) = SourcesOf(imp) /\ BackOf(j) = BackOf(imp) /\ Reads(j)
  BY DEF SameReading, SourcesOf, BackOf, Reads, ImportOK
<1>2. \A h : OwedOf(j, h) = OwedOf(imp, h)
  BY DEF SameReading, OwedOf, SourceTexts
<1>3. \A H : OwedBy(j, H) = OwedBy(imp, H)
  BY <1>2 DEF OwedBy
<1> QED BY <1>1, <1>2, <1>3 DEF SameReading, ImportOK

LEMMA NothingComes ==
  ASSUME NEW i, i.step \in {"idle", "wipe", "drop"}
  PROVE  ComingOf(i) = {}
BY DEF ComingOf

LEMMA NoImportOK == ImportOK(NoImport) /\ BackOf(NoImport) = {} /\ NoImport.step = "idle"
<1> DEFINE i == NoImport
<1>1. IsImport(i) /\ i.mode = "none" /\ i.step = "idle" /\ i.from = <<>> /\ i.back = <<>> /\ i.ids = {}
  BY DEF NoImport, IsImport
<1>2. DOMAIN <<>> = {}
  OBVIOUS
<1> HIDE DEF i
<1>3. Turns(i)
  BY <1>1 DEF Turns
<1>4. Reads(i)
  BY <1>1, <1>2 DEF Reads, Apart
<1>5. BackOf(i) = {}
  BY <1>1, <1>2 DEF BackOf
<1> QED BY <1>1, <1>3, <1>4, <1>5 DEF ImportOK, i

LEMMA FailingFacts ==
  ASSUME ImportOK(imp), Failing
  PROVE  /\ ImportOK(imp') /\ BackOf(imp') \subseteq BackOf(imp)
         /\ imp'.step \in {"idle", "wipe"} /\ ComingOf(imp') = {}
<1>1. CASE imp' = NoImport
  BY <1>1, NoImportOK, NothingComes
<1>2. CASE imp.mode = "replace" /\ imp' = [imp EXCEPT !.mode = "restore", !.step = "wipe", !.cur = Nobody]
  <2>1. IsImport(imp) /\ Reads(imp)
    BY DEF ImportOK
  <2>2. imp' = [mode |-> "restore", step |-> "wipe", from |-> imp.from, todo |-> imp.todo, cur |-> Nobody,
                left |-> imp.left, text |-> imp.text, ids |-> imp.ids, back |-> imp.back]
    BY <1>2, <2>1 DEF IsImport
  <2>3. IsImport(imp') /\ imp'.mode = "restore" /\ imp'.step = "wipe" /\ imp'.from = imp.from
        /\ imp'.back = imp.back /\ imp'.ids = imp.ids
    BY <2>2 DEF IsImport
  <2>4. Turns(imp')
    BY <2>3 DEF Turns
  <2>5. Reads(imp')
    BY <1>2, <2>1, <2>3 DEF Reads
  <2>6. BackOf(imp') = BackOf(imp)
    BY <2>3 DEF BackOf
  <2>7. ImportOK(imp') /\ imp'.step \in {"idle", "wipe"}
    BY <2>3, <2>4, <2>5 DEF ImportOK
  <2> QED BY <2>6, <2>7, NothingComes
<1>3. (imp.mode = "replace" /\ imp' = [imp EXCEPT !.mode = "restore", !.step = "wipe", !.cur = Nobody])
      \/ imp' = NoImport
  BY DEF Failing
<1> QED BY <1>1, <1>2, <1>3

LEMMA FailingInv ==
  ASSUME StoreInv, open, Grows, Failing, UNCHANGED <<open, kind, rows, used, work, disk>>
  PROVE  StoreInv'
<1>1. /\ ImportOK(imp') /\ BackOf(imp') \subseteq BackOf(imp) \cup IdsOf(rows)
      /\ ComingOf(imp') = {} /\ imp'.step # "drop"
  BY FailingFacts DEF StoreInv
<1> QED BY <1>1, ImportMoves

LEMMA ThrowsInv ==
  ASSUME StoreInv, UNCHANGED disk, ImportThrows
  PROVE  StoreInv'
<1>1. open
  BY Importing DEF ImportThrows
<1>2. Grows
  BY SameGrows DEF StoreInv, KeptInv, ImportThrows
<1>3. Failing /\ UNCHANGED <<open, kind, rows, used, work>>
  BY DEF ImportThrows
<1> QED BY <1>1, <1>2, <1>3, FailingInv

LEMMA EndsInv ==
  ASSUME StoreInv, UNCHANGED disk, ImportEnds
  PROVE  StoreInv'
<1>1. open
  BY Importing DEF ImportEnds
<1>2. Grows
  BY SameGrows DEF StoreInv, KeptInv, ImportEnds
<1>3. imp' = NoImport /\ UNCHANGED <<open, kind, rows, used, work>>
  BY DEF ImportEnds
<1>4. ImportOK(imp') /\ BackOf(imp') = {} /\ imp'.step = "idle" /\ ComingOf(imp') = {}
  BY <1>3, NoImportOK, NothingComes
<1> QED BY <1>1, <1>2, <1>3, <1>4, ImportMoves

(* The old rows go.                                                        *)
LEMMA AfterWipeFacts ==
  ASSUME ImportOK(imp), imp.step \in {"wipe", "drop"}
  PROVE  ImportOK(AfterWipe) /\ BackOf(AfterWipe) = BackOf(imp) /\ AfterWipe.step \in {"forget", "next"}
<1>0. IsImport(imp) /\ imp.mode \in {"replace", "restore"}
  BY DEF ImportOK, Turns
<1>1. CASE imp.mode = "replace"
  <2> DEFINE j == AfterWipe
  <2>1. j = [mode |-> imp.mode, step |-> "forget", from |-> imp.from, todo |-> imp.todo, cur |-> imp.cur,
             left |-> imp.left, text |-> imp.text, ids |-> imp.ids, back |-> imp.back]
    BY <1>0, <1>1 DEF IsImport, AfterWipe
  <2> HIDE DEF j
  <2>2. SameReading(j) /\ j.step = "forget"
    BY <2>1 DEF SameReading, IsImport
  <2>3. Turns(j)
    BY <1>1, <2>2 DEF Turns, SameReading
  <2> QED BY <2>2, <2>3, SameReadingFacts DEF ImportOK, SameReading, j
<1>2. CASE imp.mode = "restore"
  <2> DEFINE j == AfterWipe
             H == {Hex(c, FALSE) : c \in DOMAIN imp.back}
  <2>1. j = [mode |-> imp.mode, step |-> "next", from |-> imp.from, todo |-> H, cur |-> imp.cur,
             left |-> imp.left, text |-> imp.text, ids |-> imp.ids, back |-> imp.back]
    BY <1>0, <1>2 DEF IsImport, AfterWipe
  <2>2. SourcesOf(imp) = H
    BY <1>2 DEF SourcesOf
  <2> HIDE DEF j, H
  <2>3. SameReading(j) /\ j.step = "next" /\ j.todo = H
    BY <2>1 DEF SameReading, IsImport
  <2>4. SourcesOf(j) = H
    BY <2>2, <2>3, SameReadingFacts
  <2>5. Turns(j)
    BY <2>3, <2>4 DEF Turns
  <2> QED BY <2>3, <2>5, SameReadingFacts DEF ImportOK, SameReading, j
<1> QED BY <1>0, <1>1, <1>2

LEMMA WipesInv ==
  ASSUME StoreInv, UNCHANGED disk, ImportWipes
  PROVE  StoreInv'
<1>0. open /\ IsConv(conv) /\ ImportOK(imp) /\ imp.step = "wipe"
  BY Importing DEF ImportWipes, StoreInv, KeptInv
<1>1. rows' = {} /\ UNCHANGED <<open, kind, used, work>>
      /\ \/ kind = "browser" /\ conv' = conv /\ imp' = [imp EXCEPT !.step = "drop", !.todo = DOMAIN conv]
         \/ conv' = <<>> /\ imp' = AfterWipe
  BY DEF ImportWipes
<1>2. ComingOf(imp') \cap IdsOf(rows') = {} /\ NoOrphans' /\ rows' \subseteq rows
  BY <1>1 DEF IdsOf, NoOrphans
<1>3. CASE kind = "browser" /\ conv' = conv /\ imp' = [imp EXCEPT !.step = "drop", !.todo = DOMAIN conv]
  <2>1. IsImport(imp) /\ imp.mode \in {"replace", "restore"}
    BY <1>0 DEF ImportOK, Turns
  <2>2. imp' = [mode |-> imp.mode, step |-> "drop", from |-> imp.from, todo |-> DOMAIN conv, cur |-> imp.cur,
                left |-> imp.left, text |-> imp.text, ids |-> imp.ids, back |-> imp.back]
    BY <1>3, <2>1 DEF IsImport
  <2>3. SameReading(imp') /\ imp'.step = "drop"
    BY <2>2 DEF SameReading, IsImport
  <2>4. Turns(imp')
    BY <2>1, <2>3 DEF Turns, SameReading
  <2>5. ImportOK(imp') /\ BackOf(imp') = BackOf(imp)
    BY <1>0, <2>3, <2>4, SameReadingFacts DEF ImportOK, SameReading
  <2>6. ~ InMemory
    BY <1>3 DEF InMemory
  <2> QED BY <1>0, <1>1, <1>2, <1>3, <2>5, <2>6, ImportFewer
<1>4. CASE conv' = <<>> /\ imp' = AfterWipe
  <2>1. IsConv(<<>>)
    <3>1. DOMAIN <<>> = {} /\ IsFiniteSet({})
      BY FS_EmptySet
    <3>2. <<>> = [c \in {} |-> <<>>[c]]
      OBVIOUS
    <3> QED BY <3>1, <3>2 DEF IsConv
  <2>2. ImportOK(imp') /\ BackOf(imp') = BackOf(imp) /\ imp'.step # "drop"
    BY <1>0, <1>4, AfterWipeFacts
  <2>3. IsConv(conv')
    BY <1>4, <2>1
  <2> QED BY <1>0, <1>1, <1>2, <2>2, <2>3, ImportFewer
<1> QED BY <1>1, <1>3, <1>4

LEMMA DropsInv ==
  ASSUME StoreInv, Rows(conv), UNCHANGED disk, ImportDrops
  PROVE  StoreInv'
<1>0. open /\ IsConv(conv) /\ ImportOK(imp) /\ imp.step = "drop"
  BY Importing DEF ImportDrops, StoreInv, KeptInv
<1>1. ~ InMemory
  BY <1>0 DEF StoreInv, OrphanInv, NoDrop
<1>2. rows' \subseteq rows /\ UNCHANGED <<open, kind, rows, used, work>>
      /\ \/ conv' = Without(conv, imp.todo) /\ imp' = AfterWipe
         \/ conv' = conv /\ Failing
  BY DEF ImportDrops
<1>3. CASE conv' = Without(conv, imp.todo) /\ imp' = AfterWipe
  <2>1. IsConv(conv')
    BY <1>0, <1>3, ConvChanges
  <2>2. ImportOK(imp') /\ BackOf(imp') = BackOf(imp)
    BY <1>0, <1>3, AfterWipeFacts
  <2> QED BY <1>0, <1>1, <1>2, <2>1, <2>2, ImportFewer
<1>4. CASE conv' = conv /\ Failing
  BY <1>0, <1>2, <1>4, SameGrows, FailingInv
<1> QED BY <1>2, <1>3, <1>4

LEMMA ForgetsInv ==
  ASSUME StoreInv, UNCHANGED disk, ImportForgets
  PROVE  StoreInv'
<1>0. open /\ ImportOK(imp) /\ imp.step = "forget" /\ Grows
  BY Importing, SameGrows DEF ImportForgets, StoreInv, KeptInv
<1>1. UNCHANGED <<open, kind, rows, used, work>>
      /\ imp' = [imp EXCEPT !.step = "next", !.todo = DOMAIN imp.from]
  BY DEF ImportForgets
<1>2. IsImport(imp) /\ imp.mode = "replace"
  BY <1>0 DEF ImportOK, Turns
<1>3. imp' = [mode |-> imp.mode, step |-> "next", from |-> imp.from, todo |-> DOMAIN imp.from, cur |-> imp.cur,
              left |-> imp.left, text |-> imp.text, ids |-> imp.ids, back |-> imp.back]
  BY <1>1, <1>2 DEF IsImport
<1>5. SameReading(imp') /\ imp'.step = "next" /\ imp'.todo = DOMAIN imp.from
  BY <1>3 DEF SameReading, IsImport
<1>6. SourcesOf(imp') = DOMAIN imp.from
  BY <1>0, <1>2, <1>5, SameReadingFacts DEF SourcesOf
<1>7. Turns(imp')
  BY <1>5, <1>6 DEF Turns
<1>8. ImportOK(imp') /\ BackOf(imp') = BackOf(imp)
  BY <1>0, <1>5, <1>7, SameReadingFacts DEF ImportOK, SameReading
<1>9. ComingOf(imp') = ComingOf(imp)
  <2>1. ComingOf(imp') = OwedBy(imp', DOMAIN imp.from)
    BY <1>5 DEF ComingOf
  <2>2. ComingOf(imp) = OwedBy(imp, DOMAIN imp.from)
    BY <1>0 DEF ComingOf
  <2> QED BY <1>0, <1>5, <2>1, <2>2, SameReadingFacts
<1>10. InMemory => ComingOf(imp) \cap IdsOf(rows) = {}
  BY DEF StoreInv, ComingInv
<1> QED BY <1>0, <1>1, <1>5, <1>8, <1>9, <1>10, ImportMoves

(* A step of the import that takes nothing on: it owes a part of what it    *)
(* owed, to the conversations it has still to take.                        *)
LEMMA StillOwed ==
  ASSUME ImportOK(imp), NEW j, SameReading(j), NEW H, H \subseteq imp.todo
  PROVE  OwedBy(j, H) \subseteq OwedBy(imp, imp.todo)
<1>1. OwedBy(j, H) = OwedBy(imp, H)
  BY SameReadingFacts
<1>2. OwedBy(imp, H) \subseteq OwedBy(imp, imp.todo)
  BY DEF OwedBy
<1> QED BY <1>1, <1>2

LEMMA MovesOn ==
  ASSUME StoreInv, Grows, UNCHANGED <<open, kind, rows, used, work, disk>>, open,
         SameReading(imp'), Turns(imp'), imp'.step \in {"next", "pin", "text", "seal"},
         ComingOf(imp') \subseteq ComingOf(imp)
  PROVE  StoreInv'
<1>1. ImportOK(imp') /\ BackOf(imp') = BackOf(imp)
  BY SameReadingFacts DEF ImportOK, SameReading, StoreInv
<1>2. InMemory => ComingOf(imp') \cap IdsOf(rows) = {}
  BY DEF StoreInv, ComingInv
<1> QED BY <1>1, <1>2, ImportMoves

LEMMA TurnFacts ==
  ASSUME ImportOK(imp), imp.step = "next", NEW h \in imp.todo, NEW s \in {"pin", "text"}, imp' = Turn(h, s)
  PROVE  /\ SameReading(imp') /\ Turns(imp') /\ imp'.step = s
         /\ ComingOf(imp') \subseteq ComingOf(imp)
<1>0. IsImport(imp) /\ imp.todo \subseteq SourcesOf(imp)
  BY DEF ImportOK, Turns
<1>1. imp' = [mode |-> imp.mode, step |-> s, from |-> imp.from, todo |-> imp.todo \ {h}, cur |-> h,
              left |-> Missing(h), text |-> imp.text, ids |-> imp.ids, back |-> imp.back]
  <2> DEFINE M == Missing(h)
  <2>1. imp' = [imp EXCEPT !.cur = h, !.todo = @ \ {h}, !.step = s, !.left = M]
    BY DEF Turn
  <2> HIDE DEF M
  <2>2. imp' = [mode |-> imp.mode, step |-> s, from |-> imp.from, todo |-> imp.todo \ {h}, cur |-> h,
                left |-> M, text |-> imp.text, ids |-> imp.ids, back |-> imp.back]
    BY <1>0, <2>1 DEF IsImport
  <2> QED BY <2>2 DEF M
<1>2. Missing(h) \subseteq OwedOf(imp, h)
  <2>1. Source(h).texts = SourceTexts(imp, h)
    BY SourceFacts
  <2>2. CASE Rewrites
    <3>1. imp.ids = {} /\ Missing(h) = Source(h).texts
      BY <2>2 DEF Rewrites, ImportOK, Reads, Missing
    <3> QED BY <2>1, <3>1 DEF OwedOf
  <2>3. CASE ~ Rewrites
    <3>1. Missing(h) = Source(h).texts \ (imp.ids \cup {r[2] : r \in RowsOf({h.conv})})
      BY <2>3 DEF Missing
    <3> QED BY <2>1, <3>1 DEF OwedOf
  <2> QED BY <2>2, <2>3
<1>3. /\ SameReading(imp') /\ imp'.step = s /\ imp'.todo = imp.todo \ {h} /\ imp'.cur = h
      /\ imp'.left = Missing(h)
  <2> DEFINE M == Missing(h)
  <2> HIDE DEF M
  <2> QED BY <1>1 DEF M, SameReading, IsImport
<1>4. SourcesOf(imp') = SourcesOf(imp) /\ OwedOf(imp', h) = OwedOf(imp, h)
  BY <1>3, SameReadingFacts
<1>5. Turns(imp')
  <2>1. imp'.cur \in SourcesOf(imp') \ imp'.todo /\ imp'.left \subseteq OwedOf(imp', imp'.cur)
    BY <1>0, <1>2, <1>3, <1>4
  <2>2. imp'.todo \subseteq SourcesOf(imp')
    BY <1>0, <1>3, <1>4
  <2> QED BY <1>3, <2>1, <2>2 DEF Turns
<1>6. ComingOf(imp') \subseteq ComingOf(imp)
  <2>1. ComingOf(imp') = imp'.left \cup OwedBy(imp', imp'.todo)
    BY <1>3 DEF ComingOf
  <2>2. ComingOf(imp) = OwedBy(imp, imp.todo)
    BY DEF ComingOf
  <2>3. OwedBy(imp', imp'.todo) \subseteq OwedBy(imp, imp.todo)
    BY <1>3, StillOwed
  <2>4. OwedOf(imp, h) \subseteq OwedBy(imp, imp.todo)
    BY DEF OwedBy
  <2> QED BY <1>2, <1>3, <2>1, <2>2, <2>3, <2>4
<1> QED BY <1>3, <1>5, <1>6

LEMMA SkipFacts ==
  ASSUME ImportOK(imp), imp.step = "next", NEW h \in imp.todo, imp' = [imp EXCEPT !.todo = @ \ {h}]
  PROVE  /\ SameReading(imp') /\ Turns(imp') /\ imp'.step = "next"
         /\ ComingOf(imp') \subseteq ComingOf(imp)
<1>0. IsImport(imp) /\ imp.todo \subseteq SourcesOf(imp)
  BY DEF ImportOK, Turns
<1>1. imp' = [mode |-> imp.mode, step |-> imp.step, from |-> imp.from, todo |-> imp.todo \ {h}, cur |-> imp.cur,
              left |-> imp.left, text |-> imp.text, ids |-> imp.ids, back |-> imp.back]
  BY <1>0 DEF IsImport
<1>2. SameReading(imp') /\ imp'.step = "next" /\ imp'.todo = imp.todo \ {h}
  BY <1>1 DEF SameReading, IsImport
<1>3. SourcesOf(imp') = SourcesOf(imp)
  BY <1>2, SameReadingFacts
<1>4. Turns(imp')
  BY <1>0, <1>2, <1>3 DEF Turns
<1>5. ComingOf(imp') \subseteq ComingOf(imp)
  <2>1. ComingOf(imp') = OwedBy(imp', imp'.todo) /\ ComingOf(imp) = OwedBy(imp, imp.todo)
    BY <1>2 DEF ComingOf
  <2>2. OwedBy(imp', imp'.todo) \subseteq OwedBy(imp, imp.todo)
    BY <1>2, StillOwed
  <2> QED BY <2>1, <2>2
<1> QED BY <1>2, <1>4, <1>5

LEMMA TakesInv ==
  ASSUME StoreInv, Rows(conv), UNCHANGED disk, NEW h \in imp.todo, ImportTakes(h)
  PROVE  StoreInv'
<1>0. open /\ ImportOK(imp) /\ imp.step = "next" /\ IsConv(conv)
  BY Importing DEF ImportTakes, StoreInv, KeptInv
<1>1. UNCHANGED <<open, kind, rows, used, work>> /\ (conv' = conv \/ conv' = Created(h.conv))
  BY DEF ImportTakes
<1>2. (\E s \in {"pin", "text"} : imp' = Turn(h, s)) \/ imp' = [imp EXCEPT !.todo = @ \ {h}]
  <2> DEFINE e == [imp EXCEPT !.todo = @ \ {h}]
  <2>1. imp' \in {Turn(h, "text"), Turn(h, "pin"), e}
    <3> HIDE DEF e
    <3> QED BY DEF ImportTakes, e
  <2> HIDE DEF e
  <2>2. imp' = Turn(h, "text") \/ imp' = Turn(h, "pin") \/ imp' = e
    BY <2>1
  <2> QED BY <2>2 DEF e
<1>3. Grows
  <2>1. CASE conv' = conv
    BY <1>0, <2>1, SameGrows
  <2>2. CASE conv' = Created(h.conv)
    BY <1>0, <2>2, ConvChanges DEF Grows
  <2> QED BY <1>1, <2>1, <2>2
<1>4. /\ SameReading(imp') /\ Turns(imp') /\ imp'.step \in {"next", "pin", "text", "seal"}
      /\ ComingOf(imp') \subseteq ComingOf(imp)
  <2>1. ASSUME NEW s \in {"pin", "text"}, imp' = Turn(h, s)
        PROVE  /\ SameReading(imp') /\ Turns(imp') /\ imp'.step \in {"next", "pin", "text", "seal"}
               /\ ComingOf(imp') \subseteq ComingOf(imp)
    BY <1>0, <2>1, TurnFacts
  <2>2. CASE imp' = [imp EXCEPT !.todo = @ \ {h}]
    BY <1>0, <2>2, SkipFacts
  <2> QED BY <1>2, <2>1, <2>2
<1> QED BY <1>0, <1>1, <1>3, <1>4, MovesOn

LEMMA PinsInv ==
  ASSUME StoreInv, Rows(conv), UNCHANGED disk, ImportPins
  PROVE  StoreInv'
<1>0. open /\ ImportOK(imp) /\ imp.step = "pin" /\ IsConv(conv)
  BY Importing DEF ImportPins, StoreInv, KeptInv
<1> DEFINE c == imp.cur.conv
           peer == Source(imp.cur).peer
           e == [imp EXCEPT !.step = "text"]
<1>1. /\ UNCHANGED <<open, kind, rows, used, work>>
      /\ \/ /\ c \in DOMAIN conv /\ conv' \in {Replaced(c, peer), Pinned(c, peer)} /\ imp' = e
         \/ Failing /\ conv' = conv
  <2> HIDE DEF e
  <2> QED BY DEF ImportPins, e
<1> HIDE DEF c, peer
<1>2. CASE c \in DOMAIN conv /\ conv' \in {Replaced(c, peer), Pinned(c, peer)} /\ imp' = e
  <2>1. Grows
    <3>1. CASE conv' = Replaced(c, peer)
      BY <1>0, <1>2, <3>1, ConvChanges DEF Grows
    <3>2. CASE conv' = Pinned(c, peer)
      BY <1>0, <1>2, <3>2, ConvChanges DEF Grows
    <3> QED BY <1>2, <3>1, <3>2
  <2>2. IsImport(imp) /\ imp' = [imp EXCEPT !.step = "text"]
    BY <1>0, <1>2 DEF ImportOK
  <2>3. imp' = [mode |-> imp.mode, step |-> "text", from |-> imp.from, todo |-> imp.todo, cur |-> imp.cur,
                left |-> imp.left, text |-> imp.text, ids |-> imp.ids, back |-> imp.back]
    BY <2>2 DEF IsImport
  <2>4. SameReading(imp') /\ imp'.step = "text" /\ imp'.todo = imp.todo /\ imp'.cur = imp.cur /\ imp'.left = imp.left
    BY <2>3 DEF SameReading, IsImport
  <2>5. SourcesOf(imp') = SourcesOf(imp) /\ OwedOf(imp', imp.cur) = OwedOf(imp, imp.cur)
        /\ OwedBy(imp', imp.todo) = OwedBy(imp, imp.todo)
    BY <1>0, <2>4, SameReadingFacts
  <2>6. Turns(imp')
    BY <1>0, <2>4, <2>5 DEF Turns, ImportOK
  <2>7. ComingOf(imp') = imp.left \cup OwedBy(imp, imp.todo) /\ ComingOf(imp) = imp.left \cup OwedBy(imp, imp.todo)
    BY <1>0, <2>4, <2>5 DEF ComingOf
  <2> QED BY <1>0, <1>1, <2>1, <2>4, <2>6, <2>7, MovesOn
<1>3. CASE Failing /\ conv' = conv
  BY <1>0, <1>1, <1>3, SameGrows, FailingInv
<1> QED BY <1>1, <1>2, <1>3

LEMMA AppendsInv ==
  ASSUME StoreInv, UNCHANGED disk, NEW t \in imp.left, ImportAppends(t)
  PROVE  StoreInv'
<1>0. open /\ ImportOK(imp) /\ imp.step = "text" /\ Grows
  BY Importing, SameGrows DEF ImportAppends, StoreInv, KeptInv
<1>1. UNCHANGED <<open, kind, rows, used, work>>
  BY DEF ImportAppends
<1>2. CASE t # Blank /\ imp' = [imp EXCEPT !.step = "seal", !.text = t, !.left = @ \ {t}]
  <2>1. IsImport(imp) /\ t \in imp.left
    BY <1>0 DEF ImportOK
  <2>2. imp' = [mode |-> imp.mode, step |-> "seal", from |-> imp.from, todo |-> imp.todo, cur |-> imp.cur,
                left |-> imp.left \ {t}, text |-> t, ids |-> imp.ids, back |-> imp.back]
    BY <1>2, <2>1 DEF IsImport
  <2>3. SameReading(imp') /\ imp'.step = "seal" /\ imp'.todo = imp.todo /\ imp'.cur = imp.cur
        /\ imp'.left = imp.left \ {t} /\ imp'.text = t
    BY <2>2 DEF SameReading, IsImport
  <2>4. SourcesOf(imp') = SourcesOf(imp) /\ OwedOf(imp', imp.cur) = OwedOf(imp, imp.cur)
        /\ OwedBy(imp', imp.todo) = OwedBy(imp, imp.todo)
    BY <1>0, <2>3, SameReadingFacts
  <2>5. imp.todo \subseteq SourcesOf(imp) /\ imp.cur \in SourcesOf(imp) \ imp.todo /\ imp.left \subseteq OwedOf(imp, imp.cur)
    BY <1>0 DEF ImportOK, Turns
  <2>6. Turns(imp')
    BY <1>2, <2>1, <2>3, <2>4, <2>5 DEF Turns
  <2>7. ComingOf(imp') = (imp.left \ {t}) \cup {t} \cup OwedBy(imp, imp.todo)
        /\ ComingOf(imp) = imp.left \cup OwedBy(imp, imp.todo)
    BY <1>0, <2>3, <2>4 DEF ComingOf
  <2>8. ComingOf(imp') \subseteq ComingOf(imp)
    BY <2>1, <2>7
  <2> QED BY <1>0, <1>1, <2>3, <2>6, <2>8, MovesOn
<1>3. CASE Failing
  BY <1>0, <1>1, <1>3, FailingInv
<1>4. (t # Blank /\ imp' = [imp EXCEPT !.step = "seal", !.text = t, !.left = @ \ {t}]) \/ Failing
  <2> DEFINE e == [imp EXCEPT !.step = "seal", !.text = t, !.left = @ \ {t}]
  <2>1. (IsMessageId(t) /\ imp' = e) \/ Failing
    <3> HIDE DEF e
    <3> QED BY DEF ImportAppends, e
  <2> QED BY <2>1 DEF IsMessageId
<1> QED BY <1>2, <1>3, <1>4

(* The import's message is stored: nobody else holds its id, or will.      *)
LEMMA SealsFacts ==
  ASSUME ImportOK(imp), imp.step = "seal", imp' = [imp EXCEPT !.step = "text", !.text = Nobody]
  PROVE  /\ ImportOK(imp') /\ BackOf(imp') = BackOf(imp) /\ imp'.step = "text"
         /\ ComingOf(imp') \subseteq ComingOf(imp) /\ imp.text \in ComingOf(imp) \ ComingOf(imp')
         /\ imp.text \in FileTexts \cup BackOf(imp) /\ imp.text # Blank
<1>1. IsImport(imp)
  BY DEF ImportOK
<1>2. imp' = [mode |-> imp.mode, step |-> "text", from |-> imp.from, todo |-> imp.todo, cur |-> imp.cur,
              left |-> imp.left, text |-> Nobody, ids |-> imp.ids, back |-> imp.back]
  BY <1>1 DEF IsImport
<1>3. SameReading(imp') /\ imp'.step = "text" /\ imp'.todo = imp.todo /\ imp'.cur = imp.cur /\ imp'.left = imp.left
  BY <1>2 DEF SameReading, IsImport
<1>4. SourcesOf(imp') = SourcesOf(imp) /\ OwedOf(imp', imp.cur) = OwedOf(imp, imp.cur)
      /\ OwedBy(imp', imp.todo) = OwedBy(imp, imp.todo) /\ BackOf(imp') = BackOf(imp)
  BY <1>3, SameReadingFacts
<1>5. /\ imp.todo \subseteq SourcesOf(imp) /\ imp.cur \in SourcesOf(imp) \ imp.todo
      /\ imp.left \subseteq OwedOf(imp, imp.cur)
      /\ imp.text \in OwedOf(imp, imp.cur) \ imp.left /\ imp.text # Blank
  BY DEF ImportOK, Turns
<1>6. Turns(imp')
  BY <1>3, <1>4, <1>5 DEF Turns
<1>7. ImportOK(imp')
  BY <1>3, <1>6, SameReadingFacts DEF ImportOK, SameReading
<1>8. ComingOf(imp') = imp.left \cup OwedBy(imp, imp.todo)
      /\ ComingOf(imp) = imp.left \cup {imp.text} \cup OwedBy(imp, imp.todo)
  BY <1>3, <1>4 DEF ComingOf
<1>9. imp.text \notin OwedBy(imp, imp.todo)
  <2>1. ASSUME NEW h \in imp.todo PROVE imp.text \notin OwedOf(imp, h)
    <3>1. h # imp.cur /\ h \in SourcesOf(imp)
      BY <1>5
    <3>2. SourceTexts(imp, h) \cap SourceTexts(imp, imp.cur) = {}
      BY <1>5, <3>1, SourcesApart
    <3> QED BY <1>5, <3>2 DEF OwedOf
  <2> QED BY <2>1 DEF OwedBy
<1>10. imp.text \in FileTexts \cup BackOf(imp)
  BY <1>5, SourcesKnown DEF OwedOf
<1> QED BY <1>3, <1>4, <1>5, <1>7, <1>8, <1>9, <1>10

LEMMA SealsInv ==
  ASSUME StoreInv, kind \in {"memory", "browser"}, UNCHANGED disk, ImportSeals
  PROVE  StoreInv'
<1>0. open /\ ImportOK(imp) /\ imp.step = "seal" /\ Grows
  BY Importing, SameGrows DEF ImportSeals, StoreInv, KeptInv
<1> DEFINE c == imp.cur.conv
           t == imp.text
           e == [imp EXCEPT !.step = "text", !.text = Nobody]
<1>1. /\ UNCHANGED <<open, kind, conv, used, work>>
      /\ \/ Inserts(c, t) /\ rows' = rows \cup {<<c, t>>} /\ imp' = e
         \/ Failing /\ rows' = rows
  <2> HIDE DEF e
  <2> QED BY DEF ImportSeals, e
<1>2. CASE Inserts(c, t) /\ rows' = rows \cup {<<c, t>>} /\ imp' = e
  <2>1. /\ ImportOK(imp') /\ BackOf(imp') = BackOf(imp) /\ imp'.step = "text"
        /\ ComingOf(imp') \subseteq ComingOf(imp) /\ t \in ComingOf(imp) \ ComingOf(imp')
        /\ t \in FileTexts \cup BackOf(imp) /\ t # Blank
    BY <1>0, <1>2, SealsFacts
  <2> HIDE DEF c, t, e
  <2>2. t \notin IdsOf(rows)
    <3>1. CASE kind = "browser"
      BY <1>2, <3>1 DEF Inserts, Ids, IdsOf
    <3>2. CASE kind = "memory"
      BY <1>0, <2>1, <3>2 DEF StoreInv, ComingInv, InMemory
    <3> QED BY <3>1, <3>2
  <2>3. Fine(rows') /\ IdsOf(rows') = IdsOf(rows) \cup {t} /\ IdsOf(rows)' = IdsOf(rows')
    BY <1>2, <2>1, <2>2, FineMore DEF IdsOf, StoreInv, KeptInv
  <2>4. KeptInv' /\ IdleInv'
    BY <1>0, <1>1, <2>3 DEF StoreInv, KeptInv, IdleInv, Fine
  <2>5. BackOf(imp)' = BackOf(imp) /\ ComingOf(imp)' = ComingOf(imp')
    <3>1. BackOf(imp)' = BackOf(imp')
      BY DEF BackOf
    <3>2. ComingOf(imp)' = ComingOf(imp')
      BY DEF ComingOf, OwedBy, OwedOf, SourceTexts
    <3> QED BY <2>1, <3>1, <3>2
  <2>6. UsedInv'
    <3>1. t \in used
      BY <2>1 DEF StoreInv, UsedInv
    <3> QED BY <1>1, <2>3, <2>5, <3>1 DEF StoreInv, UsedInv
  <2>7. ASSUME NEW x, Fresh(x) PROVE Fresh(x)'
    BY <1>1, <2>1, <2>3, <2>5, <2>7 DEF Fresh
  <2>8. WorkInv'
    BY <1>1, <2>7 DEF StoreInv, WorkInv
  <2>9. InMemory' <=> InMemory
    BY <1>1 DEF InMemory
  <2>10. OrphanInv'
    <3>1. c \in DOMAIN conv
      BY <1>2 DEF Inserts
    <3>2. NoOrphans => NoOrphans'
      BY <1>1, <1>2, <3>1 DEF NoOrphans
    <3>3. NoDrop => NoDrop'
      BY <1>1, <2>1 DEF NoDrop
    <3> QED BY <2>9, <3>2, <3>3 DEF StoreInv, OrphanInv
  <2>11. ComingInv'
    BY <2>1, <2>3, <2>5, <2>9 DEF StoreInv, ComingInv
  <2>12. ImportOK(imp)'
    <3>1. ImportOK(imp)' = ImportOK(imp')
      BY DEF ImportOK, IsImport, Turns, Reads, SourcesOf, OwedOf, SourceTexts, Apart
    <3> QED BY <2>1, <3>1
  <2> QED BY <2>4, <2>6, <2>8, <2>10, <2>11, <2>12 DEF StoreInv
<1>3. CASE Failing /\ rows' = rows
  BY <1>0, <1>1, <1>3, FailingInv
<1> QED BY <1>1, <1>2, <1>3

LEMMA FinishesInv ==
  ASSUME StoreInv, Rows(conv), UNCHANGED disk, ImportFinishes
  PROVE  StoreInv'
<1>0. open /\ ImportOK(imp) /\ imp.step = "text" /\ IsConv(conv)
  BY Importing DEF ImportFinishes, StoreInv, KeptInv
<1> DEFINE e == [imp EXCEPT !.step = "next", !.cur = Nobody]
           c == imp.cur.conv
<1>1. /\ UNCHANGED <<open, kind, rows, used, work>>
      /\ \/ (conv' = conv \/ conv' = Marked(c)) /\ imp' = e
         \/ conv' = conv /\ Failing
  <2> HIDE DEF e
  <2> QED BY DEF ImportFinishes, Remarked, e
<1> HIDE DEF c
<1>2. CASE (conv' = conv \/ conv' = Marked(c)) /\ imp' = e
  <2>1. Grows
    <3>1. CASE conv' = conv
      BY <1>0, <3>1, SameGrows
    <3>2. CASE conv' = Marked(c)
      BY <1>0, <3>2, ConvChanges DEF Grows
    <3> QED BY <1>2, <3>1, <3>2
  <2>2. IsImport(imp) /\ imp' = [imp EXCEPT !.step = "next", !.cur = Nobody]
    BY <1>0, <1>2 DEF ImportOK
  <2>3. imp' = [mode |-> imp.mode, step |-> "next", from |-> imp.from, todo |-> imp.todo, cur |-> Nobody,
                left |-> imp.left, text |-> imp.text, ids |-> imp.ids, back |-> imp.back]
    BY <2>2 DEF IsImport
  <2>4. SameReading(imp') /\ imp'.step = "next" /\ imp'.todo = imp.todo
    BY <2>3 DEF SameReading, IsImport
  <2>5. SourcesOf(imp') = SourcesOf(imp) /\ OwedBy(imp', imp.todo) = OwedBy(imp, imp.todo)
    BY <1>0, <2>4, SameReadingFacts
  <2>6. Turns(imp')
    BY <1>0, <2>4, <2>5 DEF Turns, ImportOK
  <2>7. ComingOf(imp') = OwedBy(imp, imp.todo) /\ ComingOf(imp) = imp.left \cup OwedBy(imp, imp.todo)
    BY <1>0, <2>4, <2>5 DEF ComingOf
  <2>8. ComingOf(imp') \subseteq ComingOf(imp)
    BY <2>7
  <2> QED BY <1>0, <1>1, <2>1, <2>4, <2>6, <2>8, MovesOn
<1>3. CASE conv' = conv /\ Failing
  BY <1>0, <1>1, <1>3, SameGrows, FailingInv
<1> QED BY <1>1, <1>2, <1>3

(* What a bundle that is accepted brings: each message once.               *)
LEMMA FilePayload ==
  ASSUME NEW f \in Files
  PROVE  /\ IsPayload(f.sealed.payload, Elements(f.sealed.payload.convs), Elements(f.sealed.payload.messages))
         /\ {x.id : x \in Elements(f.sealed.payload.messages)} \subseteq FileTexts
<1> DEFINE file == f.sealed.payload
           S == Elements(file.convs)
           Q == Elements(file.messages)
<1>1. /\ file.convs \in Seq(S) /\ file.messages \in Seq(Q)
      /\ \A e \in S : e.flaw \in {"none"} \cup EntryFlaws
      /\ \A m \in Q : m.flaw \in {"none"} \cup MessageFlaws
  BY FilesAssumption
<1>2. (\A i \in DOMAIN file.convs : file.convs[i] \in S) /\ (\A i \in DOMAIN file.messages : file.messages[i] \in Q)
  BY DEF Elements
<1>3. IsPayload(file, S, Q)
  <2> HIDE DEF S, Q, file
  <2> QED BY <1>1, <1>2 DEF IsPayload
<1>4. {x.id : x \in Q} \subseteq FileTexts
  BY DEF FileTexts
<1> QED BY <1>3, <1>4

LEMMA PairTexts ==
  ASSUME NEW a, NEW b, NEW v, v = [peer |-> a, texts |-> b]
  PROVE  v.texts = b /\ v.peer = a
OBVIOUS

LEMMA ReadTexts ==
  ASSUME NEW S, NEW Q, NEW file, IsPayload(file, S, Q), NEW c, ReadAs(c, file)
  PROVE  \A h \in DOMAIN c : c[h].texts = TextsUnder(file, h)
<1> SUFFICES ASSUME NEW h \in DOMAIN c PROVE c[h].texts = TextsUnder(file, h)
  OBVIOUS
<1> DEFINE v == c[h]
           a == c[h].peer
           b == TextsUnder(file, h)
<1>1. v = [peer |-> a, texts |-> b]
  BY DEF ReadAs
<1> HIDE DEF v, a, b
<1>2. v.texts = b
  BY <1>1, PairTexts
<1> QED BY <1>2 DEF v, b

LEMMA ReadApart ==
  ASSUME NEW S, NEW Q, NEW file, IsPayload(file, S, Q), Validated(file).error = "none",
         NEW T, {x.id : x \in Elements(file.messages)} \subseteq T
  PROVE  /\ Apart(Validated(file).convs)
         /\ \A h \in DOMAIN Validated(file).convs : Validated(file).convs[h].texts \subseteq T
<1> DEFINE c == Validated(file).convs
           m == file.messages
<1>1. WellFormed(file) /\ ReadAs(c, file)
  BY ValidationFacts
<1> HIDE DEF c
<1>2. \A h \in DOMAIN c : c[h].texts = TextsUnder(file, h)
  BY <1>1, ReadTexts
<1>3. DOMAIN m = 1..Len(m) /\ \A i, j \in DOMAIN m : i # j => m[i].id # m[j].id
  BY <1>1 DEF WellFormed, IsPayload
<1>4. \A h : \A x \in TextsUnder(file, h) : \E i \in DOMAIN m : x = m[i].id /\ SpelledAs(m[i]) = h
  BY <1>3 DEF TextsUnder, TextsTo
<1>5. Apart(c)
  BY <1>2, <1>3, <1>4 DEF Apart
<1>6. \A h : TextsUnder(file, h) \subseteq T
  BY <1>4 DEF Elements
<1> QED BY <1>2, <1>5, <1>6 DEF c

LEMMA SnapshotFacts ==
  ASSUME Fine(rows)
  PROVE  /\ Apart(Snapshot)
         /\ \A c \in DOMAIN Snapshot : Snapshot[c].texts \subseteq IdsOf(rows)
<1>1. DOMAIN Snapshot = DOMAIN conv
      /\ \A c \in DOMAIN conv : Snapshot[c].texts = {r[2] : r \in RowsOf({c})}
  BY DEF Snapshot
<1>2. ASSUME NEW c \in DOMAIN conv, NEW d \in DOMAIN conv, NEW x \in Snapshot[c].texts, x \in Snapshot[d].texts
      PROVE  c = d
  <2>1. PICK r \in rows : r[1] = c /\ r[2] = x
    BY <1>1, <1>2 DEF RowsOf
  <2>2. PICK s \in rows : s[1] = d /\ s[2] = x
    BY <1>1, <1>2 DEF RowsOf
  <2> QED BY <2>1, <2>2 DEF Fine
<1>3. \A c \in DOMAIN conv : Snapshot[c].texts \subseteq IdsOf(rows)
  BY <1>1 DEF RowsOf, IdsOf
<1> QED BY <1>1, <1>2, <1>3 DEF Apart

LEMMA MergeFacts ==
  ASSUME NEW read, Apart(read), \A h \in DOMAIN read : read[h].texts \subseteq FileTexts,
         ImportMerge(read), InMemory => NoOrphans
  PROVE  /\ ImportOK(imp') /\ BackOf(imp') = {} /\ imp'.step # "drop"
         /\ InMemory => ComingOf(imp') \cap IdsOf(rows) = {}
<1> DEFINE I == {r[2] : r \in RowsOf(DOMAIN conv)}
<1>1. imp' = [mode |-> "merge", step |-> "next", from |-> read, todo |-> DOMAIN read, cur |-> Nobody,
              left |-> {}, text |-> Nobody, ids |-> I, back |-> <<>>]
  BY DEF ImportMerge, NoImport
<1>2. InMemory => I = IdsOf(rows)
  BY DEF NoOrphans, RowsOf, IdsOf
<1> HIDE DEF I
<1>3. /\ IsImport(imp') /\ imp'.mode = "merge" /\ imp'.step = "next" /\ imp'.from = read
      /\ imp'.todo = DOMAIN read /\ imp'.ids = I /\ imp'.back = <<>>
  BY <1>1 DEF IsImport
<1>4. SourcesOf(imp') = DOMAIN read
  BY <1>3 DEF SourcesOf
<1>5. Turns(imp')
  BY <1>3, <1>4 DEF Turns
<1>6. Apart(<<>>) /\ BackOf(imp') = {}
  <2>1. DOMAIN <<>> = {}
    OBVIOUS
  <2> QED BY <1>3, <2>1 DEF Apart, BackOf
<1>7. Reads(imp')
  BY <1>3, <1>6 DEF Reads
<1>8. ComingOf(imp') = OwedBy(imp', DOMAIN read)
  BY <1>3 DEF ComingOf
<1>9. ComingOf(imp') \cap I = {}
  BY <1>3, <1>8 DEF OwedBy, OwedOf
<1> QED BY <1>2, <1>3, <1>5, <1>6, <1>7, <1>9 DEF ImportOK

LEMMA ReplaceFacts ==
  ASSUME NEW read, Apart(read), \A h \in DOMAIN read : read[h].texts \subseteq FileTexts,
         ImportReplace(read), Fine(rows)
  PROVE  /\ ImportOK(imp') /\ BackOf(imp') \subseteq IdsOf(rows) /\ imp'.step = "wipe"
<1> DEFINE B == Snapshot
<1>1. imp' = [mode |-> "replace", step |-> "wipe", from |-> read, todo |-> {}, cur |-> Nobody,
              left |-> {}, text |-> Nobody, ids |-> {}, back |-> B]
  <2> HIDE DEF B
  <2> QED BY DEF ImportReplace, NoImport, B
<1>2. Apart(B) /\ \A c \in DOMAIN B : B[c].texts \subseteq IdsOf(rows)
  BY SnapshotFacts
<1> HIDE DEF B
<1>3. /\ IsImport(imp') /\ imp'.mode = "replace" /\ imp'.step = "wipe" /\ imp'.from = read
      /\ imp'.ids = {} /\ imp'.back = B
  BY <1>1 DEF IsImport
<1>4. Turns(imp')
  BY <1>3 DEF Turns
<1>5. Reads(imp')
  BY <1>2, <1>3 DEF Reads
<1>6. BackOf(imp') \subseteq IdsOf(rows)
  BY <1>2, <1>3 DEF BackOf
<1> QED BY <1>3, <1>4, <1>5, <1>6 DEF ImportOK

LEMMA StartsInv ==
  ASSUME StoreInv, UNCHANGED disk, ImportStarts
  PROVE  StoreInv'
<1>0. open /\ Grows /\ Fine(rows)
  BY SameGrows DEF ImportStarts, StoreInv, KeptInv
<1>1. UNCHANGED <<open, kind, rows, used, work>>
  BY DEF ImportStarts
<1>2. PICK f \in Files :
         /\ Validated(f.sealed.payload).error = "none"
         /\ \/ ImportMerge(Validated(f.sealed.payload).convs)
            \/ ImportReplace(Validated(f.sealed.payload).convs)
  BY DEF ImportStarts
<1> DEFINE read == Validated(f.sealed.payload).convs
<1>3. Apart(read) /\ \A h \in DOMAIN read : read[h].texts \subseteq FileTexts
  BY <1>2, FilePayload, ReadApart
<1>4. ImportMerge(read) \/ ImportReplace(read)
  BY <1>2
<1> HIDE DEF read
<1>5. CASE ImportMerge(read)
  <2>1. InMemory => NoOrphans
    BY DEF StoreInv, OrphanInv
  <2>2. /\ ImportOK(imp') /\ BackOf(imp') = {} /\ imp'.step # "drop"
        /\ InMemory => ComingOf(imp') \cap IdsOf(rows) = {}
    BY <1>3, <1>5, <2>1, MergeFacts
  <2> QED BY <1>0, <1>1, <2>2, ImportMoves
<1>6. CASE ImportReplace(read)
  <2>1. ImportOK(imp') /\ BackOf(imp') \subseteq IdsOf(rows) /\ imp'.step = "wipe"
    BY <1>0, <1>3, <1>6, ReplaceFacts
  <2>2. ComingOf(imp') = {}
    BY <2>1, NothingComes
  <2> QED BY <1>0, <1>1, <2>1, <2>2, ImportMoves
<1> QED BY <1>4, <1>5, <1>6

LEMMA ImportInv ==
  ASSUME StoreInv, Rows(conv), kind \in {"memory", "browser"}, UNCHANGED disk, ImportSteps
  PROVE  StoreInv'
BY StartsInv, ThrowsInv, WipesInv, DropsInv, ForgetsInv, PinsInv, SealsInv, FinishesInv, EndsInv,
   TakesInv, AppendsInv DEF ImportSteps

LEMMA StoreStep ==
  ASSUME StoreInv, Rows(conv), kind \in {"memory", "browser"}, UNCHANGED disk, StorageNext
  PROVE  StoreInv'
<1>1. CASE VaultSteps
  BY <1>1, VaultQuiet
<1>2. CASE SessionSteps
  BY <1>2, MarksQuiet, ClearsInv, AppendInvStep DEF SessionSteps
<1>3. CASE WorkSteps
  BY <1>3, ClearsInv, SealedInv, ClearMovesInv DEF WorkSteps
<1>4. CASE ImportSteps
  BY <1>4, ImportInv
<1> QED BY <1>1, <1>2, <1>3, <1>4 DEF StorageNext

LEMMA NoConv == IsConv(<<>>) /\ Fine({})
<1>1. DOMAIN <<>> = {} /\ IsFiniteSet({})
  BY FS_EmptySet
<1>2. <<>> = [c \in {} |-> <<>>[c]]
  OBVIOUS
<1> QED BY <1>1, <1>2 DEF IsConv, Fine

(* Nothing runs, nothing is owed: what is stored is all there is.          *)
LEMMA RestingInv ==
  ASSUME KeptInv', work' = {}, imp' = NoImport, FileTexts \subseteq used',
         IdsOf(rows') \subseteq used', IdsOf(disk'.rows) \subseteq used',
         InMemory' => NoOrphans'
  PROVE  StoreInv'
<1>1. ImportOK(imp') /\ BackOf(imp') = {} /\ imp'.step = "idle"
  BY NoImportOK
<1>2. ComingOf(imp') = {}
  BY <1>1, NothingComes
<1>3. IdleInv'
  BY DEF IdleInv
<1>4. BackOf(imp)' = BackOf(imp') /\ IdsOf(rows)' = IdsOf(rows') /\ IdsOf(disk.rows)' = IdsOf(disk'.rows)
  BY DEF BackOf, IdsOf
<1>5. UsedInv'
  BY <1>1, <1>4 DEF UsedInv
<1>6. WorkInv'
  BY DEF WorkInv
<1>7. OrphanInv'
  BY <1>1 DEF OrphanInv, NoDrop
<1>8. ComingInv'
  <2>1. ComingOf(imp)' = ComingOf(imp')
    BY DEF ComingOf, OwedBy, OwedOf, SourceTexts
  <2> QED BY <1>2, <2>1 DEF ComingInv
<1>9. ImportOK(imp)'
  <2>1. ImportOK(imp)' = ImportOK(imp')
    BY DEF ImportOK, IsImport, Turns, Reads, SourcesOf, OwedOf, SourceTexts, Apart
  <2> QED BY <1>1, <2>1
<1> QED BY <1>3, <1>5, <1>6, <1>7, <1>8, <1>9 DEF StoreInv

LEMMA StoreInit ==
  ASSUME ProviderInit
  PROVE  StoreInv
<1>1. PICK d \in Disks : conv = d.conv /\ rows = d.rows
  BY DEF ProviderInit, Init
<1>2. /\ open = FALSE /\ work = {} /\ imp = NoImport /\ used = FileTexts \cup Ids
      /\ disk = [conv |-> conv, rows |-> rows]
  BY DEF ProviderInit, Init
<1>3. Fine(d.rows) /\ IsFiniteSet(DOMAIN d.conv)
  BY DisksAssumption DEF Fine
<1>4. d.conv = [c \in DOMAIN d.conv |-> d.conv[c]]
  <2>1. d.conv = [c \in DOMAIN d.conv |-> [peer |-> d.conv[c].peer, failed |-> d.conv[c].failed]]
    BY DisksAssumption
  <2> QED BY <2>1
<1>5. KeptInv
  BY <1>1, <1>2, <1>3, <1>4 DEF KeptInv, IsConv
<1>6. IdleInv /\ WorkInv /\ OrphanInv /\ ComingInv
  BY <1>2 DEF IdleInv, WorkInv, OrphanInv, ComingInv, InMemory
<1>7. ImportOK(imp) /\ BackOf(imp) = {}
  BY <1>2, NoImportOK
<1>8. UsedInv
  BY <1>2, <1>7 DEF UsedInv, Ids, IdsOf
<1> QED BY <1>5, <1>6, <1>7, <1>8 DEF StoreInv

LEMMA EmptiedInv ==
  ASSUME StoreInv, Emptied, used' = used,
         disk' = disk \/ disk' = [conv |-> conv, rows |-> rows]
  PROVE  StoreInv'
<1>1. conv' = <<>> /\ rows' = {} /\ work' = {} /\ imp' = NoImport
  BY DEF Emptied
<1>2. /\ Fine(disk'.rows) /\ IsConv(disk'.conv)
      /\ IdsOf(disk'.rows) \subseteq used
  <2>1. CASE disk' = disk
    BY <2>1 DEF StoreInv, KeptInv, UsedInv
  <2>2. CASE disk' = [conv |-> conv, rows |-> rows]
    BY <2>2 DEF StoreInv, KeptInv, UsedInv
  <2> QED BY <2>1, <2>2
<1>3. KeptInv'
  BY <1>1, <1>2, NoConv DEF KeptInv, Fine
<1>4. NoOrphans' /\ IdsOf(rows') = {}
  BY <1>1 DEF NoOrphans, IdsOf
<1>5. FileTexts \subseteq used'
  BY DEF StoreInv, UsedInv
<1> QED BY <1>1, <1>2, <1>3, <1>4, <1>5, RestingInv

LEMMA PublishedInv ==
  ASSUME StoreInv, ~ open, NEW m, NEW k \in {"memory", "browser"}, NEW db, Publishes(m, k, db)
  PROVE  StoreInv'
<1>1. work' = {} /\ imp' = NoImport /\ used' = used /\ kind' = k
  BY DEF Publishes, StoreInv, IdleInv
<1>2. FileTexts \subseteq used'
  BY <1>1 DEF StoreInv, UsedInv
<1>3. CASE k = "browser"
  <2>1. conv' = disk.conv /\ rows' = disk.rows /\ disk' = [conv |-> <<>>, rows |-> {}]
    BY <1>3 DEF Publishes
  <2>2. KeptInv'
    BY <2>1, NoConv DEF StoreInv, KeptInv, Fine
  <2>3. IdsOf(rows') \subseteq used' /\ IdsOf(disk'.rows) \subseteq used'
    BY <1>1, <2>1 DEF StoreInv, UsedInv, IdsOf
  <2>4. ~ InMemory'
    BY <1>1, <1>3 DEF InMemory
  <2> QED BY <1>1, <1>2, <2>2, <2>3, <2>4, RestingInv
<1>4. CASE k = "memory"
  <2>1. conv' = <<>> /\ rows' = {} /\ disk' = disk
    BY <1>4 DEF Publishes
  <2>2. KeptInv'
    BY <2>1, NoConv DEF StoreInv, KeptInv, Fine
  <2>3. IdsOf(rows') \subseteq used' /\ IdsOf(disk'.rows) \subseteq used' /\ NoOrphans'
    BY <1>1, <2>1 DEF StoreInv, UsedInv, IdsOf, NoOrphans
  <2> QED BY <1>1, <1>2, <2>2, <2>3, RestingInv
<1> QED BY <1>3, <1>4

LEMMA EffectStore ==
  ASSUME BootInv, StoreInv, NEW m \in Mount,
         \/ DatabaseOpens(m) \/ Loads(m) \/ LoadFails(m) \/ DatabaseSettles(m) \/ Hydrates(m)
  PROVE  StoreInv'
<1>1. \/ UNCHANGED <<storage, disk>>
      \/ /\ mounts[m].at \in {"opening", "hydrating"} /\ ~ mounts[m].cancelled
         /\ \E k \in {"memory", "browser"} : \E db : Publishes(m, k, db)
  BY DEF DatabaseOpens, Loads, LoadFails, DatabaseSettles, Hydrates
<1>2. CASE UNCHANGED <<storage, disk>>
  <2>1. UNCHANGED <<open, kind, rows, used, work, imp, disk>> /\ conv' = conv
    BY <1>2 DEF storage
  <2>2. Grows
    BY <2>1, SameGrows DEF StoreInv, KeptInv
  <2> QED BY <2>1, <2>2, QuietStep
<1>3. ASSUME mounts[m].at \in {"opening", "hydrating"}, ~ mounts[m].cancelled,
             NEW k \in {"memory", "browser"}, NEW db, Publishes(m, k, db)
      PROVE  StoreInv'
  <2>1. life \in 0..MaxMounts /\ MaxMounts \in Nat
    BY MountsAssumption DEF BootInv, BootTypes
  <2>2. mounts[m] # NotMounted
    BY <1>3 DEF NotMounted
  <2>3. ~ (m < life) /\ ~ (m > life)
    BY <1>3, <2>2 DEF BootInv, MountsAreSound
  <2>4. m = life
    BY <2>1, <2>3 DEF Mount
  <2>5. ~ open
    BY <1>3, <2>4 DEF BootInv, MountsAreSound
  <2> QED BY <1>3, <2>5, PublishedInv
<1> QED BY <1>1, <1>2, <1>3

(* What is kept is sound: messages under ids of their own, and in memory    *)
(* under conversations that exist.                                         *)
THEOREM StoreStaysSound == MCSpec => []StoreInv
<1>1. MCInit => StoreInv
  BY StoreInit DEF MCInit
<1>2. WebInv /\ StoreInv /\ [MCNext]_<<app, vars, mobileVars>> => StoreInv'
  <2> SUFFICES ASSUME WebInv, StoreInv, [MCNext]_<<app, vars, mobileVars>> PROVE StoreInv'
    OBVIOUS
  <2>1. [Next]_vars
    BY DEF MCNext
  <2>2. CASE UNCHANGED vars
    <3>1. UNCHANGED <<open, kind, rows, used, work, imp, disk>> /\ conv' = conv
      BY <2>2 DEF vars, storage
    <3>2. Grows
      BY <3>1, SameGrows DEF StoreInv, KeptInv
    <3> QED BY <3>1, <3>2, QuietStep
  <2>3. CASE Mounts
    <3>1. Emptied /\ used' = used /\ disk' = disk
      BY <2>3 DEF Mounts
    <3> QED BY <3>1, EmptiedInv
  <2>4. CASE Unmounts
    <3>1. Emptied /\ used' = used /\ (disk' = disk \/ disk' = [conv |-> conv, rows |-> rows])
      BY <2>4 DEF Unmounts
    <3> QED BY <3>1, EmptiedInv
  <2>5. ASSUME NEW m \in Mount,
               \/ DatabaseOpens(m) \/ Loads(m) \/ LoadFails(m) \/ DatabaseSettles(m) \/ Hydrates(m)
        PROVE  StoreInv'
    BY <2>5, EffectStore DEF WebInv
  <2>6. CASE StorageNext /\ UNCHANGED <<life, mounts, disk, faults>>
    <3>1. Rows(conv) /\ kind \in {"memory", "browser"}
      BY DEF WebInv, RowInv, BootInv, BootTypes
    <3> QED BY <2>6, <3>1, StoreStep
  <2> QED BY <2>1, <2>2, <2>3, <2>4, <2>5, <2>6 DEF Next, Boot
<1> QED
  BY <1>1, <1>2, WebStaysSound, PTL DEF MCSpec

-----------------------------------------------------------------------------
(* The documents that a repository writes.                                 *)

(* A finite set is listed once, in some order.                             *)
ListsOnce(s, S) == /\ s \in Seq(S) /\ Elements(s) = S /\ Len(s) = Cardinality(S)
                   /\ \A i, j \in DOMAIN s : s[i] = s[j] => i = j

LEMMA SetIsListed ==
  ASSUME NEW S, IsFiniteSet(S)
  PROVE  ListsOnce(SetToSeq(S), S)
<1> DEFINE n == Cardinality(S)
           s == SetToSeq(S)
<1>1. n \in Nat /\ ExistsBijection(1..n, S)
  BY FS_CardinalityType
<1>2. PICK f : f \in Bijection(1..n, S)
  BY <1>1 DEF ExistsBijection
<1>3. f \in [1..n -> S] /\ IsInjective(f)
  BY <1>2 DEF Bijection, Injection
<1>4. s \in [1..n -> S] /\ IsInjective(s)
  BY <1>3 DEF SetToSeq
<1> HIDE DEF s
<1>5. s \in Injection(1..n, S) /\ IsFiniteSet(1..n)
  BY <1>1, <1>4, FS_Interval DEF Injection
<1>6. Cardinality(1..n) = n
  BY <1>1, FS_Interval
<1>7. s \in Surjection(1..n, S)
  BY <1>5, <1>6, FS_Injection
<1>8. s \in Seq(S) /\ Len(s) = n /\ DOMAIN s = 1..n
  <2> HIDE DEF n
  <2> QED BY <1>1, <1>4
<1>9. Elements(s) = S
  <2> HIDE DEF n
  <2>1. \A x \in S : \E i \in 1..n : s[i] = x
    BY <1>7 DEF Surjection
  <2>2. \A i \in 1..n : s[i] \in S
    BY <1>4
  <2> QED BY <1>8, <2>1, <2>2 DEF Elements
<1>10. \A i, j \in DOMAIN s : s[i] = s[j] => i = j
  BY <1>4 DEF IsInjective
<1> QED BY <1>8, <1>9, <1>10 DEF ListsOnce, s

(* A snapshot.                                                             *)
Owners(R) == {r[1] : r \in R}
OwnedBy(R, c) == {r \in R : r[1] = c}

LEMMA OwnersAreFinite ==
  ASSUME NEW R, Fine(R)
  PROVE  IsFiniteSet(Owners(R)) /\ \A c : IsFiniteSet(OwnedBy(R, c))
<1> DEFINE f == [r \in R |-> r[1]]
<1>1. f \in Surjection(R, Owners(R))
  BY DEF Surjection, Owners
<1>2. IsFiniteSet(Owners(R))
  BY <1>1, FS_Surjection DEF Fine
<1>3. \A c : IsFiniteSet(OwnedBy(R, c))
  BY FS_Subset DEF Fine, OwnedBy
<1> QED BY <1>2, <1>3

LEMMA EntryFields ==
  ASSUME NEW c, NEW v, NEW e, e = SerializedEntry(c, v)
  PROVE  e.conv = c /\ e.peer = v.peer /\ e.failed = v.failed /\ e.flaw = "none"
BY DEF SerializedEntry

LEMMA GroupFields ==
  ASSUME NEW R, Fine(R), NEW c, NEW g, g = SerializedRows(c, R)
  PROVE  /\ g.conv = c
         /\ DOMAIN g.messages = DOMAIN SetToSeq(OwnedBy(R, c))
         /\ \A k \in DOMAIN g.messages :
              g.messages[k].id = SetToSeq(OwnedBy(R, c))[k][2] /\ g.messages[k].flaw = "none"
<1> DEFINE own == SetToSeq(OwnedBy(R, c))
           ms == [i \in DOMAIN own |-> [id |-> own[i][2], flaw |-> "none"]]
<1>1. g = [conv |-> c, upper |-> FALSE, messages |-> ms]
  BY DEF SerializedRows, OwnedBy
<1>2. \A k \in DOMAIN ms : ms[k].id = own[k][2] /\ ms[k].flaw = "none"
  OBVIOUS
<1>3. DOMAIN ms = DOMAIN own
  OBVIOUS
<1> HIDE DEF ms, own
<1>4. g.conv = c /\ g.messages = ms
  BY <1>1
<1> QED BY <1>2, <1>3, <1>4 DEF own

LEMMA SerializedFields ==
  ASSUME NEW f, NEW R, NEW doc, doc = Serialized(f, R)
  PROVE  /\ DOMAIN doc.convs = DOMAIN SetToSeq(DOMAIN f)
         /\ \A i \in DOMAIN doc.convs :
              doc.convs[i] = SerializedEntry(SetToSeq(DOMAIN f)[i], f[SetToSeq(DOMAIN f)[i]])
         /\ DOMAIN doc.groups = DOMAIN SetToSeq(Owners(R))
         /\ \A i \in DOMAIN doc.groups : doc.groups[i] = SerializedRows(SetToSeq(Owners(R))[i], R)
<1> DEFINE listed == SetToSeq(DOMAIN f)
           grouped == SetToSeq(Owners(R))
           cs == [i \in DOMAIN listed |-> SerializedEntry(listed[i], f[listed[i]])]
           gs == [i \in DOMAIN grouped |-> SerializedRows(grouped[i], R)]
<1>1. doc = [convs |-> cs, groups |-> gs]
  BY DEF Serialized, Owners
<1>2. DOMAIN cs = DOMAIN listed /\ \A i \in DOMAIN cs : cs[i] = SerializedEntry(listed[i], f[listed[i]])
  OBVIOUS
<1>3. DOMAIN gs = DOMAIN grouped /\ \A i \in DOMAIN gs : gs[i] = SerializedRows(grouped[i], R)
  OBVIOUS
<1> HIDE DEF cs, gs, listed, grouped
<1>4. doc.convs = cs /\ doc.groups = gs
  BY <1>1
<1> QED BY <1>2, <1>3, <1>4 DEF listed, grouped

(* What a document holds, in terms of the repository it was written from.  *)
HoldsConvs(doc, f) ==
  /\ \A e \in Elements(doc.convs) : \E c \in DOMAIN f : e = SerializedEntry(c, f[c])
  /\ \A c \in DOMAIN f : SerializedEntry(c, f[c]) \in Elements(doc.convs)
  /\ \A i, j \in DOMAIN doc.convs : i # j => doc.convs[i].conv # doc.convs[j].conv
HoldsRows(doc, R) ==
  /\ \A g \in Elements(doc.groups) : \E c \in Owners(R) : g = SerializedRows(c, R)
  /\ \A c \in Owners(R) : SerializedRows(c, R) \in Elements(doc.groups)
  /\ \A i, j \in DOMAIN doc.groups : i # j => doc.groups[i].conv # doc.groups[j].conv

LEMMA SerializedHolds ==
  ASSUME NEW f, IsConv(f), NEW R, Fine(R), NEW doc, doc = Serialized(f, R)
  PROVE  HoldsConvs(doc, f) /\ HoldsRows(doc, R)
<1> DEFINE listed == SetToSeq(DOMAIN f)
           grouped == SetToSeq(Owners(R))
<1>1. ListsOnce(listed, DOMAIN f)
  BY SetIsListed DEF IsConv
<1>2. ListsOnce(grouped, Owners(R))
  BY OwnersAreFinite, SetIsListed
<1>3. /\ DOMAIN doc.convs = DOMAIN listed
      /\ \A i \in DOMAIN doc.convs : doc.convs[i] = SerializedEntry(listed[i], f[listed[i]])
      /\ DOMAIN doc.groups = DOMAIN grouped
      /\ \A i \in DOMAIN doc.groups : doc.groups[i] = SerializedRows(grouped[i], R)
  BY SerializedFields
<1> HIDE DEF listed, grouped
<1>4. HoldsConvs(doc, f)
  <2>1. \A i \in DOMAIN doc.convs : doc.convs[i].conv = listed[i]
    BY <1>3, EntryFields
  <2>2. \A i \in DOMAIN listed : listed[i] \in DOMAIN f
    BY <1>1 DEF ListsOnce, Elements
  <2>3. \A c \in DOMAIN f : \E i \in DOMAIN listed : listed[i] = c
    BY <1>1 DEF ListsOnce, Elements
  <2>4. \A i, j \in DOMAIN doc.convs : i # j => doc.convs[i].conv # doc.convs[j].conv
    BY <1>1, <1>3, <2>1 DEF ListsOnce
  <2> QED BY <1>3, <2>2, <2>3, <2>4 DEF HoldsConvs, Elements
<1>5. HoldsRows(doc, R)
  <2>1. \A i \in DOMAIN doc.groups : doc.groups[i].conv = grouped[i]
    BY <1>3, GroupFields
  <2>2. \A i \in DOMAIN grouped : grouped[i] \in Owners(R)
    BY <1>2 DEF ListsOnce, Elements
  <2>3. \A c \in Owners(R) : \E i \in DOMAIN grouped : grouped[i] = c
    BY <1>2 DEF ListsOnce, Elements
  <2>4. \A i, j \in DOMAIN doc.groups : i # j => doc.groups[i].conv # doc.groups[j].conv
    BY <1>2, <1>3, <2>1 DEF ListsOnce
  <2> QED BY <1>3, <2>2, <2>3, <2>4 DEF HoldsRows, Elements
<1> QED BY <1>4, <1>5

(* The messages of a group, in terms of the rows of its conversation.      *)
LEMMA GroupMessages ==
  ASSUME NEW R, Fine(R), NEW c, NEW g, g = SerializedRows(c, R)
  PROVE  /\ \A k \in DOMAIN g.messages :
              \E r \in R : r[1] = c /\ g.messages[k].id = r[2] /\ g.messages[k].flaw = "none"
         /\ \A r \in R : r[1] = c => \E k \in DOMAIN g.messages : g.messages[k].id = r[2]
         /\ \A k, l \in DOMAIN g.messages : g.messages[k].id = g.messages[l].id => k = l
<1> DEFINE own == SetToSeq(OwnedBy(R, c))
<1>1. ListsOnce(own, OwnedBy(R, c))
  BY OwnersAreFinite, SetIsListed
<1>2. /\ DOMAIN g.messages = DOMAIN own
      /\ \A k \in DOMAIN g.messages : g.messages[k].id = own[k][2] /\ g.messages[k].flaw = "none"
  BY GroupFields
<1> HIDE DEF own
<1>3. \A k \in DOMAIN own : own[k] \in R /\ own[k][1] = c
  BY <1>1 DEF ListsOnce, Elements, OwnedBy
<1>4. \A r \in R : r[1] = c => \E k \in DOMAIN own : own[k] = r
  BY <1>1 DEF ListsOnce, Elements, OwnedBy
<1>5. \A k, l \in DOMAIN own : own[k][2] = own[l][2] => k = l
  <2>1. \A k, l \in DOMAIN own : own[k][2] = own[l][2] => own[k] = own[l]
    BY <1>3 DEF Fine
  <2> QED BY <1>1, <2>1 DEF ListsOnce
<1> QED BY <1>2, <1>3, <1>4, <1>5

LEMMA NotRefused ==
  ASSUME NEW f, NEW R, Fine(R), \A r \in R : r[1] \in DOMAIN f,
         NEW doc, HoldsConvs(doc, f), HoldsRows(doc, R)
  PROVE  ~ ReloadRefuses(doc)
<1>1. \A e \in Elements(doc.convs) : e.flaw \notin SnapshotEntryFlaws
  <2>1. \A e \in Elements(doc.convs) : e.flaw = "none"
    BY EntryFields DEF HoldsConvs
  <2>2. "none" \notin SnapshotEntryFlaws
    BY DEF SnapshotEntryFlaws, SnapshotIdFlaws, SnapshotPeerFlaws, SnapshotKeyFlaws, IdFlaws
  <2> QED BY <2>1, <2>2
<1>2. Distinct(doc.convs, LAMBDA e : e.conv) /\ Distinct(doc.groups, LAMBDA g : g.conv)
  BY DEF HoldsConvs, HoldsRows, Distinct
<1>3. ASSUME NEW g \in Elements(doc.groups)
      PROVE  /\ \E e \in Elements(doc.convs) : e.conv = g.conv
             /\ \A m \in Elements(g.messages) : m.id # Blank /\ m.flaw \notin SnapshotMessageFlaws
  <2>1. PICK c \in Owners(R) : g = SerializedRows(c, R)
    BY DEF HoldsRows
  <2>2. g.conv = c /\ c \in DOMAIN f
    BY <2>1, GroupFields DEF Owners
  <2>3. \E e \in Elements(doc.convs) : e.conv = g.conv
    BY <2>2, EntryFields DEF HoldsConvs
  <2>4. \A k \in DOMAIN g.messages : \E r \in R : g.messages[k].id = r[2] /\ g.messages[k].flaw = "none"
    BY <2>1, GroupMessages
  <2>5. \A r \in R : r[2] # Blank
    BY DEF Fine
  <2>6. "none" \notin SnapshotMessageFlaws
    BY DEF SnapshotMessageFlaws, SnapshotSealFlaws
  <2> QED BY <2>3, <2>4, <2>5, <2>6 DEF Elements
<1> QED BY <1>1, <1>2, <1>3 DEF ReloadRefuses

LEMMA RowsNotRefused ==
  ASSUME NEW R, Fine(R), NEW doc, HoldsRows(doc, R)
  PROVE  ~ ReloadRefusesRows(doc)
<1>1. ASSUME NEW i \in DOMAIN doc.groups, NEW k \in DOMAIN doc.groups[i].messages,
             NEW j \in DOMAIN doc.groups, NEW l \in DOMAIN doc.groups[j].messages,
             doc.groups[i].messages[k].id = doc.groups[j].messages[l].id
      PROVE  i = j /\ k = l
  <2>1. PICK c \in Owners(R) : doc.groups[i] = SerializedRows(c, R)
    BY DEF HoldsRows, Elements
  <2>2. PICK d \in Owners(R) : doc.groups[j] = SerializedRows(d, R)
    BY DEF HoldsRows, Elements
  <2>3. PICK r \in R : r[1] = c /\ r[2] = doc.groups[i].messages[k].id
    BY <2>1, GroupMessages
  <2>4. PICK s \in R : s[1] = d /\ s[2] = doc.groups[j].messages[l].id
    BY <2>2, GroupMessages
  <2>5. c = d
    BY <1>1, <2>3, <2>4 DEF Fine
  <2>6. doc.groups[i].conv = doc.groups[j].conv
    BY <2>1, <2>2, <2>5
  <2>7. i = j
    BY <2>6 DEF HoldsRows
  <2> QED BY <1>1, <2>1, <2>7, GroupMessages
<1>2. SUFFICES ASSUME ReloadRefusesRows(doc) PROVE FALSE
  OBVIOUS
<1>3. \E i, j \in DOMAIN doc.groups :
        \E k \in DOMAIN doc.groups[i].messages, l \in DOMAIN doc.groups[j].messages :
           <<i, k>> # <<j, l>> /\ doc.groups[i].messages[k].id = doc.groups[j].messages[l].id
  BY <1>2 DEF ReloadRefusesRows
<1> QED BY <1>1, <1>3

LEMMA ComesBack ==
  ASSUME NEW f, IsConv(f), Rows(f), NEW R, Fine(R),
         NEW doc, HoldsConvs(doc, f), HoldsRows(doc, R)
  PROVE  Incoming(doc) = [conv |-> f, rows |-> R]
<1> DEFINE cs == [c \in {e.conv : e \in Elements(doc.convs)} |->
                    LET e == CHOOSE e \in Elements(doc.convs) : e.conv = c
                    IN  [peer |-> e.peer, failed |-> e.failed]]
           rs == UNION {{<<g.conv, m.id>> : m \in Elements(g.messages)} : g \in Elements(doc.groups)}
<1>1. Incoming(doc) = [conv |-> cs, rows |-> rs]
  BY DEF Incoming
<1>2. cs = f
  <2>1. {e.conv : e \in Elements(doc.convs)} = DOMAIN f
    <3>1. \A e \in Elements(doc.convs) : e.conv \in DOMAIN f
      BY EntryFields DEF HoldsConvs
    <3>2. \A c \in DOMAIN f : \E e \in Elements(doc.convs) : e.conv = c
      BY EntryFields DEF HoldsConvs
    <3> QED BY <3>1, <3>2
  <2>2. ASSUME NEW c \in DOMAIN f PROVE cs[c] = f[c]
    <3> DEFINE e == CHOOSE e \in Elements(doc.convs) : e.conv = c
    <3>1. \E x \in Elements(doc.convs) : x.conv = c
      BY <2>1
    <3>2. e \in Elements(doc.convs) /\ e.conv = c
      BY <3>1
    <3>3. cs[c] = [peer |-> e.peer, failed |-> e.failed]
      BY <2>1
    <3> HIDE DEF e, cs
    <3>4. PICK d \in DOMAIN f : e = SerializedEntry(d, f[d])
      BY <3>2 DEF HoldsConvs
    <3>5. d = c /\ e.peer = f[d].peer /\ e.failed = f[d].failed
      BY <3>2, <3>4, EntryFields
    <3>6. f[c] = [peer |-> f[c].peer, failed |-> f[c].failed]
      BY DEF Rows
    <3> QED BY <3>3, <3>5, <3>6
  <2>3. DOMAIN cs = DOMAIN f /\ cs = [c \in DOMAIN cs |-> cs[c]]
    BY <2>1
  <2> HIDE DEF cs
  <2> QED BY <2>2, <2>3 DEF IsConv
<1>3. rs = R
  <2>1. ASSUME NEW x \in rs PROVE x \in R
    <3>0. PICK g \in Elements(doc.groups) : \E m \in Elements(g.messages) : x = <<g.conv, m.id>>
      BY <2>1
    <3>1. PICK m \in Elements(g.messages) : x = <<g.conv, m.id>>
      BY <3>0
    <3>2. PICK c \in Owners(R) : g = SerializedRows(c, R)
      BY DEF HoldsRows
    <3>3. PICK k \in DOMAIN g.messages : m = g.messages[k]
      BY DEF Elements
    <3>4. PICK r \in R : r[1] = c /\ m.id = r[2]
      BY <3>2, <3>3, GroupMessages
    <3>5. g.conv = c
      BY <3>2, GroupFields
    <3>6. r = <<r[1], r[2]>>
      BY DEF Fine
    <3> QED BY <3>1, <3>4, <3>5, <3>6
  <2>2. ASSUME NEW r \in R PROVE r \in rs
    <3> DEFINE g == SerializedRows(r[1], R)
    <3>1. g \in Elements(doc.groups)
      BY DEF HoldsRows, Owners
    <3> HIDE DEF g
    <3>2. g.conv = r[1]
      BY GroupFields DEF g
    <3>3. PICK k \in DOMAIN g.messages : g.messages[k].id = r[2]
      BY GroupMessages DEF g
    <3>4. g.messages[k] \in Elements(g.messages)
      BY DEF Elements
    <3>5. r = <<g.conv, g.messages[k].id>>
      BY <3>2, <3>3 DEF Fine
    <3> QED BY <3>1, <3>4, <3>5
  <2> QED BY <2>1, <2>2
<1> HIDE DEF cs, rs
<1> QED BY <1>1, <1>2, <1>3

LEMMA DiffIsNext ==
  ASSUME NEW now, NEW f, NEW R, NEW next, next = [conv |-> f, rows |-> R]
  PROVE  Diffed(now, next) = next
<1> DEFINE U == {n \in R : n[2] \in {r[2] : r \in now.rows}}
           V == {n \in R : n[2] \notin {r[2] : r \in now.rows}}
<1>1. Diffed(now, next) = [conv |-> f, rows |-> U \cup V]
  BY DEF Diffed
<1>2. U \cup V = R
  OBVIOUS
<1> HIDE DEF U, V
<1> QED BY <1>1, <1>2

(* A snapshot that a repository has written reloads into any other one as   *)
(* what was written, whatever cleared, appended and imported before.       *)
THEOREM SnapshotsReload == MCSpec => []SnapshotReloads
<1>1. ASSUME WebInv, StoreInv PROVE SnapshotReloads
  <2> DEFINE doc == Serialized(conv, rows)
             saved == [conv |-> conv, rows |-> rows]
  <2> SUFFICES ASSUME open, kind = "browser" => NoOrphans, NEW d \in Disks
               PROVE  LET now == [conv |-> d.conv, rows |-> d.rows] IN
                      saved = IF kind = "memory" THEN ReloadedInMemory(now, doc)
                              ELSE ReloadedInBrowser(now, doc)
    BY DEF SnapshotReloads
  <2> DEFINE now == [conv |-> d.conv, rows |-> d.rows]
  <2>1. Rows(conv) /\ kind \in {"memory", "browser"} /\ IsConv(conv) /\ Fine(rows)
    BY <1>1 DEF WebInv, RowInv, BootInv, BootTypes, StoreInv, KeptInv
  <2>2. \A r \in rows : r[1] \in DOMAIN conv
    BY <1>1, <2>1 DEF StoreInv, OrphanInv, InMemory, NoOrphans
  <2>3. HoldsConvs(doc, conv) /\ HoldsRows(doc, rows)
    BY <2>1, SerializedHolds
  <2> HIDE DEF doc
  <2>4. ~ ReloadRefuses(doc)
    BY <2>1, <2>2, <2>3, NotRefused
  <2>5. ~ ReloadRefusesRows(doc)
    BY <2>1, <2>3, RowsNotRefused
  <2>6. Incoming(doc) = saved
    BY <2>1, <2>3, ComesBack
  <2>7. Diffed(now, Incoming(doc)) = saved
    BY <2>6, DiffIsNext
  <2> HIDE DEF saved, now
  <2>8. ReloadedInMemory(now, doc) = saved /\ ReloadedInBrowser(now, doc) = saved
    BY <2>4, <2>5, <2>6, <2>7 DEF ReloadedInMemory, ReloadedInBrowser
  <2> QED BY <2>8 DEF now
<1> QED
  BY <1>1, WebStaysSound, StoreStaysSound, PTL

-----------------------------------------------------------------------------
(* An export.                                                              *)
RowsUnder(R, C) == {r \in R : r[1] \in C}

LEMMA TimesIsMonotone ==
  ASSUME NEW a \in Nat, NEW b \in Nat, NEW m \in Nat, a <= b
  PROVE  a * m <= b * m
<1>1. PICK d \in Nat : b = a + d
  <2>1. b - a \in Nat /\ b = a + (b - a)
    OBVIOUS
  <2> QED BY <2>1
<1>2. b * m = a * m + d * m
  BY <1>1
<1>3. d * m \in Nat /\ a * m \in Nat
  OBVIOUS
<1> DEFINE x == a * m
           y == d * m
<1>4. x \in Nat /\ y \in Nat /\ b * m = x + y
  BY <1>2, <1>3
<1> HIDE DEF x, y
<1>5. x <= x + y
  BY <1>4
<1> QED BY <1>4, <1>5 DEF x

(* So many messages as conversations allow.                                *)
LEMMA RowsCounted ==
  ASSUME NEW R, IsFiniteSet(R), NEW D, IsFiniteSet(D),
         \A c \in D : Cardinality(RowsUnder(R, {c})) <= MaxMessages
  PROVE  Cardinality(RowsUnder(R, D)) <= Cardinality(D) * MaxMessages
<1> DEFINE K == {s \in SUBSET D : Cardinality(RowsUnder(R, s)) <= Cardinality(s) * MaxMessages}
<1>0. MaxMessages \in Nat
  BY CapsAssumption
<1>1. {} \in K
  <2>1. RowsUnder(R, {}) = {} /\ Cardinality({}) = 0
    BY FS_EmptySet DEF RowsUnder
  <2>2. 0 <= 0 * MaxMessages
    BY <1>0
  <2> QED BY <2>1, <2>2
<1>2. ASSUME NEW s \in SUBSET D, s # {}, s \ {Taken(s)} \in K PROVE s \in K
  <2> DEFINE x == Taken(s)
             t == s \ {x}
             A == RowsUnder(R, t)
             B == RowsUnder(R, {x})
  <2>1. x \in s
    BY <1>2 DEF Taken
  <2> HIDE DEF x
  <2>2. IsFiniteSet(s) /\ Cardinality(t) = Cardinality(s) - 1
    <3>1. IsFiniteSet(s)
      BY FS_Subset
    <3> QED BY <2>1, <3>1, FS_RemoveElement
  <2>3. RowsUnder(R, s) = A \cup B /\ A \cap B = {}
    BY <2>1 DEF RowsUnder
  <2>4. IsFiniteSet(A) /\ IsFiniteSet(B)
    BY FS_Subset DEF RowsUnder
  <2> DEFINE k == Cardinality(t)
             a == Cardinality(A)
             b == Cardinality(B)
             n == Cardinality(s)
  <2>5. a \in Nat /\ b \in Nat /\ k \in Nat /\ n \in Nat
    <3>1. IsFiniteSet(t)
      BY <2>2, FS_Subset
    <3> QED BY <2>2, <2>4, <3>1, FS_CardinalityType
  <2>6. Cardinality(RowsUnder(R, s)) = a + b
    <3>1. Cardinality(A \cup B) = a + b - Cardinality(A \cap B)
      BY <2>4, FS_Union
    <3>2. Cardinality(A \cap B) = 0
      BY <2>3, FS_EmptySet
    <3> HIDE DEF a, b, A, B
    <3> QED BY <2>3, <2>5, <3>1, <3>2
  <2>7. a <= k * MaxMessages /\ b <= MaxMessages
    <3>1. t \in K
      BY <1>2 DEF x
    <3>2. x \in D
      BY <2>1
    <3> QED BY <3>1, <3>2
  <2>8. k + 1 = n
    BY <2>2, <2>5
  <2> DEFINE km == k * MaxMessages
  <2>9. km \in Nat /\ n * MaxMessages = km + MaxMessages
    <3> HIDE DEF k, n
    <3>1. n * MaxMessages = (k + 1) * MaxMessages
      BY <2>8
    <3> QED BY <1>0, <2>5, <3>1
  <2>10. a + b <= n * MaxMessages
    <3>1. a <= km /\ b <= MaxMessages
      BY <2>7
    <3> HIDE DEF a, b, n, km, k
    <3> QED BY <1>0, <2>5, <2>9, <3>1
  <2> QED BY <2>6, <2>10
<1>3. SUBSET D \subseteq K
  <2> HIDE DEF K
  <2> QED BY <1>1, <1>2, SetInduction
<1> QED BY <1>3

LEMMA MappedList ==
  ASSUME NEW S, NEW s \in Seq(S), NEW t, DOMAIN t = DOMAIN s, t = [i \in DOMAIN t |-> t[i]]
  PROVE  t \in Seq(Elements(t)) /\ Len(t) = Len(s)
<1> DEFINE n == Len(s)
           T == Elements(t)
<1>1. n \in Nat /\ DOMAIN s = 1..n
  OBVIOUS
<1>2. \A i \in DOMAIN t : t[i] \in T
  BY DEF Elements
<1> HIDE DEF n, T
<1>3. t \in [1..n -> T]
  BY <1>1, <1>2
<1> QED BY <1>1, <1>3 DEF n, T

(* The payload of an export, in terms of the repository it is written from. *)
ExportedPayload(f, R) == Exported(Passphrase, f, R).sealed.payload
HoldsList(file, listed, f) ==
  /\ DOMAIN file.convs = DOMAIN listed
  /\ file.convs = [i \in DOMAIN file.convs |-> file.convs[i]]
  /\ \A i \in DOMAIN listed :
       /\ file.convs[i].flaw = "none" /\ SpelledAs(file.convs[i]) = Hex(listed[i], FALSE)
       /\ file.convs[i].peer = f[listed[i]].peer
HoldsMessages(file, read) ==
  /\ DOMAIN file.messages = DOMAIN read
  /\ file.messages = [i \in DOMAIN file.messages |-> file.messages[i]]
  /\ \A i \in DOMAIN read :
       /\ file.messages[i].flaw = "none" /\ SpelledAs(file.messages[i]) = Hex(read[i][1], FALSE)
       /\ file.messages[i].id = read[i][2]

LEMMA PayloadFields ==
  ASSUME NEW f, NEW R, NEW file, file = ExportedPayload(f, R)
  PROVE  /\ file.flaw = "none" /\ file.identity = "sound"
         /\ HoldsList(file, SetToSeq(DOMAIN f), f)
         /\ HoldsMessages(file, SetToSeq(RowsUnder(R, DOMAIN f)))
<1> DEFINE listed == SetToSeq(DOMAIN f)
           read == SetToSeq(RowsUnder(R, DOMAIN f))
           cs == [i \in DOMAIN listed |-> PayloadEntry(listed[i], f)]
           ms == [i \in DOMAIN read |-> PayloadMessage(read[i])]
<1>1. file = [flaw |-> "none", identity |-> "sound", convs |-> cs, messages |-> ms]
  BY DEF ExportedPayload, Exported, RowsUnder
<1>2. DOMAIN cs = DOMAIN listed /\ cs = [i \in DOMAIN cs |-> cs[i]]
      /\ \A i \in DOMAIN listed : cs[i] = PayloadEntry(listed[i], f)
  OBVIOUS
<1>3. DOMAIN ms = DOMAIN read /\ ms = [i \in DOMAIN ms |-> ms[i]]
      /\ \A i \in DOMAIN read : ms[i] = PayloadMessage(read[i])
  OBVIOUS
<1> HIDE DEF cs, ms, listed, read
<1>4. file.flaw = "none" /\ file.identity = "sound" /\ file.convs = cs /\ file.messages = ms
  BY <1>1
<1>5. \A c, e : e = PayloadEntry(c, f) =>
         e.flaw = "none" /\ SpelledAs(e) = Hex(c, FALSE) /\ e.peer = f[c].peer
  BY DEF PayloadEntry, SpelledAs
<1>6. \A r, e : e = PayloadMessage(r) =>
         e.flaw = "none" /\ SpelledAs(e) = Hex(r[1], FALSE) /\ e.id = r[2]
  BY DEF PayloadMessage, SpelledAs
<1>7. HoldsList(file, listed, f)
  BY <1>2, <1>4, <1>5 DEF HoldsList
<1>8. HoldsMessages(file, read)
  BY <1>3, <1>4, <1>6 DEF HoldsMessages
<1> QED BY <1>4, <1>7, <1>8 DEF listed, read

(* An export holds the repository, and each message once.                  *)
LEMMA ExportIsPayload ==
  ASSUME NEW f, IsConv(f), NEW R, Fine(R), NEW file, file = ExportedPayload(f, R)
  PROVE  /\ IsPayload(file, Elements(file.convs), Elements(file.messages))
         /\ Len(file.convs) = Cardinality(DOMAIN f)
         /\ Len(file.messages) = Cardinality(RowsUnder(R, DOMAIN f))
<1> DEFINE listed == SetToSeq(DOMAIN f)
           read == SetToSeq(RowsUnder(R, DOMAIN f))
<1>1. ListsOnce(listed, DOMAIN f)
  BY SetIsListed DEF IsConv
<1>2. ListsOnce(read, RowsUnder(R, DOMAIN f))
  <2>1. IsFiniteSet(RowsUnder(R, DOMAIN f))
    BY FS_Subset DEF Fine, RowsUnder
  <2> QED BY <2>1, SetIsListed
<1>3. HoldsList(file, listed, f) /\ HoldsMessages(file, read)
  BY PayloadFields
<1> HIDE DEF listed, read
<1>4. file.convs \in Seq(Elements(file.convs)) /\ Len(file.convs) = Len(listed)
  BY <1>1, <1>3, MappedList DEF ListsOnce, HoldsList
<1>5. file.messages \in Seq(Elements(file.messages)) /\ Len(file.messages) = Len(read)
  BY <1>2, <1>3, MappedList DEF ListsOnce, HoldsMessages
<1>6. /\ \A i \in DOMAIN file.convs : file.convs[i].flaw \in {"none"} \cup EntryFlaws
      /\ \A i \in DOMAIN file.messages : file.messages[i].flaw \in {"none"} \cup MessageFlaws
  BY <1>3 DEF HoldsList, HoldsMessages
<1> QED BY <1>1, <1>2, <1>4, <1>5, <1>6 DEF ListsOnce, IsPayload

KeptTexts(R, c) == {r[2] : r \in RowsUnder(R, {c})}

LEMMA ExportTexts ==
  ASSUME NEW f, IsConv(f), NEW R, Fine(R), NEW file, file = ExportedPayload(f, R), NEW c \in DOMAIN f
  PROVE  TextsUnder(file, Hex(c, FALSE)) = KeptTexts(R, c)
<1> DEFINE read == SetToSeq(RowsUnder(R, DOMAIN f))
           m == file.messages
           n == Len(file.messages)
<1>1. ListsOnce(read, RowsUnder(R, DOMAIN f))
  <2>1. IsFiniteSet(RowsUnder(R, DOMAIN f))
    BY FS_Subset DEF Fine, RowsUnder
  <2> QED BY <2>1, SetIsListed
<1>2. HoldsMessages(file, read)
  BY PayloadFields
<1>3. DOMAIN m = 1..n
  BY ExportIsPayload DEF IsPayload
<1> HIDE DEF read, n
<1>4. \A r : Hex(r[1], FALSE) = Hex(c, FALSE) <=> r[1] = c
  BY DEF Hex
<1>5. TextsUnder(file, Hex(c, FALSE)) = {m[i].id : i \in {j \in 1..n : SpelledAs(m[j]) = Hex(c, FALSE)}}
  BY DEF TextsUnder, TextsTo, n
<1>6. \A i \in DOMAIN read : SpelledAs(m[i]) = Hex(read[i][1], FALSE) /\ m[i].id = read[i][2]
  BY <1>2 DEF HoldsMessages
<1>7. DOMAIN read = 1..n
  BY <1>2, <1>3 DEF HoldsMessages
<1>8. {read[i] : i \in 1..n} = RowsUnder(R, DOMAIN f)
  BY <1>1, <1>7 DEF ListsOnce, Elements
<1> HIDE DEF m
<1>9. TextsUnder(file, Hex(c, FALSE)) = {read[i][2] : i \in {j \in 1..n : read[j][1] = c}}
  <2>1. \A j \in 1..n : SpelledAs(m[j]) = Hex(c, FALSE) <=> read[j][1] = c
    BY <1>4, <1>6, <1>7
  <2>2. {j \in 1..n : SpelledAs(m[j]) = Hex(c, FALSE)} = {j \in 1..n : read[j][1] = c}
    BY <2>1
  <2> DEFINE J == {j \in 1..n : read[j][1] = c}
  <2>3. \A i \in J : m[i].id = read[i][2]
    BY <1>6, <1>7
  <2>4. TextsUnder(file, Hex(c, FALSE)) = {m[i].id : i \in J}
    BY <1>5, <2>2
  <2> HIDE DEF J
  <2>5. {m[i].id : i \in J} = {read[i][2] : i \in J}
    BY <2>3
  <2> QED BY <2>4, <2>5 DEF J
<1>10. {read[i][2] : i \in {j \in 1..n : read[j][1] = c}} = {r[2] : r \in RowsUnder(R, {c})}
  <2>1. \A i \in 1..n : read[i] \in R
    BY <1>8 DEF RowsUnder
  <2>2. \A r \in R : r[1] = c => \E i \in 1..n : read[i] = r
    BY <1>8 DEF RowsUnder
  <2> QED BY <2>1, <2>2 DEF RowsUnder
<1> QED BY <1>9, <1>10 DEF KeptTexts

LEMMA ExportIsSound ==
  ASSUME NEW f, IsConv(f), NEW R, Fine(R), NEW file, file = ExportedPayload(f, R),
         \A c \in DOMAIN f : Cardinality(RowsUnder(R, {c})) <= MaxMessages
  PROVE  /\ SoundPayload(file)
         /\ Spelled(file) = {Hex(c, FALSE) : c \in DOMAIN f}
<1> DEFINE listed == SetToSeq(DOMAIN f)
           read == SetToSeq(RowsUnder(R, DOMAIN f))
           m == file.messages
           n == Len(file.messages)
           k == Len(file.convs)
<1>1. ListsOnce(listed, DOMAIN f)
  BY SetIsListed DEF IsConv
<1>2. ListsOnce(read, RowsUnder(R, DOMAIN f))
  <2>1. IsFiniteSet(RowsUnder(R, DOMAIN f))
    BY FS_Subset DEF Fine, RowsUnder
  <2> QED BY <2>1, SetIsListed
<1>3. HoldsList(file, listed, f) /\ HoldsMessages(file, read)
  BY PayloadFields
<1>4. DOMAIN m = 1..n /\ DOMAIN file.convs = 1..k
  BY ExportIsPayload DEF IsPayload
<1> HIDE DEF listed, read
<1>5. Spelled(file) = {Hex(c, FALSE) : c \in DOMAIN f}
  <2>1. \A i \in DOMAIN file.convs : SpelledAs(file.convs[i]) = Hex(listed[i], FALSE)
    BY <1>3 DEF HoldsList
  <2>2. {listed[i] : i \in DOMAIN file.convs} = DOMAIN f
    BY <1>1, <1>3 DEF ListsOnce, Elements, HoldsList
  <2>3. \A c \in DOMAIN f : \E i \in DOMAIN file.convs : listed[i] = c
    BY <2>2
  <2>4. \A i \in DOMAIN file.convs : listed[i] \in DOMAIN f
    BY <2>2
  <2>5. \A h \in Spelled(file) : \E c \in DOMAIN f : h = Hex(c, FALSE)
    BY <2>1, <2>4 DEF Spelled
  <2>6. \A c \in DOMAIN f : Hex(c, FALSE) \in Spelled(file)
    BY <2>1, <2>3 DEF Spelled
  <2> QED BY <2>5, <2>6
<1>6. FlawlessTo(file.convs, k)
  BY <1>3, <1>4 DEF HoldsList, FlawlessTo
<1> HIDE DEF n, k
<1>7. \A i \in 1..n : m[i].flaw = "none" /\ SpelledAs(m[i]) \in Spelled(file)
  <2>1. \A i \in 1..n : read[i][1] \in DOMAIN f
    BY <1>2, <1>3, <1>4 DEF ListsOnce, Elements, HoldsMessages, RowsUnder
  <2> QED BY <1>3, <1>4, <1>5, <2>1 DEF HoldsMessages
<1>8. \A i, j \in 1..n : i # j => m[i].id # m[j].id
  <2>1. \A i \in 1..n : read[i] \in R /\ m[i].id = read[i][2]
    BY <1>2, <1>3, <1>4 DEF ListsOnce, Elements, HoldsMessages, RowsUnder
  <2>2. \A i, j \in 1..n : m[i].id = m[j].id => read[i] = read[j]
    BY <2>1 DEF Fine
  <2> QED BY <1>2, <1>3, <1>4, <2>2 DEF ListsOnce, HoldsMessages
<1>9. ASSUME NEW h \in Spelled(file) PROVE Cardinality(TextsTo(m, n, h)) <= MaxMessages
  <2>1. PICK c \in DOMAIN f : h = Hex(c, FALSE)
    BY <1>5
  <2> DEFINE O == RowsUnder(R, {c})
             T == {r[2] : r \in O}
             g == [r \in O |-> r[2]]
  <2>2. TextsTo(m, n, h) = T
    <3>1. TextsUnder(file, Hex(c, FALSE)) = KeptTexts(R, c)
      BY ExportTexts
    <3> QED BY <2>1, <3>1 DEF TextsUnder, n, KeptTexts
  <2>3. IsFiniteSet(O)
    BY FS_Subset DEF Fine, RowsUnder
  <2>4. g \in Surjection(O, T)
    BY DEF Surjection
  <2>5. IsFiniteSet(T) /\ Cardinality(T) <= Cardinality(O)
    BY <2>3, <2>4, FS_Surjection
  <2>6. Cardinality(O) <= MaxMessages /\ Cardinality(O) \in Nat /\ Cardinality(T) \in Nat
    BY <2>3, <2>5, FS_CardinalityType
  <2> HIDE DEF O, T
  <2> QED BY <2>2, <2>5, <2>6, CapsAssumption
<1>10. SoundTo(Spelled(file), m, n)
  BY <1>7, <1>8, <1>9 DEF SoundTo
<1> QED BY <1>5, <1>6, <1>10 DEF SoundPayload, n, k

(* So its payload is accepted, and read back as the repository.            *)
\* What is read back from the export of the conversations f and the rows R.
Restored(f, R) ==
    [h \in {Hex(c, FALSE) : c \in DOMAIN f} |-> [peer |-> f[h.conv].peer, texts |-> KeptTexts(R, h.conv)]]

LEMMA ExportIsRead ==
  ASSUME NEW f, IsConv(f), NEW R, Fine(R), NEW file, file = ExportedPayload(f, R),
         Cardinality(DOMAIN f) <= MaxConversations,
         \A c \in DOMAIN f : Cardinality(RowsUnder(R, {c})) <= MaxMessages
  PROVE  /\ Validated(file).error = "none"
         /\ Validated(file).convs = Restored(f, R)
<1> DEFINE C == Validated(file).convs
<1>1. /\ IsPayload(file, Elements(file.convs), Elements(file.messages))
      /\ Len(file.convs) = Cardinality(DOMAIN f)
      /\ Len(file.messages) = Cardinality(RowsUnder(R, DOMAIN f))
  BY ExportIsPayload
<1>2. Fits(file)
  <2> DEFINE x == Cardinality(DOMAIN f)
             y == Cardinality(RowsUnder(R, DOMAIN f))
             a == x * MaxMessages
             b == MaxConversations * MaxMessages
  <2>1. y <= a
    BY RowsCounted DEF IsConv, Fine
  <2>2. x \in Nat /\ y \in Nat
    <3>1. IsFiniteSet(RowsUnder(R, DOMAIN f))
      BY FS_Subset DEF Fine, RowsUnder
    <3> QED BY <3>1, FS_CardinalityType DEF IsConv
  <2>3. a <= b
    BY <2>2, TimesIsMonotone, CapsAssumption
  <2>4. a \in Nat /\ b \in Nat
    BY <2>2, CapsAssumption
  <2> HIDE DEF x, y, a, b
  <2>5. y <= b
    BY <2>1, <2>2, <2>3, <2>4
  <2> QED BY <1>1, <2>5 DEF Fits, x, y, b
<1>3. SoundPayload(file) /\ Spelled(file) = {Hex(c, FALSE) : c \in DOMAIN f}
  BY ExportIsSound
<1>4. file.flaw = "none" /\ file.identity = "sound" /\ HoldsList(file, SetToSeq(DOMAIN f), f)
  BY PayloadFields
<1>5. WellFormed(file)
  BY <1>1, <1>2, <1>3, <1>4, SoundIsWellFormed
<1>6. Validated(file).error = "none" /\ ReadAs(C, file)
  BY <1>1, <1>5, ValidationFacts
<1> HIDE DEF C
<1>7. C = [h \in Spelled(file) |-> [peer |-> C[h].peer, texts |-> TextsUnder(file, h)]]
  BY <1>6 DEF ReadAs
<1>8. ASSUME NEW h \in Spelled(file)
      PROVE  C[h].peer = f[h.conv].peer /\ TextsUnder(file, h) = KeptTexts(R, h.conv)
  <2>1. PICK c \in DOMAIN f : h = Hex(c, FALSE)
    BY <1>3
  <2>2. h.conv = c
    BY <2>1 DEF Hex
  <2>3. TextsUnder(file, h) = KeptTexts(R, h.conv)
    <3>1. TextsUnder(file, Hex(c, FALSE)) = KeptTexts(R, c)
      BY ExportTexts
    <3> QED BY <2>1, <2>2, <3>1
  <2>4. PICK i \in DOMAIN file.convs : SpelledAs(file.convs[i]) = h /\ C[h].peer = file.convs[i].peer
    BY <1>6 DEF ReadAs
  <2> DEFINE d == SetToSeq(DOMAIN f)[i]
  <2>5. Hex(d, FALSE) = h /\ file.convs[i].peer = f[d].peer
    BY <1>4, <2>4 DEF HoldsList
  <2>6. d = c
    <3> HIDE DEF d
    <3> QED BY <2>1, <2>5 DEF Hex
  <2> QED BY <2>2, <2>3, <2>4, <2>5, <2>6
<1>9. C = [h \in Spelled(file) |-> [peer |-> f[h.conv].peer, texts |-> KeptTexts(R, h.conv)]]
  BY <1>7, <1>8
<1> QED BY <1>3, <1>6, <1>9 DEF C, Restored

(* A list of tests that all pass gives no error.                          *)
LEMMA ThreeErrors ==
  ASSUME NEW a, NEW b, NEW c, a = "none", b = "none", c = "none"
  PROVE  FirstError(<<a, b, c>>) = "none"
<1> DEFINE s == <<a, b, c>>
<1>1. DOMAIN s = 1..3 /\ s[1] = a /\ s[2] = b /\ s[3] = c
  OBVIOUS
<1>2. DOMAIN s \in SUBSET Nat /\ \A i \in DOMAIN s : s[i] = "none"
  BY <1>1
<1> HIDE DEF s
<1>3. FirstError(s) = "none"
  BY <1>2, FirstFacts
<1> QED BY <1>3 DEF s

LEMMA FiveErrors ==
  ASSUME NEW a, NEW b, NEW c, NEW d, NEW e, a = "none", b = "none", c = "none", d = "none", e = "none"
  PROVE  FirstError(<<a, b, c, d, e>>) = "none"
<1> DEFINE s == <<a, b, c, d, e>>
<1>1. DOMAIN s = 1..5 /\ s[1] = a /\ s[2] = b /\ s[3] = c /\ s[4] = d /\ s[5] = e
  OBVIOUS
<1>2. DOMAIN s \in SUBSET Nat /\ \A i \in DOMAIN s : s[i] = "none"
  BY <1>1
<1> HIDE DEF s
<1>3. FirstError(s) = "none"
  BY <1>2, FirstFacts
<1> QED BY <1>3 DEF s

LEMMA Accepted ==
  ASSUME NEW test, ~ test, NEW error
  PROVE  Refuses(test, error) = "none"
BY DEF Refuses

(* An exported envelope passes every bound the importer sets.             *)
LEMMA ArgonCosts ==
  /\ ArgonMemory \in 8 * MiB .. ArgonMemory
  /\ ArgonMemory \div KiB = 64 * KiB
<1>1. KiB = 1024 /\ MiB = 1024 * KiB /\ ArgonMemory = 64 * MiB
  BY DEF ArgonMemory, MiB, KiB
<1>2. KiB \in Nat /\ MiB \in Nat /\ ArgonMemory \in Nat
  BY SMT, <1>1
<1>3. 8 * MiB <= ArgonMemory
  BY SMT, <1>1, <1>2
<1>4. 64 * KiB \in Nat /\ ArgonMemory = (64 * KiB) * KiB
  BY SMT, <1>1, <1>2
<1>5. \A k \in Nat : (k * 1024) \div 1024 = k
  BY SMT
<1>6. ArgonMemory \div KiB = 64 * KiB
  <2>1. ((64 * KiB) * 1024) \div 1024 = 64 * KiB
    BY <1>4, <1>5
  <2> QED BY <2>1, <1>1, <1>4
<1>7. ArgonMemory \in 8 * MiB .. ArgonMemory
  <2>1. \A a, b \in Int : a <= b => b \in a .. b
    OBVIOUS
  <2>2. 8 * MiB \in Int
    BY SMT, <1>2
  <2> QED BY <2>1, <2>2, <1>2, <1>3
<1> QED BY <1>6, <1>7

LEMMA Sizes == KiB <= 16 * MiB
BY SMT DEF MiB, KiB

LEMMA ExportOpens ==
  ASSUME NEW pass, NEW f, NEW R, NEW file, file = Exported(pass, f, R)
  PROVE  OpenError(pass, file) = "none"
<1>1. /\ file.flaw = "none" /\ file.v = 1 /\ file.bytes = KiB /\ file.version = ArgonVersion
      /\ file.memory = ArgonMemory /\ file.passes = ArgonPasses /\ file.lanes = ArgonLanes
      /\ file.salt = SaltBytes /\ file.nonce = NonceBytes
  BY DEF Exported
<1>2. file.sealed.key = ExportKey(pass) /\ file.sealed.bytes = KiB
  BY DEF Exported
<1>3. file.json
  BY DEF Exported
<1>4. EnvelopeError(file) = "none"
  BY <1>1, <1>3, Accepted, ThreeErrors DEF EnvelopeError
<1>5. BoundsError(file) = "none"
  <2>1. Bounded(file.salt, 64) = "none" /\ Refuses(file.salt < 8, "MalformedBundle") = "none"
    BY <1>1 DEF Bounded, Refuses, SaltBytes
  <2>2. Bounded(file.nonce, 24) = "none" /\ Refuses(file.nonce # NonceBytes, "MalformedBundle") = "none"
    BY <1>1 DEF Bounded, Refuses, NonceBytes
  <2>3. Bounded(file.sealed.bytes, 16 * MiB) = "none"
    <3>1. ~ (KiB > 16 * MiB)
      BY SMT, Sizes DEF KiB, MiB
    <3> QED BY <3>1, <1>2, Accepted DEF Bounded
  <2> QED BY <2>1, <2>2, <2>3, FiveErrors DEF BoundsError
<1>6. KdfError(file) = "none"
  <2>1. file.memory \in 8 * MiB .. ArgonMemory
    BY <1>1, ArgonCosts
  <2>2. file.passes \in 1 .. ArgonPasses /\ file.lanes \in 1 .. ArgonLanes /\ file.version = ArgonVersion
    BY <1>1 DEF ArgonPasses, ArgonLanes, ArgonVersion
  <2> QED BY <2>1, <2>2, Accepted DEF KdfError
<1>7. Refuses(file.sealed.key # EnvelopeKey(pass, file), "WrongPassphrase") = "none"
  <2>1. ArgonPasses = 3 /\ ArgonLanes = 1
    BY DEF ArgonPasses, ArgonLanes
  <2>2. EnvelopeKey(pass, file) = DerivedKey(pass, SaltBytes, 64 * KiB, 3, 1)
    BY <1>1, <2>1, ArgonCosts DEF EnvelopeKey
  <2>3. file.sealed.key = EnvelopeKey(pass, file)
    BY <1>2, <2>2 DEF ExportKey
  <2> QED BY <2>3, Accepted
<1>8. Bounded(file.bytes, 16 * MiB) = "none"
  <2>1. ~ (KiB > 16 * MiB)
    BY SMT, Sizes DEF KiB, MiB
  <2> QED BY <2>1, <1>1, Accepted DEF Bounded
<1> QED BY <1>4, <1>5, <1>6, <1>7, <1>8, FiveErrors DEF OpenError

(* What an export writes, an import reads back: it opens, it is accepted,  *)
(* and every conversation returns under its peer with its messages.        *)
THEOREM ExportsRestore == MCSpec => []ExportRestores
<1>1. ASSUME WebInv, StoreInv PROVE ExportRestores
  <2> DEFINE file == Exported(Passphrase, conv, rows)
             read == Validated(file.sealed.payload)
  <2> SUFFICES ASSUME Cardinality(DOMAIN conv) <= MaxConversations,
                      \A c \in DOMAIN conv : Cardinality(RowsOf({c})) <= MaxMessages
               PROVE  /\ OpenError(Passphrase, file) = "none" /\ read.error = "none"
                      /\ read.convs = [h \in {Hex(c, FALSE) : c \in DOMAIN conv} |->
                                         [peer |-> conv[h.conv].peer,
                                          texts |-> {r[2] : r \in RowsOf({h.conv})}]]
    BY DEF ExportRestores
  <2>1. IsConv(conv) /\ Fine(rows)
    BY <1>1 DEF StoreInv, KeptInv
  <2>2. \A C : RowsOf(C) = RowsUnder(rows, C)
    BY DEF RowsOf, RowsUnder
  <2>3. OpenError(Passphrase, file) = "none"
    BY ExportOpens
  <2> DEFINE paid == file.sealed.payload
  <2>4. paid = ExportedPayload(conv, rows)
    BY DEF ExportedPayload
  <2> HIDE DEF paid
  <2>5. \A c \in DOMAIN conv : Cardinality(RowsUnder(rows, {c})) <= MaxMessages
    BY <2>2
  <2>6. /\ Validated(paid).error = "none"
        /\ Validated(paid).convs = Restored(conv, rows)
    BY <2>1, <2>4, <2>5, ExportIsRead
  <2>7. \A c : KeptTexts(rows, c) = {r[2] : r \in RowsOf({c})}
    BY <2>2 DEF KeptTexts
  <2>8. Validated(paid).convs = [h \in {Hex(c, FALSE) : c \in DOMAIN conv} |->
                                   [peer |-> conv[h.conv].peer, texts |-> {r[2] : r \in RowsOf({h.conv})}]]
    BY <2>6, <2>7 DEF Restored
  <2> QED BY <2>3, <2>6, <2>8 DEF paid
<1> QED
  BY <1>1, WebStaysSound, StoreStaysSound, PTL
=============================================================================
