------------------------------ MODULE Provider ------------------------------
(***************************************************************************)
(* The life of the web provider around the storage: each mount loads the   *)
(* identity and the key, opens the browser database in parallel, builds a  *)
(* repository and publishes a controller.  Unmounting may fall between any *)
(* two of these steps, and the next mount starts from what is stored.      *)
(***************************************************************************)
EXTENDS Storage

CONSTANTS MaxMounts, MaxBootFaults

ASSUME MountsAssumption == MaxMounts \in Nat

VARIABLES
    life,     \* mounts so far; the last one is the current one
    mounts,   \* mount -> [at, cancelled, db]: its effect and its database handle
    disk,     \* [conv, rows] of the database while no controller works on it
    faults    \* boot faults so far

vars == <<storage, life, mounts, disk, faults>>

Mount == 1 .. MaxMounts
NotMounted == [at |-> "none", cancelled |-> FALSE, db |-> "none"]

ProviderInit ==
    /\ Init
    /\ life = 0 /\ faults = 0
    /\ mounts = [m \in Mount |-> NotMounted]
    /\ disk = [conv |-> conv, rows |-> rows]

\* What a mount or an unmount does to the storage of the session before it.
Emptied == conv' = <<>> /\ rows' = {} /\ queue' = NoQueue /\ work' = {} /\ imp' = NoImport

\* The effect runs: new managers; a passphrase leaves the key manager locked.
Mounts ==
    /\ life < MaxMounts /\ (life > 0 => mounts[life].cancelled)
    /\ life' = life + 1
    /\ mounts' = [mounts EXCEPT ![life + 1] = [at |-> "loading", cancelled |-> FALSE,
                                               db |-> "opening"]]
    /\ vault' = [key |-> mode = "auto", locked |-> mode # "auto", inner |-> FALSE]
    /\ Emptied
    /\ UNCHANGED <<kind, open, mode, durable, kdf, used, owed, spent, disk, faults>>

\* openDatabase settles on its own; a failure is turned into "no database".
DatabaseOpens(m) ==
    /\ mounts[m].db = "opening"
    /\ \/ mounts' = [mounts EXCEPT ![m].db = "open"] /\ UNCHANGED faults
       \/ /\ faults < MaxBootFaults /\ faults' = faults + 1
          /\ mounts' = [mounts EXCEPT ![m].db = "absent"]
    /\ UNCHANGED <<storage, life, disk>>

Ends(m, db) == mounts' = [mounts EXCEPT ![m].at = "ended", ![m].db = db]

\* Identity, key and ICE configuration are there: stop if unmounted, throw if
\* the key is locked, else wait for the database.
Loads(m) ==
    /\ mounts[m].at = "loading"
    /\ IF mounts[m].cancelled \/ vault.locked
       THEN Ends(m, mounts[m].db)
       ELSE mounts' = [mounts EXCEPT ![m].at = "opening"]
    /\ UNCHANGED <<storage, life, disk, faults>>

LoadFails(m) ==
    /\ mounts[m].at = "loading" /\ faults < MaxBootFaults /\ faults' = faults + 1
    /\ Ends(m, mounts[m].db)
    /\ UNCHANGED <<storage, life, disk>>

\* createChatController: it wraps the repository and is published at once.
Publishes(m, k, db) ==
    /\ mounts' = [mounts EXCEPT ![m].at = "published", ![m].db = db]
    /\ kind' = k /\ open' = TRUE
    /\ vault' = [vault EXCEPT !.inner = TRUE]
    /\ IF k = "browser" THEN conv' = disk.conv /\ rows' = disk.rows
       ELSE conv' = <<>> /\ rows' = {}
    /\ owed' = IF durable.works THEN owed
               ELSE {c \in owed : Flagged(c)'}
    /\ disk' = IF k = "browser" THEN [conv |-> <<>>, rows |-> {}] ELSE disk
    /\ UNCHANGED <<mode, durable, kdf, queue, used, work, imp, spent, life>>

DatabaseSettles(m) ==
    /\ mounts[m].at = "opening" /\ mounts[m].db # "opening"
    /\ IF mounts[m].cancelled
       THEN /\ Ends(m, IF mounts[m].db = "open" THEN "closed" ELSE "absent")
            /\ UNCHANGED <<storage, life, disk>>
       ELSE IF mounts[m].db = "absent"
       THEN Publishes(m, "memory", "absent")
       ELSE /\ mounts' = [mounts EXCEPT ![m].at = "hydrating"]
            /\ UNCHANGED <<storage, life, disk>>
    /\ UNCHANGED faults

\* Bug for the mutant check: the continuation publishes whatever happened to the
\* component while the collections were read.
HydratesUnguarded(m) ==
    /\ mounts[m].at = "hydrating" /\ Publishes(m, "browser", "open") /\ UNCHANGED faults

\* The collections are read, or their setup fails and memory takes over.  An
\* unmount meanwhile has locked the key: createChatController throws and the
\* repository this effect still owns is closed.
Hydrates(m) ==
    /\ mounts[m].at = "hydrating"
    /\ \E works \in BOOLEAN :
         /\ IF works THEN UNCHANGED faults
            ELSE faults < MaxBootFaults /\ faults' = faults + 1
         /\ IF mounts[m].cancelled
            THEN Ends(m, "closed") /\ UNCHANGED <<storage, life, disk>>
            ELSE IF works THEN Publishes(m, "browser", "open")
            ELSE Publishes(m, "memory", "closed")

\* The cleanup: dispose() closes the database once its commits have landed, the
\* key is locked, and every parked call of the controller is left behind.
Unmounts ==
    /\ life > 0 /\ ~mounts[life].cancelled
    /\ vault' = Locked(vault) /\ kdf' = Staled(kdf)
    /\ mounts' = [mounts EXCEPT ![life].cancelled = TRUE,
                    ![life].at = IF open THEN "ended" ELSE @,
                    ![life].db = IF open /\ @ = "open" THEN "closed" ELSE @]
    /\ open' = FALSE /\ Emptied
    /\ disk' = IF open /\ kind = "browser" THEN [conv |-> conv, rows |-> rows] ELSE disk
    /\ owed' = IF durable.works THEN owed
               ELSE {c \in owed : Flagged(c) /\ kind = "browser"}
    /\ UNCHANGED <<kind, mode, durable, used, spent, life, faults>>

Boot == \/ Mounts \/ Unmounts
        \/ \E m \in Mount : \/ DatabaseOpens(m) \/ Loads(m) \/ LoadFails(m)
                            \/ DatabaseSettles(m) \/ Hydrates(m)

Next == Boot \/ (StorageNext /\ UNCHANGED <<life, mounts, disk, faults>>)
Spec == ProviderInit /\ [][Next]_vars

----------------------------------------------------------------------------
\* lock() holds until an unlock called after it: a derivation that was running
\* when it came does not open the vault.
LockHolds ==
    [][open /\ open' /\ vault.locked /\ ~vault'.locked
         => mode = "auto" \/ [op |-> "unlock", stale |-> FALSE] \in kdf]_vars

\* A vault is locked exactly when its key is gone, from the manager and from
\* the repository alike: no derivation that was running when lock() came may
\* bring the key back, and none may unlock a manager that holds no key.
LockedIsKeyless ==
    open => /\ vault.locked = ~vault.key
            /\ vault.inner = vault.key

\* A conversation whose authentication failed stays refused until the user
\* clears it: whether the failure came while the vault was locked, whatever a
\* failed Replace put back, and across reloads where anything is durable.  (With
\* no durable store a locked repository cannot tell; it can once unlocked.)
AuthFailedRemembered ==
    open /\ (durable.works \/ ~vault.locked) => \A c \in owed : Hydrated(c)

\* No message outlives its conversation: an append that was encrypting while the
\* conversation was cleared writes nothing.
NoOrphans == \A r \in rows : r[1] \in DOMAIN conv

\* A pinned peer is never replaced by another one while its conversation
\* exists, except by Replace: a Merge that found no peer does not overwrite the
\* one a handshake has pinned before the Merge got to write its own.
PinsAreKept ==
    [][\A c \in DOMAIN conv \cap DOMAIN conv' :
         open /\ open' /\ ~Rewrites /\ conv[c].peer # Nobody
           => conv'[c].peer = conv[c].peer]_vars

\* What an export writes, an import reads back: the envelope passes every bound
\* the importer sets before it pays for the key, its units give the same key
\* again, and every listed conversation returns under its peer with its messages
\* (marks of failed authentication are deliberately not carried).
ExportRestores ==
    open /\ ~vault.locked /\ Cardinality(DOMAIN conv) <= MaxConversations
         /\ (\A c \in DOMAIN conv : Cardinality(RowsOf({c})) <= MaxMessages) =>
       LET file == Exported(Passphrase, conv, rows)
           read == Validated(file.sealed.payload)
       IN  /\ OpenError(Passphrase, file) = "none" /\ read.error = "none"
           /\ read.convs = [h \in {Hex(c, FALSE) : c \in DOMAIN conv} |->
                              [peer |-> conv[h.conv].peer,
                               texts |-> {r[2] : r \in RowsOf({h.conv})}]]

\* A snapshot of this repository, reloaded into one that holds anything else,
\* leaves exactly what was serialized: a message stored meanwhile under another
\* conversation moves, and what the snapshot does not know is gone.  So no race
\* of append and clear leaves a row that reload would refuse.  (The browser's
\* repository has one, see NoOrphans: its snapshots are looked at without it.)
SnapshotReloads ==
    open /\ (kind = "browser" => NoOrphans) =>
       LET doc == Serialized(conv, rows)
           saved == [conv |-> conv, rows |-> rows]
       IN  \A d \in Disks :
              LET now == [conv |-> d.conv, rows |-> d.rows] IN
              saved = IF kind = "memory" THEN ReloadedInMemory(now, doc)
                      ELSE ReloadedInBrowser(now, doc)

\* "The payload is fully proven before the first write": no message an import
\* has yet to append has an id appendMessage refuses.
ProvenFirst == Blank \notin imp.left

\* A controller is published by the current mount only, before its cleanup, and
\* on a database that is still open.
PublishedIsLive ==
    \A m \in Mount : mounts[m].at = "published" =>
       /\ m = life /\ ~mounts[m].cancelled /\ open
       /\ kind = "browser" => mounts[m].db = "open"

\* Once a mount has been cleaned up and its effect has ended, its database
\* handle is released.
HandlesReleased ==
    \A m \in Mount : mounts[m].at = "ended" => mounts[m].db # "open"

\* A Replace that fails leaves what it found: every conversation it had read is
\* back under its peer, with its messages.
ReplaceRollsBack ==
    [][imp.mode = "restore" /\ imp'.mode = "none" /\ open' =>
         \A c \in DOMAIN imp.back :
            /\ c \in DOMAIN conv' /\ conv'[c].peer = imp.back[c].peer
            /\ {<<c, t>> : t \in imp.back[c].texts} \subseteq rows']_vars
=============================================================================
