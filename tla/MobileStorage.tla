--------------------------- MODULE MobileStorage ---------------------------
(***************************************************************************)
(* The encrypted store of the mobile app and the provider that opens it:   *)
(* the file's key is read from the keychain of the system, or generated    *)
(* and written there, once per process; every mount of the provider opens  *)
(* the file, loads the identity and publishes a controller; every cleanup  *)
(* drops the instance.  The process may die between any two steps.         *)
(*                                                                         *)
(* A key is named by the load that generated it, an identity by the mount. *)
(***************************************************************************)
EXTENDS Naturals

CONSTANTS MaxLives, MaxLoads, MaxKeychainFaults

VARIABLES
    keychain,   \* the key in the system's keychain, or 0
    cipher,     \* the key the file on disk was made with, or 0
    stored,     \* the identity in the file, or 0
    loads,      \* load -> [at, key]: the promises of loadOrCreateMmkvEncryptionKey
    memo,       \* encryptionKeyPromise: a load, or 0
    epoch,      \* closedEpoch
    instance,   \* storageInstance: the key it was opened with, or 0
    registered, \* setDurableStorage(chatStorage) is in force
    lives,      \* mount -> [at, cancelled, load, epoch, holds]
    current,    \* mounts so far
    failures    \* keychain faults so far

vars == <<keychain, cipher, stored, loads, memo, epoch, instance, registered, lives,
          current, failures>>

Life == 1 .. MaxLives
Load == 1 .. MaxLoads
Unstarted == [at |-> "none", key |-> 0]
Unborn == [at |-> "none", cancelled |-> FALSE, load |-> 0, epoch |-> 0, holds |-> 0]

Init ==
    /\ keychain = 0 /\ cipher = 0 /\ stored = 0
    /\ loads = [l \in Load |-> Unstarted] /\ memo = 0
    /\ epoch = 0 /\ instance = 0 /\ registered = FALSE
    /\ lives = [m \in Life |-> Unborn] /\ current = 0 /\ failures = 0

Fails == failures < MaxKeychainFaults /\ failures' = failures + 1

\* The load a caller of loadOrCreateMmkvEncryptionKey awaits: the memoized one,
\* or a new one.
Fresh(l) == loads[l].at = "none"
Shared == IF memo # 0 THEN memo ELSE CHOOSE l \in Load : Fresh(l)
CanLoad == memo # 0 \/ \E l \in Load : Fresh(l)

\* The effect runs ensureStorageReady.  Its own memo is empty then: every cleanup
\* has cleared it, and one mount calls it once.
Mount ==
    /\ current < MaxLives /\ (current > 0 => lives[current].cancelled)
    /\ CanLoad
    /\ current' = current + 1
    /\ lives' = [lives EXCEPT ![current + 1] =
                   [at |-> "waiting", cancelled |-> FALSE, load |-> Shared, epoch |-> epoch,
                    holds |-> 0]]
    /\ loads' = [loads EXCEPT ![Shared].at = IF @ = "none" THEN "reading" ELSE @]
    /\ memo' = Shared
    /\ UNCHANGED <<keychain, cipher, stored, epoch, instance, registered, failures>>

\* A rejected load clears the memo if it is still its own.
Rejected(l) ==
    /\ loads' = [loads EXCEPT ![l].at = "failed"]
    /\ memo' = IF memo = l THEN 0 ELSE memo

\* SecureStore.getItemAsync: the key of an earlier launch, or none.
Reads(l) ==
    /\ loads[l].at = "reading"
    /\ \/ /\ loads' = [loads EXCEPT ![l] = IF keychain # 0 THEN [at |-> "done", key |-> keychain]
                                           ELSE [at |-> "writing", key |-> l]]
          /\ UNCHANGED <<memo, failures>>
       \/ Fails /\ Rejected(l)
    /\ UNCHANGED <<keychain, cipher, stored, epoch, instance, registered, lives, current>>

\* SecureStore.setItemAsync of the generated key: it may reject, and then
\* whether the key has landed is not known.
Writes(l) ==
    /\ loads[l].at = "writing"
    /\ \/ /\ keychain' = loads[l].key
          /\ loads' = [loads EXCEPT ![l].at = "done"]
          /\ UNCHANGED <<memo, failures>>
       \/ Fails /\ Rejected(l) /\ keychain' \in {keychain, loads[l].key}
    /\ UNCHANGED <<cipher, stored, epoch, instance, registered, lives, current>>

\* A closeStorage() ran while the key was awaited.
LostRace(m) == lives[m].epoch # epoch

\* ensureStorageReady resumes, and the provider's continuation with it: it ends
\* on a failed load and after the cleanup, else registers the store and has the
\* identity manager look for an identity.
Resumes(m) ==
    /\ lives[m].at = "waiting" /\ loads[lives[m].load].at \in {"done", "failed"}
    /\ LET key == loads[lives[m].load].key
           opens == loads[lives[m].load].at = "done" /\ ~LostRace(m)
           goesOn == loads[lives[m].load].at = "done" /\ ~lives[m].cancelled
       IN  /\ instance' = IF opens THEN key ELSE instance
           /\ cipher' = IF opens /\ cipher = 0 THEN key ELSE cipher
           /\ registered' = (registered \/ goesOn)
           /\ lives' = [lives EXCEPT
                ![m].at = IF ~goesOn THEN "ended" ELSE IF stored # 0 THEN "loaded"
                          ELSE "generating",
                ![m].holds = IF goesOn THEN stored ELSE 0]
    /\ UNCHANGED <<keychain, stored, loads, memo, epoch, current, failures>>

\* chatStorage throws unless an instance is open.
IsReady == instance # 0

\* The new identity is stored through whatever instance is open by now; without
\* one setItem throws.
Generates(m) ==
    /\ lives[m].at = "generating"
    /\ \/ ~IsReady /\ lives' = [lives EXCEPT ![m].at = "ended"] /\ UNCHANGED stored
       \/ /\ IsReady /\ stored' = m
          /\ lives' = [lives EXCEPT ![m].at = "loaded", ![m].holds = m]
    /\ UNCHANGED <<keychain, cipher, loads, memo, epoch, instance, registered, current, failures>>

\* Identity, key and ICE configuration are there.
Publishes(m) ==
    /\ lives[m].at = "loaded"
    /\ lives' = [lives EXCEPT ![m].at = IF lives[m].cancelled THEN "ended"
                                           ELSE "published"]
    /\ UNCHANGED <<keychain, cipher, stored, loads, memo, epoch, instance, registered,
                   current, failures>>

\* Bug for the mutant check: the teardown also forgets the load of the key.
CloseForgetsKey == epoch' = epoch + 1 /\ instance' = 0 /\ memo' = 0

\* closeStorage(): the epoch moves on also where no instance is open yet, and
\* the load of the key is shared with whoever comes next.
Close == epoch' = epoch + 1 /\ instance' = 0 /\ UNCHANGED memo

\* The cleanup of the effect.
Unmount ==
    /\ current > 0 /\ ~lives[current].cancelled
    /\ lives' = [lives EXCEPT ![current].cancelled = TRUE,
                   ![current].at = IF @ = "published" THEN "ended" ELSE @]
    /\ registered' = FALSE
    /\ Close
    /\ UNCHANGED <<keychain, cipher, stored, loads, current, failures>>

\* The process dies: only keychain and file are left, and a write to the
\* keychain that was under way has landed or not.
Crash ==
    /\ current > 0
    /\ keychain' \in {keychain} \cup {loads[l].key : l \in {k \in Load : loads[k].at = "writing"}}
    /\ loads' = [l \in Load |-> IF loads[l].at = "none" THEN Unstarted
                                ELSE [at |-> "failed", key |-> 0]]
    /\ lives' = [m \in Life |-> IF m > current THEN Unborn
                                ELSE [Unborn EXCEPT !.at = "ended", !.cancelled = TRUE]]
    /\ memo' = 0 /\ epoch' = 0 /\ instance' = 0 /\ registered' = FALSE
    /\ UNCHANGED <<cipher, stored, current, failures>>

Next ==
    \/ Mount \/ Unmount \/ Crash
    \/ \E l \in Load : Reads(l) \/ Writes(l)
    \/ \E m \in Life : Resumes(m) \/ Generates(m) \/ Publishes(m)

Spec == Init /\ [][Next]_vars

----------------------------------------------------------------------------
\* The key in the keychain opens the file, whatever loads overlapped, failed or
\* died: "the keychain holding a key that does not match the one the MMKV file
\* was actually encrypted with" would lose the file for good.  And no instance
\* or registration outlives the cleanup of the mount it was opened for.
FileIsOpenable ==
    /\ cipher # 0 => keychain = cipher
    /\ instance # 0 => instance = cipher /\ ~lives[current].cancelled
    /\ registered => IsReady

\* A published controller signs with the identity that is stored, so it is still
\* the same contact after a restart: "Generates once on first run".  It does not
\* hold: see the README.
IdentityIsStored ==
    \A m \in Life : lives[m].at = "published" => lives[m].holds = stored
=============================================================================
