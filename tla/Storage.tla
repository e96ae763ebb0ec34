------------------------------ MODULE Storage ------------------------------
(***************************************************************************)
(* What one controller keeps: the at-rest key manager, the lockable        *)
(* repository around the row store (in memory, or the browser database),   *)
(* the durable record of authentication failures, and the import of a      *)
(* bundle.  Every repository call is cut at its awaits: between two steps  *)
(* of one call, any other call may run, and the vault may lock.            *)
(***************************************************************************)
EXTENDS Documents, FiniteSets

CONSTANTS
    Conversation, Text,
    Peer,          \* the peers that handshakes authenticate
    Passphrase,    \* the one the user enters for an import
    Files,         \* the bundles the user may import
    Disks,         \* what earlier runs of the program may have stored
    Event,         \* the bounded events, each at most once
    MaxEvents, MaxDerivations

\* A bundle that decrypts holds two arrays, whose fields are sound or have one of
\* the flaws its decoders test for.
ASSUME FilesAssumption ==
    /\ Nobody \notin Peer /\ Blank \notin Text
    /\ Event \subseteq {"lock", "passphrase", "append", "clear", "fail", "import", "fault"}
    /\ \A f \in Files :
          LET convs == f.sealed.payload.convs  messages == f.sealed.payload.messages IN
          /\ convs \in Seq(Elements(convs)) /\ messages \in Seq(Elements(messages))
          /\ \A e \in Elements(convs) : e.flaw \in {"none"} \cup EntryFlaws
          /\ \A m \in Elements(messages) : m.flaw \in {"none"} \cup MessageFlaws

\* What is stored is rows of the store, each under an id of its own; a conversation
\* stored as failed is in the durable record too, where there is one.
ASSUME DisksAssumption ==
    \A d \in Disks :
       /\ d.conv = [c \in DOMAIN d.conv |->
                      [peer |-> d.conv[c].peer, failed |-> d.conv[c].failed]]
       /\ \A c \in DOMAIN d.conv : d.conv[c].failed \in BOOLEAN
       /\ IsFiniteSet(DOMAIN d.conv) /\ IsFiniteSet(d.rows)
       /\ \A r \in d.rows : r = <<r[1], r[2]>> /\ r[2] # Blank
       /\ \A r, s \in d.rows : r[2] = s[2] => r = s
       /\ d.durable \in BOOLEAN
       /\ IF d.durable THEN \A c \in DOMAIN d.conv : d.conv[c].failed => c \in d.flags
                       ELSE d.flags = {}

VARIABLES
    kind,      \* "memory" | "browser": the repository the provider built
    open,      \* a published controller works on the repository
    mode,      \* stored form of the key: "auto" | "passphrase"
    durable,   \* [works: is there a durable store, flags: conversations flagged]
    vault,     \* [key, locked, inner: the repository's own copy of the key]
    kdf,       \* unlock and setPassphrase calls parked on their derivation
    queue,     \* [pending, flushing] marks of LockableRepository
    conv,      \* existing conversation -> [peer, failed]
    rows,      \* <<conversation, text>>: the stored messages
    used,      \* message ids drawn so far
    work,      \* appendMessage and clear calls parked on an await
    imp,       \* the import in progress
    owed,      \* history: failures the program has been told of and not cleared
    spent      \* bounded events that have happened, each at most once

storage == <<kind, open, mode, durable, vault, kdf, queue, conv, rows, used,
             work, imp, owed, spent>>

RowsOf(C) == {r \in rows : r[1] \in C}
Ids == {r[2] : r \in rows}
Without(f, C) == [c \in DOMAIN f \ C |-> f[c]]
FileTexts == {m.id : m \in UNION {Elements(f.sealed.payload.messages) : f \in Files}}
Happens(e) ==
    /\ e \in Event \ spent /\ Cardinality(spent) < MaxEvents
    /\ spent' = spent \cup {e}

NoImport == [mode |-> "none", step |-> "idle", from |-> <<>>, todo |-> {}, cur |-> Nobody,
             left |-> {}, text |-> Nobody, ids |-> {}, back |-> <<>>]
NoQueue == [pending |-> {}, flushing |-> {}]

Init ==
    /\ kind = "memory" /\ open = FALSE
    /\ mode \in {"auto", "passphrase"}
    /\ vault = [key |-> FALSE, locked |-> FALSE, inner |-> FALSE]
    /\ \E d \in Disks : /\ conv = d.conv /\ rows = d.rows
                       /\ durable = [works |-> d.durable, flags |-> d.flags]
    /\ used = FileTexts \cup Ids
    /\ kdf = {} /\ queue = NoQueue /\ work = {} /\ imp = NoImport
    /\ owed = durable.flags \cup {c \in DOMAIN conv : conv[c].failed}
    /\ spent = {}

----------------------------------------------------------------------------
(* The at-rest key manager.                                                 *)

\* lock(): the key is dropped, every parked call becomes stale (the mutation
\* epoch moves), and on the transition the repository's copy is zeroized.
Locked(v) == [key |-> FALSE, locked |-> TRUE, inner |-> v.inner /\ v.locked]
Staled(K) == {[k EXCEPT !.stale = TRUE] : k \in K}

Lock ==
    /\ open /\ Happens("lock")
    /\ vault' = Locked(vault) /\ kdf' = Staled(kdf)
    /\ UNCHANGED <<kind, open, mode, durable, queue, conv, rows, used, work, imp, owed>>

\* The onUnlock listener: the repository gets its key back, then every queued
\* mark is replayed; the flag is set at once, the entry goes when it settles.
Opened ==
    /\ vault' = [key |-> TRUE, locked |-> FALSE, inner |-> TRUE]
    /\ queue' = [queue EXCEPT !.flushing = @ \cup queue.pending]
    /\ conv' = [c \in DOMAIN conv |->
                  [conv[c] EXCEPT !.failed = @ \/ c \in queue.pending]]

Parks(k) == Cardinality(kdf) < MaxDerivations /\ kdf' = kdf \cup {k}

\* unlock(): nothing to verify in auto mode; otherwise park on the derivation.
Unlock ==
    /\ open
    /\ \/ mode = "auto" /\ Opened /\ UNCHANGED kdf
       \/ /\ mode = "passphrase"
          /\ Parks([op |-> "unlock", stale |-> FALSE])
          /\ UNCHANGED <<vault, queue, conv>>
    /\ UNCHANGED <<kind, open, mode, durable, rows, used, work, imp, owed, spent>>

SetPassphrase ==
    /\ open /\ vault.key /\ Happens("passphrase")
    /\ Parks([op |-> "set", stale |-> FALSE])
    /\ UNCHANGED <<kind, open, mode, durable, vault, queue, conv, rows, used, work, imp,
                   owed>>

\* Bug for the mutant check: the unwrapped key is assigned whatever the epoch.
DerivedAnyEpoch(k) ==
    /\ kdf' = kdf \ {k}
    /\ \/ /\ k.op = "unlock" /\ Opened /\ UNCHANGED mode
       \/ /\ k.op = "set" /\ mode' = "passphrase"
          /\ vault' = [vault EXCEPT !.locked = FALSE]
          /\ UNCHANGED <<queue, conv>>
    /\ UNCHANGED <<kind, open, durable, rows, used, work, imp, owed, spent>>

\* A derivation ends.  A stale unlock returns false, and so does a wrong
\* passphrase; a stale setPassphrase has still stored the wrapped key.
Derived(k) ==
    /\ kdf' = kdf \ {k}
    /\ \/ /\ k.op = "unlock" /\ ~k.stale /\ Opened /\ UNCHANGED mode
       \/ /\ k.op = "unlock"
          /\ UNCHANGED <<vault, queue, conv, mode>>
       \/ /\ k.op = "set" /\ mode' = "passphrase"
          /\ vault' = IF k.stale THEN vault ELSE [vault EXCEPT !.locked = FALSE]
          /\ UNCHANGED <<queue, conv>>
    /\ UNCHANGED <<kind, open, durable, rows, used, work, imp, owed, spent>>

----------------------------------------------------------------------------
(* Authentication failures.                                                 *)

\* markAuthFailed of the row store: a conversation it does not know throws.
Marked(c) == IF c \in DOMAIN conv THEN [conv EXCEPT ![c].failed = TRUE] ELSE conv

\* markAuthFailedDurable: without a durable store nothing happens.
MarkedDurably(c) ==
    IF durable.works THEN [durable EXCEPT !.flags = @ \cup {c}] ELSE durable

\* A mark that comes while the vault is locked is queued, under an id object of
\* its own: the replay of an earlier one for the conversation does not remove it.
Queued(c) == [pending |-> queue.pending \cup {c}, flushing |-> queue.flushing \ {c}]

\* Whose mark can be remembered: with no durable store, a conversation that exists.
Keeps(c) == durable.works \/ c \in DOMAIN conv

\* failHandshake: the repository is told, then the durable store.  A locked
\* wrapper queues the mark; an unlocked one marks the row, if there is one.
Fail(c) ==
    /\ open /\ Happens("fail")
    /\ IF vault.locked
       THEN queue' = Queued(c) /\ UNCHANGED conv
       ELSE conv' = Marked(c) /\ UNCHANGED queue
    /\ durable' = MarkedDurably(c)
    /\ owed' = IF imp.mode \notin {"replace", "restore"} /\ Keeps(c)
               THEN owed \cup {c} ELSE owed
    /\ UNCHANGED <<kind, open, mode, vault, kdf, rows, used, work, imp>>

\* A replayed mark settles and leaves the queue.
FlushSettles(c) ==
    /\ c \in queue.flushing
    /\ queue' = [pending |-> queue.pending \ {c}, flushing |-> queue.flushing \ {c}]
    /\ UNCHANGED <<kind, open, mode, durable, vault, kdf, conv, rows, used, work, imp,
                   owed, spent>>

\* getAuthFailed of the row store.
Flagged(c) == c \in DOMAIN conv /\ conv[c].failed

\* What start(), join() and resume() read before they may dial: the repository's
\* flag (the queue and the durable record when locked), or the durable record.
GetAuthFailed(c) == c \in queue.pending \/ (~vault.locked /\ Flagged(c))
Hydrated(c) == GetAuthFailed(c) \/ c \in durable.flags

----------------------------------------------------------------------------
(* Conversations and messages of the live sessions.                         *)

\* createConversation of the row store: a known conversation stays as it is.
Created(c) == IF c \in DOMAIN conv THEN conv
              ELSE Put(conv, c, [peer |-> Nobody, failed |-> FALSE])

Create(c) ==
    /\ open /\ ~vault.locked /\ c \notin DOMAIN conv
    /\ conv' = Created(c)
    /\ UNCHANGED <<kind, open, mode, durable, vault, kdf, queue, rows, used, work, imp,
                   owed, spent>>

\* Bug for the mutant check: the last peer to arrive is the one pinned.
PinnedBlindly(c, p) == [conv EXCEPT ![c].peer = p]
\* storePeerIdentity: pins a first peer, and refuses any other one after it.
Pinned(c, p) == [conv EXCEPT ![c].peer = IF @ = Nobody THEN p ELSE @]
Accepts(c, p) == Pinned(c, p)[c].peer = p
\* replacePeerIdentity overwrites.
Replaced(c, p) == [conv EXCEPT ![c].peer = p]

\* A handshake pins the peer it has authenticated.
Pin(c, p) ==
    /\ open /\ ~vault.locked /\ c \in DOMAIN conv /\ conv[c].peer = Nobody
    /\ conv' = Pinned(c, p)
    /\ UNCHANGED <<kind, open, mode, durable, vault, kdf, queue, rows, used, work, imp,
                   owed, spent>>

\* requireKey: the row store reads its key before the first await.
HasKey == vault.inner
\* messageIdFromOptions: the empty string is no id.
IsMessageId(t) == t # Blank

\* appendMessage up to the encryption it awaits.
AppendMessage(c, t) ==
    /\ open /\ ~vault.locked /\ HasKey /\ c \in DOMAIN conv /\ t \notin used
    /\ Happens("append") /\ used' = used \cup {t}
    /\ work' = work \cup {[op |-> "append", conv |-> c, text |-> t]}
    /\ UNCHANGED <<kind, open, mode, durable, vault, kdf, queue, conv, rows, imp, owed>>

\* After it: the conversation may have been cleared, and the browser's
\* collection refuses an id it already holds.
Inserts(c, t) == c \in DOMAIN conv /\ (kind = "browser" => t \notin Ids)

Sealed(w) ==
    /\ w.op = "append" /\ work' = work \ {w}
    /\ rows' = IF Inserts(w.conv, w.text) THEN rows \cup {<<w.conv, w.text>>} ELSE rows
    /\ UNCHANGED <<kind, open, mode, durable, vault, kdf, queue, conv, used, imp, owed,
                   spent>>

----------------------------------------------------------------------------
(* Clearing.  In memory it is one step.  The browser deletes the messages it *)
(* lists, awaits the commit, then deletes the conversations it listed; the   *)
(* controller then clears the durable flags.                                 *)

Clearing(C, all) == [op |-> "clear", convs |-> C, all |-> all, at |-> "drop"]

ClearStarts(C, gone, all) ==
    /\ rows' = rows \ gone
    /\ IF kind = "browser" /\ gone # {}
       THEN work' = work \cup {Clearing(C, all)} /\ UNCHANGED conv
       ELSE /\ conv' = Without(conv, C)
            /\ work' = work \cup {[Clearing(C, all) EXCEPT !.at = "forget"]}

ClearConversation(c) ==
    /\ open /\ ~vault.locked /\ c \in DOMAIN conv /\ Happens("clear")
    /\ ClearStarts({c}, RowsOf({c}), FALSE)
    /\ owed' = owed \ {c}
    /\ UNCHANGED <<kind, open, mode, durable, vault, kdf, queue, used, imp>>

ClearAll ==
    /\ open /\ ~vault.locked /\ Happens("clear")
    /\ ClearStarts(DOMAIN conv, rows, TRUE)
    /\ owed' = {}
    /\ UNCHANGED <<kind, open, mode, durable, vault, kdf, queue, used, imp>>

\* The messages are gone: delete the conversations.  The collection refuses
\* the whole call when one of its keys has gone meanwhile.
ClearDrops(w) ==
    /\ w.op = "clear" /\ w.at = "drop"
    /\ IF w.convs \subseteq DOMAIN conv
       THEN /\ conv' = Without(conv, w.convs)
            /\ work' = (work \ {w}) \cup {[w EXCEPT !.at = "forget"]}
       ELSE work' = work \ {w} /\ UNCHANGED conv
    /\ owed' = IF w.all THEN {} ELSE owed \ w.convs
    /\ UNCHANGED <<kind, open, mode, durable, vault, kdf, queue, rows, used, imp, spent>>

ClearForgets(w) ==
    /\ w.op = "clear" /\ w.at = "forget" /\ work' = work \ {w}
    /\ durable' = [durable EXCEPT !.flags = IF w.all THEN {} ELSE @ \ w.convs]
    /\ owed' = IF w.all THEN {} ELSE owed \ w.convs
    /\ UNCHANGED <<kind, open, mode, vault, kdf, queue, conv, rows, used, imp, spent>>

----------------------------------------------------------------------------
(* importBundle.  Merge adds what is missing.  Replace reads the whole        *)
(* repository, clears it, and writes the bundle; when a write throws, it      *)
(* clears again and writes back what it had read ("restore").                 *)

Source(h) == IF imp.mode = "restore" THEN imp.back[h.conv]
             ELSE [peer |-> imp.from[h].peer, texts |-> imp.from[h].texts, failed |-> FALSE]

Snapshot == [c \in DOMAIN conv |->
               [peer |-> conv[c].peer, failed |-> conv[c].failed,
                texts |-> {r[2] : r \in RowsOf({c})}]]

Rewrites == imp.mode \in {"replace", "restore"}

ImportMerge(read) ==
    imp' = [NoImport EXCEPT !.mode = "merge", !.step = "next", !.from = read,
                            !.todo = DOMAIN read, !.ids = {r[2] : r \in RowsOf(DOMAIN conv)}]
ImportReplace(read) ==
    imp' = [NoImport EXCEPT !.mode = "replace", !.step = "wipe", !.from = read,
                            !.back = Snapshot]

\* A file that does not open or whose payload is refused throws before this.
ImportStarts ==
    /\ open /\ ~vault.locked /\ imp.mode = "none" /\ Happens("import")
    /\ \E f \in Files :
          LET read == Validated(f.sealed.payload) IN
          /\ OpenError(Passphrase, f) = "none" /\ read.error = "none"
          /\ ImportMerge(read.convs) \/ ImportReplace(read.convs)
    /\ UNCHANGED <<kind, open, mode, durable, vault, kdf, queue, conv, rows, used, work,
                   owed>>

\* A step that throws: the writes of Replace are rolled back, nothing else is.
Failing ==
    imp' = IF imp.mode = "replace" /\ imp.step \in {"next", "pin", "text", "seal"}
           THEN [imp EXCEPT !.mode = "restore", !.step = "wipe", !.cur = Nobody]
           ELSE NoImport

Calls == \/ imp.step \in {"wipe", "pin"}
         \/ imp.step = "next" /\ imp.todo # {}
         \/ imp.step = "text" /\ imp.left # {}

ImportThrows ==
    /\ imp.mode # "none" /\ Calls
    /\ \/ vault.locked /\ UNCHANGED spent
       \/ imp.step # "wipe" /\ Happens("fault")
    /\ Failing
    /\ UNCHANGED <<kind, open, mode, durable, vault, kdf, queue, conv, rows, used, work, owed>>

\* clearAll of the import and of the restore, and the durable record's after it.
AfterWipe == IF imp.mode = "replace" THEN [imp EXCEPT !.step = "forget"]
             ELSE [imp EXCEPT !.step = "next", !.todo = {Hex(c, FALSE) : c \in DOMAIN imp.back}]

ImportWipes ==
    /\ imp.step = "wipe" /\ ~vault.locked
    /\ rows' = {} /\ owed' = {}
    /\ IF kind = "browser" /\ rows # {}
       THEN imp' = [imp EXCEPT !.step = "drop", !.todo = DOMAIN conv] /\ UNCHANGED conv
       ELSE conv' = <<>> /\ imp' = AfterWipe
    /\ UNCHANGED <<kind, open, mode, durable, vault, kdf, queue, used, work, spent>>

ImportDrops ==
    /\ imp.step = "drop" /\ owed' = {}
    /\ IF imp.todo \subseteq DOMAIN conv
       THEN conv' = Without(conv, imp.todo) /\ imp' = AfterWipe
       ELSE Failing /\ UNCHANGED conv
    /\ UNCHANGED <<kind, open, mode, durable, vault, kdf, queue, rows, used, work, spent>>

ImportForgets ==
    /\ imp.step = "forget"
    /\ durable' = [durable EXCEPT !.flags = {}] /\ owed' = {}
    /\ imp' = [imp EXCEPT !.step = "next", !.todo = DOMAIN imp.from]
    /\ UNCHANGED <<kind, open, mode, vault, kdf, queue, conv, rows, used, work, spent>>

\* The texts to append: Merge skips every id that is stored anywhere.
Missing(h) == IF Rewrites THEN Source(h).texts
              ELSE Source(h).texts \ (imp.ids \cup {r[2] : r \in RowsOf({h.conv})})

Turn(h, step) == [imp EXCEPT !.cur = h, !.todo = @ \ {h}, !.step = step,
                             !.left = Missing(h)]

\* The next conversation: create it, or (Merge) compare its pinned peer and
\* leave alone one that is pinned to another.
ImportTakes(h) ==
    /\ imp.step = "next" /\ h \in imp.todo /\ ~vault.locked
    /\ LET c == h.conv  peer == Source(h).peer IN
       IF Rewrites \/ c \notin DOMAIN conv
       THEN /\ conv' = Created(c)
            /\ imp' = Turn(h, IF peer = Nobody THEN "text" ELSE "pin")
       ELSE /\ UNCHANGED conv
            /\ imp' = IF peer \in {Nobody, conv[c].peer} THEN Turn(h, "text")
                      ELSE IF conv[c].peer = Nobody THEN Turn(h, "pin")
                      ELSE [imp EXCEPT !.todo = @ \ {h}]
    /\ UNCHANGED <<kind, open, mode, durable, vault, kdf, queue, rows, used, work, owed, spent>>

ImportPins ==
    /\ imp.step = "pin" /\ ~vault.locked
    /\ LET c == imp.cur.conv  peer == Source(imp.cur).peer IN
       IF c \in DOMAIN conv /\ (Rewrites \/ Accepts(c, peer))
       THEN /\ conv' = IF Rewrites THEN Replaced(c, peer) ELSE Pinned(c, peer)
            /\ imp' = [imp EXCEPT !.step = "text"]
       ELSE Failing /\ UNCHANGED conv
    /\ UNCHANGED <<kind, open, mode, durable, vault, kdf, queue, rows, used, work, owed, spent>>

\* appendMessage again, under the bundle's own message id: an empty one is
\* refused here, after validateConversations has let it pass.
ImportAppends(t) ==
    /\ imp.step = "text" /\ t \in imp.left /\ ~vault.locked
    /\ IF imp.cur.conv \in DOMAIN conv /\ IsMessageId(t)
       THEN imp' = [imp EXCEPT !.step = "seal", !.text = t, !.left = @ \ {t}]
       ELSE Failing
    /\ UNCHANGED <<kind, open, mode, durable, vault, kdf, queue, conv, rows, used, work,
                   owed, spent>>

ImportSeals ==
    /\ imp.step = "seal"
    /\ IF Inserts(imp.cur.conv, imp.text)
       THEN /\ rows' = rows \cup {<<imp.cur.conv, imp.text>>}
            /\ imp' = [imp EXCEPT !.step = "text", !.text = Nobody]
       ELSE Failing /\ UNCHANGED rows
    /\ UNCHANGED <<kind, open, mode, durable, vault, kdf, queue, conv, used, work, owed,
                   spent>>

\* Bug for the mutant check: the restore marks the durable record only.
RemarkedDurably(c) ==
    /\ durable' = MarkedDurably(c) /\ c \in DOMAIN conv /\ UNCHANGED <<queue, conv>>

\* One conversation is done.  The restore marks it again in the repository and
\* in the durable record when it had been marked.
Remarked(c) ==
    /\ durable' = MarkedDurably(c)
    /\ IF vault.locked
       THEN queue' = Queued(c) /\ UNCHANGED conv
       ELSE conv' = Marked(c) /\ UNCHANGED queue

ImportFinishes ==
    /\ imp.step = "text" /\ imp.left = {}
    /\ IF imp.mode = "restore" /\ Source(imp.cur).failed
       THEN IF vault.locked \/ imp.cur.conv \in DOMAIN conv
            THEN /\ Remarked(imp.cur.conv)
                 /\ owed' = IF Keeps(imp.cur.conv) THEN owed \cup {imp.cur.conv} ELSE owed
                 /\ imp' = [imp EXCEPT !.step = "next", !.cur = Nobody]
            ELSE Failing /\ UNCHANGED <<durable, queue, conv, owed>>
       ELSE /\ imp' = [imp EXCEPT !.step = "next", !.cur = Nobody]
            /\ UNCHANGED <<durable, queue, conv, owed>>
    /\ UNCHANGED <<kind, open, mode, vault, kdf, rows, used, work, spent>>

ImportEnds ==
    /\ imp.step = "next" /\ imp.todo = {} /\ imp' = NoImport
    /\ UNCHANGED <<kind, open, mode, durable, vault, kdf, queue, conv, rows, used, work,
                   owed, spent>>

----------------------------------------------------------------------------
VaultSteps == Lock \/ Unlock \/ SetPassphrase \/ \E k \in kdf : Derived(k)

SessionSteps ==
    \E c \in Conversation :
       \/ Fail(c) \/ Create(c) \/ ClearConversation(c) \/ FlushSettles(c)
       \/ \E p \in Peer : Pin(c, p)
       \/ \E t \in Text : AppendMessage(c, t)

WorkSteps == \/ ClearAll
             \/ \E w \in work : Sealed(w) \/ ClearDrops(w) \/ ClearForgets(w)

ImportSteps ==
    \/ ImportStarts \/ ImportThrows \/ ImportWipes \/ ImportDrops \/ ImportForgets
    \/ ImportPins \/ ImportSeals \/ ImportFinishes \/ ImportEnds
    \/ \E h \in imp.todo : ImportTakes(h)
    \/ \E t \in imp.left : ImportAppends(t)

StorageNext == VaultSteps \/ SessionSteps \/ WorkSteps \/ ImportSteps
=============================================================================
