----------------------------- MODULE Documents -----------------------------
(***************************************************************************)
(* The documents a repository is written to and read from: the encrypted   *)
(* bundle of store/export-bundle.ts, and the snapshot of serialize() and   *)
(* reload() in both repositories.  Everything here is a function of its    *)
(* arguments; module Storage takes the steps.                              *)
(*                                                                         *)
(* A conversation is stored under its id, which a document may spell in    *)
(* two ways (hex in lower or upper case).  A message is its id, under      *)
(* which the body goes wherever the message goes.  Creation times, display *)
(* names and the order of a history are left out; a field of a document    *)
(* that fails the test its reader makes is the entry's flaw.               *)
(***************************************************************************)
EXTENDS Naturals, SequencesExt

CONSTANTS
    Nobody,            \* no peer is pinned
    Blank,             \* the empty string, as a message id
    MaxConversations, MaxMessages   \* caps of a bundle: conversations, messages of each

ASSUME CapsAssumption == MaxConversations \in Nat /\ MaxMessages \in Nat

Elements(s) == {s[i] : i \in DOMAIN s}
Put(f, c, v) == [d \in DOMAIN f \cup {c} |-> IF d = c THEN v ELSE f[d]]

\* The hex a document spells a conversation's id with.
Hex(c, upper) == [conv |-> c, upper |-> upper]

----------------------------------------------------------------------------
(* The envelope of a bundle.                                                *)

KiB == 1024
MiB == KiB * KiB
ArgonVersion == 19
ArgonMemory == 64 * MiB
ArgonPasses == 3
ArgonLanes == 1
SaltBytes == 16
NonceBytes == 12

\* What argon2id derives from a passphrase; the memory is counted in KiB.
DerivedKey(pass, salt, memory, passes, lanes) ==
    [pass |-> pass, salt |-> salt, memory |-> memory, passes |-> passes, lanes |-> lanes]

\* The defaults of the derivation, which the export does not override.
ExportKey(pass) == DerivedKey(pass, SaltBytes, 64 * KiB, 3, 1)

Refuses(test, error) == IF test THEN error ELSE "none"

FirstError(errors) ==
    LET found == {i \in DOMAIN errors : errors[i] # "none"}
    IN  IF found = {} THEN "none" ELSE errors[Min(found)]

\* decodeBoundedBase64: a field that would decode to more than its cap.
Bounded(bytes, max) == Refuses(bytes > max, "SizeLimitExceeded")

\* parseEnvelope: not JSON, another version, fields of another type or another
\* algorithm.
EnvelopeError(f) ==
    FirstError(<<Refuses(~f.json, "MalformedBundle"),
                 Refuses(f.v # 1, "UnsupportedBundleVersion"),
                 Refuses(f.flaw # "none", "MalformedBundle")>>)

\* The caps and the floors importBundle sets: the salt, the nonce and the
\* ciphertext are bounded before anything is derived from them.
BoundsError(f) ==
    FirstError(<<Bounded(f.salt, 64), Refuses(f.salt < 8, "MalformedBundle"),
                 Bounded(f.nonce, 24), Refuses(f.nonce # NonceBytes, "MalformedBundle"),
                 Bounded(f.sealed.bytes, 16 * MiB)>>)

\* envelopeKdfParams: what the importer agrees to pay for.
KdfError(f) ==
    Refuses(~(/\ f.version = ArgonVersion
              /\ f.memory \in 8 * MiB .. ArgonMemory
              /\ f.passes \in 1 .. ArgonPasses
              /\ f.lanes \in 1 .. ArgonLanes), "InvalidKdfParams")

\* Bug for the mutant check: the envelope's bytes are taken for KiB.
EnvelopeKeyInBytes(pass, f) == DerivedKey(pass, f.salt, f.memory, f.passes, f.lanes)

\* The key the envelope asks for: its memory cost is in bytes.
EnvelopeKey(pass, f) == DerivedKey(pass, f.salt, f.memory \div KiB, f.passes, f.lanes)

\* importBundle up to the plaintext.
OpenError(pass, f) ==
    FirstError(<<Bounded(f.bytes, 16 * MiB),
                 EnvelopeError(f), BoundsError(f), KdfError(f),
                 Refuses(f.sealed.key # EnvelopeKey(pass, f), "WrongPassphrase")>>)

----------------------------------------------------------------------------
(* The payload of a bundle.                                                 *)

\* What the decoders of a payload refuse: decodeConversationIdHex,
\* decodePeerIdentity, and the tests of validateConversations itself.  A public
\* key may be no base64, too long, or no point of the curve.
IdFlaws == {"hex", "length"}
PeerFlaws == {"peer", "fingerprint", "key", "long", "point"}
PeerError(flaw) == CASE flaw = "long" -> "SizeLimitExceeded"
                     [] flaw = "point" -> "ProtocolError"
                     [] OTHER -> "MalformedBundle"
EntryFlaws == {"object", "created", "name"} \cup IdFlaws \cup PeerFlaws
MessageFlaws == {"object", "id", "time", "text", "direction"}

\* One conversation of validateConversations: a repeated spelling overwrites.
AddEntry(acc, e) ==
    IF acc.error # "none" THEN acc
    ELSE IF e.flaw \in EntryFlaws THEN [acc EXCEPT !.error = PeerError(e.flaw)]
    ELSE [acc EXCEPT !.convs = Put(@, Hex(e.conv, e.upper), [peer |-> e.peer, texts |-> {}])]

\* Bug for the mutant check: ids are compared within their conversation only.
MessageErrorPerOwner(acc, m) ==
    LET owner == Hex(m.conv, m.upper) IN
    IF owner \notin DOMAIN acc.convs THEN "MalformedBundle"
    ELSE FirstError(<<
            Refuses(Cardinality(acc.convs[owner].texts) >= MaxMessages, "SizeLimitExceeded"),
            Refuses(m.id \in acc.convs[owner].texts \/ m.flaw \in MessageFlaws,
                    "MalformedBundle")>>)

\* Then one message: it joins the conversation spelled as it says, and its id may
\* occur once in the whole payload.
MessageError(acc, m) ==
    LET owner == Hex(m.conv, m.upper) IN
    IF owner \notin DOMAIN acc.convs THEN "MalformedBundle"
    ELSE FirstError(<<
            Refuses(Cardinality(acc.convs[owner].texts) >= MaxMessages, "SizeLimitExceeded"),
            Refuses(m.id \in acc.seen \/ m.flaw \in MessageFlaws, "MalformedBundle")>>)

AddMessage(acc, m) ==
    IF acc.error # "none" THEN acc
    ELSE IF MessageError(acc, m) # "none" THEN [acc EXCEPT !.error = MessageError(acc, m)]
    ELSE [acc EXCEPT !.convs[Hex(m.conv, m.upper)].texts = @ \cup {m.id},
                     !.seen = @ \cup {m.id}]

\* decodeIdentity: the key of the bundle's own identity, if it carries one.
IdentityError(identity) == Refuses(identity = "broken", "MalformedBundle")

\* parsePayload, validateConversations, then decodeIdentity.
Validated(payload) ==
    LET none == [error |-> "none", convs |-> <<>>, seen |-> {}]
        convs == FoldLeft(AddEntry, none, payload.convs)
        all == FoldLeft(AddMessage, convs, payload.messages)
        error == FirstError(<<
            Refuses(payload.flaw # "none", "MalformedBundle"),
            Refuses(\/ Len(payload.convs) > MaxConversations
                    \/ Len(payload.messages) > MaxConversations * MaxMessages,
                    "SizeLimitExceeded"),
            all.error,
            IdentityError(payload.identity)>>)
    IN  [error |-> error, convs |-> all.convs]

\* toPayloadConversation, toPayloadMessage: ids in lower case.
PayloadEntry(c, conv) == [conv |-> c, upper |-> FALSE, peer |-> conv[c].peer, flaw |-> "none"]
PayloadMessage(r) == [conv |-> r[1], upper |-> FALSE, id |-> r[2], flaw |-> "none"]

\* exportBundle: every conversation listed, and the messages read under each.
Exported(pass, conv, rows) ==
    LET listed == SetToSeq(DOMAIN conv)
        read == SetToSeq({r \in rows : r[1] \in DOMAIN conv})
        payload == [flaw |-> "none", identity |-> "sound",
                    convs |-> [i \in DOMAIN listed |-> PayloadEntry(listed[i], conv)],
                    messages |-> [i \in DOMAIN read |-> PayloadMessage(read[i])]]
    IN  [json |-> TRUE, flaw |-> "none", v |-> 1, bytes |-> KiB, version |-> ArgonVersion,
         memory |-> ArgonMemory, passes |-> ArgonPasses, lanes |-> ArgonLanes,
         salt |-> SaltBytes, nonce |-> NonceBytes,
         sealed |-> [key |-> ExportKey(pass), bytes |-> KiB, payload |-> payload]]

\* A payload as it should be, said of the whole of it at once.
WellFormed(payload) ==
    /\ payload.flaw = "none" /\ payload.identity # "broken"
    /\ Len(payload.convs) <= MaxConversations
    /\ Len(payload.messages) <= MaxConversations * MaxMessages
    /\ \A e \in Elements(payload.convs) : e.flaw = "none"
    /\ \A i, j \in DOMAIN payload.messages :
          i # j => payload.messages[i].id # payload.messages[j].id
    /\ \A m \in Elements(payload.messages) :
          /\ m.flaw = "none"
          /\ \E e \in Elements(payload.convs) : e.conv = m.conv /\ e.upper = m.upper
          /\ Cardinality({k \in Elements(payload.messages) :
                k.conv = m.conv /\ k.upper = m.upper}) <= MaxMessages

----------------------------------------------------------------------------
(* Snapshots: serialize() and reload().                                     *)

\* What reload's decoders refuse, all of it as malformed.  A peer's fingerprint
\* may have any length, and an empty message id is refused.
SnapshotIdFlaws == IdFlaws
SnapshotKeyFlaws == {"key", "long", "point"}
SnapshotPeerFlaws == {"peer"} \cup SnapshotKeyFlaws
SnapshotSealFlaws == {"nonce", "ciphertext"}
SnapshotEntryFlaws == {"object", "created", "name"} \cup SnapshotIdFlaws \cup SnapshotPeerFlaws
SnapshotMessageFlaws == {"object", "id", "time", "direction"} \cup SnapshotSealFlaws

\* serialize(): the conversations, and the rows grouped by the conversation
\* they are stored under.
SerializedEntry(c, v) ==
    [conv |-> c, upper |-> FALSE, peer |-> v.peer, failed |-> v.failed, flaw |-> "none"]
SerializedRows(c, rows) ==
    LET own == SetToSeq({r \in rows : r[1] = c})
    IN  [conv |-> c, upper |-> FALSE,
         messages |-> [i \in DOMAIN own |-> [id |-> own[i][2], flaw |-> "none"]]]

Serialized(conv, rows) ==
    LET listed == SetToSeq(DOMAIN conv)
        grouped == SetToSeq({r[1] : r \in rows})
    IN  [convs |-> [i \in DOMAIN listed |-> SerializedEntry(listed[i], conv[listed[i]])],
         groups |-> [i \in DOMAIN grouped |-> SerializedRows(grouped[i], rows)]]

Distinct(s, Key(_)) == \A i, j \in DOMAIN s : i # j => Key(s[i]) # Key(s[j])

\* The whole snapshot is proved before anything is touched.
ReloadRefuses(doc) ==
    \/ \E e \in Elements(doc.convs) : e.flaw \in SnapshotEntryFlaws
    \/ ~Distinct(doc.convs, LAMBDA e : e.conv)
    \/ ~Distinct(doc.groups, LAMBDA g : g.conv)
    \/ \E g \in Elements(doc.groups) :
          \/ \A e \in Elements(doc.convs) : e.conv # g.conv
          \/ \E m \in Elements(g.messages) : m.id = Blank \/ m.flaw \in SnapshotMessageFlaws

\* The browser's rows are keyed by message id alone: it also wants that unique.
ReloadRefusesRows(doc) ==
    LET at(i) == {<<i, k>> : k \in DOMAIN doc.groups[i].messages}
        id(p) == doc.groups[p[1]].messages[p[2]].id
        all == UNION {at(i) : i \in DOMAIN doc.groups}
    IN  \E p, r \in all : p # r /\ id(p) = id(r)

Incoming(doc) ==
    [conv |-> [c \in {e.conv : e \in Elements(doc.convs)} |->
                 LET e == CHOOSE e \in Elements(doc.convs) : e.conv = c
                 IN  [peer |-> e.peer, failed |-> e.failed]],
     rows |-> UNION {{<<g.conv, m.id>> : m \in Elements(g.messages)} :
                        g \in Elements(doc.groups)}]

\* Bug for the mutant check: a row that is already stored is left as it is.
DiffedKeys(now, next) ==
    LET stored == {r[2] : r \in now.rows}
        kept == {r \in now.rows : \E n \in next.rows : n[2] = r[2]}
        inserted == {n \in next.rows : n[2] \notin stored}
    IN  [conv |-> next.conv, rows |-> kept \cup inserted]

\* The browser's transaction: per collection, delete the keys that go, update
\* the ones that stay, insert the ones that come.
Diffed(now, next) ==
    LET stored == {r[2] : r \in now.rows}
        updated == {n \in next.rows : n[2] \in stored}
        inserted == {n \in next.rows : n[2] \notin stored}
    IN  [conv |-> next.conv, rows |-> updated \cup inserted]

\* reload(), of the repository in memory and of the browser's.
ReloadedInMemory(now, doc) == IF ReloadRefuses(doc) THEN now ELSE Incoming(doc)
ReloadedInBrowser(now, doc) ==
    IF ReloadRefuses(doc) \/ ReloadRefusesRows(doc) THEN now ELSE Diffed(now, Incoming(doc))
=============================================================================
