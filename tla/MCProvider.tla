----------------------------- MODULE MCProvider -----------------------------
(***************************************************************************)
(* Repositories and bundles under the web provider, and the store of the   *)
(* mobile app.  The two apps share no state, so one behaviour moves one.   *)
(***************************************************************************)
EXTENDS Provider, TLC
CONSTANTS c1, c2, p, q, t1, t2, MaxLives, MaxLoads, MaxKeychainFaults

ASSUME LivesAssumption == MaxLives \in Nat

VARIABLES app, keychain, cipher, stored, loads, memo, epoch, instance, registered,
          lives, current, failures

Mobile == INSTANCE MobileStorage

mobileVars == <<keychain, cipher, stored, loads, memo, epoch, instance, registered,
                lives, current, failures>>

MCInit == /\ ProviderInit /\ Mobile!Init
          /\ app \in {"web", "mobile"}
          /\ app = "mobile" => disk.conv = <<>>  \* one beginning is enough for it

MCNext ==
    /\ UNCHANGED app
    /\ \/ app = "web" /\ Next /\ UNCHANGED mobileVars
       \/ app = "mobile" /\ Mobile!Next /\ UNCHANGED vars

MCSpec == MCInit /\ [][MCNext]_<<app, vars, mobileVars>>

(* Whatever mounts and cleanups overlap, the store a mount uses is its own  *)
(* and stays readable: on the web a controller is published by the current  *)
(* mount over an open database, and its vault holds a key unless it is      *)
(* locked; on the mobile the keychain's key opens the file, and no instance *)
(* of it outlives its mount.                                                *)
MountsOwnTheirStore == PublishedIsLive /\ LockedIsKeyless /\ Mobile!FileIsOpenable

(* By hand: the identity in use is the stored one.                          *)
IdentityIsStored == Mobile!IdentityIsStored

Entry(c, upper, peer, flaw) == [conv |-> c, upper |-> upper, peer |-> peer, flaw |-> flaw]
Message(c, upper, t, flaw) == [conv |-> c, upper |-> upper, id |-> t, flaw |-> flaw]
Payload(convs, messages, identity) ==
    [flaw |-> "none", identity |-> identity, convs |-> convs, messages |-> messages]
Bundled(payload) ==
    [Exported(Passphrase, <<>>, {}) EXCEPT !.sealed.payload = payload]

\* One conversation to import, with one message and a pinned peer.
OneConversation == {Bundled(Payload(<<Entry(c1, FALSE, p, "none")>>,
                                    <<Message(c1, FALSE, t1, "none")>>, "none"))}

\* One conversation, and a message whose id is the empty string.
BlankMessage == {Bundled(Payload(<<Entry(c1, FALSE, p, "none")>>,
                                 <<Message(c1, FALSE, t1, "none"),
                                   Message(c1, FALSE, Blank, "none")>>, "none"))}

\* Payloads of up to two conversations and two messages: both spellings, a known
\* and an unknown conversation, the same id twice, a field of the wrong form.
Conversations == {Entry(c1, FALSE, p, "none"), Entry(c1, TRUE, q, "none"),
                  Entry(c2, FALSE, Nobody, "none"), Entry(c2, FALSE, q, "point")}
Messages == {Message(c1, FALSE, t1, "none"), Message(c1, TRUE, t1, "none"),
             Message(c1, FALSE, t2, "none"), Message(c2, FALSE, t2, "none"),
             Message(c2, FALSE, t1, "text")}
UpTo(n, S) == UNION {[1 .. k -> S] : k \in 0 .. n}
Payloads == {Payload(s, m, i) : s \in UpTo(2, Conversations), m \in UpTo(2, Messages),
                                i \in {"none", "broken"}}

\* Nothing stored; the same conversation under another peer, marked as failed and
\* with no durable store to remember it; the bundle's message already stored in
\* another conversation, which has failed.
Stored == {[conv |-> <<>>, rows |-> {}, durable |-> TRUE, flags |-> {}],
           [conv |-> (c1 :> [peer |-> q, failed |-> TRUE]), rows |-> {}, durable |-> FALSE,
            flags |-> {}],
           [conv |-> (c2 :> [peer |-> p, failed |-> TRUE]), rows |-> {<<c2, t1>>},
            durable |-> TRUE, flags |-> {c2}]}

\* A payload is accepted exactly when it is well formed, and then every
\* conversation spelled in it holds the messages that name it.  The payloads
\* are the same in every state: they are looked at where a run begins.
ValidationIsExact ==
    app = "web" /\ life = 0 /\ mode = "auto" =>
       \A payload \in Payloads :
          LET read == Validated(payload) IN
          /\ (read.error = "none") = WellFormed(payload)
          /\ read.error = "none" =>
               \A h \in DOMAIN read.convs :
                  read.convs[h].texts = {m.id : m \in {k \in Elements(payload.messages) :
                                                         Hex(k.conv, k.upper) = h}}
=============================================================================
