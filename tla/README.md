# Verification of the chat runtime

This directory holds TLA+ models of the peer-to-peer chat runtime
(`packages/chat-runtime`) and of the signaling server in front of it
(`apps/web/src/server`), the TLC configurations that check them on small
instances, and TLAPS proofs of their main invariants for every value of the
constants. Paths below are relative to `packages/chat-runtime/src/` unless they
start with `apps/` or `docs/`.

## 1. The system

Two browsers (or more, in a group) meet in a room of a signaling broker,
negotiate a WebRTC data channel, authenticate each other over it, and then
exchange encrypted frames. The broker sees rooms, opaque labels and sealed
blobs; conversations, pinned identities and messages live at the endpoints.

    ChatController ── ChatSession ── ConversationOrchestrator ── FrameSender
         │                 │                  │        │         FrameReceiver
         │            WebRtcBridge ───────────┘        └── PAKE, TOFU, safety
         │                 │         (transport)           number, AEAD
    AtRestKeyManager  SignalingClient ── WebSocket ── BrokerConnection
         │                                               │
    LockableRepository ── MessageRepository          RoomRegistry, sweep

Everything runs on one JavaScript thread per process. What makes the code hard
is `await`: a handler runs to its first `await`, and timers, inbound messages,
user calls and teardowns run before it resumes. The broker's handlers are
synchronous; its difficulty is what happens between two events (sockets that
are closing, labels that are taken again, hooks that never fire).

| Component | State | Operations | Hard behaviour | Correct when |
|---|---|---|---|---|
| **Orchestrator** (`orchestrator/`) | lifecycle state, handshake generation, transport, ephemeral keys, transcript, PAKE session and parked waits, timers, frame sender and receiver, auth-failed cache | `start`, `join`, `notifyPeerJoined/Left`, `attachTransport`, `leave`, `retry`, `sendText`, inbound messages, three timers | about fifteen awaits per handshake, any of which may resume after a teardown or in the next handshake | both ends hold the same session; nobody unproved or unpinned is Connected; nothing survives a teardown; only authentication failures brick a conversation; every handshake ends |
| **State machine** (`signaling/state-machine.ts`) | one state | `transition` (throws on an edge outside the table) | any order of calls and failures | it never throws |
| **Replay window** (`crypto/aead.ts`) | highest sequence, a bit per slot | `observe`, `decryptFrame` | reordering, repetition, shifts around the window's size | nothing accepted twice, nothing refused without cause |
| **Framing** (`framing/`) | reservations, cancelled marks, drain waiters, sequence; inbound transfers and two byte counters | `sendFile`, `cancelTransfer`, drain event, `ingest`, sweep, `teardown` | cancel, sweep and teardown at every await; backpressure; limits | no slot or byte leaks, no lost wakeup, a file surfaces once and whole |
| **Transfer list and queue** (`runtime/transfer-state.ts`, `chat-controller.ts`) | snapshot entries, queued files | transfer events, `sendFile`, `drainSendQueue` | the snapshot lags the framing layer | list mirrors the transfers; queued files wait |
| **Broker** (`broker/`, `apps/web/src/server/broker.ts`) | rooms with their mode and seats, one connection per socket, the server's maps | open, join, leave, relay, close and error hooks, sweep | half-open sockets, messages after a close, label reuse, limits | registry and connections agree; one of two peers offers; no ghost members; the dead are forgotten |
| **WebRTC bridge** (`runtime/webrtc-bridge.ts`, `signaling/signaling-client.ts`, glare resolver, `apps/web` adapter) | peer connection, negotiation generation, flags of an offer in flight, latches of an adopted channel, teardown timer | peer join/leave, offer, answer, candidate, reconnect, close | glare, stale descriptions, replaced peer connections, broker teardown 2 s after the channel opens | both ends adopt the same channel; no stale offer; waiting ends connect |
| **Group session** (`group/`) | signed membership with an epoch, verified identities, one orchestrator per link | attach and drop of links, admission by the author, kick, gossip, membership request, display name, group texts and files | memberships that arrive while another is verified, links that connect during a mutation, members with different rosters | everybody converges on the author's newest membership; a kicked member's links are closed and nothing is sent to it |
| **Group connections** (`runtime/group-webrtc-manager.ts`, `group-signaling-client.ts`, `group-session-host.ts`) | a link per member with its generation; the host's record and read state | peer events, offers, failures, rebuilds; messages, selection, end | failures seen at one end or both, parked offers; hosts that end while they are stored | an end believes in a session only over a connection the other has; groups and hosts correspond |
| **Controller** (`runtime/chat-controller.ts`, `chat-session.ts`) | sessions, maps of calls in flight, abort epochs, active conversation or group, read markers | create, join, resume, leave, dispose, groups, send, lock | single-flight calls that wait for one another; starts overtaken by leave or dispose | every bridge has an owner; no circular wait; unread counts are exact |
| **Vault** (`runtime/at-rest-key-manager.ts`, `store/lockable-repo.ts`, `store/auth-failed-store.ts`) | key, epoch, pending flags | set, remove, unlock, lock | a lock while a key is derived; operations that still use a zeroized key | a superseded derivation changes nothing; flags are not lost |
| **Repositories** (`store/`) | conversations, messages, identities, links | append, list, delete, clear, serialize, reload | writes that resume after a delete or lock; a reload over other rows | no message without its conversation; a snapshot reloads as it was |
| **Bundles** (`store/export-bundle.ts`) | the snapshot of a Replace | export, Merge, Replace | validation of foreign data; single writes that fail or meet a handshake, a lock, an unmount | round trip; pins are kept; what is rejected is not written |
| **Web provider** (`apps/web/.../chat-provider.tsx`) | controller, database handle, cancelled flag | mount, unmount | an unmount between any two awaits | nothing is published, or left open, after the cleanup |
| **Mobile provider and store** (`apps/mobile/src/chat/`) | the key's memo, instance, epoch, registration | load of the keychain's key, mount, cleanup | loads that overlap a cleanup and a remount; death of the process | the keychain's key opens the file |
| **Identity manager** (`runtime/identity-manager.ts`) | the identity | load or create | two managers on one storage | the identity in use is the stored one |
| **Codec, invitations, ICE configuration, screens** | none | | | |

The hazards this gives rise to are in `PROJECT.json`, each at its line with the
properties that would catch it.


## 2. The models

| Module | Models | Uses |
|---|---|---|
| `ConnectionStates` | the transition table, as an abstract specification | |
| `Handshake`, `HandshakeProofs` | two orchestrators and the channels between them; theorems | refines `ConnectionStates` |
| `Negotiation`, `NegotiationProofs` | two WebRTC bridges with their signaling clients, up to one open channel; theorems | |
| `ReplayWindow` | window and `decryptFrame` | |
| `Framing` | frames, chunking, manifests, limits | |
| `FrameSender`, `FrameReceiver` | the two halves of a session, as records and the steps on them | `Framing` |
| `FileTransfer` | two endpoints composed of both halves, the channel, the transfer list and the send queue | both halves |
| `Broker`, `BrokerProofs` | the broker process; theorems | |
| `Group`, `GroupProofs` | the sessions of all members of a group; theorems | |
| `Mesh` | the group managers of all seats and the links between them | |
| `GroupLink` | the inbound side of one group link before and as it becomes Connected | |
| `GroupHosts`, `GroupHostsProofs` | the controller's groups: hosts, map, read markers; theorems | |
| `SafetyNumber` | the safety number of a group and the user's mark | |
| `Sessions` | the controller's conversations: calls in flight, session map, bridges | |
| `Documents` | bundles and snapshots, as functions | |
| `Storage` | vault, lockable repository, rows, import | `Documents` |
| `Provider` | mounts of the web provider around `Storage` | `Storage` |
| `MobileStorage` | the keychain-bound store of the mobile app and its provider | |
| `MCHandshake`, `MCFileTransfer`, `MCGroup` | instances for TLC | |
| `MCLinks`, `MCSessions`, `MCProvider` | compositions of independent parts, as TLC checks them | see section 3 |
| `LinksProofs`, `SessionsProofs`, `StorageProofs` | theorems about these three compositions | `GroupHostsProofs` in `SessionsProofs` |

How the models meet: `Negotiation` ends where the channels of `Handshake` begin
(`OpenChannel`); `Mesh` ends where the links of `Group` begin (`Dial`,
`LinkLost`); `Broker` is the other side of both signaling clients; `GroupLink`
is what stands between the transport of a link and its handshake; a host of
`GroupHosts` is one session of `Group` with one manager of `Mesh`; a session of
`Sessions` holds one orchestrator of `Handshake` and one bridge of
`Negotiation`. They are not multiplied out: the calls that cross such a border
carry no state back in the same tick, so each side lets the other do at any time
what its interface allows.

### Handshake

An action is one run of JavaScript from an event or a resumed `await` to the
next `await`. A suspended coroutine is a record of `tasks[p]` that remembers
where it waits (`at`), the generation it captured (`gen`) and the locals it
carries (transcript, secret, received message). So the *stale* continuation is
an ordinary element of the state, and the re-checks of `handshakeSuperseded`
are the guards `Superseded` and `KeygenSuperseded`.

| Code | Model |
|---|---|
| `currentState`, `handshakeGeneration`, `transport` | `state`, `gen`, `chan` |
| ephemeral key, peer hello, transcript, latches, PAKE fields | `hs` |
| `frameSender`/`frameReceiver` with their session keys | `keys` |
| handshake timer, `handshakeError`, `authFailedCached` | `timer`, `failure`, `authFailed` |
| pinned identity and auth-failed flag in storage | `pinned`, `durable` |
| `beginHandshake` → `maybeSignAndSend` → `verifyPeerAndComplete` → `runPakeConfirmation` | tasks at `keygen`, `sign`, `verify`, `tofu`, `create`, `shareWait`/`shareGot`, `finish`, `tag`, `confirmWait`/`confirmGot`, `check`, `derive`, `store` |
| `teardownSession`, `failHandshake` | `Teardown`, `Fail` |

Cryptography is symbolic. A Hello is the number of the handshake that made it;
a transcript is the two Hellos and the mode; a signature is the transcript it
covers; a SPAKE2 secret belongs to nobody when both used one code, and to its
deriver alone when they did not. Both endpoints run this program: what a hostile
peer could craft is not part of the model, only repeated messages are (`dup`).

The environment does what `Faults` allows: `timeout` (the three timers fire),
`leave` (the user leaves), `drop` (the network or the broker reports the peer
gone), `crash` (the process restarts and resumes the conversation by its bare
id), `repo` (a repository call rejects), `dup` (a handshake message is delivered
again). No listed run enables `dup`; the proofs hold for any `Faults`, but for
`RefusedForCause`, which excludes `dup` (section 5).

Abstractions a reader should know:
- On Connected, `ingest` of a frame and its reaction are one step. The
  serialized promise chain of the receiver is in `FileTransfer`.
- The repository flag and the durable store of auth failures are written in the
  step that fails, not one after the other. Only reads at `start`/`join` follow.
- `MaxConn` data channels are opened, one after another. How the bridges agree
  on a channel is `Negotiation`.
- The generation keeps counting across `Restart`, so Hellos of two processes
  stay distinct, as random keys would be.

### Negotiation

Two `WebRtcBridge`s, each with the `SignalingClient` it dials, over a broker that
relays. An action is one run to the next `await` of the browser: `createOffer`,
`setLocalDescription`, `setRemoteDescription`, `createAnswer`, the rollback. A
parked operation is an entry of `tasks[p]` with the generation its coroutine
captured, so the tests after each await (`isLiveOffer` and the like) are guards
on it.

| Code | Model |
|---|---|
| orchestrator state as the bridge reads it | `orch` |
| `negotiationGeneration`, `localOfferInFlight`, `channel`, `transportReadyFired`, `suppressSignalingClose`, `brokerTeardownTimer` | `nego` |
| socket, `peerPresent`, the glare resolver's flag | `client` |
| `RTCPeerConnection` and the chain of operations it settles in order | `pc`, `tasks` |
| broker messages to a socket | `wire` |

The browser is external: it settles the operations of a connection one at a
time, may reject one (`"reject"`), and opens a channel at both ends of an
exchange. The network may drop a socket (`"network"`); it is dialled again. One
end may run a client of an earlier version, which the comments of
`signaling-client.ts` describe, that also sends an offer when it is promoted;
without it offers cannot cross, with it they do. ICE candidates and the text of
descriptions are left out.

### ReplayWindow

`highest` and `slots` are the fields of the class, `times` is history for the
properties. A frame with a sequence is genuine or forged; `Decrypt` tries both.
Sequence numbers reach the window in any order, because the sender draws the
number before it awaits the encryption.

### FileTransfer

A `FrameSender` and a `FrameReceiver` are records, and the methods are operators
from record to record, so one action of `FileTransfer` composes what happens in
one tick at one endpoint: a frame is ingested, the controller's list is updated,
and `drainSendQueue` starts the next file, all in one step, as the callbacks do.
`sendFile` is a coroutine that waits for the hash, for each encryption and for
the drain event. Lengths are counted in units of half a chunk, contents are left
out; a manifest's three length checks (name, type, file) are told apart, and the
controller fills in a default name and type (8 and 24 bytes) where none is given; a hash mismatches only under `corrupt` (the host changes the bytes while
they are being sent). Text and control frames share the sequence in the code and
are left out here. The window of `ReplayWindow` is left out as well: the channel
is ordered, and frames stay in the order in which their encryption ended.

### Broker

One process, synchronous handlers: one action per event.

| Code | Model |
|---|---|
| `connections`, `sockets` of the server | `tracked` |
| `readyState` of a socket | in `alive`, or not (CLOSING and CLOSED are one) |
| `RoomRegistry.rooms` | `mode`, `seats` |
| `roomId`, `peerId` of a `BrokerConnection` | `conn` |
| join and leave notifications a client has been sent | `view` |
| `bufferedAmount` | `backlog`, in frames, saturated one above the limit |
| `handleJoin` + `RoomRegistry.join` + notification | `JoinSeated`, `JoinRefused` |
| `handleLeave`, `relay` + `forward` | `Leave`, `Relay` |
| open, close and error hooks, `runSweep` | `Open`, `CloseHook`, `ErrorHook`, `Sweep` |

A socket name stands for successive connections. Between `socket.close` and the
cleanup a connection is tracked and not alive, and its messages in flight are
still handled: that window is what the sweep exists for. Malformed messages are
dropped without effect and are not enumerated. Join and leave notifications add
to `backlog` without the test that `forward` makes, exactly as `protocol.ts:254`
and `connection.ts` do; the bound stated at `protocol.ts:63` is therefore one of
relayed messages only. Because the counter saturates, no property is stated
about it.

### Group

Every member runs a `GroupSession`. A step is what one session runs between two
awaits; the only awaits that carry state across are the verification of an
inbound list, the author's signatures and the author's gossip.

| Code | Model |
|---|---|
| `members`, `epoch` of a session; its `membershipValue` (the same list, except at the author) | `roster` |
| the author's `membershipValue` | `signed` |
| `links` and `linksByIdentity`; of a link whether it is Connected, `verified`, `unlisted`, and whether a name was announced on it | `links` |
| `closed`, and why | `status` |
| the group manager's peer connections | `pc`, numbered by `dialled` |
| control frames from the call that sends them to their handler | `wire` |
| `handleInboundMembership` at `verifyMembership` | `verifying` |
| `answerMembershipRequest` at `signCurrentMembership` | `answering` |
| `authorMutationQueue`: waiting tasks, the one that runs | `queue`, `running` |
| `attachLinkTransport`, `dropLink`, `closeLink` | `Dial`, `LinkLost`, `CloseLink`/`Closed` |
| `onLinkConnected` | `AuthorConnected`, `MemberConnected` |
| `onLinkControlFrame` | `ReceiveList`, `ReceiveRequest`, `ReceiveName` |
| adoption, `leave` | `Adopt`, `Leaves` |
| `authorAddMember`, `kickMember`, `updateDisplayName`, `refreshMemberDisplayName` through `applyMembershipChange` | `StartMutation`, `SignDone`, `GossipDone` |

Abstractions a reader should know:
- The handshake of a link is one step; `Handshake` models it. An identity has
  one seat, so the branch that replaces an identity's older link under another
  peer id is never taken.
- A display name is empty or the one name of its member: what matters is whether
  the author's list has caught up with it.
- Lists are those the author signed. Forged, malformed and foreign lists are
  refused by `verifyMembership` and are left out, with the author's pin.
- A request is never suppressed: the latch `membershipRequested` only keeps a
  link from asking twice between two adoptions, and the answer to a second
  request is the same list.
- A link that is closed stops hearing at once, and what its end still encrypts
  is lost, its `Leave` frame included; the peer's end stays until its peer
  connection is reported gone. Only the gossip of a removal is sent before the
  close, because `applyMembershipChange` awaits it.
- A member that left does not come back, since it would come back as a new
  session; new links of a session that stayed are opened by `Dial`.
- Group texts and group files are left out; the safety number is `SafetyNumber`.

### Mesh

One `GroupWebrtcManager` with its `GroupSignalingClient` per seat. A link is a
record with the number of its connection, which also stands for its generation,
since both change together. The awaits of `runOffer` are one parked point, those
of `answerRemoteOffer` another: every one of them is followed by the same test.
A connection that has joined another one joins no second; an end fails when the
connection it exchanged with has been replaced; a rollback is one step. Identity
pins of links and politeness by identity are left out, peer ids are minted once
per manager as in the code.

### GroupLink

The orchestrator of a group link learns its conversation from the peer's Hello
(`resolveGroupLinkConversation`), parks what arrives meanwhile, replays it, and
keeps frames that come before Connected. A session makes an orchestrator for
every transport and never calls its `retry`, so a link lives once. A Hello and a
signature complete the handshake here, verification failures are `Teardown`, and
after Connected only frames arrive; the rest is `Handshake`.

### GroupHosts

`startGroup`, `joinGroup`, `leaveGroup`, `leaveAll`, `clearAll`, `selectGroup`,
`sendGroupText` and `dispose` of the controller, cut at their awaits, with the
sessions that end on their own. A host is a session with its manager, which
`finishGroup` tears down in one step behind its latch. A message is its time of
arrival, and arrivals have different times (in the code two can share a
millisecond: the marker then covers both, as it should, unless the second
arrives after the first was read). Transcripts are sets of such times.

### SafetyNumber

A number is the epoch of its list. Digests end in any order. The user marks only
what the screen shows; the screen is as old as the last snapshot that was
emitted, and `CommitMembership` and `GossipDone`, which report members and not
numbers, may or may not refresh it. No screen of the apps offers groups yet:
what is modelled is the API of the controller.

### Sessions

The calls `startConversation`, `joinConversation` and `resumeConversation` with
the maps `joining` and `resuming` through which later calls wait for earlier
ones, and `leaveConversation`, `leaveAll`, `clearConversation`,
`selectConversation`, `dispose`, which land at any await. A call builds at most
one session, so sessions have the numbers of calls. The reads of `performJoin`
and `performResume` before the first `startAborted` are one parked step: all of
them end in the same test or in the same `finally`.

### Documents, Storage, Provider

`Documents` gives the two persisted formats as functions: envelope and payload
of a bundle with every test of the importer, and `serialize`/`reload` of both
repositories. `Storage` takes steps with them.

| Code | Model |
|---|---|
| `AtRestKeyManager`: mode, key, mutation epoch | `mode`, `vault`, `kdf` (parked derivations; a lock makes them stale) |
| `LockableRepository`: pending marks and their flush | `queue` |
| `store/auth-failed-store.ts` | `durable` |
| `InMemoryConversationRepository`, `BrowserDbConversationRepository` | `kind`, `conv`, `rows`, `work` (appends at their encryption, clears at their commit) |
| `importBundle` | `imp`, one write per step |
| effect and cleanup of `ChatProvider`, `openDatabase` | `mounts`, `disk` in `Provider` |

Abstractions a reader should know:
- A message is its id. Display names, creation times, groups and corrupt rows are
  left out. A document spells a conversation in lower or upper case.
- The reads an import starts with (the snapshot of a Replace, the stored ids of a
  Merge) are one step. One import runs at a time.
- TanStack collections are external: `delete` rejects the whole call if a key is
  missing, `insert` rejects a key that exists, a write is visible at once. The
  await of a commit matters only in `clearConversation` and is a step there.
- A cleanup drops parked calls, and `close()` drains the commits.
- `lock`, `unlock` and `setPassphrase` are operations of manager and controller;
  no screen offers them yet.
- `reload` is in the repository's interface and its tests, and no code of the
  apps calls it. It is therefore a function looked at in every reachable state,
  and not a step. The repository in memory does not refuse a message id twice
  where the browser's does.
- The export does not enforce the importer's caps, which is a premise of
  `ExportRestores`.

### MobileStorage

`loadOrCreateMmkvEncryptionKey`, `ensureStorageReady`, `closeStorage`, the
identity manager's `ensureLoaded` and the effect of the mobile provider. The
keychain may reject a call; a rejected write may have landed; the process may
die between any two steps. Keys are named by the load that made them, identities
by the mount. The memo `readyPromise` is empty at every mount, because every
cleanup clears it. That a mount resumes in a step of its own allows more
interleavings than the order of microtasks does. What MMKV does with a wrong key
is external, hence the property that it never gets one.

## 3. What is checked

`tlc -config X.cfg M` in this directory; each run below names its configuration.
Systems are bounded (channels, files, texts, calls, faults) and come to rest, so
all runs but `broker` and `negotiation`, which never stop, disable the deadlock
check. `MCLinks`, `MCSessions` and `MCProvider` hold parts that share no state;
a behaviour picks one part at the start and moves only that one, so the states
of a run are the sum of its parts' and not their product, and a property of a
part is checked exactly as it would be alone.

### Runs that pass

**handshake** (`MCHandshake.cfg`, 1,571,372 states). Two endpoints that know a
contact or meet a stranger, with right or mistyped codes or none; two channels,
so every coroutine can meet its successor handshake; timeouts, leave at every
await, retry, crashes and resumes. `SessionsAgree` (two ends Connected on one
channel hold the same keys), `PeerProved` (the peer signed this transcript and,
under PAKE, holds the same code), `SessionsAreSound` (no stale coroutine wires a
session, one coroutine completes it, Connected means pinned), `QuietWhenDown` (a
teardown leaves no transport, key, timer or parked wait), `AuthFailureHasCause`
(leave, timeouts and reordering never brick a conversation), `BrickedStaysDown`
(the flag gates `retry` across restarts) and `LifecycleImplemented` (every step
is an edge of the transition table, so `transition` never throws). Two channels
are enough for a stale coroutine and a resumed conversation; a third adds another
copy of the same encounter.

**handshake_live** (`MCHandshake_live.cfg`, 8,958 states). One channel, one text,
with or without a code, timeouts, drops, a rejecting repository, leave.
`HandshakesSettle`: every handshake ends and every coroutine settles. One channel
suffices because a handshake that ends early is ended by events of that same
channel.

**links** (`MCLinks.cfg`, 998,111 states). Four parts.
*Window*: a window of three and eight sequence numbers, so shifts below, at and
above the size occur. `ObservesExactly`: nothing is accepted twice, refused
without cause, or moved by what was not accepted.
*Mesh*: three seats, one link each at most, two faults. `InStep`: offers of a
pair never cross, a session has a link exactly while its manager holds an adopted
connection for it, and the caps of client and manager agree. Three seats are the
least where a full manager meets a newcomer.
*Link*: six arrivals, two parked at most. `InboundIsFaithful`: until the link
goes down every arrival is in exactly one place, handshake messages are handed on
in order, and only a message that may not come here blames the peer.
*Files*: lengths 0, 3 and 5 in any combination against a budget of 4 (one too
large to send, two that together exceed it), two slots, six sequence numbers (so
they run out), a channel backpressured at two frames; cancel, sweep, leave,
corruption. `Accounts` (slots and bytes are exactly those of live transfers, a
waiter is wakeable), `HonestPeer` (an honest sender is never refused as a
violator), `SurfacesOnce`.

**transfer** (`MCFileTransfer.cfg`, 94,602 states). Two sends of a file of two
chunks whose name just fits, or of one whose name is refused; one slot,
backpressure at one frame, four sequence numbers, and the same faults.
`SendsSettle`, `InboundReleased`: every `sendFile` settles and every inbound
transfer is released.

**broker** (`Broker.cfg`, 50,464 states). Three sockets, three rooms of which two
may exist, three labels, two seats per group, and a receiver that is overloaded
after one frame. The third socket is what meets a full room and what takes a
label that was given up. `SeatingHolds` (registry and connections describe one
seating, within the limits), `ViewsAreTrue` (one of two peers offers, members
believe only in seated peers), `DeathIsAnnounced` under the sweep's fairness.
With three names the connection limit of three is never the reason for a refusal;
a refused connection changes nothing, so nothing is lost.

**group_seats** (`MCGroup_seats.cfg`, 208,820 states). From the empty group on:
three identities contend for a group of two. Two channels and one kick give an
admission, a link the cap refuses, a list that is full when the task runs, a kick
that frees the seat, drops and departures at any point. `SignedIsCurrent` (the
lazy first signature does not replace a newer list), `EpochNeverRegresses` (two
lists verified at once are adopted in order or not at all) and, under fairness,
`GossipArrives`: a list that is signed reaches every connected member, the one
just admitted and the one just removed included.

**group_mesh** (`MCGroup_mesh.cfg`, 1,748,210 states). The complement: a settled
pair (`SeatedInit`, the state in which two members come to rest) to which a third
links from both sides, while the author kicks, a member takes a name and pending
links time out. Three members are the least that can hold three different lists
and learn of a change in different orders. `ListsAgree` (one list per epoch,
none ahead of the author's), `EjectedWasKicked` (a joiner that is given a list
from before its admission does not take itself for removed), `VerifiedIsListed`
(content goes to members only, or at the author while the admission or the
removal is on its way). The run counts states as one that differ only in lists
which their receiver is going to discard (`View`): the epoch a list is measured
against only grows, so such a list stays without effect and the two states have
the same successors. What the view hides from an invariant is a stale list
itself: `ListsAgree` is proved of these as well (section 5), and
`EpochNeverRegresses` is checked in `group_seats`, without a view.

**negotiation** (`Negotiation.cfg`, 331,105 states). Two ends, one of which may
run the earlier client; two bridges or connections per end, one network fault, a
rejected operation at any await. `SameChannel` (two linked ends that fired hold
the same channel), `InTurn` (no latch of an earlier session while one waits for
a transport; offers never cross between two ends of this version), `NoStaleOffer`
(an offer that reaches the wire is the one its bridge stands by) and, under
fairness, `Converges` (ends of this version that keep waiting end up attached to
one channel). Two connections per end suffice for a parked coroutine to meet its
successor.

**sessions** (`MCSessions.cfg`, 1,935,273 states). Three parts.
*Conversations*: four calls and one leave, so that two attempts wait on a third
while a fourth runs. `SessionsAreOwned` (a registered session has a live bridge,
or its call is at work on it; a bridge outside the map is closed; a leave wins
over every call made before it), `NoCircularWait`.
*Groups*: one group, three hosts, four calls, two messages: a restart during a
store, a join that waits for a join, a change reported by a host that has been
replaced. `GroupsMatchHosts`, `UnreadIsExact`.
*Number*: three lists.

**storage** (`MCProvider.cfg`, 2,071,282 states). Two parts.
*Web*: two mounts, one boot fault, and any two of lock, passphrase, append,
clear, authentication failure, import and repository fault, each cut at its
awaits, over three different disks. Two events are an encounter; three mounts or
events only repeat one. `AuthFailedRemembered`, `ExportRestores`,
`SnapshotReloads`, `PinsAreKept`, `LockHolds`, and `ValidationIsExact` over all
payloads of up to two conversations and two messages.
*Mobile*: three mounts, three loads of the key, two keychain faults, any number
of crashes. `MountsOwnTheirStore` speaks of both.

### Runs that end in a counterexample

Each checks one sentence of the documentation, of a comment or of a test that
the code does not keep.

| Run | Says | What happens |
|---|---|---|
| storage_orphan, `NoOrphans` | "Re-check before inserting so the row cannot persist as an orphan" (`browser-db-repo.ts:415`) | `clearConversation` deletes the messages it found and awaits the commit before it deletes the conversation. An append that resumes in between passes its re-check, and its row outlives the conversation |
| link_frames, `FramesInOrder` | "I want received messages to appear in order" (`fuck-eu-chat-control.md:108`) | the frames kept until Connected are ingested one await at a time, while a frame that arrives meanwhile is ingested at once |

More configurations of this kind are kept to be run by hand:

| Configuration, module, property | Says | What happens |
|---|---|---|
| `MCHandshake_stale`, `FailureIsCurrent` | the re-check stands "before a post-teardown tag mismatch could reach failHandshake as a durable auth failure" (`orchestrator.ts:2133`) | the check comes before the await that derives the expected tag; a leave during it is followed by a mismatch that is recorded durably and reported for a dead session |
| `MCFileTransfer_alias`, `SnapshotMirrors` | the list "Mirrors the framing layer's progress" (`runtime/transfer-state.ts:2`) | both ends number their files from one; the completion of an inbound file marks the outbound entry with its number |
| `MCGroup_relink`, `WaitingMemberIsCovered` | a joiner with a list that does not name it "holds the list and waits for the epoch containing itself, which the author's gossip-on-bump delivers" (`group/group-session.ts:984`) | its link to the author is down while the author commits the admission, so the gossip misses it. It links again, both ends verify the link by the lists they hold, and neither sends or asks for the newer list |
| `Mesh_relink` (module `Mesh`), `PairsRelink` | the comment of `handleLinkFailure`: a failure seen at both ends makes exactly one offer, the newcomer rebuilds and waits for it | the seated end's connection fails first and offers again; the newcomer is parked answering that offer when it sees its own failure, which moves the generation on; the answer is dropped and both wait |
| `Negotiation_grace` (module `Negotiation`), `GraceCloseIsQuiet` | while `suppressSignalingClose` is set the close of the broker socket "must not be surfaced to the orchestrator as a peer drop" (`webrtc-bridge.ts:118`) | the socket closes during the grace period and is surfaced |
| `MCSessions_orphan`, `NoOrphan` | a session that is not in the map has no bridge | a resume fails with two others waiting. Both go on, the second overwrites the first in the map of attempts, and on an abort takes a later start's session out of the map: its bridge keeps its seat until the page is closed |
| `MCSessions_leave`, `LeaveIsFinal` | a leave wins over a join made before it | a join that waits for an earlier join of the group survives `leaveGroup` and `leaveAll`; conversations have epochs against this |
| `MCSessions_verified`, `VerifiedIsCompared` | "a new epoch is a new number, so any prior verification must not carry over" (`runtime/group-session-host.ts:226`) | a member adopts a list, the user marks the number on the screen, and the new list's number replaces it under the mark (`group/group-session.ts:980`, `:1150`) |
| `MCProvider_handles`, `HandlesReleased` | the effect's cleanup closes the database | `if (cancelled) return` and the throw of `atRestKeyManager.get()` leave the handle open (`chat-provider.tsx:523`, `:548`) |
| `MCProvider_rollback`, `ReplaceRollsBack` | a failure in mid-import, "e.g. an AtRestLockedError", "can roll the repo back to its pre-import contents" (`store/export-bundle.ts:271`) | a lock during the import also makes the restore fail |
| `MCProvider_proven`, `ProvenFirst` | "The payload is fully proven before the first write" (`store/export-bundle.ts:262`) | an empty message id passes validation and is refused by `appendMessage` in the middle of a Merge |
| `MCProvider_identity`, `IdentityIsStored` | "Generates once on first run" (`runtime/identity-manager.ts`) | a cleanup and a remount while the first mount generates the identity (`:104`): the first manager stores its own after the second has stored and published its own |

Where no module is named, it is the part of the name before the underscore.

Seen while modelling, without a run of their own.

*Pairs and files.* After an authentication failure "retry on the same chat is
blocked until a fresh invitation is created" (`docs/architecture/threat-model.md:139`),
but only `retry()` reads the flag: after a restart the conversation is joined by
its bare id, `attachTransport` does not test the flag, and without a code both
ends connect. The `Leave` frame of `leave()` is encrypted asynchronously and the
transport is closed in the same tick, so it is not sent. The send queue counts
entries of the snapshot while the sender also counts transfers that still hash,
so a queued file can be taken out early and be rejected. A cancel that arrives while the
last chunk is encrypted is first shown and then lost, since `sendFile` completes;
a cancel while the manifest is encrypted leaves a "sending" entry behind; the
`TransferCancel` that the handler of exhausted sequence numbers wants to send
needs a sequence number itself; a sender finishes although the receiver refused
the file, since refusals are not reported back; the docs have `join` enter
Signaling where the code enters Waiting; a resumed conversation never asks for
the code again.

*Groups.* Any member whose link was down during a change keeps its older list
until the next one, not only a joiner. A member that is kicked before it adopted
a list was never listed in its own eyes, so it stays and waits. A kicked member
whose link was down at the kick links again and is admitted again, since whoever
completes a link with the author joins. A just-joined member's link to another
member is closed by the second list that does not name it yet: the comment at
`group/group-session.ts:149` asks for both, that it survives until the covering
epoch and that the next list closes it.
`refreshGroupSafetyNumber` (`:1150`) does not check that its digest is still of
the current list when the hash is done.

*Controller.* `sendText` replaces the view with a history read earlier: a message
received or sent meanwhile is lost from the view, or is shown twice when its own
event is still to come, and a view that was cleared comes back. After
`clearConversation` the row is gone, so a later send throws although a comment
(`chat-controller.ts:1843`) has it re-open the conversation. A controller behind
a passphrase is never published at boot. `runRefresh` compares ids by reference,
which over the browser's repository leaves `session.record` null; that repository
also skips rows it cannot decrypt. The generation guards around the resolution of
a group link are unreachable through `GroupSession`, which never retries a link.

## 4. Fairness

Liveness runs assume only what the runtime provides:

- `WF(Coroutine(p))`: a promise that was awaited settles and its continuation
  runs. WebCrypto and the repository resolve or reject.
- `WF(Timers(p))`: an armed timer fires unless it is disarmed.
- `WF(Inbound(p))`, `WF(Ingest(p))`: an open channel delivers.
- `WF(Sweep(p))`, `WF(Sweep)`: the two intervals (inactive transfers, zombie
  sockets) keep firing. The close hook of the broker has no fairness: that it
  may never fire is why the sweep exists.
- `WF(~open[Other(p)] /\ Teardown(p))`: a channel the peer has closed is noticed.
- In `Group`, one weak fairness per kind of work: handshakes of open links
  complete (`Connect`), frames are delivered (`Deliver`), signatures and their
  verifications settle (`Verify`, `Answer`, `Mutations`), a manager learns that a
  peer connection is gone (`Lost`), the pending-verify timer fires (`Timeout`,
  idle where `Faults` excludes it). Per kind is enough, since the work of a kind
  is finite here and a frame or list that was handled is gone.
- In `Negotiation`, `WF(Events(p))`: promises of the browser resolve, sockets
  open, messages and timers arrive. `WF(ConnectionFails(p))` while the two are not
  linked: ICE gives up on a connection that cannot be completed.
  `WF(SessionEnds(p))` while they are not together: an end that attached a
  channel its peer does not hold runs into the handshake's timeout.
- In `Mesh` (by hand) the same, per link.

No fairness is given to users (`Leave`, `Retry`, `CancelSend`, `Kick`, `Rename`,
`Reconnect`), to new sockets, to new channels or to what breaks them (`Drop`,
`SocketDrop`). `DeathIsAnnounced` needs no fairness for reads: what is owed is
the notification, not its delivery.

## 5. What is proved

All theorems hold for every value of the constants that satisfies the named
assumptions of the module.

**Handshake** (`HandshakeProofs`; assumptions `PeerAssumption`, two endpoints;
`NoneAssumption`, `AbsenceAssumption`, the absence marker is no datum;
`InvitationsAssumption`, `ContactsAssumption`, `BoundsAssumption`).
`HandshakeInv` is inductive. That the session in place is current is not inductive alone: that a
continuation which passes `Superseded` belongs to the running handshake says
nothing yet about the transcript it carries. `Strengthening` adds what the code
relies on without saying so: the handshake's fields are those of the current
generation (`FieldsAreCurrent`), every task, stale ones included, is one a
handler could have spawned (`WellFormed`), a task of the current generation
works on the transcript in force and in the state its stage implies (`InStep`),
and the flag is in the cache once `start` has run (`FlagIsCached`). From it
follow `TypeCorrect`, `TeardownIsComplete`, `NoStaleSession`, `CompletedOnce`,
`NeverAStranger`, their conjunction `SessionsStaySound` that the run checks,
`BrickedRefusesRetry` and the refinement `ImplementsLifecycle`:
every initial state maps to one of `ConnectionStates`, every step to an edge or
a stutter.
`SessionsAgree` and `PeerProved` relate two ends, and what one knows of the other
came through channels that were closed, re-dialled and may repeat messages.
`PairInv` adds to `HandshakeInv` what makes that knowledge current. An end attaches
a channel at most once, because every `beginHandshake` gets the transport of a new
dial; so whatever arrives on a channel both ends hold (`Together`) was sent by the
one handshake its sender runs there. `OutboxIsTrue` says so of the messages in
flight, `Untouched` that an open channel carries nothing of an end that is not
attached, `HeardNothing` that the end which attached first has heard nothing before
the other came, and `HeardFields` and `HeardTask` that what was taken from those
messages, into a field or into a coroutine waiting at any of its awaits, is true of
the other end now: it has signed the transcript, holds the code, derives the
secret. Coroutines of earlier generations are under no such obligation, and none is
needed, since `Superseded` is tested before they touch a field. A step moves one
end, so each action has two lemmas' worth of work: what its own end keeps or learns,
and that no fact the other end relies on is withdrawn while the channel is shared
(a transcript or a signature is never taken back within a generation). From
`EndsKnowEachOther` follow `PeersAreProved` and `SameSession`.
`RefusedForCause` is `AuthFailureHasCause`: a conversation is refused for good only
if the codes differ or another identity is pinned. The tag that fails may be
compared after the peer that sent it has hung up, or dialled again with another
handshake, and `PairInv` is silent about ends that no longer share a channel.
`CauseInv` therefore speaks of *some* handshake of a peer with the same code: there
are a generation and a transcript from which all comes that an end has taken or has
still to take from a channel that was shut (`LeftBehind`, `From`). While the channel
is shared the witness is the handshake the other end runs (`Witnessed`), and when
that end goes away the witness stays. So the tag and the secret an end compares are
of one handshake, and equal (`Caused`). The other way to be refused is a PAKE
message that finds one already there: `Once` says that of each kind one message is
on a channel at most, and none before the coroutine that sends it has come to that
point (`YetTo`). This needs `"dup" \notin Faults`, and the code is the reason:
`handlePakeShare` and `handlePakeConfirm` take a second message for an attack, so a
channel that repeats one does brick the conversation. The data channel the code
opens is ordered and reliable, so repetition is the stronger assumption on the
network, under which all the other theorems of the module still hold.

**Negotiation** (`NegotiationProofs`; any number of re-dials, faults and rejected
operations, any ends polite, any clients; `PeerAssumption`, `BoundAssumption`,
and `NoneAssumption`, the absence of an exchange is no exchange). `OffersAreFresh`
is `NoStaleOffer` of the run, `TurnsAreTaken` is `OffersNeverCross` and `BridgesTakeTurns` the whole of its `InTurn`. None is
inductive. `BridgesInv` adds `TasksAreSound`: a coroutine belongs to a
generation that was, its operation to that or a later connection, and no later
than the one that lives, so a coroutine that still owns the bridge ran its
operation on the live connection. That is why `setLocalDescription`, awaited by an
owner, has put the *live* connection into have-local-offer. `OneDials` says who
may offer before anybody does: an end that has an offer in flight, or a join on
its way to it, is the only such end. The step that could break it is the socket
that opens, and there `SocketsAreSound` settles it: a bridge that dials has just
been made, holds no offer, and nothing is on its wire. Each action is a change of
one end's row (`RowStep`), a change of the wires (`WireTaken`, `WireClosed`,
`WireRelayed`) and a claim that no offer went out (`Silent`), all but `OfferSet`.
`InTurn` also speaks of latches, and there one end is not enough: readiness latches
when a channel opens, and what keeps it from latching while the orchestrator waits
for the next session is what the *other* end did. `Side(p, ...)` states it for one
end p against the connection of the other, generation and socket. `HearSay`: p's
wire, parked coroutines and exchange name only connections that were, and the
present one only once its socket has opened. `JoinsFirst`: the join of that
connection is heard before anything that names it. `Attends`: an end that waits
and negotiates takes the other for present, so a join it hears then is a new one.
`Yields`: an end that waits and has heard of the other's present connection has no
offer under way behind the coroutine that heard; this needs the order of the
coroutines and not only their set, since an offer created *before* is overtaken by
the rollback. `Latches`: a bridge that fired holds a channel, offers nothing and
does not wait. `InTurn` follows from the last of these; the others are what a
delivered message and a settled operation need. A step is proved as a change of
p's own state (`Here`), what it tells the other end (`WireTold`) and what it
becomes for the other end to know (`Dialed`), and `SideStep` puts the three together
into both directions of `Sides`.

`SameChannel` relates what the two ends *hold*, for which `Bonds` adds three parts.
`Anchored`: a live local channel is the end's own; a bridge that dials holds
nothing, and one that fired keeps its exchange, and the other end's presence as long
as it has a socket. `Follows(p, q)`: once p has heard of q's present connection
(something p has names it, or both are seated and no join is left to be heard) and
holds a channel that q made, q has that channel or none, has heard p's join, and
will not make another. `OneMakes`: between two ends of this version, only one has
made a channel or has a join on its way that will make it do so. The hypothesis of
`Follows` had to be stated so that it only shrinks while a connection lives
(`HearsKept`, `HeardKept`), except at a fresh dial, of which nobody has heard: that is
what makes the invariant inductive. `BondsKept`, `BondsGoOn`, `BondsRenewed` and `SettledBonds`
are the four shapes of a step; each action is shown to have one of them. Two ends
that are linked have heard of each other (`LinkedJoined`), so an end that adopted
the other's channel holds what the other holds (`FiredFollows`), and `OneMakes` excludes
that each made its own. `SameVersionAgrees` is `SameChannel` between two bridges of
this version (`Eager = {}`). `ChannelsAgree` holds for any clients: with an older one
at an end it leaves a single alternative, that each end holds its own channel
(`EachItsOwn`).

**Links** (`LinksProofs`, the four parts of the composition `MCLinks`).
*Window* (any size of at least one, any range). `NoReplay` becomes inductive with
`SlotsAreHistory`: slot *i* is set exactly when `highest - i` was accepted, and
nothing was accepted above `highest`. The cases of a shift are the three of the
code: past the whole window, within it, by the slot just uncovered.
`WindowStaysExact` is `ObservesExactly` of the run.
*Group link* (any number of arrivals, any bound on the parked; `LinkAssumption`).
`LinksAreFaithful` is `InboundIsFaithful`. `LinkInv` accounts for the arrivals
according to how far the resolution of the conversation is: before the first Hello
there are none (`Unheard`); while it is resolved, what arrived is the Hello and
what is parked behind it, in order (`Resolves`); after that every handshake
message was handed on and every frame is kept, held by the completion or ingested,
in exactly one of these (`Over`). The replay hands on and keeps whole sequences at
once, so the proof needs what `OfKinds` computes. It is a recursive function, and
the module proves from the well-foundedness of finite sets that there is induction
up to a number (`LeastElement`, `UpTo`) and that a function defined by recursion
exists (`Recursion`); what the selection contains and its order follow
(`KeptFacts`).
*Mesh* (any finite set of seats, any caps and faults; `MeshAssumption`).
`MeshStaysInStep` is `InStep`. As for the pair, `OneDials` is the key: who dials is
settled by the news of a join before it arrives. `Built` says that only the
dialling end has an offer in flight, `Numbered` that a coroutine which answers on
today's connection has rolled back its own end's offer, and a set of links grows
by one only where the caps let it (`CapKept`).
*File transfer* (any chunk size, budget, cap and high-water mark, any number of
frames and sends, any faults of the wire; `FileAssumption`: the caps of a manifest
are those a byte can carry, the bounds are positive, the two ends are two).
`FileInv` has a part per end and a part per direction. Of a sender, `Reserved` says
which send stands at which of its awaits, and that a slot is held exactly by those
that have not ended; of a receiver, `Books` says that its two byte counters are
sums over the transfers in its map. The sums are folds over a finite set, and
`SetInduction` and `FoldExists` give them what a step needs: one transfer added,
removed or advanced changes the sum by its own bytes (`Total`). `Honest` lists the
errors a receiver may have recorded. It is not inductive for one end, since a
receiver blames its peer for what arrives; `Linked` is the part per direction. It
numbers the frames of a transfer, manifest first, and says that those on the wire
are consecutive and lie between what the receiver has taken (`Held`) and what the
sender has sent, so a chunk that arrives is the one its transfer waits for, unless
the receiver dropped the transfer, for a cause (`Excused`), or was torn down.
`AccountsBalance` is `Accounts`, `PeersStayHonest` is `HonestPeer`, and
`FilesSurfaceOnce` is the action property `SurfacesOnce`: between the last chunk and the
return of its hash a transfer stays in the map, or its file is not surfaced.

**Broker** (`BrokerProofs`; any finite sets of sockets and rooms, any labels,
limits and backlog). The invariant joins the type invariant, the agreement of registry and
connections, "a pair room has no third seat", "a socket without a seat believes
in nobody", `OneOfTwoIsTold` and `NoGhostMembers`; the two notification
properties need the first three, because who is told of a departure is read from
`conn` while who is seated is read from `seats`. `LimitsHold` is proved on top of it
with the cardinality facts of the library. For pair rooms "no third seat" is
what makes one boolean per socket enough to say who offers. `SeatingIsSound` and
`ViewsHold` join these as the run checks them.

**Group** (`GroupProofs`; any members, any cap, any bounds and faults;
`AuthorAssumption`, `BoundsAssumption`, `NamesAssumption`). `ListInv` says what
every copy of a list is: the lists known to anybody (held, signed, on the wire,
in verification or in an unfinished answer) carry different epochs when they
differ, none is ahead of the author's, a signed list is the author's current
one, the mutation that runs was computed from the list still in force, and the
members an older list has and a newer one lacks are among the kicked. Every step
but one only copies lists (`Copies`), and one lemma settles all of these; only
`SignDone` makes a list, and there the serialization of mutations is what makes
the epoch new and the losses those of that one task. From it follow
`EpochsNameLists`, `AnswersAreCurrent`, `JoinersStay` and `EpochsGrow`.
`OnlyMembersVerified` adds that a session which ended has no links, and goes by
the kinds of steps: most are `Modest`, that is they verify no link except to a
listed peer or, at the author, together with the task that admits it, and leave
lists and mutations alone; adoption and the three steps of a mutation have a
lemma each. The theorems speak of `Spec`, which starts from the empty group; the
state `group_mesh` starts from is one such a group comes to rest in, up to the
numbers of its links.

**Sessions** (`SessionsProofs`; any number of calls and leaves;
`BoundAssumption`, `NoneAssumption`, `NowhereAssumption`). `SessionsInv` adds to the properties what
the two maps of attempts and the parked calls are to one another:
`CallsAreSound` (a parked call is of the kind its await belongs to, one that
waits waits for a call, and epochs captured are not from the future),
`MapsHoldAttempts` (a map names an attempt of its kind, and, until two of one
kind have been in flight together, the only one), and `SeedingIsAlone` (while a
resume reads its history nothing else is registered for the conversation, a
leave that came has aborted it, and whoever joined after that leave waits for it;
this is why an abort takes the right session out of the map). From it `RegisteredIsOwned` and `NobodyWaitsInACircle`. What
happens after such an overlap is the `NoOrphan` counterexample of section 3; the
theorem says that there is no other way to an orphan.

**GroupHosts** (`GroupHostsProofs`; any groups, hosts, calls and messages, under
the hypothesis `Nowhere \notin GroupId`, that the marker for "no group is shown"
is no group). `UnreadIsExact` says that a counter equals the number of messages
never shown, while the code counts those past a time marker; what ties the two
is `MarkersAreExact`: of a registered host, what was never shown is what lies
past the marker, and all of the shown group was shown. It needs `HostsAreSound`
(arrivals lie in the past and have a last one, an ended host has no seat). One
lemma settles each way the state moves: a group is shown (`SelectsInv`) or built
(`BuildsInv`), hosts end (`TornInv`), a host takes its seat (`SeatInv`) or
reports a change (`ChangeInv`, also after its end), everything is wiped
(`WipesInv`), a conversation is shown (`HiddenInv`). `GroupsHoldTheirHosts` and
`UnreadCountIsExact` state it of the module alone. `SessionsProofs` carries both
over to the composition that the run checks: `GroupsStayMatched` and
`UnreadStaysExact` are its `GroupsMatchHosts` and `UnreadIsExact`, since a step of
the composition is a step of `GroupHosts` or leaves its variables alone.

**Storage** (`StorageProofs`, both parts of the composition `MCProvider`).
*Web* (any conversations, bundles, disks, mounts and events; `FilesAssumption`,
`DisksAssumption`, `MountsAssumption`). `WebInv` joins three things. `VaultIsSound`
and `MountsAreSound`: the vault holds a key exactly when it is unlocked, a
derivation that may still open it was begun since the last `lock()` by the
controller at work, which is the last mount's. `FailuresAreKept`: a failure that is
owed is in the durable record, or else it is the flag of a stored conversation or a
queued mark whose replay has not begun; the last clause is what makes
`AuthFailedRemembered` inductive, because a mark that is being replayed is in the
queue and yet lost if the replay rejects, unless it is put back. `DisksAssumption`
says what earlier runs leave behind: where there is a durable record, a conversation
stored as failed is in it. From the invariant follow `FailuresAreRemembered`
(`AuthFailedRemembered`), `LocksHold` (`LockHolds`), `PinsStay` (`PinsAreKept`) and
the web half of `MountsStaySound`.
*Documents* (`CapsAssumption`; `FilesAssumption` says which payloads a file can
decrypt to, lists of entries sound or with one of the flaws the decoders name).
What the library's folds return for lists of any length needs an induction that
takes no operator: `CountUp` and `SetInduction` say it of sets, `EntriesRead` and
`MessagesRead` unroll `FoldLeft` into one step per entry, and `ReadingIsExact`
keeps, beside the error, which messages each spelled conversation has received and
which ids have been seen. So `ValidationFacts` holds of every payload of the right shape,
and `ValidationStaysExact` of those that `ValidationIsExact` enumerates.
*Rows* (any stores, bundles and events). A document names a message by its id, so
what is written can only come back if ids are unique, and that is not inductive
alone: an append holds an id through its encryption, and an import through all its
writes. `StoreInv` adds what keeps them apart. `UsedInv`: every id stored, on disk,
in a file or in the snapshot of a Replace has been drawn, so a new one meets none
of them. `WorkInv`: the id of a parked append is stored nowhere and parked once.
`ImportOK`: the conversations an import reads have disjoint texts, those it has
dealt with are no longer to do, and what is left of the current one is part of what
was read. `ComingInv`: in the repository in memory, which does not refuse an id
twice, nothing an import has still to append is stored already; and there
(`OrphanInv`) every row has its conversation, which the browser's two-step clear
cannot promise (run storage_orphan). `StoreStaysSound` is its induction.
`SnapshotsReload` (`SnapshotReloads`) follows: a document written from such rows is
refused by no test of `reload`, and each conversation is rebuilt from its own group
of messages. `ExportsRestore` (`ExportRestores`) joins both parts: the exported
lists hold each conversation and each of its messages once, hence within the caps
the payload is well formed, the envelope passes every bound, and validation returns
what was stored.
*Mobile* (any number of loads and keychain faults; `LivesAssumption`).
`FileIsOpenable` says nothing of loads, so `MobileInv` adds `LoadsAreAlone`: the memo
names the only load under way, a key is written only while the keychain is empty
(hence while there is no file), and a load that ended well has the keychain's key.
`MountsAreTold` says that a mount which still waits for the key finds the epoch
moved on exactly when it was cleaned up; this is why the early return of the
provider and the check of the epoch in `ensureStorageReady` agree, and no store is
registered without an instance. `MountsStaySound` is `MountsOwnTheirStore`, both
halves.

## 6. What is only model-checked

- **Liveness** under fairness (`HandshakesSettle`, `SendsSettle`, `InboundReleased`,
  `DeathIsAnnounced`, `GossipArrives`, `Converges`), and `ENABLED`: out of the
  prover's reach.
- `SameChannel` with a client from before offers followed presence at one end. The
  theorem leaves `EachItsOwn`; that it does not happen either is checked by
  `negotiation`. Such a client answers an offer with an offer of its own, and then an answer to an
  *earlier* connection of its own can reach it and clear its offer in flight: who
  has rolled back what then depends on which end is polite and on the order of
  three messages and two coroutines.
- `VerifiedIsListed` and `EjectedWasKicked` are proved as `OnlyMembersVerified` and
  `JoinersStay` from the empty group; the run checks them from a settled pair too.

## 7. Plan

What is left, the most valuable first.

1. **Proofs**: that `EachItsOwn` does not happen with an older client at one end.
2. **Messages**: the view of a conversation that `sendText`, inbound messages and
   `clearConversation` maintain beside the repository, with the losses described
   in section 3; it needs the abstract promise to be stated first, since the code
   keeps none that is simple.
3. **Groups**: texts and files over verified links, and the queue of sends of a
   group.
4. **Pairwise links**: the repository that derives a link's records from the
   members of a group.

## 8. What is not modelled

- Group texts and files, the pairwise-link repository, drafts, display names of
  conversations, and the mirrored message list of a session (section 7).
- Byte layouts: codec, manifest and record encodings, invitation strings. They
  are pure functions which the unit tests enumerate.
- Cryptographic strength. Equal inputs give equal secrets, and a signature or
  tag holds for nothing but what it covers.
- What surrounds the programs: ICE configuration and candidates, origin guard,
  health check, rendering, the desktop shell.
- Frames that WebCrypto finishes out of order by more than the window of 1024:
  the receiver answers with a session-fatal error. `FileTransfer` lets
  encryptions finish in any order but keeps the window out.
- Rows that do not decrypt, and databases that were changed by another program.
