---------------------------- MODULE FileTransfer ----------------------------
(***************************************************************************)
(* File transfers between two Connected endpoints: the FrameSender and the *)
(* FrameReceiver of each, the data channel, the orchestrator's transfer    *)
(* events, and what the controller makes of them - the transfer list of    *)
(* the snapshot and the queue of sends above the concurrent limit.         *)
(*                                                                         *)
(* One session is modelled, from Connected to its teardown.  A file is     *)
(* named by its id, which is drawn from the same numbers at both ends.     *)
(***************************************************************************)
EXTENDS FrameSender, FrameReceiver

CONSTANTS
  Peer,      \* the two endpoints
  Uploads,   \* bound: files each endpoint sends, a function of Peer
  Faults     \* what may happen besides sending, see the actions

ASSUME PeerAssumption == \E a, b \in Peer : a # b /\ Peer = {a, b}
ASSUME UploadsAssumption == Uploads \in [Peer -> 0 .. MaxSends]

VARIABLES
  sender,    \* frameSender of each endpoint
  receiver,  \* frameReceiver
  open,      \* the data channel is open at this end
  wire,      \* wire[p]: frames p sent that are not ingested yet
  low,       \* a bufferedamountlow event is pending
  list,      \* session.transfers: entries of the snapshot, by id
  queue,     \* sendQueues: files waiting for a free slot
  refused    \* a queued file was rejected because of the limit

vars == <<sender, receiver, open, wire, low, list, queue, refused>>

Other(p) == CHOOSE q \in Peer : q # p

-----------------------------------------------------------------------------
(* The snapshot (runtime/transfer-state.ts).                               *)

Directions == {"sent", "received"}
InFlight   == {"sending", "receiving"}
Terminal   == {"complete", "cancelled", "error"}
NoEntry    == [direction |-> "none", status |-> "none"]
Entries    == [direction : Directions, status : InFlight \cup Terminal] \cup {NoEntry}

(* applyTransferEvent of a start: an entry with this id is left alone.     *)
Started(l, id, direction) ==
  IF l[id] # NoEntry THEN l
  ELSE [l EXCEPT ![id] = [direction |-> direction,
                          status |-> IF direction = "sent" THEN "sending" ELSE "receiving"]]

(* ... and of a terminal event, which looks the entry up by id alone.      *)
Ended(l, id, status) ==
  IF l[id].status \in InFlight THEN [l EXCEPT ![id].status = status] ELSE l

(* countInFlightTransfers *)
CountInFlight(l) == Cardinality({id \in Ids : l[id].status \in InFlight})

Connected(p) == open[p] /\ ~sender[p].tearingDown

(* Every transfer event ends in onSessionChange, and that in               *)
(* drainSendQueue: the first waiting file is taken when the list shows a   *)
(* free slot, and rejected when the sender has none.  s and l are the      *)
(* sender and the list when the event is raised.                           *)
Drain(p, waiting, s, l) ==
  LET due == waiting # <<>> /\ CountInFlight(l) < MaxTransfers
  IN [sender  |-> IF due /\ Connected(p) /\ ~AtCap(s) THEN Begin(s, Head(waiting)) ELSE s,
      queue   |-> IF due THEN Tail(waiting) ELSE waiting,
      refused |-> refused[p] \/ (due /\ Connected(p) /\ AtCap(s))]

PublishQueue(p, waiting, s, l) ==
  LET d == Drain(p, waiting, s, l)
  IN /\ sender'  = [sender EXCEPT ![p] = d.sender]
     /\ queue'   = [queue EXCEPT ![p] = d.queue]
     /\ refused' = [refused EXCEPT ![p] = d.refused]
     /\ list'    = [list EXCEPT ![p] = l]

Publish(p, s, l) == PublishQueue(p, queue[p], s, l)

-----------------------------------------------------------------------------
Init ==
  /\ sender = [p \in Peer |-> NewSender]
  /\ receiver = [p \in Peer |-> NewReceiver]
  /\ open = [p \in Peer |-> TRUE]
  /\ wire = [p \in Peer |-> <<>>]
  /\ low = [p \in Peer |-> FALSE]
  /\ list = [p \in Peer |-> [id \in Ids |-> NoEntry]]
  /\ queue = [p \in Peer |-> <<>>]
  /\ refused = [p \in Peer |-> FALSE]

-----------------------------------------------------------------------------
(* Sending.                                                                *)

(* What the controller makes of a file without a name or a type, and what  *)
(* it refuses to send.                                                     *)
Named(file) == [file EXCEPT !.name = IF @ = 0 THEN 8 ELSE @,     \* file.bin
                            !.mime = IF @ = 0 THEN 24 ELSE @]    \* application/octet-stream
Sendable(file) == file.name <= NameCap /\ file.mime <= MimeCap

(* sendFile: at the limit, which counts the sends that still hash, the     *)
(* controller shows a placeholder - an event like any other - and then     *)
(* appends the file to the queue.                                          *)
SendFile(p) ==
  /\ Connected(p)
  /\ Cardinality(Allocated(sender[p])) + Len(queue[p]) < Uploads[p]
  /\ \E file \in {Named(f) : f \in Files} :
       /\ Sendable(file)
       /\ IF AtCap(sender[p])
          THEN LET d == Drain(p, queue[p], sender[p], list[p])
               IN /\ queue' = [queue EXCEPT ![p] = Append(d.queue, file)]
                  /\ refused' = [refused EXCEPT ![p] = d.refused]
                  /\ UNCHANGED sender   \* the limit is still reached
          ELSE /\ sender' = [sender EXCEPT ![p] = Begin(@, file)]
               /\ UNCHANGED <<queue, refused>>
  /\ UNCHANGED <<receiver, open, wire, low, list>>

Backpressured(frames) == Len(frames) >= HighWater

HashDone(p, id) ==
  /\ sender[p].sends[id].at = "hash"
  /\ sender' = [sender EXCEPT ![p] = Hashed(@, id)]
  /\ UNCHANGED <<receiver, open, wire, low, list, queue, refused>>

(* A frame is encrypted and sent; the event - the manifest starts the      *)
(* transfer in the snapshot, a chunk is progress - is raised before the    *)
(* chunk loop goes on.  On a channel that is not open, send() throws.      *)
SealDone(p, id) ==
  /\ sender[p].sends[id].at = "seal"
  /\ IF ~open[p]
     THEN /\ sender' = [sender EXCEPT ![p] = Return(@, id, "error")]
          /\ UNCHANGED <<wire, list, queue, refused>>
     ELSE LET sent == Append(wire[p], FrameOf(sender[p], id))
              l == IF sender[p].sends[id].next = 0
                   THEN Started(list[p], id, "sent") ELSE list[p]
              d == Drain(p, queue[p], sender[p], l)
          IN /\ wire' = [wire EXCEPT ![p] = sent]
             /\ sender' = [sender EXCEPT ![p] = Sent(d.sender, id, Backpressured(sent))]
             /\ queue' = [queue EXCEPT ![p] = d.queue]
             /\ refused' = [refused EXCEPT ![p] = d.refused]
             /\ list' = [list EXCEPT ![p] = l]
  /\ UNCHANGED <<receiver, open, low>>

(* The TransferCancel frame is best effort.                                *)
AbortSealed(p, id) ==
  /\ id \in sender[p].aborts
  /\ sender' = [sender EXCEPT ![p].aborts = @ \ {id}]
  /\ wire' = IF open[p] THEN [wire EXCEPT ![p] = Append(@, CancelFrame(id))] ELSE wire
  /\ UNCHANGED <<receiver, open, low, list, queue, refused>>

(* The buffer of the channel ran empty: the drain listener.                *)
BufferedAmountLow(p) ==
  /\ low[p]
  /\ low' = [low EXCEPT ![p] = FALSE]
  /\ sender' = [sender EXCEPT ![p] = Drained(@, Backpressured(wire[p]))]
  /\ UNCHANGED <<receiver, open, wire, list, queue, refused>>

(* orchestrator.sendFile continues: the terminal event, unless it was a    *)
(* cancel, which cancelTransfer has reported.                              *)
SendReturns(p, id) ==
  /\ sender[p].sends[id].at = "returning"
  /\ LET s == [sender[p] EXCEPT !.sends[id].at = "done"]
         how == s.sends[id].ended
     IN IF how = "cancelled"
        THEN sender' = [sender EXCEPT ![p] = s] /\ UNCHANGED <<list, queue, refused>>
        ELSE Publish(p, s, Ended(list[p], id, how))
  /\ UNCHANGED <<receiver, open, wire, low>>

(* cancelTransfer.  The controller takes the direction from the entry: one *)
(* that shows a received file is sent to the receiver, which has finished  *)
(* with it, so that nothing happens.                                       *)
CancelSend(p, id) ==
  /\ "cancel" \in Faults
  /\ id \in sender[p].active
  /\ list[p][id].direction # "received"
  /\ Publish(p, CancelTransfer(sender[p], id), Ended(list[p], id, "cancelled"))
  /\ UNCHANGED <<receiver, open, wire, low>>

(* cancelTransfer of a file that waits in the queue.                       *)
CancelQueued(p) ==
  /\ "cancel" \in Faults
  /\ \E i \in DOMAIN queue[p] :
       PublishQueue(p, SubSeq(queue[p], 1, i - 1) \o SubSeq(queue[p], i + 1, Len(queue[p])),
                    sender[p], list[p])
  /\ UNCHANGED <<receiver, open, wire, low>>

(* Any other change of the session - progress, a text, a state change -    *)
(* ends in onSessionChange too.                                            *)
SessionChange(p) ==
  /\ queue[p] # <<>>
  /\ Publish(p, sender[p], list[p])
  /\ UNCHANGED <<receiver, open, wire, low>>

-----------------------------------------------------------------------------
(* Receiving.                                                              *)

(* ingest: the chain takes the next frame once the previous one is done.   *)
(* A per-transfer error is reported and the session goes on.               *)
Ingest(p) ==
  LET from == Other(p)
      f    == Head(wire[from])
      err  == ErrorOf(receiver[p], f)
  IN /\ open[p] /\ receiver[p].hashing = 0
     /\ wire[from] # <<>>
     /\ wire' = [wire EXCEPT ![from] = Tail(@)]
     /\ low' = [low EXCEPT ![from] = @ \/ (open[from] /\ Tail(wire[from]) = <<>>)]
     /\ receiver' = [receiver EXCEPT ![p] = Ingested(@, f)]
     /\ IF err = "none" THEN UNCHANGED <<sender, list, queue, refused>>
        ELSE Publish(p, sender[p], Ended(list[p], f.id, "error"))
     /\ UNCHANGED open

(* completeTransfer resumes.  Under "corrupt" the hash does not match: the *)
(* sending host changed the bytes, which sendFile does not copy.           *)
FileHashed(p) ==
  /\ receiver[p].hashing # 0
  /\ \E matches \in {TRUE} \cup (IF "corrupt" \in Faults THEN {FALSE} ELSE {}) :
       LET r  == receiver[p]
           id == r.hashing
           s  == Completed(r, matches)
       IN /\ receiver' = [receiver EXCEPT ![p] = s]
          /\ IF "hash" \in s.fate[id] \ r.fate[id]
             THEN Publish(p, sender[p], Ended(list[p], id, "error"))
             ELSE IF "file" \in s.fate[id] \ r.fate[id]
             THEN Publish(p, sender[p],
                          Ended(Started(list[p], id, "received"), id, "complete"))
             ELSE UNCHANGED <<sender, list, queue, refused>>
  /\ UNCHANGED <<open, wire, low>>

(* The sweep evicts some of the transfers, each of which is an error.      *)
Sweep(p) ==
  /\ "sweep" \in Faults
  /\ ~receiver[p].tornDown
  /\ \E idle \in SUBSET receiver[p].transfers \ {{}} :
       /\ receiver' = [receiver EXCEPT ![p] = Swept(@, idle)]
       /\ Publish(p, sender[p], FoldSet(LAMBDA id, l : Ended(l, id, "error"), list[p], idle))
  /\ UNCHANGED <<open, wire, low>>

-----------------------------------------------------------------------------
(* teardownSession: the user leaves, the network drops, or the other end   *)
(* has closed the channel.                                                 *)
Teardown(p) ==
  /\ open[p]
  /\ "leave" \in Faults \/ ~open[Other(p)]
  /\ open' = [open EXCEPT ![p] = FALSE]
  /\ sender' = [sender EXCEPT ![p] = SenderTeardown(@)]
  /\ receiver' = [receiver EXCEPT ![p] = ReceiverTeardown(@)]
  /\ low' = [low EXCEPT ![p] = FALSE]
  /\ UNCHANGED <<wire, list, queue, refused>>

-----------------------------------------------------------------------------
Coroutine(p) ==
  \/ \E id \in Ids : \/ HashDone(p, id)    \/ SealDone(p, id)
                     \/ AbortSealed(p, id) \/ SendReturns(p, id)
  \/ BufferedAmountLow(p)
  \/ FileHashed(p)

Next == \E p \in Peer : \/ SendFile(p)  \/ Coroutine(p) \/ Ingest(p)
                        \/ Sweep(p)     \/ Teardown(p)  \/ SessionChange(p)
                        \/ CancelQueued(p)
                        \/ \E id \in Ids : CancelSend(p, id)

Spec == Init /\ [][Next]_vars

(* Promises settle and events are dispatched, an open channel delivers,    *)
(* the inactivity interval fires, a closed channel is noticed.             *)
Fairness == \A p \in Peer : /\ WF_vars(Coroutine(p))
                            /\ WF_vars(Ingest(p))
                            /\ WF_vars(Sweep(p))
                            /\ WF_vars(~open[Other(p)] /\ Teardown(p))

FairSpec == Spec /\ Fairness

-----------------------------------------------------------------------------
(* Type invariant.                                                         *)
TypeOK ==
  /\ sender \in [Peer -> Senders]
  /\ receiver \in [Peer -> Receivers]
  /\ open \in [Peer -> BOOLEAN]
  /\ wire \in [Peer -> Seq(Frames)]
  /\ low \in [Peer -> BOOLEAN]
  /\ list \in [Peer -> [Ids -> Entries]]
  /\ queue \in [Peer -> Seq([DOMAIN NoFile -> Nat])]
  /\ refused \in [Peer -> BOOLEAN]

(* No slot leaks and none is held twice: a reservation, a cancelled mark   *)
(* or a sent manifest belongs to a sendFile that is still running, and one *)
(* that runs is reserved until it is cancelled or the session ends.        *)
Reservations ==
  \A p \in Peer, id \in Ids :
    LET s == sender[p]
        running == s.sends[id].at \in Awaiting
    IN /\ id \in s.active \cup s.cancelled \cup s.announced => running
       /\ id \notin s.active \cap s.cancelled
       /\ running /\ ~s.tearingDown => id \in s.active \cup s.cancelled

(* A send parked for the drain of the channel is a live one, and the event *)
(* that wakes it is still to come.                                         *)
WaitersWakeable ==
  \A p \in Peer : \A id \in Waiters(sender[p]) :
    /\ id \in sender[p].active /\ ~sender[p].tearingDown
    /\ wire[p] # <<>> \/ low[p]

(* The byte counters are the transfers in the map, whatever completed, was *)
(* cancelled, swept or torn down while a hash was in flight; and they      *)
(* never commit more than the budget.                                      *)
CommittedBytes ==
  \A p \in Peer :
    LET r == receiver[p]
    IN /\ r.buffered = MapThenSumSet(LAMBDA id : r.object[id].received, r.transfers)
       /\ r.outstanding = MapThenSumSet(LAMBDA id : r.object[id].size - r.object[id].received,
                                        r.transfers)
       /\ r.buffered + r.outstanding <= Budget
       /\ Cardinality(r.transfers) <= MaxTransfers

(* The accounts of a session, of slots at the sender and of bytes at the   *)
(* receiver, are balanced: what is leaked closes the session's transfers   *)
(* for good.                                                               *)
Accounts == Reservations /\ CommittedBytes

(* A file surfaces once, whole, from a transfer that is still in the map   *)
(* of a live receiver: never one that was cancelled, swept or torn down    *)
(* during its hash.                                                        *)
SurfacesOnce ==
  [][\A p \in Peer, id \in Ids :
       "file" \in receiver'[p].fate[id] \ receiver[p].fate[id]
         => /\ receiver[p].fate[id] = {} /\ ~receiver[p].tornDown
            /\ id \in receiver[p].transfers
            /\ receiver[p].object[id].received = receiver[p].object[id].size]_vars

(* Two honest endpoints never break the protocol of a transfer: what one   *)
(* lets into a manifest the other reads, chunks are in range, come once,   *)
(* and only a transfer that was refused, cancelled,   *)
(* swept or corrupted is unknown.                                          *)
HonestPeer ==
  \A p \in Peer : \A e \in receiver[p].errors :
    /\ e[2] \notin {"TransferInactive", "ChunkOutOfRange", "Malformed", "DuplicateChunk",
                  "NameExceeded", "MimeExceeded"}
    /\ e[2] = "UnknownTransfer" =>
         \/ receiver[p].fate[e[1]] \cap {"cancelled", "timeout"} # {}
         \/ <<e[1], "ConcurrentTransfersExceeded">> \in receiver[p].errors
         \/ <<e[1], "SizeExceeded">> \in receiver[p].errors

-----------------------------------------------------------------------------
(* Liveness.                                                               *)

(* sendFile() settles: nobody waits forever for a drain event, a cancel or *)
(* a teardown.                                                             *)
SendsSettle ==
  \A p \in Peer, id \in Ids :
    sender[p].sends[id].at \in Running ~> sender[p].sends[id].at = "done"

(* No inbound transfer holds its slot and bytes forever, also when the     *)
(* TransferCancel of the peer overtook the manifest or never came.         *)
InboundReleased ==
  \A p \in Peer, id \in Ids :
    id \in receiver[p].transfers ~> id \notin receiver[p].transfers

-----------------------------------------------------------------------------
(* What comments and tests say of the controller and it does not do.       *)

(* transfer-state.ts: the list mirrors the framing layer's progress, so a  *)
(* sent file is shown complete only when its send completed.               *)
SnapshotMirrors ==
  \A p \in Peer, id \in Ids :
    list[p][id] = [direction |-> "sent", status |-> "complete"]
      => sender[p].sends[id].ended = "complete"
=============================================================================
