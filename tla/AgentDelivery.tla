---------------------------- MODULE AgentDelivery ----------------------------
(***************************************************************************)
(* Durable delivery of one agent stream: agentctl appends every event to a *)
(* journal on its own disk, a stream writer sends the journal from a       *)
(* cursor over a WebSocket, the backend receives each event into an inbox  *)
(* table, projects it (task messages, effects) and, when a durability      *)
(* barrier has made the projection survive a loss of power, acknowledges   *)
(* it, whereupon the journal deletes it.                                   *)
(*                                                                         *)
(* The backend's database is SQLite with synchronous=NORMAL: a commit      *)
(* survives a crash of the process, and a loss of power undoes every       *)
(* commit after the last sync.  db is the committed state, disk what a     *)
(* loss of power leaves of it.  The journal commits with fsync and         *)
(* survives everything.                                                    *)
(*                                                                         *)
(* A connection keeps its frames in order, so its queue is a range of      *)
(* sequence numbers: got+1..after are the frames sent and not yet taken by *)
(* the stream event processor, which holds chunks in its batch.            *)
(***************************************************************************)
EXTENDS Integers, Sequences, FiniteSets

CONSTANTS
  Conns,         \* connections of the backend to the stream, old and new
  Bootstrap,     \* the execution may replay from zero without a cursor row
  Capacity,      \* the journal's MaxBytes, in events
  Reserve,       \* its TerminalReserveBytes, in events
  MaxSeq,        \* bound: events ever appended
  MaxFaults      \* bound: faults

ASSUME DeliveryAssumption ==
  /\ Bootstrap \in BOOLEAN
  /\ Capacity \in Nat /\ Reserve \in Nat /\ MaxSeq \in Nat /\ MaxFaults \in Nat

VARIABLES
  log,           \* the kinds of all events ever appended, by sequence
  acked,         \* the stream's Acknowledged; FirstRetained is acked + 1
  db,            \* inbox and cursor of the stream, as committed
  disk,          \* inbox and cursor of the stream, as synced
  conn,          \* the connections
  ack,           \* the acknowledgement worker
  net,           \* acknowledgement requests under way
  told,          \* plain events whose lifecycle callback has run
  faults

vars == <<log, acked, db, disk, conn, ack, net, told, faults>>

(***************************************************************************)
(* A chunk is a canonical event that is batched; a single one is projected *)
(* alone before its callback runs (terminal events, tool calls); a plain   *)
(* one is not canonical, and its callback runs before it is projected.     *)
(***************************************************************************)
Kinds == {"chunk", "single", "plain"}
Terminal == "single"
Seqs == 1..MaxSeq
HighWater == Len(log)
Kind(e) == log[e]

DbType ==
  [rows : SUBSET Seqs,          \* agent_delivery_inbox
   marked : SUBSET Seqs,        \* those with projected_at
   projected : 0..MaxSeq,       \* projected_sequence
   retired : 0..MaxSeq]         \* retired_sequence

ConnType ==
  [phase : {"idle", "up", "draining"},
   after : 0..MaxSeq,           \* the stream writer's cursor
   got : 0..MaxSeq,             \* the last event the processor took
   batch : SUBSET Seqs,         \* the events its batch holds
   step : {"ready", "received", "told", "projected"},
   skip : BOOLEAN]              \* skipCallback of the event got

AckType ==
  [stage : {"idle", "barrier", "send", "wait"},
   pending : 0..MaxSeq,         \* the highest projected sequence scheduled
   acknowledged : 0..MaxSeq,    \* the highest sequence known acknowledged
   sequence : 0..MaxSeq]        \* the sequence of the request under way

(* Every variable has its type.                                            *)
TypeOK ==
  /\ log \in Seq(Kinds) /\ Len(log) <= MaxSeq
  /\ acked \in 0..MaxSeq
  /\ db \in DbType /\ disk \in DbType
  /\ conn \in [Conns -> ConnType]
  /\ ack \in AckType
  /\ net \subseteq Seqs
  /\ told \subseteq Seqs
  /\ faults \in 0..MaxFaults

EmptyDb == [rows |-> {}, marked |-> {}, projected |-> 0, retired |-> 0]
IdleConn ==
  [phase |-> "idle", after |-> 0, got |-> 0, batch |-> {}, step |-> "ready",
   skip |-> FALSE]
NewWorker == [stage |-> "idle", pending |-> 0, acknowledged |-> 0, sequence |-> 0]

Init ==
  /\ log = << >> /\ acked = 0
  /\ db = EmptyDb /\ disk = EmptyDb
  /\ conn = [c \in Conns |-> IdleConn]
  /\ ack = NewWorker /\ net = {} /\ told = {} /\ faults = 0

-----------------------------------------------------------------------------
(* The journal and the stream writer of agentctl.                          *)

(* Ordinary events leave the reserve free; a terminal event may use it.    *)
HasRoom(k) ==
  HighWater - acked < IF k = Terminal THEN Capacity ELSE Capacity - Reserve

AppendEvent(k) ==
  /\ HighWater < MaxSeq /\ HasRoom(k)
  /\ log' = Append(log, k)
  /\ UNCHANGED <<acked, db, disk, conn, ack, net, told, faults>>

(* The writer sends the event after its cursor if it is still retained.    *)
Send(c) ==
  /\ conn[c].phase = "up" /\ acked <= conn[c].after
  /\ conn[c].after < HighWater
  /\ conn' = [conn EXCEPT ![c].after = @ + 1]
  /\ UNCHANGED <<log, acked, db, disk, ack, net, told, faults>>

(* Otherwise Replay returns ErrCursorExpired and the writer closes.        *)
ExpireCursor(c) ==
  /\ conn[c].phase = "up" /\ conn[c].after < acked
  /\ conn' = [conn EXCEPT ![c].phase = "draining"]
  /\ UNCHANGED <<log, acked, db, disk, ack, net, told, faults>>

(* A request that arrives late takes the watermark back.                   *)
AcknowledgeAnyOrder(s) ==
  /\ s \in net
  /\ net' = net \ {s}
  /\ acked' = s
  /\ ack' = IF ack.stage = "wait" /\ ack.sequence = s
            THEN [ack EXCEPT !.stage = "idle", !.acknowledged = s]
            ELSE ack
  /\ UNCHANGED <<log, db, disk, conn, told, faults>>

(* A request to acknowledge arrives; its answer reaches a worker that      *)
(* still waits for it.                                                     *)
Acknowledge(s) ==
  /\ s \in net
  /\ net' = net \ {s}
  /\ acked' = IF s > acked THEN s ELSE acked
  /\ ack' = IF ack.stage = "wait" /\ ack.sequence = s
            THEN [ack EXCEPT !.stage = "idle", !.acknowledged = s]
            ELSE ack
  /\ UNCHANGED <<log, db, disk, conn, told, faults>>

-----------------------------------------------------------------------------
(* The transactions of the inbox.                                          *)

CursorExists(d) == d.rows # {} \/ d.projected > 0

Receive(d, e) == [d EXCEPT !.rows = @ \cup {e}]

(* advanceProjectedCursorTx: the end of the marked run above the cursor.   *)
AdvanceProjected(c, marked) ==
  CHOOSE n \in c..MaxSeq : (c + 1)..n \subseteq marked /\ n + 1 \notin marked

Project(d, events) ==
  LET marked == d.marked \cup events
  IN  [d EXCEPT !.marked = marked,
                !.projected = AdvanceProjected(d.projected, marked)]

(* Schedule of the acknowledgement worker: it keeps the highest sequence.  *)
Schedule(w, s) == IF s > w.pending THEN [w EXCEPT !.pending = s] ELSE w

-----------------------------------------------------------------------------
(* The backend's connections.                                              *)

(* A connection that does not acknowledge what an earlier one projected.   *)
ConnectSilently(c) ==
  /\ conn[c].phase = "idle"
  /\ \A d \in Conns : conn[d].phase # "up"
  /\ acked <= db.projected
  /\ CursorExists(db) \/ HighWater = 0 \/ Bootstrap
  /\ conn' = [conn EXCEPT ![c] = [IdleConn EXCEPT !.phase = "up",
                 !.after = db.projected, !.got = db.projected]]
  /\ UNCHANGED <<log, acked, db, disk, ack, net, told, faults>>

(***************************************************************************)
(* A connection replays from the projected cursor, which the journal must  *)
(* still cover, and schedules an acknowledgement of it.  Without a cursor  *)
(* row only a bootstrap may replay.  The processor of an earlier           *)
(* connection may still be draining.                                       *)
(***************************************************************************)
Connect(c) ==
  /\ conn[c].phase = "idle"
  /\ \A d \in Conns : conn[d].phase # "up"
  /\ acked <= db.projected
  /\ CursorExists(db) \/ HighWater = 0 \/ Bootstrap
  /\ conn' = [conn EXCEPT ![c] = [IdleConn EXCEPT !.phase = "up",
                 !.after = db.projected, !.got = db.projected]]
  /\ ack' = Schedule(ack, db.projected)
  /\ UNCHANGED <<log, acked, db, disk, net, told, faults>>

CanTake(c) ==
  /\ conn[c].phase # "idle" /\ conn[c].step = "ready"
  /\ conn[c].got < conn[c].after

(* A chunk joins the batch; its receipt is deferred.                       *)
TakeChunk(c) ==
  /\ CanTake(c) /\ Kind(conn[c].got + 1) = "chunk"
  /\ conn' = [conn EXCEPT ![c].got = @ + 1, ![c].batch = @ \cup {conn[c].got + 1}]
  /\ UNCHANGED <<log, acked, db, disk, ack, net, told, faults>>

(* The event's effect is stored with its projection; AppliedOnReceipt      *)
(* takes the receipt for it.                                               *)
AppliedOnReceipt(e) == e \in db.rows
EffectApplied(e) == e \in db.marked

(* Any other event is received at once, before the batch is flushed.       *)
TakeOther(c) ==
  LET e == conn[c].got + 1
  IN  /\ CanTake(c) /\ Kind(e) # "chunk"
      /\ e > db.retired
      /\ ~(e \in db.rows /\ e <= db.projected)
      /\ db' = Receive(db, e)
      /\ conn' = [conn EXCEPT ![c].got = e, ![c].step = "received",
                              ![c].skip = EffectApplied(e)]
      /\ UNCHANGED <<log, acked, disk, ack, net, told, faults>>

(* A duplicate is acknowledged after the barrier and dropped; the batch is *)
(* left as it is.                                                          *)
TakeDuplicate(c) ==
  LET e == conn[c].got + 1
  IN  /\ CanTake(c) /\ Kind(e) # "chunk"
      /\ e > db.retired /\ e \in db.rows /\ e <= db.projected
      /\ conn' = [conn EXCEPT ![c].got = e]
      /\ disk' = db
      /\ net' = net \cup {e}
      /\ ack' = Schedule(ack, e)
      /\ UNCHANGED <<log, acked, db, told, faults>>

(***************************************************************************)
(* The next event to be received has been retired: the projected cursor is *)
(* acknowledged after the barrier and the connection is replaced.          *)
(***************************************************************************)
ReconcileExpired(c) ==
  /\ \/ \E e \in conn[c].batch : e <= db.retired
     \/ /\ CanTake(c) /\ Kind(conn[c].got + 1) # "chunk"
        /\ conn[c].got + 1 <= db.retired
  /\ conn' = [conn EXCEPT ![c] = IdleConn]
  /\ IF acked < db.projected
       THEN disk' = db /\ net' = net \cup {db.projected}
       ELSE UNCHANGED <<disk, net>>
  /\ UNCHANGED <<log, acked, db, ack, told, faults>>

(***************************************************************************)
(* The batch is received and projected in one transaction, which refuses a *)
(* gap between the events it projects.                                     *)
(***************************************************************************)
NoGap(events, fresh) ==
  \A e \in fresh : e - 1 = db.projected \/ e - 1 \in events

FlushBatch(c) ==
  LET events == conn[c].batch
      fresh == events \ db.marked
  IN  /\ events # {}
      /\ \A e \in events : e > db.retired
      /\ NoGap(events, fresh)
      /\ db' = Project([db EXCEPT !.rows = @ \cup events], fresh)
      /\ conn' = [conn EXCEPT ![c].batch = {}]
      /\ \E last \in events :
           (\A e \in events : e <= last) /\ ack' = Schedule(ack, last)
      /\ UNCHANGED <<log, acked, disk, net, told, faults>>

(* The lifecycle callback: of a plain event before its projection, of a    *)
(* single one after it.                                                    *)
Notify(c) ==
  LET e == conn[c].got
  IN  /\ conn[c].batch = {}
      /\ \/ /\ conn[c].step = "received" /\ Kind(e) = "plain"
            /\ conn' = [conn EXCEPT ![c].step = "told"]
            /\ told' = IF conn[c].skip THEN told ELSE told \cup {e}
         \/ /\ conn[c].step = "projected"
            /\ conn' = [conn EXCEPT ![c].step = "ready", ![c].skip = FALSE]
            /\ UNCHANGED told
      /\ UNCHANGED <<log, acked, db, disk, ack, net, faults>>

(* Projecting an event while the batch it follows is still held.           *)
ProjectBeforeFlush(c) ==
  LET e == conn[c].got
  IN  /\ e \in db.rows
      /\ conn[c].step = "received" /\ Kind(e) = "single"
      /\ db' = Project(db, {e})
      /\ conn' = [conn EXCEPT ![c].step = "projected"]
      /\ ack' = Schedule(ack, e)
      /\ UNCHANGED <<log, acked, disk, net, told, faults>>

(* Its projection, which schedules the acknowledgement.                    *)
ProjectEvent(c) ==
  LET e == conn[c].got
  IN  /\ conn[c].batch = {}
      /\ e \in db.rows
      /\ db' = Project(db, {e})
      /\ \/ /\ conn[c].step = "told"
            /\ conn' = [conn EXCEPT ![c].step = "ready", ![c].skip = FALSE]
         \/ /\ conn[c].step = "received" /\ Kind(e) = "single"
            /\ conn' = [conn EXCEPT ![c].step = "projected"]
      /\ ack' = Schedule(ack, e)
      /\ UNCHANGED <<log, acked, disk, net, told, faults>>

(* A connection that is closed ends when its queue and batch are empty.    *)
Drained(c) ==
  /\ conn[c].phase = "draining" /\ conn[c].step = "ready"
  /\ conn[c].got = conn[c].after /\ conn[c].batch = {}
  /\ conn' = [conn EXCEPT ![c] = IdleConn]
  /\ UNCHANGED <<log, acked, db, disk, ack, net, told, faults>>

(* Retention deletes the receipt after the last retired one.               *)
RetireReceipt ==
  LET e == db.retired + 1
  IN  /\ e <= db.projected
      /\ db' = [db EXCEPT !.rows = @ \ {e}, !.marked = @ \ {e}, !.retired = e]
      /\ UNCHANGED <<log, acked, disk, conn, ack, net, told, faults>>

-----------------------------------------------------------------------------
(* The acknowledgement worker.                                             *)

(* It takes the highest pending sequence, and asks for the journal's state *)
(* first.                                                                  *)
TakePending ==
  /\ ack.stage = "idle" /\ ack.pending > ack.acknowledged
  /\ ack' = IF acked >= ack.pending
            THEN [ack EXCEPT !.acknowledged = ack.pending]
            ELSE [ack EXCEPT !.stage = "barrier", !.sequence = ack.pending]
  /\ UNCHANGED <<log, acked, db, disk, conn, net, told, faults>>

(* Acknowledging without the barrier.                                      *)
SkipBarrier ==
  /\ ack.stage = "barrier"
  /\ ack' = [ack EXCEPT !.stage = "send"]
  /\ UNCHANGED <<log, acked, db, disk, conn, net, told, faults>>

(* The durability barrier syncs every commit made before it.               *)
AwaitBarrier ==
  /\ ack.stage = "barrier"
  /\ disk' = db
  /\ ack' = [ack EXCEPT !.stage = "send"]
  /\ UNCHANGED <<log, acked, db, conn, net, told, faults>>

SendAcknowledgement ==
  /\ ack.stage = "send"
  /\ net' = net \cup {ack.sequence}
  /\ ack' = [ack EXCEPT !.stage = "wait"]
  /\ UNCHANGED <<log, acked, db, disk, conn, told, faults>>

-----------------------------------------------------------------------------
(* Faults.                                                                 *)

(* SQLite or the operating system syncs commits on its own.                *)
BackgroundSync ==
  /\ disk # db
  /\ disk' = db
  /\ UNCHANGED <<log, acked, db, conn, ack, net, told, faults>>

Fault == faults < MaxFaults /\ faults' = faults + 1

(* The socket closes: the frames already read are still processed.         *)
Disconnect(c) ==
  /\ Fault /\ conn[c].phase = "up"
  /\ \E n \in conn[c].got..conn[c].after :
       conn' = [conn EXCEPT ![c].phase = "draining", ![c].after = n]
  /\ UNCHANGED <<log, acked, db, disk, ack, net, told>>

(* The processor fails (an error of the database): its queue is dropped.   *)
FailProcessor(c) ==
  /\ Fault /\ conn[c].phase # "idle"
  /\ conn' = [conn EXCEPT ![c] = IdleConn]
  /\ UNCHANGED <<log, acked, db, disk, ack, net, told>>

(* The event has been retired under the processor, or the batch has a gap. *)
Refused(c) ==
  IF conn[c].batch # {}
  THEN /\ \A e \in conn[c].batch : e > db.retired
       /\ ~NoGap(conn[c].batch, conn[c].batch \ db.marked)
  ELSE conn[c].step \in {"received", "told"} /\ conn[c].got \notin db.rows

RefuseEvent(c) ==
  /\ Refused(c)
  /\ conn' = [conn EXCEPT ![c] = IdleConn]
  /\ UNCHANGED <<log, acked, db, disk, ack, net, told, faults>>

(* The barrier or the request fails or times out; the request may still    *)
(* arrive.                                                                 *)
FailAcknowledgement ==
  /\ Fault /\ ack.stage # "idle"
  /\ ack' = [ack EXCEPT !.stage = "idle"]
  /\ net' \in {net, net \ {ack.sequence}}
  /\ UNCHANGED <<log, acked, db, disk, conn, told>>

(* The backend process dies and starts again.                              *)
CrashBackend ==
  /\ Fault
  /\ conn' = [c \in Conns |-> IdleConn]
  /\ ack' = NewWorker
  /\ UNCHANGED <<log, acked, db, disk, net, told>>

(* The backend's host loses power: what was not synced is gone.            *)
LosePower ==
  /\ Fault
  /\ db' = disk
  /\ conn' = [c \in Conns |-> IdleConn]
  /\ ack' = NewWorker
  /\ UNCHANGED <<log, acked, disk, net, told>>

-----------------------------------------------------------------------------
(* What the goroutines of a connection do once it is made.                 *)
Serve(c) ==
  \/ Send(c) \/ ExpireCursor(c)
  \/ TakeChunk(c) \/ TakeOther(c) \/ TakeDuplicate(c) \/ ReconcileExpired(c)
  \/ FlushBatch(c) \/ Notify(c) \/ ProjectEvent(c) \/ RefuseEvent(c) \/ Drained(c)

ConnStep(c) == Connect(c) \/ Serve(c)

WorkerStep == TakePending \/ AwaitBarrier \/ SendAcknowledgement

Next ==
  \/ \E k \in Kinds : AppendEvent(k)
  \/ \E s \in net : Acknowledge(s)
  \/ \E c \in Conns : ConnStep(c)
  \/ \E c \in Conns : Disconnect(c) \/ FailProcessor(c)
  \/ WorkerStep
  \/ RetireReceipt \/ BackgroundSync
  \/ FailAcknowledgement \/ CrashBackend \/ LosePower

Spec == Init /\ [][Next]_vars

(***************************************************************************)
(* Every goroutine that can proceed eventually does: the writer, the       *)
(* processors, the worker with its retries, and the network delivers a     *)
(* request that it has not lost.  Connect is not fair: a stream that ends  *)
(* other than by an expired cursor is not connected again by itself, and a *)
(* dial that fails is only logged.                                         *)
(***************************************************************************)
Fairness ==
  /\ \A c \in Conns : WF_vars(Serve(c))
  /\ WF_vars(WorkerStep)
  /\ \A s \in Seqs : WF_vars(Acknowledge(s))

FairSpec == Spec /\ Fairness

-----------------------------------------------------------------------------
(***************************************************************************)
(* An event that the journal may delete survives a loss of power: every    *)
(* acknowledged event is projected on the synced disk, for every order of  *)
(* connections, processors, worker, retries and faults.                    *)
(***************************************************************************)
AckedIsDurable == acked <= disk.projected

(***************************************************************************)
(* No event is projected over a gap: in the inbox exactly the receipts     *)
(* from the retired to the projected cursor are projected, although        *)
(* events are received before the batch they follow and two processors     *)
(* may work on the same events.                                            *)
(***************************************************************************)
ProjectedInOrder ==
  \A d \in {db, disk} : d.marked = (d.retired + 1)..d.projected

(***************************************************************************)
(* The orchestrator has heard of every plain event the journal no longer   *)
(* holds: an acknowledged event cannot have skipped its callback.          *)
(***************************************************************************)
AckedWasTold == \A e \in 1..acked : Kind(e) = "plain" => e \in told

(***************************************************************************)
(* The stream as a whole is the reliable stream: what power loss undoes    *)
(* is never more than what the journal can replay.                         *)
(***************************************************************************)
Stream == INSTANCE ReliableStream WITH
  produced <- HighWater, consumed <- db.projected, released <- acked
ImplementsStream == Stream!StreamSpec

(***************************************************************************)
(* Whatever the faults, if the stream is connected again and again (or     *)
(* stays so) then again and again every event appended is projected,       *)
(* synced and acknowledged, and the journal holds nothing that waits for   *)
(* the backend: what a connection finds projected and not acknowledged, it *)
(* acknowledges.                                                           *)
(***************************************************************************)
Connected == \E c \in Conns : conn[c].phase = "up"
EventuallyAcknowledged == []<>Connected => []<>(acked = HighWater)
=============================================================================
