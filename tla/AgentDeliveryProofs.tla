-------------------------- MODULE AgentDeliveryProofs --------------------------
(***************************************************************************)
(* Proofs about AgentDelivery, for any number of connections, events and   *)
(* faults: the inbox is projected without gaps, what the journal may       *)
(* delete is projected on the synced disk and was told to the              *)
(* orchestrator, and the whole is a reliable stream.                       *)
(***************************************************************************)
EXTENDS AgentDelivery, TLAPS

(* The last event a connection has taken before the one in its hands.      *)
Taken(c) == IF conn[c].step = "ready" THEN conn[c].got ELSE conn[c].got - 1

(* A cursor and its receipts agree.                                        *)
DbSound(d) ==
  /\ d.retired <= d.projected /\ d.projected <= HighWater
  /\ d.marked = (d.retired + 1)..d.projected
  /\ d.marked \subseteq d.rows
  /\ \A e \in d.rows : e > d.retired

(***************************************************************************)
(* A processor has let nothing slip: what it has taken is projected or in  *)
(* its batch, whichever processor did the projecting; and the event in its *)
(* hands is where its step says.                                           *)
(***************************************************************************)
ConnSound(c) ==
  /\ conn[c].got <= conn[c].after /\ conn[c].after <= HighWater
  /\ conn[c].step # "ready" => conn[c].got > 0
  /\ \A e \in conn[c].batch : e <= Taken(c) /\ Kind(e) = "chunk"
  /\ \A e \in (db.projected + 1)..Taken(c) : e \in conn[c].batch
  /\ conn[c].step = "projected" => conn[c].got <= db.projected
  /\ conn[c].step = "told" => conn[c].got \in told
  /\ ~conn[c].skip

(* The worker acknowledges nothing that is not projected, and sends only   *)
(* what the barrier has synced.                                            *)
WorkerSound ==
  /\ ack.pending <= db.projected
  /\ ack.stage # "idle" => ack.sequence \in 1..db.projected
  /\ ack.stage \in {"send", "wait"} => ack.sequence <= disk.projected

NetSound == \A s \in net : s <= disk.projected

ToldSound == \A e \in 1..db.projected : Kind(e) = "plain" => e \in told

Synced == acked <= disk.projected /\ disk.projected <= db.projected

Inv ==
  /\ TypeOK
  /\ DbSound(db) /\ DbSound(disk) /\ Synced
  /\ \A c \in Conns : ConnSound(c)
  /\ WorkerSound /\ NetSound /\ ToldSound


-----------------------------------------------------------------------------
(* The operators of the inbox.                                             *)

(* The cursor advances to the end of a gapless run of marks.               *)
LEMMA AdvanceToEnd ==
  ASSUME NEW r \in Nat, NEW c \in Nat, NEW m \in c..MaxSeq, r <= c
  PROVE  AdvanceProjected(c, (r + 1)..m) = m
<1> USE DeliveryAssumption
<1> DEFINE P(n) == (c + 1)..n \subseteq (r + 1)..m /\ n + 1 \notin (r + 1)..m
<1>1. m \in c..MaxSeq /\ P(m)
  OBVIOUS
<1>2. ASSUME NEW n \in c..MaxSeq, P(n) PROVE n = m
  <2>1. CASE n > m
    <3>1. n \in (c + 1)..n
      BY <2>1
    <3> QED
      BY <1>2, <2>1, <3>1
  <2>2. CASE n < m
    BY <1>2, <2>2
  <2> QED
    BY <2>1, <2>2
<1> QED
  BY <1>1, <1>2 DEF AdvanceProjected

(* Projecting every event up to m that is not projected yet moves the      *)
(* cursor to m.                                                            *)
LEMMA ProjectTo ==
  ASSUME NEW d \in DbType, d.retired <= d.projected,
         d.marked = (d.retired + 1)..d.projected,
         NEW m \in d.projected..MaxSeq, NEW events \in SUBSET Seqs,
         \A e \in events : e > d.retired /\ e <= m,
         \A e \in (d.projected + 1)..m : e \in events
  PROVE  Project(d, events) =
           [d EXCEPT !.marked = (d.retired + 1)..m, !.projected = m]
<1> USE DeliveryAssumption DEF DbType, Seqs
<1>1. d.marked \cup events = (d.retired + 1)..m
  <2>1. \A e \in d.marked \cup events : e \in (d.retired + 1)..m
    OBVIOUS
  <2>2. ASSUME NEW e \in (d.retired + 1)..m PROVE e \in d.marked \cup events
    <3>1. e \in (d.retired + 1)..d.projected \/ e \in (d.projected + 1)..m
      OBVIOUS
    <3> QED
      BY <3>1
  <2> QED
    BY <2>1, <2>2
<1>2. AdvanceProjected(d.projected, (d.retired + 1)..m) = m
  BY AdvanceToEnd
<1> QED
  BY <1>1, <1>2 DEF Project

(* What a batch or an event that is projected does to the database.        *)
AdvancesTo(m, R) ==
  /\ db' = [rows |-> R, marked |-> (db.retired + 1)..m, projected |-> m, retired |-> db.retired]
  /\ R \subseteq Seqs /\ db.rows \subseteq R
  /\ (db.retired + 1)..m \subseteq R
  /\ \A e \in R : e > db.retired
  /\ \A e \in (db.projected + 1)..m : Kind(e) = "plain" => e \in told

(* A flush projects everything its processor has taken.                    *)
LEMMA FlushAdvances ==
  ASSUME Inv, NEW c \in Conns, FlushBatch(c)
  PROVE  \E m \in db.projected..HighWater, R \in SUBSET Seqs :
           AdvancesTo(m, R) /\ Taken(c) <= m /\ \A e \in conn[c].batch : e <= m
<1> USE DeliveryAssumption
<1> DEFINE events == conn[c].batch
           fresh == events \ db.marked
           R == db.rows \cup events
           d == [db EXCEPT !.rows = R]
<1>1. /\ db \in DbType /\ conn[c] \in ConnType /\ DbSound(db) /\ ConnSound(c)
      /\ HighWater \in Nat /\ HighWater <= MaxSeq
  BY DEF Inv, TypeOK, HighWater
<1>2. Taken(c) \in Int /\ Taken(c) <= HighWater
  BY <1>1 DEF Taken, ConnSound, ConnType
<1>3. PICK m \in db.projected..HighWater :
        m = IF Taken(c) > db.projected THEN Taken(c) ELSE db.projected
  BY <1>1, <1>2 DEF DbSound, DbType
<1>4. /\ d \in DbType /\ R \in SUBSET Seqs /\ fresh \in SUBSET Seqs
      /\ d.rows = R /\ d.marked = db.marked
      /\ d.projected = db.projected /\ d.retired = db.retired
  BY <1>1 DEF DbType, ConnType
<1>5. \A e \in events : e > db.retired /\ e <= m /\ e \in Seqs
  BY <1>1, <1>2, <1>3 DEF FlushBatch, ConnSound, ConnType, Seqs, DbType
<1>6. \A e \in (db.projected + 1)..m : e \in events /\ e \in fresh
  BY <1>1, <1>2, <1>3 DEF ConnSound, DbSound, DbType
<1>7. db' = [d EXCEPT !.marked = (db.retired + 1)..m, !.projected = m]
  <2>1. db' = Project(d, fresh)
    BY DEF FlushBatch
  <2> HIDE DEF d, fresh, events
  <2>2. m \in d.projected..MaxSeq
    BY <1>1, <1>3, <1>4 DEF DbType
  <2>3. \A e \in fresh : e > d.retired /\ e <= m
    BY <1>4, <1>5 DEF fresh
  <2>4. \A e \in (d.projected + 1)..m : e \in fresh
    BY <1>4, <1>6
  <2>5. d.retired <= d.projected /\ d.marked = (d.retired + 1)..d.projected
    BY <1>1, <1>4 DEF DbSound
  <2>6. Project(d, fresh) = [d EXCEPT !.marked = (d.retired + 1)..m, !.projected = m]
    BY <1>4, <2>2, <2>3, <2>4, <2>5, ProjectTo
  <2> QED
    BY <1>4, <2>1, <2>6
<1>8. db' = [rows |-> R, marked |-> (db.retired + 1)..m, projected |-> m, retired |-> db.retired]
  BY <1>4, <1>7 DEF DbType
<1>9. (db.retired + 1)..m \subseteq R
  BY <1>1, <1>3, <1>6 DEF DbSound, DbType
<1>10. \A e \in R : e > db.retired
  BY <1>1, <1>5 DEF DbSound
<1>11. \A e \in (db.projected + 1)..m : Kind(e) # "plain"
  BY <1>1, <1>6 DEF ConnSound
<1>12. AdvancesTo(m, R)
  BY <1>4, <1>8, <1>9, <1>10, <1>11 DEF AdvancesTo
<1>13. Taken(c) <= m
  BY <1>1, <1>2, <1>3 DEF DbType
<1> QED
  BY <1>4, <1>5, <1>12, <1>13

(* So does the projection of the event that its batch precedes.            *)
LEMMA EventAdvances ==
  ASSUME Inv, NEW c \in Conns, ProjectEvent(c)
  PROVE  \E m \in db.projected..HighWater, R \in SUBSET Seqs :
           AdvancesTo(m, R) /\ conn[c].got <= m
<1> USE DeliveryAssumption
<1> DEFINE e == conn[c].got
<1>1. /\ db \in DbType /\ conn[c] \in ConnType /\ DbSound(db) /\ ConnSound(c)
      /\ HighWater \in Nat /\ HighWater <= MaxSeq
  BY DEF Inv, TypeOK, HighWater
<1>2. /\ e \in Seqs /\ e <= HighWater /\ e > db.retired /\ e - 1 <= db.projected
      /\ conn[c].step # "ready" /\ db' = Project(db, {e})
  <2>1. conn[c].step # "ready" /\ conn[c].batch = {} /\ e \in db.rows /\ db' = Project(db, {e})
    BY DEF ProjectEvent
  <2>2. e \in Seqs /\ e > db.retired
    BY <1>1, <2>1 DEF DbSound, DbType
  <2>3. e <= HighWater
    BY <1>1 DEF ConnSound, ConnType
  <2>4. Taken(c) = e - 1
    BY <2>1 DEF Taken
  <2>5. e - 1 \notin (db.projected + 1)..(e - 1)
    BY <1>1, <2>1, <2>4 DEF ConnSound
  <2>6. e - 1 <= db.projected
    BY <1>1, <2>2, <2>5 DEF DbType, Seqs
  <2> QED
    BY <2>1, <2>2, <2>3, <2>6
<1>3. PICK m \in db.projected..HighWater : m = IF e > db.projected THEN e ELSE db.projected
  BY <1>1, <1>2 DEF DbSound, DbType, Seqs
<1>4. db' = [db EXCEPT !.marked = (db.retired + 1)..m, !.projected = m]
  <2>1. m \in db.projected..MaxSeq /\ {e} \in SUBSET Seqs
    BY <1>1, <1>2, <1>3 DEF DbType
  <2>2. \A x \in {e} : x > db.retired /\ x <= m
    BY <1>1, <1>2, <1>3 DEF DbType, Seqs
  <2>3. \A x \in (db.projected + 1)..m : x \in {e}
    BY <1>1, <1>2, <1>3 DEF DbType, Seqs
  <2> HIDE DEF e
  <2> QED
    BY <1>1, <1>2, <2>1, <2>2, <2>3, ProjectTo DEF DbSound
<1>5. db' = [rows |-> db.rows, marked |-> (db.retired + 1)..m, projected |-> m, retired |-> db.retired]
  BY <1>1, <1>4 DEF DbType
<1>6. e \in db.rows /\ (db.retired + 1)..m \subseteq db.rows
  BY <1>1, <1>2, <1>3 DEF ProjectEvent, DbSound, DbType, Seqs
<1>7. \A x \in (db.projected + 1)..m : x = e
  BY <1>1, <1>2, <1>3 DEF DbType, Seqs
<1>8. Kind(e) = "plain" => e \in told
  BY <1>1 DEF ProjectEvent, ConnSound
<1>9. AdvancesTo(m, db.rows) /\ db.rows \in SUBSET Seqs
  BY <1>1, <1>5, <1>6, <1>7, <1>8 DEF AdvancesTo, DbSound, DbType
<1>10. e <= m
  BY <1>1, <1>2, <1>3 DEF DbType, Seqs
<1> QED
  BY <1>9, <1>10


-----------------------------------------------------------------------------
(* What a step does to the stores.                                         *)

(* Events and callbacks are only added, events to an idle database.        *)
Grows ==
  /\ \/ log' = log
     \/ db' = db /\ disk' = disk /\ HighWater < MaxSeq /\ \E k \in Kinds : log' = Append(log, k)
  /\ told \subseteq told'

Retires ==
  /\ db.retired + 1 <= db.projected
  /\ db' = [db EXCEPT !.rows = @ \ {db.retired + 1}, !.marked = @ \ {db.retired + 1},
                     !.retired = db.retired + 1]

Storage ==
  \/ db' = db /\ disk' \in {disk, db}
  \/ disk' = disk /\ \E e \in 1..HighWater : e > db.retired /\ db' = Receive(db, e)
  \/ disk' = disk /\ \E m \in db.projected..HighWater, R \in SUBSET Seqs : AdvancesTo(m, R)
  \/ disk' = disk /\ Retires
  \/ LosePower

(* Every step does one of these.                                           *)
LEMMA StorageSteps ==
  ASSUME Inv, [Next]_vars
  PROVE  Storage /\ Grows
<1>1. ASSUME NEW k \in Kinds, AppendEvent(k) PROVE Storage /\ Grows
  BY <1>1 DEF AppendEvent, Storage, Grows
<1>2. ASSUME NEW s \in net, Acknowledge(s) PROVE Storage /\ Grows
  BY <1>2 DEF Acknowledge, Storage, Grows
<1>3. ASSUME NEW c \in Conns, ConnStep(c) PROVE Storage /\ Grows
  <2>1. CASE Send(c) \/ ExpireCursor(c) \/ Connect(c) \/ TakeChunk(c) \/ RefuseEvent(c) \/ Drained(c)
    BY <2>1 DEF Send, ExpireCursor, Connect, TakeChunk, RefuseEvent, Drained, Storage, Grows
  <2>2. CASE TakeOther(c)
    <3>1. /\ conn[c].got + 1 \in 1..HighWater /\ conn[c].got + 1 > db.retired
          /\ db' = Receive(db, conn[c].got + 1)
      BY <2>2 DEF TakeOther, CanTake, Inv, TypeOK, ConnType, ConnSound, HighWater
    <3> QED
      BY <2>2, <3>1 DEF TakeOther, Storage, Grows
  <2>3. CASE TakeDuplicate(c)
    BY <2>3 DEF TakeDuplicate, Storage, Grows
  <2>4. CASE ReconcileExpired(c)
    BY <2>4 DEF ReconcileExpired, Storage, Grows
  <2>5. CASE FlushBatch(c)
    BY <2>5, FlushAdvances DEF FlushBatch, Storage, Grows
  <2>6. CASE Notify(c)
    BY <2>6 DEF Notify, Storage, Grows
  <2>7. CASE ProjectEvent(c)
    BY <2>7, EventAdvances DEF ProjectEvent, Storage, Grows
  <2> QED
    BY <1>3, <2>1, <2>2, <2>3, <2>4, <2>5, <2>6, <2>7 DEF ConnStep, Serve
<1>4. ASSUME NEW c \in Conns, Disconnect(c) \/ FailProcessor(c) PROVE Storage /\ Grows
  BY <1>4 DEF Disconnect, FailProcessor, Storage, Grows
<1>5. CASE WorkerStep
  BY <1>5 DEF WorkerStep, TakePending, AwaitBarrier, SendAcknowledgement, Storage, Grows
<1>6. CASE RetireReceipt
  BY <1>6 DEF RetireReceipt, Retires, Storage, Grows
<1>7. CASE BackgroundSync \/ FailAcknowledgement \/ CrashBackend \/ LosePower \/ UNCHANGED vars
  BY <1>7 DEF BackgroundSync, FailAcknowledgement, CrashBackend, LosePower, vars, Storage, Grows
<1> QED
  BY <1>1, <1>2, <1>3, <1>4, <1>5, <1>6, <1>7 DEF Next

(* The events already appended stay what they are.                         *)
LEMMA LogKept ==
  ASSUME Inv, Grows
  PROVE  /\ log' \in Seq(Kinds) /\ HighWater' <= MaxSeq
         /\ HighWater \in Nat /\ HighWater' \in Nat /\ HighWater <= HighWater'
         /\ \A e \in 1..HighWater : Kind(e)' = Kind(e)
<1>1. log \in Seq(Kinds) /\ Len(log) <= MaxSeq
  BY DEF Inv, TypeOK
<1>2. CASE log' = log
  BY <1>1, <1>2 DEF HighWater, Kind
<1>3. ASSUME NEW k \in Kinds, log' = Append(log, k), Len(log) < MaxSeq
      PROVE  /\ log' \in Seq(Kinds) /\ Len(log') = Len(log) + 1
             /\ \A e \in 1..Len(log) : log'[e] = log[e]
  BY <1>1, <1>3
<1>4. \A k \in Kinds : log' = Append(log, k) /\ Len(log) < MaxSeq =>
        /\ log' \in Seq(Kinds) /\ Len(log') <= MaxSeq /\ Len(log) \in Nat /\ Len(log') \in Nat
        /\ Len(log) <= Len(log') /\ \A e \in 1..Len(log) : log'[e] = log[e]
  BY <1>1, <1>3, DeliveryAssumption
<1> QED
  BY <1>2, <1>4 DEF Grows, HighWater, Kind

(* The receipts and the cursor agree after every step, in the database and *)
(* on the disk, and only a loss of power takes the cursor back.            *)
LEMMA StorageKept ==
  ASSUME Inv, Storage, Grows
  PROVE  /\ db' \in DbType /\ disk' \in DbType
         /\ DbSound(db)' /\ DbSound(disk)'
         /\ disk.projected <= disk'.projected /\ disk'.projected <= db'.projected
         /\ db.projected <= db'.projected \/ LosePower
         /\ ToldSound'
<1> USE DeliveryAssumption
<1>1. /\ db \in DbType /\ disk \in DbType /\ DbSound(db) /\ DbSound(disk)
      /\ disk.projected <= db.projected /\ ToldSound
  BY DEF Inv, TypeOK, Synced
<1>2. /\ HighWater \in Nat /\ HighWater' \in Nat /\ HighWater <= HighWater' /\ told \subseteq told'
      /\ HighWater <= MaxSeq
      /\ \A e \in 1..HighWater : Kind(e)' = Kind(e)
  BY LogKept DEF Grows, Inv, TypeOK, HighWater
<1>3. ASSUME NEW d \in DbType, DbSound(d)
      PROVE  /\ d.retired <= d.projected /\ d.projected <= HighWater'
             /\ d.marked = (d.retired + 1)..d.projected
             /\ d.marked \subseteq d.rows
             /\ \A e \in d.rows : e > d.retired
  BY <1>2, <1>3 DEF DbSound, DbType
<1>4. ASSUME db'.projected \in 0..db.projected PROVE ToldSound'
  BY <1>1, <1>2, <1>4 DEF ToldSound, DbSound, DbType
<1>5. CASE db' = db /\ disk' \in {disk, db}
  BY <1>1, <1>3, <1>4, <1>5 DEF DbSound, DbType
<1>6. ASSUME NEW e \in 1..HighWater, e > db.retired, db' = Receive(db, e), disk' = disk
      PROVE  /\ db' \in DbType /\ DbSound(db)' /\ db'.projected = db.projected
  <2>1. /\ db'.rows = db.rows \cup {e} /\ db'.marked = db.marked
        /\ db'.projected = db.projected /\ db'.retired = db.retired /\ db' \in DbType
    BY <1>1, <1>2, <1>6 DEF Receive, DbType, Seqs
  <2> QED
    BY <1>1, <1>3, <1>6, <2>1 DEF DbSound
<1>7. ASSUME NEW m \in db.projected..HighWater, NEW R \in SUBSET Seqs, AdvancesTo(m, R), disk' = disk
      PROVE  /\ db' \in DbType /\ DbSound(db)' /\ db.projected <= db'.projected
             /\ ToldSound'
  <2>1. /\ db'.rows = R /\ db'.marked = (db.retired + 1)..m
        /\ db'.projected = m /\ db'.retired = db.retired
    BY <1>7 DEF AdvancesTo
  <2>2. db.retired \in 0..MaxSeq /\ db.projected \in 0..MaxSeq /\ m \in 0..MaxSeq
    BY <1>1, <1>2 DEF DbType
  <2>3. db' \in DbType
    <3>1. (db.retired + 1)..m \in SUBSET Seqs
      BY <2>2 DEF Seqs
    <3> QED
      BY <1>7, <2>2, <3>1 DEF AdvancesTo, DbType
  <2>4. DbSound(db)'
    BY <1>1, <1>2, <1>7, <2>1, <2>2 DEF DbSound, AdvancesTo
  <2>5. ToldSound'
    <3> SUFFICES ASSUME NEW e \in 1..m, Kind(e)' = "plain" PROVE e \in told'
      BY <2>1 DEF ToldSound
    <3>1. Kind(e) = "plain"
      BY <1>2, <2>2
    <3>2. e \in 1..db.projected \/ e \in (db.projected + 1)..m
      BY <2>2
    <3>3. e \in told
      BY <1>1, <1>7, <3>1, <3>2 DEF ToldSound, AdvancesTo
    <3> QED
      BY <1>2, <3>3
  <2> QED
    BY <2>1, <2>2, <2>3, <2>4, <2>5
<1>8. ASSUME Retires, disk' = disk
      PROVE  /\ db' \in DbType /\ DbSound(db)' /\ db'.projected = db.projected
  <2> DEFINE e == db.retired + 1
  <2>1. e \in Seqs /\ db.projected \in 0..MaxSeq /\ db.retired \in 0..MaxSeq
    BY <1>1, <1>8 DEF DbType, Seqs, Retires
  <2>2. /\ db'.rows = db.rows \ {e} /\ db'.marked = db.marked \ {e}
        /\ db'.projected = db.projected /\ db'.retired = e /\ db' \in DbType
    <3>1. db' = [db EXCEPT !.rows = db.rows \ {e}, !.marked = db.marked \ {e}, !.retired = e]
      BY <1>1, <1>8 DEF Retires, DbType
    <3>2. e \in 0..MaxSeq /\ db.rows \ {e} \in SUBSET Seqs /\ db.marked \ {e} \in SUBSET Seqs
      BY <1>1, <2>1 DEF DbType, Seqs
    <3> HIDE DEF e
    <3> QED
      BY <1>1, <3>1, <3>2 DEF DbType
  <2>3. db.marked \ {e} = (e + 1)..db.projected
    BY <1>1, <2>1 DEF DbSound
  <2>4. \A x \in db.rows \ {e} : x > e
    BY <1>1, <2>1 DEF DbSound, DbType, Seqs
  <2>5. db.marked \ {e} \subseteq db.rows \ {e} /\ e <= db.projected /\ db.projected <= HighWater'
    BY <1>1, <1>3, <1>8 DEF DbSound, Retires
  <2> QED
    BY <2>2, <2>3, <2>4, <2>5 DEF DbSound
<1>9. CASE LosePower
  <2>1. db' = disk /\ disk' = disk
    BY <1>9 DEF LosePower
  <2>2. disk.projected \in 0..db.projected
    BY <1>1 DEF DbType
  <2>3. DbSound(db)' /\ DbSound(disk)'
    BY <1>1, <1>3, <2>1 DEF DbSound
  <2> QED
    BY <1>1, <1>4, <1>9, <2>1, <2>2, <2>3 DEF DbType
<1>10. ASSUME disk' = disk PROVE disk' \in DbType /\ DbSound(disk)'
  BY <1>1, <1>3, <1>10 DEF DbSound
<1>11. db.projected \in 0..MaxSeq /\ disk.projected \in 0..MaxSeq
  BY <1>1 DEF DbType
<1>12. ASSUME disk' = disk, db' \in DbType, db.projected <= db'.projected
       PROVE  disk.projected <= disk'.projected /\ disk'.projected <= db'.projected
  BY <1>1, <1>11, <1>12 DEF DbType
<1> QED
  BY <1>4, <1>5, <1>6, <1>7, <1>8, <1>9, <1>10, <1>11, <1>12 DEF Storage


-----------------------------------------------------------------------------
(* Connections.                                                            *)

(* A processor stays sound while others work: the cursor only advances.    *)
LEMMA OthersStaySound ==
  ASSUME Inv, Storage, Grows, NEW c \in Conns
  PROVE  /\ conn'[c] = IdleConn => ConnSound(c)'
         /\ conn'[c] = conn[c] /\ db.projected <= db'.projected => ConnSound(c)'
<1> USE DeliveryAssumption
<1>1. /\ HighWater \in Nat /\ HighWater' \in Nat /\ HighWater <= HighWater' /\ told \subseteq told'
      /\ \A e \in 1..HighWater : Kind(e)' = Kind(e)
  BY LogKept DEF Grows
<1>2. db.projected \in Nat /\ db'.projected \in Nat
  BY StorageKept DEF Inv, TypeOK, DbType
<1>3. conn[c] \in ConnType /\ ConnSound(c)
  BY DEF Inv, TypeOK
<1>4. ASSUME conn'[c] = IdleConn PROVE ConnSound(c)'
  BY <1>1, <1>2, <1>4 DEF ConnSound, Taken, IdleConn
<1>5. ASSUME conn'[c] = conn[c], db.projected <= db'.projected PROVE ConnSound(c)'
  <2>1. Taken(c)' = Taken(c) /\ Taken(c) \in Int /\ Taken(c) <= HighWater
    BY <1>1, <1>3, <1>5 DEF Taken, ConnType, ConnSound
  <2>2. \A e \in conn[c].batch : e \in 1..HighWater
    BY <1>3, <2>1, <1>1 DEF ConnSound, ConnType, Seqs
  <2> QED
    BY <1>1, <1>2, <1>3, <1>5, <2>1, <2>2 DEF ConnSound, ConnType
<1> QED
  BY <1>4, <1>5

(* The processor that works leaves its own connection sound.               *)
LEMMA WorkingStaysSound ==
  ASSUME Inv, Storage, Grows, NEW c \in Conns, ConnStep(c)
  PROVE  /\ conn' = [conn EXCEPT ![c] = conn'[c]] /\ conn'[c] \in ConnType
         /\ ConnSound(c)'
<1> USE DeliveryAssumption
<1>1. /\ HighWater \in Nat /\ HighWater' \in Nat /\ HighWater <= HighWater' /\ told \subseteq told'
      /\ HighWater <= MaxSeq
      /\ \A e \in 1..HighWater : Kind(e)' = Kind(e)
  BY LogKept DEF Grows, Inv, TypeOK, HighWater
<1>2. /\ db \in DbType /\ db' \in DbType /\ DbSound(db)
      /\ db.projected \in 0..MaxSeq /\ db'.projected \in 0..MaxSeq /\ db.projected <= HighWater
  BY StorageKept DEF Inv, TypeOK, DbType, DbSound
<1>3. /\ conn \in [Conns -> ConnType] /\ conn[c] \in ConnType /\ ConnSound(c)
  BY DEF Inv, TypeOK
<1> DEFINE n == conn'[c]
           Kept == conn' = [conn EXCEPT ![c] = n] /\ n \in ConnType /\ ConnSound(c)'
<1>4. Taken(c) \in Int /\ Taken(c) <= HighWater /\ \A e \in conn[c].batch : e \in 1..HighWater
  BY <1>1, <1>3 DEF Taken, ConnType, ConnSound, Seqs
<1>5. ASSUME conn' = [conn EXCEPT ![c] = IdleConn] PROVE Kept
  BY <1>3, <1>5, OthersStaySound DEF IdleConn, ConnType
<1>6. CASE Send(c)
  <2>1. /\ conn' = [conn EXCEPT ![c] = [conn[c] EXCEPT !.after = conn[c].after + 1]]
        /\ n = [conn[c] EXCEPT !.after = conn[c].after + 1]
        /\ conn[c].after < HighWater /\ db' = db /\ log' = log /\ told' = told
    BY <1>3, <1>6 DEF Send
  <2>2. n \in ConnType /\ Taken(c)' = Taken(c)
    BY <1>1, <1>3, <2>1 DEF ConnType, Taken
  <2>3. /\ n.got = conn[c].got /\ n.after = conn[c].after + 1 /\ n.batch = conn[c].batch
        /\ n.step = conn[c].step /\ n.skip = conn[c].skip
        /\ conn[c].after \in Int /\ conn[c].got \in Int
    BY <1>3, <2>1 DEF ConnType
  <2> QED
    BY <1>1, <1>3, <2>1, <2>2, <2>3 DEF ConnSound, HighWater, Kind
<1>7. CASE ExpireCursor(c)
  <2>1. /\ conn' = [conn EXCEPT ![c] = [conn[c] EXCEPT !.phase = "draining"]]
        /\ n = [conn[c] EXCEPT !.phase = "draining"]
        /\ db' = db /\ log' = log /\ told' = told
    BY <1>3, <1>7 DEF ExpireCursor
  <2>2. n \in ConnType /\ Taken(c)' = Taken(c)
    BY <1>3, <2>1 DEF ConnType, Taken
  <2> QED
    BY <1>3, <2>1, <2>2 DEF ConnSound, ConnType, HighWater, Kind
<1>8. CASE Connect(c)
  <2>1. /\ conn' = [conn EXCEPT ![c] = n]
        /\ n = [phase |-> "up", after |-> db.projected, got |-> db.projected, batch |-> {},
                step |-> "ready", skip |-> FALSE]
        /\ db' = db /\ log' = log
    BY <1>3, <1>8 DEF Connect, IdleConn
  <2>2. n \in ConnType
    BY <1>2, <2>1 DEF ConnType
  <2> QED
    BY <1>1, <1>2, <2>1, <2>2 DEF ConnSound, Taken, HighWater
<1>9. CASE TakeChunk(c)
  <2>1. /\ conn' = [conn EXCEPT ![c] = n]
        /\ n = [conn[c] EXCEPT !.got = conn[c].got + 1, !.batch = conn[c].batch \cup {conn[c].got + 1}]
        /\ conn[c].got < conn[c].after /\ conn[c].step = "ready"
        /\ Kind(conn[c].got + 1) = "chunk"
        /\ db' = db /\ log' = log /\ told' = told
    BY <1>3, <1>9 DEF TakeChunk, CanTake
  <2>2. conn[c].got + 1 \in Seqs /\ conn[c].got \in Nat /\ conn[c].got + 1 <= HighWater
    BY <1>1, <1>3, <2>1 DEF ConnType, ConnSound, Seqs
  <2>3. /\ n.got = conn[c].got + 1 /\ n.after = conn[c].after
        /\ n.batch = conn[c].batch \cup {conn[c].got + 1}
        /\ n.step = "ready" /\ n.skip = conn[c].skip
    BY <1>3, <2>1 DEF ConnType
  <2>4. n \in ConnType
    <3>1. conn[c].got + 1 \in 0..MaxSeq /\ conn[c].batch \cup {conn[c].got + 1} \in SUBSET Seqs
      BY <1>3, <2>2 DEF ConnType, Seqs
    <3> QED
      BY <1>3, <2>1, <3>1 DEF ConnType
  <2>5. Taken(c)' = conn[c].got + 1 /\ Taken(c) = conn[c].got
    BY <2>1, <2>3 DEF Taken
  <2>6. ConnSound(c)'
    <3>1. \A e \in n.batch : e <= Taken(c)' /\ Kind(e)' = "chunk"
      BY <1>3, <1>4, <2>1, <2>2, <2>3, <2>5 DEF ConnSound, Kind
    <3>2. \A e \in (db'.projected + 1)..Taken(c)' : e \in n.batch
      BY <1>2, <1>3, <2>1, <2>2, <2>3, <2>5 DEF ConnSound
    <3> QED
      BY <1>3, <2>1, <2>2, <2>3, <3>1, <3>2 DEF ConnSound, ConnType, HighWater
  <2> QED
    BY <2>1, <2>4, <2>6
<1>10. CASE TakeOther(c)
  <2> DEFINE e == conn[c].got + 1
  <2>1. /\ conn' = [conn EXCEPT ![c] = n]
        /\ n = [conn[c] EXCEPT !.got = e, !.step = "received", !.skip = EffectApplied(e)]
        /\ conn[c].got < conn[c].after /\ conn[c].step = "ready"
        /\ e > db.retired /\ ~(e \in db.rows /\ e <= db.projected)
        /\ db' = Receive(db, e) /\ log' = log /\ told' = told
    BY <1>3, <1>10 DEF TakeOther, CanTake
  <2>2. e \in Seqs /\ conn[c].got \in Nat /\ e <= HighWater
    BY <1>1, <1>3, <2>1 DEF ConnType, ConnSound, Seqs
  <2>3. EffectApplied(e) = FALSE /\ db'.projected = db.projected
    BY <1>2, <2>1 DEF EffectApplied, DbSound, DbType, Receive
  <2>4. n = [conn[c] EXCEPT !.got = e, !.step = "received", !.skip = FALSE]
    <3> HIDE DEF e, n
    <3> QED
      BY <2>1, <2>3, Zenon
  <2>5. /\ n.got = e /\ n.after = conn[c].after /\ n.batch = conn[c].batch
        /\ n.step = "received" /\ n.skip = FALSE
    BY <1>3, <2>4 DEF ConnType
  <2>6. n \in ConnType
    <3>1. e \in 0..MaxSeq
      BY <2>2 DEF Seqs
    <3> QED
      BY <1>3, <2>4, <3>1 DEF ConnType
  <2>7. Taken(c)' = Taken(c) /\ Taken(c) = conn[c].got
    BY <2>1, <2>2, <2>5 DEF Taken
  <2> QED
    BY <1>3, <2>1, <2>2, <2>3, <2>5, <2>6, <2>7 DEF ConnSound, ConnType, HighWater, Kind
<1>11. CASE TakeDuplicate(c)
  <2> DEFINE e == conn[c].got + 1
  <2>1. /\ conn' = [conn EXCEPT ![c] = n]
        /\ n = [conn[c] EXCEPT !.got = e]
        /\ conn[c].got < conn[c].after /\ conn[c].step = "ready" /\ e <= db.projected
        /\ db' = db /\ log' = log /\ told' = told
    BY <1>3, <1>11 DEF TakeDuplicate, CanTake
  <2>2. e \in Seqs /\ conn[c].got \in Nat /\ e <= HighWater
    BY <1>1, <1>3, <2>1 DEF ConnType, ConnSound, Seqs
  <2>3. n \in ConnType /\ Taken(c)' = e /\ Taken(c) = conn[c].got
    BY <1>3, <2>1, <2>2 DEF ConnType, Taken, Seqs
  <2>4. /\ n.got = e /\ n.after = conn[c].after /\ n.batch = conn[c].batch
        /\ n.step = "ready" /\ n.skip = conn[c].skip
    BY <1>3, <2>1 DEF ConnType
  <2>5. \A x \in n.batch : x <= Taken(c)' /\ Kind(x)' = "chunk"
    BY <1>3, <1>4, <2>1, <2>2, <2>3, <2>4 DEF ConnSound, Kind
  <2>6. \A x \in (db'.projected + 1)..Taken(c)' : x \in n.batch
    BY <1>2, <2>1, <2>2, <2>3
  <2>7. ConnSound(c)'
    BY <1>3, <2>1, <2>2, <2>4, <2>5, <2>6 DEF ConnSound, ConnType, HighWater
  <2> QED
    BY <2>1, <2>3, <2>7
<1>12. CASE FlushBatch(c)
  <2>1. PICK m \in db.projected..HighWater, R \in SUBSET Seqs :
          AdvancesTo(m, R) /\ Taken(c) <= m
    BY <1>12, FlushAdvances
  <2>2. /\ conn' = [conn EXCEPT ![c] = n] /\ n = [conn[c] EXCEPT !.batch = {}]
        /\ log' = log /\ told' = told /\ db'.projected = m /\ m \in Nat
    BY <1>2, <1>3, <1>12, <2>1 DEF FlushBatch, AdvancesTo
  <2>3. n \in ConnType /\ Taken(c)' = Taken(c)
    BY <1>3, <2>2 DEF ConnType, Taken
  <2> QED
    BY SMTT(30), <1>1, <1>2, <1>3, <1>4, <2>1, <2>2, <2>3 DEF ConnSound, ConnType, HighWater, Kind
<1>13. CASE Notify(c)
  <2>1. /\ conn[c].batch = {} /\ db' = db /\ log' = log
        /\ conn' = [conn EXCEPT ![c] = n]
        /\ \/ /\ conn[c].step = "received" /\ n = [conn[c] EXCEPT !.step = "told"]
              /\ conn[c].got \in told'
           \/ /\ conn[c].step = "projected"
              /\ n = [conn[c] EXCEPT !.step = "ready", !.skip = FALSE]
    BY <1>3, <1>13 DEF Notify, ConnSound
  <2>2. n \in ConnType
    BY <1>3, <2>1 DEF ConnType
  <2>3. Taken(c)' = Taken(c) \/ (Taken(c)' = conn[c].got /\ conn[c].got <= db.projected)
    BY <1>3, <2>1 DEF ConnType, ConnSound, Taken
  <2>4. /\ n.got = conn[c].got /\ n.after = conn[c].after /\ n.batch = {} /\ ~n.skip
        /\ n.step \in {"told", "ready"} /\ (n.step = "told" => n.got \in told' /\ n.got > 0)
        /\ conn[c].got \in Int
    <3>1. conn[c].step # "ready" => conn[c].got > 0
      BY <1>3 DEF ConnSound
    <3>2. ~conn[c].skip
      BY <1>3 DEF ConnSound
    <3>3. CASE conn[c].step = "received" /\ n = [conn[c] EXCEPT !.step = "told"] /\ conn[c].got \in told'
      BY <1>3, <2>1, <3>1, <3>2, <3>3 DEF ConnType
    <3>4. CASE n = [conn[c] EXCEPT !.step = "ready", !.skip = FALSE]
      BY <1>3, <2>1, <3>4 DEF ConnType
    <3> QED
      BY <2>1, <3>3, <3>4
  <2>5. \A x \in (db'.projected + 1)..Taken(c)' : x \in n.batch
    BY <1>2, <1>3, <1>4, <2>1, <2>3, <2>4 DEF ConnSound
  <2>6. ConnSound(c)'
    BY <1>3, <2>1, <2>4, <2>5 DEF ConnSound, HighWater
  <2> QED
    BY <2>1, <2>2, <2>6
<1>14. CASE ProjectEvent(c)
  <2>1. PICK m \in db.projected..HighWater, R \in SUBSET Seqs :
          AdvancesTo(m, R) /\ conn[c].got <= m
    BY <1>14, EventAdvances
  <2>2. /\ conn[c].batch = {} /\ log' = log /\ told' = told /\ db'.projected = m /\ m \in Nat
        /\ conn' = [conn EXCEPT ![c] = n]
        /\ \/ n = [conn[c] EXCEPT !.step = "ready", !.skip = FALSE]
           \/ conn[c].step = "received" /\ n = [conn[c] EXCEPT !.step = "projected"]
    <3>1. db'.projected = m /\ m \in Nat
      BY <1>2, <2>1 DEF AdvancesTo
    <3>2. /\ conn[c].batch = {} /\ log' = log /\ told' = told
          /\ \/ conn' = [conn EXCEPT ![c].step = "ready", ![c].skip = FALSE]
             \/ conn[c].step = "received" /\ conn' = [conn EXCEPT ![c].step = "projected"]
      BY <1>14 DEF ProjectEvent
    <3> QED
      BY <1>3, <3>1, <3>2
  <2>3. n \in ConnType
    BY <1>3, <2>2 DEF ConnType
  <2>4. /\ n.got = conn[c].got /\ n.after = conn[c].after /\ n.batch = {} /\ ~n.skip
        /\ n.step \in {"projected", "ready"} /\ (n.step = "projected" => n.got > 0)
        /\ conn[c].got \in Int
    <3>1. conn[c].step # "ready" => conn[c].got > 0
      BY <1>3 DEF ConnSound
    <3>2. ~conn[c].skip
      BY <1>3 DEF ConnSound
    <3>3. CASE conn[c].step = "received" /\ n = [conn[c] EXCEPT !.step = "projected"]
      BY <1>3, <2>2, <3>1, <3>2, <3>3 DEF ConnType
    <3>4. CASE n = [conn[c] EXCEPT !.step = "ready", !.skip = FALSE]
      BY <1>3, <2>2, <3>4 DEF ConnType
    <3> QED
      BY <2>2, <3>3, <3>4
  <2>5. Taken(c)' \in Int /\ Taken(c)' <= conn[c].got
    BY <2>4 DEF Taken
  <2>6. \A x \in (db'.projected + 1)..Taken(c)' : x \in n.batch
    BY <2>1, <2>2, <2>4, <2>5
  <2>7. ConnSound(c)'
    BY <1>3, <2>1, <2>2, <2>4, <2>6 DEF ConnSound, HighWater
  <2> QED
    BY <2>2, <2>3, <2>7
<1>15. CASE ReconcileExpired(c) \/ RefuseEvent(c) \/ Drained(c)
  BY <1>5, <1>15 DEF ReconcileExpired, RefuseEvent, Drained
<1> QED
  BY <1>6, <1>7, <1>8, <1>9, <1>10, <1>11, <1>12, <1>13, <1>14, <1>15 DEF ConnStep, Serve


(* Every connection is sound after every step.                             *)
LEMMA ConnsKept ==
  ASSUME Inv, [Next]_vars
  PROVE  conn' \in [Conns -> ConnType] /\ \A c \in Conns : ConnSound(c)'
<1>1. Storage /\ Grows /\ conn \in [Conns -> ConnType]
  BY StorageSteps DEF Inv, TypeOK
<1>2. db.projected <= db'.projected \/ LosePower
  BY <1>1, StorageKept
<1>3. ASSUME conn' = conn, db.projected <= db'.projected
      PROVE  conn' \in [Conns -> ConnType] /\ \A c \in Conns : ConnSound(c)'
  BY <1>1, <1>3, OthersStaySound
<1>4. ASSUME conn' = [c \in Conns |-> IdleConn]
      PROVE  conn' \in [Conns -> ConnType] /\ \A c \in Conns : ConnSound(c)'
  <2>1. IdleConn \in ConnType
    BY DeliveryAssumption DEF IdleConn, ConnType
  <2> QED
    BY <1>1, <1>4, <2>1, OthersStaySound
<1>5. ASSUME NEW c \in Conns, conn' = [conn EXCEPT ![c] = conn'[c]], conn'[c] \in ConnType,
             ConnSound(c)', db.projected <= db'.projected
      PROVE  conn' \in [Conns -> ConnType] /\ \A x \in Conns : ConnSound(x)'
  <2>1. \A x \in Conns : x # c => conn'[x] = conn[x]
    BY <1>1, <1>5
  <2>2. \A x \in Conns : x # c => ConnSound(x)'
    BY <1>1, <1>5, <2>1, OthersStaySound
  <2>3. conn' \in [Conns -> ConnType]
    BY <1>1, <1>5
  <2> QED
    BY <1>5, <2>2, <2>3
<1>6. CASE LosePower \/ CrashBackend
  BY <1>4, <1>6 DEF LosePower, CrashBackend
<1>7. ASSUME ~LosePower, NEW c \in Conns, ConnStep(c)
      PROVE  conn' \in [Conns -> ConnType] /\ \A x \in Conns : ConnSound(x)'
  BY <1>1, <1>2, <1>5, <1>7, WorkingStaysSound
<1>8. ASSUME ~LosePower, NEW c \in Conns, FailProcessor(c)
      PROVE  conn' \in [Conns -> ConnType] /\ \A x \in Conns : ConnSound(x)'
  <2>1. conn'[c] = IdleConn /\ conn' = [conn EXCEPT ![c] = conn'[c]] /\ IdleConn \in ConnType
    BY <1>1, <1>8, DeliveryAssumption DEF FailProcessor, IdleConn, ConnType
  <2> QED
    BY <1>1, <1>2, <1>5, <1>8, <2>1, OthersStaySound
<1>9. ASSUME ~LosePower, NEW c \in Conns, Disconnect(c)
      PROVE  conn' \in [Conns -> ConnType] /\ \A x \in Conns : ConnSound(x)'
  <2>1. PICK k \in conn[c].got..conn[c].after :
          conn' = [conn EXCEPT ![c].phase = "draining", ![c].after = k]
    BY <1>9 DEF Disconnect
  <2> DEFINE n == conn'[c]
  <2>2. /\ conn' = [conn EXCEPT ![c] = n]
        /\ n = [conn[c] EXCEPT !.phase = "draining", !.after = k]
        /\ db' = db /\ log' = log /\ told' = told
    BY <1>1, <1>9, <2>1 DEF Disconnect
  <2>3. /\ conn[c] \in ConnType /\ ConnSound(c) /\ HighWater \in Nat
    BY DEF Inv, TypeOK, HighWater
  <2>4. k \in 0..MaxSeq /\ conn[c].got \in Int /\ conn[c].after \in Int
    BY <2>3, DeliveryAssumption DEF ConnType
  <2>5. /\ n.got = conn[c].got /\ n.after = k /\ n.batch = conn[c].batch
        /\ n.step = conn[c].step /\ n.skip = conn[c].skip /\ n \in ConnType
    BY <2>2, <2>3, <2>4 DEF ConnType
  <2>6. Taken(c)' = Taken(c)
    BY <2>5 DEF Taken
  <2>7. ConnSound(c)'
    <3>1. k <= HighWater /\ n.got <= n.after
      BY <2>1, <2>3, <2>4, <2>5 DEF ConnSound
    <3>2. \A e : Kind(e)' = Kind(e)
      BY <2>2 DEF Kind
    <3>3. HighWater' = HighWater
      BY <2>2 DEF HighWater
    <3> QED
      BY <2>2, <2>3, <2>5, <2>6, <3>1, <3>2, <3>3 DEF ConnSound
  <2> QED
    BY <1>2, <1>5, <1>9, <2>2, <2>5, <2>7
<1>10. ASSUME ~LosePower, ~CrashBackend,
              \A c \in Conns : ~ConnStep(c) /\ ~FailProcessor(c) /\ ~Disconnect(c)
       PROVE  conn' = conn
  BY <1>10 DEF Next, AppendEvent, Acknowledge, WorkerStep, TakePending, AwaitBarrier,
       SendAcknowledgement, RetireReceipt, BackgroundSync, FailAcknowledgement, vars
<1> QED
  BY <1>2, <1>3, <1>6, <1>7, <1>8, <1>9, <1>10

-----------------------------------------------------------------------------
(* Acknowledgements.                                                       *)

(* The worker, the requests under way and the journal stay behind the      *)
(* synced cursor.                                                          *)
LEMMA AcksKept ==
  ASSUME Inv, [Next]_vars
  PROVE  /\ ack' \in AckType /\ net' \subseteq Seqs /\ acked' \in 0..MaxSeq
         /\ WorkerSound' /\ NetSound' /\ acked' <= disk'.projected
<1> USE DeliveryAssumption
<1>1. /\ db \in DbType /\ disk \in DbType /\ ack \in AckType
      /\ net \subseteq Seqs /\ acked \in 0..MaxSeq
      /\ WorkerSound /\ NetSound /\ acked <= disk.projected /\ disk.projected <= db.projected
  BY DEF Inv, TypeOK, Synced
<1>2. /\ Storage /\ Grows
      /\ db' \in DbType /\ disk' \in DbType
      /\ disk.projected <= disk'.projected /\ disk'.projected <= db'.projected
      /\ db.projected <= db'.projected \/ LosePower
  BY StorageSteps, StorageKept
<1>3. /\ db.projected \in 0..MaxSeq /\ disk.projected \in 0..MaxSeq
      /\ db'.projected \in 0..MaxSeq /\ disk'.projected \in 0..MaxSeq
      /\ ack.pending \in 0..MaxSeq /\ ack.sequence \in 0..MaxSeq /\ ack.acknowledged \in 0..MaxSeq
      /\ \A s \in net : s \in 1..MaxSeq
  BY <1>1, <1>2 DEF DbType, AckType, Seqs
<1> DEFINE Goal == /\ ack' \in AckType /\ net' \subseteq Seqs /\ acked' \in 0..MaxSeq
                   /\ WorkerSound' /\ NetSound' /\ acked' <= disk'.projected
<1>4. ASSUME acked' = acked PROVE acked' \in 0..MaxSeq /\ acked' <= disk'.projected
  BY <1>1, <1>2, <1>3, <1>4
<1>5. ASSUME \A s \in net' : s \in net \/ (s \in Seqs /\ s <= disk'.projected)
      PROVE  net' \subseteq Seqs /\ NetSound'
  BY <1>1, <1>2, <1>3, <1>5 DEF NetSound
<1>6. ASSUME ack' = ack, ~LosePower PROVE ack' \in AckType /\ WorkerSound'
  BY <1>1, <1>2, <1>3, <1>6 DEF WorkerSound
<1>7. ASSUME NEW s \in 0..MaxSeq, s <= db'.projected, ack' = Schedule(ack, s), ~LosePower
      PROVE  ack' \in AckType /\ WorkerSound'
  <2>1. /\ ack' \in AckType /\ ack'.stage = ack.stage /\ ack'.sequence = ack.sequence
        /\ ack'.pending = s \/ ack'.pending = ack.pending
    BY <1>1, <1>7 DEF Schedule, AckType
  <2> QED
    BY <1>1, <1>2, <1>3, <1>7, <2>1 DEF WorkerSound
<1>8. ASSUME ack' = NewWorker PROVE ack' \in AckType /\ WorkerSound'
  BY <1>3, <1>8 DEF NewWorker, AckType, WorkerSound
<1>9. ASSUME NEW s \in net, Acknowledge(s) PROVE Goal
  <2>1. /\ s \in 1..MaxSeq /\ s <= disk.projected /\ acked' \in {s, acked} /\ ~LosePower
        /\ net' = net \ {s} /\ db' = db /\ disk' = disk
    BY <1>1, <1>3, <1>9 DEF Acknowledge, NetSound, LosePower, Fault, TypeOK, Inv
  <2>2. ack' \in AckType /\ WorkerSound'
    <3>1. CASE ack' = ack
      BY <1>6, <2>1, <3>1
    <3>2. CASE ack' = [ack EXCEPT !.stage = "idle", !.acknowledged = s]
      <4>1. ack' \in AckType /\ ack'.stage = "idle" /\ ack'.pending = ack.pending
        <5>1. s \in 0..MaxSeq
          BY <2>1
        <5> QED
          BY <1>1, <3>2, <5>1 DEF AckType
      <4> QED
        BY <1>1, <2>1, <4>1 DEF WorkerSound
    <3> QED
      BY <1>9, <3>1, <3>2 DEF Acknowledge
  <2>3. net' \subseteq Seqs /\ NetSound'
    BY <1>5, <2>1
  <2> QED
    BY <1>1, <1>3, <2>1, <2>2, <2>3
<1>10. CASE LosePower \/ CrashBackend
  BY <1>4, <1>5, <1>8, <1>10 DEF LosePower, CrashBackend
<1>11. ASSUME ack' = ack, net' = net, acked' = acked, ~LosePower PROVE Goal
  BY <1>4, <1>5, <1>6, <1>11
<1>12. ASSUME NEW c \in Conns, ConnStep(c), ~LosePower PROVE Goal
  <2>1. CASE Send(c) \/ ExpireCursor(c) \/ TakeChunk(c) \/ TakeOther(c) \/ Notify(c)
             \/ RefuseEvent(c) \/ Drained(c)
    BY <1>11, <1>12, <2>1 DEF Send, ExpireCursor, TakeChunk, TakeOther, Notify, RefuseEvent, Drained
  <2>2. CASE Connect(c)
    BY <1>2, <1>3, <1>4, <1>5, <1>7, <1>12, <2>2 DEF Connect
  <2>3. CASE TakeDuplicate(c)
    <3> DEFINE e == conn[c].got + 1
    <3>1. /\ e \in Seqs /\ e <= db.projected /\ db' = db /\ disk' = db /\ acked' = acked
          /\ net' = net \cup {e} /\ ack' = Schedule(ack, e)
      BY <1>1, <2>3 DEF TakeDuplicate, DbType
    <3>2. e \in 0..MaxSeq
      BY <3>1 DEF Seqs
    <3> HIDE DEF e
    <3> QED
      BY <1>4, <1>5, <1>7, <1>12, <3>1, <3>2
  <2>4. CASE ReconcileExpired(c)
    <3>1. \A s \in net' : s \in net \/ (s \in Seqs /\ s <= disk'.projected)
      <4>1. CASE acked < db.projected
        BY <1>1, <1>3, <2>4, <4>1 DEF ReconcileExpired, Seqs
      <4>2. CASE ~(acked < db.projected)
        BY <2>4, <4>2 DEF ReconcileExpired
      <4> QED
        BY <4>1, <4>2
    <3> QED
      BY <1>4, <1>5, <1>6, <1>12, <2>4, <3>1 DEF ReconcileExpired
  <2>5. CASE FlushBatch(c)
    <3>1. PICK m \in db.projected..HighWater, R \in SUBSET Seqs :
            AdvancesTo(m, R) /\ \A e \in conn[c].batch : e <= m
      BY <2>5, FlushAdvances
    <3>2. PICK last \in conn[c].batch : ack' = Schedule(ack, last)
      BY <2>5 DEF FlushBatch
    <3>3. conn[c] \in ConnType
      BY DEF Inv, TypeOK
    <3>4. last \in 0..MaxSeq /\ last <= db'.projected
      BY <3>1, <3>3 DEF AdvancesTo, ConnType, Seqs
    <3> QED
      BY <1>4, <1>5, <1>7, <1>12, <2>5, <3>2, <3>4 DEF FlushBatch
  <2>6. CASE ProjectEvent(c)
    <3>1. PICK m \in db.projected..HighWater, R \in SUBSET Seqs :
            AdvancesTo(m, R) /\ conn[c].got <= m
      BY <2>6, EventAdvances
    <3>2. conn[c] \in ConnType
      BY DEF Inv, TypeOK
    <3>3. conn[c].got \in 0..MaxSeq /\ conn[c].got <= db'.projected
      BY <3>1, <3>2 DEF AdvancesTo, ConnType
    <3> QED
      BY <1>4, <1>5, <1>7, <1>12, <2>6, <3>3 DEF ProjectEvent
  <2> QED
    BY <1>12, <2>1, <2>2, <2>3, <2>4, <2>5, <2>6 DEF ConnStep, Serve
<1>13. ASSUME TakePending, ~LosePower PROVE Goal
  <2>1. db' = db /\ disk' = disk /\ acked' = acked /\ net' = net
    BY <1>13 DEF TakePending
  <2>2. \/ ack' = [ack EXCEPT !.acknowledged = ack.pending] /\ ack.stage = "idle"
        \/ ack' = [ack EXCEPT !.stage = "barrier", !.sequence = ack.pending] /\ ack.pending > 0
    BY <1>3, <1>13 DEF TakePending
  <2>3. ack' \in AckType /\ WorkerSound'
    <3>1. CASE ack' = [ack EXCEPT !.acknowledged = ack.pending] /\ ack.stage = "idle"
      BY <1>1, <1>3, <2>1, <3>1 DEF AckType, WorkerSound
    <3>2. CASE /\ ack' = [ack EXCEPT !.stage = "barrier", !.sequence = ack.pending]
               /\ ack.pending > 0
      <4>1. /\ ack' \in AckType /\ ack'.stage = "barrier"
            /\ ack'.sequence = ack.pending /\ ack'.pending = ack.pending
        BY <1>1, <3>2 DEF AckType
      <4> QED
        BY <1>1, <1>3, <2>1, <3>2, <4>1 DEF WorkerSound
    <3> QED
      BY <2>2, <3>1, <3>2
  <2> QED
    BY <1>4, <1>5, <2>1, <2>3
<1>14. ASSUME AwaitBarrier, ~LosePower PROVE Goal
  <2>1. /\ db' = db /\ disk' = db /\ acked' = acked /\ net' = net
        /\ ack.stage = "barrier" /\ ack' = [ack EXCEPT !.stage = "send"]
    BY <1>14 DEF AwaitBarrier
  <2>2. ack' \in AckType /\ WorkerSound'
    BY <1>1, <1>3, <2>1 DEF AckType, WorkerSound
  <2> QED
    BY <1>4, <1>5, <2>1, <2>2
<1>15. ASSUME SendAcknowledgement, ~LosePower PROVE Goal
  <2>1. /\ db' = db /\ disk' = disk /\ acked' = acked /\ net' = net \cup {ack.sequence}
        /\ ack.stage = "send" /\ ack' = [ack EXCEPT !.stage = "wait"]
    BY <1>15 DEF SendAcknowledgement
  <2>2. ack' \in AckType /\ WorkerSound'
    BY <1>1, <1>3, <2>1 DEF AckType, WorkerSound
  <2>3. ack.sequence \in Seqs /\ ack.sequence <= disk'.projected
    BY <1>1, <1>3, <2>1 DEF WorkerSound, Seqs
  <2> QED
    BY <1>4, <1>5, <2>1, <2>2, <2>3
<1>16. ASSUME FailAcknowledgement, ~LosePower PROVE Goal
  <2>1. /\ db' = db /\ disk' = disk /\ acked' = acked /\ net' \subseteq net
        /\ ack' = [ack EXCEPT !.stage = "idle"]
    BY <1>16 DEF FailAcknowledgement
  <2>2. ack' \in AckType /\ WorkerSound'
    BY <1>1, <1>3, <2>1 DEF AckType, WorkerSound
  <2> QED
    BY <1>4, <1>5, <2>1, <2>2
<1>17. ASSUME NEW c \in Conns, Disconnect(c) \/ FailProcessor(c), ~LosePower PROVE Goal
  BY <1>11, <1>17 DEF Disconnect, FailProcessor
<1>18. ASSUME NEW k \in Kinds, AppendEvent(k), ~LosePower PROVE Goal
  BY <1>11, <1>18 DEF AppendEvent
<1>19. ASSUME RetireReceipt \/ BackgroundSync \/ UNCHANGED vars, ~LosePower PROVE Goal
  BY <1>11, <1>19 DEF RetireReceipt, BackgroundSync, vars
<1> QED
  BY <1>9, <1>10, <1>12, <1>13, <1>14, <1>15, <1>16, <1>17, <1>18, <1>19 DEF Next, WorkerStep


-----------------------------------------------------------------------------
(* The invariant.                                                          *)

(* Only events of the journal are told, and faults are counted.            *)
LEMMA RestKept ==
  ASSUME Inv, [Next]_vars
  PROVE  told' \subseteq Seqs /\ faults' \in 0..MaxFaults
<1> USE DeliveryAssumption
<1>1. told \subseteq Seqs /\ faults \in 0..MaxFaults
  BY DEF Inv, TypeOK
<1>2. ASSUME NEW c \in Conns, ConnStep(c) PROVE told' \subseteq Seqs /\ faults' = faults
  <2>1. CASE Notify(c)
    <3>1. conn[c] \in ConnType /\ ConnSound(c)
      BY DEF Inv, TypeOK
    <3>2. conn[c].step = "received" => conn[c].got \in Seqs
      BY <3>1 DEF ConnSound, ConnType, Seqs
    <3> QED
      BY <1>1, <2>1, <3>2 DEF Notify
  <2>2. CASE ~Notify(c)
    BY <1>1, <1>2, <2>2 DEF ConnStep, Serve, Send, ExpireCursor, Connect, TakeChunk, TakeOther,
       TakeDuplicate, ReconcileExpired, FlushBatch, ProjectEvent, RefuseEvent, Drained
  <2> QED
    BY <2>1, <2>2
<1>3. ASSUME Fault PROVE faults' \in 0..MaxFaults
  BY <1>1, <1>3 DEF Fault
<1>4. ASSUME NEW c \in Conns, Disconnect(c) \/ FailProcessor(c)
      PROVE  told' \subseteq Seqs /\ faults' \in 0..MaxFaults
  BY <1>1, <1>3, <1>4 DEF Disconnect, FailProcessor
<1>5. ASSUME FailAcknowledgement \/ CrashBackend \/ LosePower
      PROVE  told' \subseteq Seqs /\ faults' \in 0..MaxFaults
  BY <1>1, <1>3, <1>5 DEF FailAcknowledgement, CrashBackend, LosePower
<1> QED
  BY <1>1, <1>2, <1>4, <1>5 DEF Next, AppendEvent, Acknowledge, WorkerStep, TakePending,
     AwaitBarrier, SendAcknowledgement, RetireReceipt, BackgroundSync, vars

(* Every step keeps the invariant.                                         *)
LEMMA StepInv == Inv /\ [Next]_vars => Inv'
<1> SUFFICES ASSUME Inv, [Next]_vars PROVE Inv'
  OBVIOUS
<1>1. Storage /\ Grows
  BY StorageSteps
<1>2. log' \in Seq(Kinds) /\ Len(log)' <= MaxSeq
  BY <1>1, LogKept DEF HighWater
<1>3. /\ db' \in DbType /\ disk' \in DbType /\ DbSound(db)' /\ DbSound(disk)'
      /\ disk'.projected <= db'.projected /\ ToldSound'
  BY <1>1, StorageKept
<1>4. conn' \in [Conns -> ConnType] /\ \A c \in Conns : ConnSound(c)'
  BY ConnsKept
<1>5. /\ ack' \in AckType /\ net' \subseteq Seqs /\ acked' \in 0..MaxSeq
      /\ WorkerSound' /\ NetSound' /\ acked' <= disk'.projected
  BY AcksKept
<1>6. TypeOK'
  BY <1>2, <1>3, <1>4, <1>5, RestKept DEF TypeOK
<1> QED
  BY <1>3, <1>4, <1>5, <1>6 DEF Inv, Synced

(* An empty journal and an empty database satisfy it.                      *)
LEMMA InitInv == Init => Inv
<1> SUFFICES ASSUME Init PROVE Inv
  OBVIOUS
<1> USE DeliveryAssumption
<1>1. EmptyDb \in DbType /\ IdleConn \in ConnType /\ NewWorker \in AckType
  BY DEF EmptyDb, DbType, IdleConn, ConnType, NewWorker, AckType
<1>2. Len(log) = 0 /\ log \in Seq(Kinds)
  BY DEF Init
<1>3. TypeOK
  BY <1>1, <1>2 DEF Init, TypeOK
<1>4. DbSound(db) /\ DbSound(disk) /\ Synced
  BY <1>2 DEF Init, DbSound, Synced, EmptyDb, HighWater
<1>5. \A c \in Conns : ConnSound(c)
  BY <1>2 DEF Init, ConnSound, Taken, IdleConn, EmptyDb, HighWater
<1>6. WorkerSound /\ NetSound /\ ToldSound
  BY DEF Init, WorkerSound, NetSound, ToldSound, NewWorker, EmptyDb
<1> QED
  BY <1>3, <1>4, <1>5, <1>6 DEF Inv

(* The inductive invariant holds.                                          *)
LEMMA DeliveryInvariant == Spec => []Inv
BY InitInv, StepInv, PTL DEF Spec

-----------------------------------------------------------------------------
(***************************************************************************)
(* Whatever connections, processors, retries, crashes and losses of power  *)
(* come together: the journal forgets no event that a loss of power could  *)
(* undo.  The worker and the requests under way stay at or below the       *)
(* synced cursor.                                                          *)
(***************************************************************************)
THEOREM AckedSurvives == Spec => [](TypeOK /\ AckedIsDurable)
<1>1. Inv => TypeOK /\ AckedIsDurable
  BY DEF Inv, Synced, AckedIsDurable
<1> QED
  BY <1>1, DeliveryInvariant, PTL

(***************************************************************************)
(* The inbox is projected in order, without a gap, in the database and on  *)
(* the disk.  What each processor has taken is projected or in its batch.  *)
(***************************************************************************)
THEOREM ProjectionHasNoGap == Spec => []ProjectedInOrder
<1>1. Inv => ProjectedInOrder
  BY DEF Inv, DbSound, ProjectedInOrder
<1> QED
  BY <1>1, DeliveryInvariant, PTL

(***************************************************************************)
(* The callback of a plain event has run before the journal may forget it, *)
(* since it runs before the projection and the acknowledgement follows     *)
(* the projection.                                                         *)
(***************************************************************************)
THEOREM ForgottenWasTold == Spec => []AckedWasTold
<1>1. Inv => AckedWasTold
  BY DeliveryAssumption DEF Inv, TypeOK, DbType, Synced, ToldSound, AckedWasTold
<1> QED
  BY <1>1, DeliveryInvariant, PTL

-----------------------------------------------------------------------------
(* The reliable stream.                                                    *)

(* Only AppendEvent lengthens the journal.                                 *)
LEMMA Produces ==
  ASSUME Inv, [Next]_vars, log' # log
  PROVE  /\ HighWater' = HighWater + 1
         /\ db'.projected = db.projected /\ acked' = acked
<1>1. PICK k \in Kinds : AppendEvent(k)
  BY DEF Next, Acknowledge, ConnStep, Serve, Send, ExpireCursor, Connect, TakeChunk, TakeOther,
     TakeDuplicate, ReconcileExpired, FlushBatch, Notify, ProjectEvent, RefuseEvent, Drained,
     Disconnect, FailProcessor, WorkerStep, TakePending, AwaitBarrier, SendAcknowledgement,
     RetireReceipt, BackgroundSync, FailAcknowledgement, CrashBackend, LosePower, vars
<1>2. log \in Seq(Kinds) /\ log' = Append(log, k) /\ db' = db /\ acked' = acked
  BY <1>1 DEF AppendEvent, Inv, TypeOK
<1> QED
  BY <1>2 DEF HighWater

(* Only an acknowledgement moves the journal's watermark, and forwards.    *)
LEMMA Releases ==
  ASSUME Inv, [Next]_vars, acked' # acked
  PROVE  /\ acked' \in (acked + 1)..db.projected
         /\ db' = db /\ log' = log
<1>1. PICK s \in net : Acknowledge(s)
  BY DEF Next, AppendEvent, ConnStep, Serve, Send, ExpireCursor, Connect, TakeChunk, TakeOther,
     TakeDuplicate, ReconcileExpired, FlushBatch, Notify, ProjectEvent, RefuseEvent, Drained,
     Disconnect, FailProcessor, WorkerStep, TakePending, AwaitBarrier, SendAcknowledgement,
     RetireReceipt, BackgroundSync, FailAcknowledgement, CrashBackend, LosePower, vars
<1>2. /\ s \in 1..MaxSeq /\ s <= disk.projected /\ disk.projected <= db.projected
      /\ disk.projected \in 0..MaxSeq /\ db.projected \in 0..MaxSeq /\ acked \in 0..MaxSeq
  BY DEF Inv, TypeOK, DbType, Seqs, NetSound, Synced
<1>3. acked' = s /\ s > acked /\ db' = db /\ log' = log
  BY <1>1 DEF Acknowledge
<1> QED
  BY <1>2, <1>3, DeliveryAssumption

(* Every other step consumes, undoes what can be replayed, or stutters.    *)
LEMMA StepStream ==
  ASSUME Inv, [Next]_vars
  PROVE  [Stream!StreamNext]_(Stream!streamVars)
<1> USE DeliveryAssumption
<1>1. CASE log' # log
  BY <1>1, Produces DEF Stream!StreamNext, Stream!Produce
<1>2. CASE acked' # acked
  BY <1>2, Releases DEF Stream!StreamNext, Stream!Release, HighWater
<1>3. CASE log' = log /\ acked' = acked
  <2>1. HighWater' = HighWater
    BY <1>3 DEF HighWater
  <2>2. /\ db \in DbType /\ disk \in DbType /\ acked \in 0..MaxSeq /\ HighWater \in Nat
        /\ Synced
    BY DEF Inv, TypeOK, HighWater
  <2>3. /\ db' \in DbType /\ DbSound(db)'
        /\ db.projected <= db'.projected \/ LosePower
    BY StorageSteps, StorageKept
  <2>4. /\ db.projected \in Int /\ db'.projected \in Int /\ db'.projected <= HighWater
    BY <2>1, <2>2, <2>3 DEF DbType, DbSound
  <2>5. CASE LosePower
    <3>1. db'.projected \in acked..db.projected
      BY <2>2, <2>5 DEF LosePower, Synced, DbType
    <3> QED
      BY <1>3, <2>1, <3>1 DEF Stream!StreamNext, Stream!Undo
  <2>6. CASE db.projected < db'.projected
    <3>1. db'.projected \in (db.projected + 1)..HighWater
      BY <2>2, <2>4, <2>6
    <3> QED
      BY <1>3, <2>1, <3>1 DEF Stream!StreamNext, Stream!Consume
  <2>7. CASE db.projected = db'.projected
    BY <1>3, <2>1, <2>7 DEF Stream!streamVars
  <2> QED
    BY <2>3, <2>4, <2>5, <2>6, <2>7
<1> QED
  BY <1>1, <1>2, <1>3

(***************************************************************************)
(* Durable delivery implements the reliable stream: events are consumed in *)
(* order and each once, a loss of power undoes only what the journal still *)
(* holds, and the journal forgets only what is consumed.                   *)
(***************************************************************************)
THEOREM Refinement == Spec => ImplementsStream
<1>1. Init => Stream!StreamInit
  BY DEF Init, EmptyDb, Stream!StreamInit, HighWater
<1>2. Inv /\ [Next]_vars => [Stream!StreamNext]_(Stream!streamVars)
  BY StepStream
<1> QED
  BY <1>1, <1>2, DeliveryInvariant, PTL DEF Spec, ImplementsStream, Stream!StreamSpec

=============================================================================
