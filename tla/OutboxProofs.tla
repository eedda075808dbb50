----------------------------- MODULE OutboxProofs -----------------------------
(***************************************************************************)
(* Positions never move back, the spool holds committed events in commit   *)
(* order, and capture implements Outbox.                                   *)
(***************************************************************************)
EXTENDS RelayTypes, Refinement

-----------------------------------------------------------------------------
(* Which steps matter to capture.                                          *)

\* The capture of q loses its connection or its transaction, or keeps both.
QuietFor(q) ==
  /\ rep'[q] = rep[q] \/ rep'[q].pc \notin Connected
  /\ tx'[q].open =>
       /\ rep'[q] = rep[q] /\ tx[q].open
       /\ tx'[q].db = tx[q].db /\ tx'[q].next = tx[q].next
       /\ lock' = q \/ ~tx'[q].stale => db' = db /\ (lock = q \/ ~tx[q].stale)

QuietStep ==
  /\ SameLog(db, db') /\ UNCHANGED <<wal, slot, statuses>>
  /\ \A q \in Daemons : QuietFor(q)

\* The steps by which an event goes from PostgreSQL to the spool and the answer
\* back.
CaptureMoves(d) ==
  \/ StartReplication(d) /\ rep'[d].pc = "stream"
  \/ Receive(d) /\ rep'[d].pc \in {"stream", "persist"}
  \/ PersistEvent(d) /\ tx'[d].open
  \/ BeginBatch(d) \/ CommitBatch(d) \/ SendStatus(d) \/ Acknowledge(d)

\* A replicator that ends up without a connection.
LEMMA DisconnectIsQuiet ==
  ASSUME TypeOK, NEW d \in Daemons, UNCHANGED <<wal, slot, statuses, db>>,
         rep'[d].pc \notin Connected, \A q \in Daemons : q # d => rep'[q] = rep[q],
         Rollback(d) \/ (UNCHANGED <<lock, tx>> /\ ~tx[d].open)
  PROVE  QuietStep
<1>1. ~tx'[d].open
  <2>1. ~NoTx.open
    BY Zenon DEF NoTx
  <2> QED
    BY Zenon, <2>1 DEF Rollback, TypeOK, DaemonType
<1>2. ASSUME NEW q \in Daemons, q # d PROVE tx'[q] = tx[q] /\ (lock' = q => lock = q)
  <2>1. q # Nobody
    BY Zenon, ProcessAssumption
  <2> QED
    BY Zenon, <1>2, <2>1 DEF Rollback, TypeOK, DaemonType
<1>3. ASSUME NEW q \in Daemons PROVE QuietFor(q)
  <2>1. CASE q = d
    BY Zenon, <1>1, <2>1 DEF QuietFor
  <2>2. CASE q # d
    BY Zenon, <1>2, <2>2 DEF QuietFor
  <2> QED
    BY Zenon, <2>1, <2>2
<1> QED
  BY Zenon, <1>3 DEF QuietStep, SameLog

\* A transaction of another process: capture transactions that are open cannot
\* commit any more, unless nothing has changed.
LEMMA WriteIsQuiet ==
  ASSUME TypeOK, SameLog(db, db'), UNCHANGED <<wal, slot, statuses>>,
         \A q \in Daemons : rep'[q] = rep[q] \/ (~tx[q].open /\ rep'[q].pc \notin Connected),
         \A q \in Daemons : (lock' = q) <=> (lock = q),
         \/ UNCHANGED <<db, tx>>
         \/ lock \notin Daemons /\ tx' = SnapshotsAfter(db')
  PROVE  QuietStep
<1>1. ASSUME NEW q \in Daemons PROVE QuietFor(q)
  <2>1. CASE UNCHANGED <<db, tx>>
    BY Zenon, <2>1 DEF QuietFor
  <2>2. CASE lock \notin Daemons /\ tx' = SnapshotsAfter(db')
    <3>1. /\ tx'[q].open = tx[q].open /\ tx'[q].db = tx[q].db /\ tx'[q].next = tx[q].next
          /\ tx[q].stale => tx'[q].stale
          /\ tx[q].open /\ db' # db => tx'[q].stale
      BY Zenon, <2>2, SnapshotsFrame
    <3>2. lock' # q
      BY Zenon, <2>2
    <3> QED
      BY Zenon, <3>1, <3>2 DEF QuietFor
  <2> QED
    BY Zenon, <2>1, <2>2
<1> QED
  BY Zenon, <1>1 DEF QuietStep

\* runOnce, the waits, the errors.
LEMMA ReplicatorQuiet ==
  ASSUME TypeOK, CaptureInv, NEW d \in Daemons,
         ReplicatorStep(d) \/ LoseConnection(d) \/ PersistFails(d)
  PROVE  QuietStep \/ CaptureMoves(d)
<1>0. rep \in [Daemons -> ReplicatorType] /\ Connected = {"stream", "persist", "ack"}
  BY Zenon DEF TypeOK, CaptureType, Connected
<1>1. ASSUME NEW pc \in {"start", "backoff", "paused", "off"}, Goto(d, pc)
      PROVE  rep'[d].pc \notin Connected /\ \A q \in Daemons : q # d => rep'[q] = rep[q]
  <2>1. pc \notin Connected
    BY Zenon DEF Connected
  <2> QED
    BY Zenon, <1>1, <2>1, GotoPc
<1>2. CASE RunOnce(d)
  <2> DEFINE r == [Replicator("connect") EXCEPT !.start = StartLSN]
  <2>1. /\ UNCHANGED <<wal, slot, statuses, db, lock, tx>> /\ ~tx[d].open
        /\ Goto(d, "paused") \/ Goto(d, "off") \/ rep' = [rep EXCEPT ![d] = r]
    BY Zenon, <1>2 DEF RunOnce, Fatal
  <2>2. r.pc \notin Connected
    BY Zenon DEF Replicator, Connected
  <2> HIDE DEF r
  <2>3. rep'[d].pc \notin Connected /\ \A q \in Daemons : q # d => rep'[q] = rep[q]
    <3>1. CASE Goto(d, "paused") \/ Goto(d, "off")
      BY Zenon, <1>1, <3>1
    <3>2. CASE rep' = [rep EXCEPT ![d] = r]
      BY Zenon, <1>0, <2>2, <3>2
    <3> QED
      BY Zenon, <2>1, <3>1, <3>2
  <2> QED
    BY Zenon, <2>1, <2>3, DisconnectIsQuiet
<1>3. CASE \/ StartReplication(d) /\ slot.owner # Nobody /\ Goto(d, "backoff")
                                  /\ UNCHANGED <<slot, statuses>>
           \/ LoseConnection(d) \/ NoticeClosed(d) \/ Reconnect(d)
           \/ WaitForDisk(d) \/ RoutineDiskCheck(d)
  <2>1. /\ UNCHANGED <<wal, slot, statuses, db, lock, tx>> /\ rep[d].pc # "persist"
        /\ Goto(d, "backoff") \/ Goto(d, "start") \/ Goto(d, "paused")
    <3>1. UNCHANGED <<wal, slot, statuses, db, lock, tx>>
      BY Zenon, <1>3 DEF StartReplication, LoseConnection, NoticeClosed, Reconnect,
                         WaitForDisk, RoutineDiskCheck, daemonVars
    <3>2. Goto(d, "backoff") \/ Goto(d, "start") \/ Goto(d, "paused")
      BY Zenon, <1>3 DEF LoseConnection, NoticeClosed, Reconnect, WaitForDisk,
                         RoutineDiskCheck
    <3>3. rep[d].pc \in {"start", "connect", "stream", "ack", "backoff", "paused"}
      BY Zenon, <1>3 DEF StartReplication, LoseConnection, NoticeClosed, Reconnect,
                         WaitForDisk, RoutineDiskCheck
    <3>4. rep[d].pc # "persist"
      BY Zenon, <3>3
    <3> QED
      BY Zenon, <3>1, <3>2, <3>4
  <2>2. ~tx[d].open
    BY Zenon, <2>1, NoTransaction
  <2>3. rep'[d].pc \notin Connected /\ \A q \in Daemons : q # d => rep'[q] = rep[q]
    BY Zenon, <1>1, <2>1
  <2> QED
    BY Zenon, <2>1, <2>2, <2>3, DisconnectIsQuiet
<1>4. CASE \/ SnapshotConflict(d) \/ PersistBusy(d) \/ PersistFails(d) \/ StopCapture(d)
           \/ PersistEvent(d) /\ Rollback(d) /\ Goto(d, "off")
  <2>1. Rollback(d) /\ Goto(d, "off") /\ UNCHANGED <<wal, slot, statuses, db>>
    BY Zenon, <1>4 DEF SnapshotConflict, PersistBusy, PersistFails, StopCapture, Fatal,
                       PersistEvent
  <2>2. rep'[d].pc \notin Connected /\ \A q \in Daemons : q # d => rep'[q] = rep[q]
    BY Zenon, <1>1, <2>1
  <2> QED
    BY Zenon, <2>1, <2>2, DisconnectIsQuiet
<1>5. CASE Receive(d)
  <2>1. rep[d].pc = "stream" /\ UNCHANGED <<wal, slot, statuses, db, lock, tx>>
    BY Zenon, <1>5 DEF Receive
  <2>2. ~tx[d].open
    <3>1. rep[d].pc # "persist"
      BY Zenon, <2>1
    <3> QED
      BY Zenon, <3>1, NoTransaction
  <2>3. CASE Goto(d, "off") \/ Goto(d, "paused")
    <3>1. rep'[d].pc \notin Connected /\ \A q \in Daemons : q # d => rep'[q] = rep[q]
      BY Zenon, <1>1, <2>3
    <3> QED
      BY Zenon, <2>1, <2>2, <3>1, DisconnectIsQuiet
  <2>4. CASE ~(Goto(d, "off") \/ Goto(d, "paused"))
    <3> DEFINE m == MessageAt(wal[rep[d].cursor], rep[d].pos)
               last == rep[d].pos = LastPos(wal[rep[d].cursor])
               next == [rep[d] EXCEPT
                          !.sm = Consume(rep[d].sm, m),
                          !.cursor = IF last THEN rep[d].cursor + 1 ELSE rep[d].cursor,
                          !.pos = IF last THEN 0 ELSE rep[d].pos + 1]
               full == [next EXCEPT !.pc = "persist",
                                    !.batch = [events |-> rep[d].sm.events,
                                               lsn |-> rep[d].cursor,
                                               end |-> EndLSN(rep[d].cursor)]]
    <3>1. rep' = [rep EXCEPT ![d] = next] \/ rep' = [rep EXCEPT ![d] = full]
      BY Zenon, <1>5, <2>4 DEF Receive, Fatal
    <3>2. next.pc = "stream" /\ full.pc = "persist"
      <4>1. rep[d] \in ReplicatorType
        BY Zenon, <1>0
      <4> QED
        BY Zenon, <2>1, <4>1 DEF ReplicatorType
    <3> HIDE DEF next, full
    <3>3. rep'[d] = next \/ rep'[d] = full
      BY Zenon, <1>0, <3>1
    <3>4. rep'[d].pc = "stream" \/ rep'[d].pc = "persist"
      BY Zenon, <3>2, <3>3
    <3>5. rep'[d].pc \in {"stream", "persist"}
      BY Zenon, <3>4
    <3> QED
      BY Zenon, <1>5, <3>5 DEF CaptureMoves
  <2> QED
    BY Zenon, <2>3, <2>4
<1>6. CASE StartReplication(d) /\ ~(/\ slot.owner # Nobody /\ Goto(d, "backoff")
                                    /\ UNCHANGED <<slot, statuses>>)
  <2> DEFINE r == [Replicator("stream") EXCEPT
                     !.start = rep[d].start,
                     !.cursor = IF rep[d].start > slot.confirmed THEN rep[d].start
                                ELSE slot.confirmed,
                     !.durable = IF db.checkpoint # 0 THEN db.checkpoint
                                 ELSE rep[d].start]
  <2>1. rep' = [rep EXCEPT ![d] = r]
    BY Zenon, <1>6 DEF StartReplication
  <2>2. r.pc = "stream"
    BY Zenon DEF Replicator
  <2> HIDE DEF r
  <2>3. rep'[d].pc = "stream"
    BY Zenon, <1>0, <2>1, <2>2
  <2> QED
    BY Zenon, <1>6, <2>3 DEF CaptureMoves
<1>7. CASE PersistEvent(d) /\ ~(Rollback(d) /\ Goto(d, "off"))
  <2> DEFINE b == SpoolEvent(tx[d].db, rep[d].batch.events[tx[d].next], rep[d].batch.lsn)
             t == OpenTx(b, tx[d].next + 1, tx[d].stale)
  <2>1. tx' = [tx EXCEPT ![d] = t]
    BY Zenon, <1>7 DEF PersistEvent, Fatal
  <2> HIDE DEF b
  <2>2. t.open
    BY Zenon DEF OpenTx
  <2> HIDE DEF t
  <2>3. tx'[d].open
    BY Zenon, <2>1, <2>2 DEF TypeOK, DaemonType
  <2> QED
    BY Zenon, <1>7, <2>3 DEF CaptureMoves
<1>8. CASE BeginBatch(d) \/ CommitBatch(d) \/ SendStatus(d) \/ Acknowledge(d)
  BY Zenon, <1>8 DEF CaptureMoves
<1> QED
  BY Zenon, <1>2, <1>3, <1>4, <1>5, <1>6, <1>7, <1>8 DEF ReplicatorStep

\* The worker, the maintenance commands, time and the disk.
LEMMA WriterQuiet ==
  ASSUME TypeOK, UNCHANGED <<captureVars, calm>>,
         \/ \E d \in Daemons : WorkerStep(d) \/ StoreFails(d)
         \/ \E k \in DOMAIN db.deliveries : Redrive(k)
         \/ \E c \in Cutoffs, l \in Limits : PruneBegin(c, l)
         \/ PruneCommit \/ PruneAbort \/ Tick
  PROVE  QuietStep
<1>0. UNCHANGED <<wal, slot, statuses, rep>>
  BY Zenon DEF captureVars
<1>1. Operator \notin Daemons /\ Nobody \notin Daemons
  BY Zenon, ProcessAssumption
<1>2. ASSUME NEW d \in Daemons, WorkerStep(d) \/ StoreFails(d) PROVE QuietStep
  <2>1. CASE UNCHANGED <<db, lock, tx>>
    BY Zenon, <1>0, <2>1, WriteIsQuiet DEF SameLog
  <2>2. CASE \/ RecordSuccess(d)
             \/ \E delay \in InitialDelay..MaxDelay : RecordFailure(d, delay)
    <3>1. SameLog(db, db')
      BY Zenon, <2>2, RecordType
    <3>2. UNCHANGED lock /\ lock = Nobody /\ tx' = SnapshotsAfter(db')
      BY Zenon, <2>2 DEF RecordSuccess, RecordFailure, Write
    <3> QED
      BY Zenon, <1>0, <1>1, <3>1, <3>2, WriteIsQuiet
  <2> QED
    BY Zenon, <1>2, <2>1, <2>2
       DEF WorkerStep, SelectNext, Accept, StopWorker, RecordFails, StoreFails, SendReturns
<1>3. CASE \/ \E k \in DOMAIN db.deliveries : Redrive(k)
           \/ \E c \in Cutoffs, l \in Limits : PruneBegin(c, l)
           \/ PruneCommit \/ PruneAbort \/ Tick
  <2>1. SameLog(db, db')
    BY Zenon, <1>3, MaintenanceType
  <2>2. lock \notin Daemons /\ lock' \notin Daemons
    BY Zenon, <1>1, <1>3 DEF Redrive, PruneBegin, PruneCommit, PruneAbort, Tick
  <2>3. CASE Tick
    <3>1. \A q \in Daemons : ~tx[q].open /\ UNCHANGED tx
      BY Zenon, <2>3 DEF Tick
    <3> QED
      BY Zenon, <1>0, <2>1, <3>1 DEF QuietStep, QuietFor
  <2>4. CASE ~Tick
    <3>1. UNCHANGED <<db, tx>> \/ tx' = SnapshotsAfter(db')
      BY Zenon, <1>3, <2>4 DEF Redrive, PruneBegin, PruneCommit, PruneAbort, Write
    <3> QED
      BY Zenon, <1>0, <2>1, <2>2, <3>1, WriteIsQuiet
  <2> QED
    BY Zenon, <2>3, <2>4
<1> QED
  BY Zenon, <1>2, <1>3

\* A daemon that starts, is told to stop, ends or dies.
LEMMA LifeQuiet ==
  ASSUME TypeOK, CaptureInv, NEW d \in Daemons,
         \/ \E regs \in Configs : Start(d, regs)
         \/ Signal(d) \/ Exit(d) \/ Crash(d)
  PROVE  QuietStep
<1>1. SameLog(db, db')
  BY Zenon, LifeType
<1>2. ASSUME NEW regs \in Configs, Start(d, regs) PROVE QuietStep
  <2>1. rep[d].pc = "off" /\ ~tx[d].open
    BY Zenon, <1>2 DEF Start, CaptureInv, TransactionInv
  <2>2. /\ UNCHANGED <<wal, slot, statuses, lock>> /\ Goto(d, "start")
        /\ UNCHANGED <<db, tx>> \/ (lock = Nobody /\ tx' = SnapshotsAfter(db'))
    BY Zenon, <1>2 DEF Start, Write, Goto
  <2>3. rep'[d].pc = "start" /\ \A q \in Daemons : q # d => rep'[q] = rep[q]
    BY Zenon, <2>2, GotoPc
  <2>4. "start" \notin Connected
    BY Zenon DEF Connected
  <2>5. \A q \in Daemons : rep'[q] = rep[q] \/ (~tx[q].open /\ rep'[q].pc \notin Connected)
    BY Zenon, <2>1, <2>3, <2>4
  <2>6. Nobody \notin Daemons
    BY Zenon, ProcessAssumption
  <2> QED
    BY Zenon, <1>1, <2>2, <2>5, <2>6, WriteIsQuiet
<1>3. CASE Signal(d) \/ Exit(d)
  <2>1. UNCHANGED <<wal, slot, statuses, rep, db, lock, tx>>
    BY Zenon, <1>3 DEF Signal, Exit, captureVars
  <2> QED
    BY Zenon, <1>1, <2>1, WriteIsQuiet
<1>4. CASE Crash(d)
  <2>1. Goto(d, "off") /\ Rollback(d) /\ UNCHANGED <<wal, slot, statuses, db>>
    BY Zenon, <1>4 DEF Crash, Goto
  <2>2. rep'[d].pc = "off" /\ \A q \in Daemons : q # d => rep'[q] = rep[q]
    BY Zenon, <2>1, GotoPc
  <2>3. "off" \notin Connected
    BY Zenon DEF Connected
  <2> QED
    BY Zenon, <2>1, <2>2, <2>3, DisconnectIsQuiet
<1> QED
  BY Zenon, <1>2, <1>3, <1>4

\* Every step.
LEMMA NextQuiet ==
  ASSUME TypeOK, CaptureInv, [Next]_vars
  PROVE  \/ QuietStep \/ HandleStatus \/ ReleaseSlot
         \/ \E w \in WalItems : AppCommit(w)
         \/ \E d \in Daemons : CaptureMoves(d)
<1>1. CASE UNCHANGED vars \/ DiskChange
  <2>1. UNCHANGED <<wal, slot, statuses, rep, db, lock, tx>>
    BY Zenon, <1>1 DEF vars, DiskChange, daemonVars
  <2> QED
    BY Zenon, <2>1, WriteIsQuiet DEF SameLog
<1>2. ASSUME NEW d \in Daemons, CaptureStep(d) \/ LoseConnection(d) \/ PersistFails(d)
      PROVE  QuietStep \/ CaptureMoves(d)
  BY Zenon, <1>2, ReplicatorQuiet DEF CaptureStep
<1>3. CASE /\ \/ \E d \in Daemons : WorkerStep(d) \/ StoreFails(d)
              \/ \E k \in DOMAIN db.deliveries : Redrive(k)
              \/ \E c \in Cutoffs, l \in Limits : PruneBegin(c, l)
              \/ PruneCommit \/ PruneAbort \/ Tick
           /\ UNCHANGED <<captureVars, calm>>
  BY Zenon, <1>3, WriterQuiet
<1>4. CASE \E d \in Daemons : \/ \E regs \in Configs : Start(d, regs)
                              \/ Signal(d) \/ Exit(d) \/ Crash(d)
  BY Zenon, <1>4, LifeQuiet
<1>5. CASE Fault
  BY Zenon, <1>1, <1>2, <1>3, <1>4, <1>5 DEF Fault
<1> QED
  BY Zenon, <1>1, <1>2, <1>3, <1>4, <1>5 DEF Next, DeliveryStep, ServerStep, PruneEnds, Time
-----------------------------------------------------------------------------
(* Positions: what the server hears only rises.                            *)

\* What is known of the positions of daemon d.
LEMMA PositionsType ==
  ASSUME TypeOK, NEW d \in Daemons
  PROVE  /\ rep[d].durable \in Nat /\ rep[d].start \in Nat /\ rep[d].batch.end \in Nat
         /\ slot.confirmed \in Nat /\ statuses \in Seq(Nat)
         /\ db.checkpoint \in Nat /\ tx[d].db.checkpoint \in Nat
<1>1. rep[d] \in ReplicatorType /\ slot \in [confirmed : Nat, owner : Daemons \cup {Nobody}]
  BY Zenon DEF TypeOK, CaptureType
<1>2. /\ rep[d].durable \in Nat /\ rep[d].start \in Nat /\ rep[d].batch.end \in Nat
      /\ slot.confirmed \in Nat
  BY Zenon, <1>1 DEF ReplicatorType
<1> QED
  BY Zenon, <1>2 DEF TypeOK, CaptureType, DaemonType, DbType, TxType

\* A step of another kind leaves the session as it is, or ends it.
LEMMA QuietSession ==
  ASSUME StatusInv, QuietStep, \A d \in Daemons : TransactionInv(d)'
  PROVE  StatusInv'
<1>1. "ack" \in Connected /\ UNCHANGED <<slot, statuses>>
  BY Zenon DEF Connected, QuietStep
<1>2. ASSUME NEW q \in Daemons PROVE SessionInv(q)'
  <2>1. CASE rep'[q] = rep[q]
    BY Zenon, <1>1, <2>1 DEF QuietStep, QuietFor, StatusInv, SessionInv
  <2>2. CASE rep'[q].pc \notin Connected /\ rep'[q] # rep[q]
    BY Zenon, <1>1, <2>2 DEF QuietStep, QuietFor, SessionInv
  <2> QED
    BY Zenon, <2>1, <2>2 DEF QuietStep, QuietFor
<1> QED
  BY Zenon, <1>1, <1>2 DEF StatusInv

\* A status update joins those in flight.
LEMMA SentSession ==
  ASSUME TypeOK, StatusInv, NEW d \in Daemons, NEW lsn \in Nat, Status(d, lsn),
         UNCHANGED <<slot, tx>>, ~tx[d].open,
         slot.owner = d => /\ slot.confirmed <= lsn
                           /\ \A i \in DOMAIN statuses : statuses[i] <= lsn,
         rep'[d].pc = "stream", rep'[d].durable = lsn,
         \A q \in Daemons : q # d => rep'[q] = rep[q]
  PROVE  StatusInv'
<1>1. statuses \in Seq(Nat)
  BY Zenon DEF TypeOK, CaptureType
<1>2. CASE slot.owner # d
  <2>1. statuses' = statuses
    BY Zenon, <1>2 DEF Status
  <2>2. SessionInv(d)'
    <3>1. "stream" # "ack"
      BY Zenon
    <3> QED
      BY Zenon, <1>2, <3>1 DEF SessionInv
  <2>3. \A q \in Daemons : q # d => SessionInv(q)'
    BY Zenon, <2>1 DEF SessionInv, StatusInv
  <2> QED
    BY Zenon, <2>1, <2>2, <2>3 DEF StatusInv
<1>3. CASE slot.owner = d
  <2>1. statuses' = Append(statuses, lsn)
    BY Zenon, <1>3 DEF Status
  <2>2. /\ \A i \in DOMAIN statuses : i \in DOMAIN statuses' /\ statuses'[i] = statuses[i]
        /\ Len(statuses) + 1 \in DOMAIN statuses' /\ statuses'[Len(statuses) + 1] = lsn
        /\ \A i \in DOMAIN statuses' : i \in DOMAIN statuses \/ i = Len(statuses) + 1
        /\ \A i \in DOMAIN statuses : i \in Nat /\ i < Len(statuses) + 1
        /\ Len(statuses) \in Nat
    BY <1>1, <2>1
  <2>3. lsn <= lsn /\ ~(Len(statuses) + 1 < Len(statuses) + 1)
    BY <2>2
  <2>4. \A i \in DOMAIN statuses' : statuses'[i] <= lsn
    BY Zenon, <1>3, <2>2, <2>3
  <2>5. \A i \in DOMAIN statuses' : slot'.confirmed <= statuses'[i]
    BY Zenon, <1>3, <2>2 DEF StatusInv
  <2>6. \A i, j \in DOMAIN statuses' : i <= j => statuses'[i] <= statuses'[j]
    <3> SUFFICES ASSUME NEW i \in DOMAIN statuses', NEW j \in DOMAIN statuses', i <= j
                 PROVE  statuses'[i] <= statuses'[j]
      BY Zenon
    <3>1. CASE j = Len(statuses) + 1
      BY Zenon, <2>2, <2>4, <3>1
    <3>2. CASE j \in DOMAIN statuses
      <4>1. i \in DOMAIN statuses
        BY <2>2, <3>2
      <4> QED
        BY Zenon, <2>2, <3>2, <4>1 DEF StatusInv
    <3> QED
      BY Zenon, <2>2, <3>1, <3>2
  <2>7. SessionInv(d)'
    <3>1. "stream" # "ack"
      BY Zenon
    <3>2. slot'.confirmed <= rep'[d].durable
      BY Zenon, <1>3
    <3> QED
      BY Zenon, <2>4, <3>1, <3>2 DEF SessionInv
  <2>8. \A q \in Daemons : q # d => SessionInv(q)'
    BY Zenon, <1>3 DEF SessionInv, StatusInv
  <2> QED
    BY Zenon, <2>5, <2>6, <2>7, <2>8 DEF StatusInv
<1> QED
  BY Zenon, <1>2, <1>3

\* The replies to keepalives, and the acknowledgements.
LEMMA SendSession ==
  ASSUME TypeOK, CaptureInv, StatusInv, NEW d \in Daemons, SendStatus(d) \/ Acknowledge(d)
  PROVE  StatusInv' /\ UNCHANGED <<db, slot>>
<1>1. UNCHANGED <<db, slot, tx>>
  BY Zenon DEF SendStatus, Acknowledge, daemonVars
<1>2. /\ rep[d].durable \in Nat /\ rep[d].batch.end \in Nat /\ slot.confirmed \in Nat
      /\ statuses \in Seq(Nat) /\ rep \in [Daemons -> ReplicatorType]
  BY Zenon, PositionsType DEF TypeOK, CaptureType
<1>3. CASE SendStatus(d)
  <2>1. Status(d, rep[d].durable) /\ rep[d].pc = "stream" /\ UNCHANGED rep
    BY Zenon, <1>3 DEF SendStatus
  <2>2. ~tx[d].open
    <3>1. rep[d].pc # "persist"
      BY Zenon, <2>1
    <3> QED
      BY Zenon, <3>1, NoTransaction
  <2>3. rep[d].pc \in Connected
    BY Zenon, <2>1 DEF Connected
  <2>4. slot.owner = d => /\ slot.confirmed <= rep[d].durable
                          /\ \A i \in DOMAIN statuses : statuses[i] <= rep[d].durable
    BY Zenon, <2>3 DEF StatusInv, SessionInv
  <2> QED
    BY Zenon, <1>1, <1>2, <2>1, <2>2, <2>4, SentSession
<1>4. CASE Acknowledge(d)
  <2>1. /\ Status(d, rep[d].batch.end) /\ rep[d].pc = "ack"
        /\ rep' = [rep EXCEPT ![d] = [@ EXCEPT !.pc = "stream", !.batch = NoBatch,
                                               !.durable = rep[d].batch.end]]
    BY Zenon, <1>4 DEF Acknowledge
  <2>2. ~tx[d].open
    <3>1. rep[d].pc # "persist"
      BY Zenon, <2>1
    <3> QED
      BY Zenon, <3>1, NoTransaction
  <2>3. /\ rep'[d].pc = "stream" /\ rep'[d].durable = rep[d].batch.end
        /\ \A q \in Daemons : q # d => rep'[q] = rep[q]
    BY Zenon, <1>2, <2>1 DEF ReplicatorType
  <2>4. rep[d].pc \in Connected
    BY Zenon, <2>1 DEF Connected
  <2>5. slot.owner = d => /\ slot.confirmed <= rep[d].batch.end
                          /\ \A i \in DOMAIN statuses : statuses[i] <= rep[d].batch.end
    <3>1. rep[d].durable <= rep[d].batch.end
      BY Zenon, <2>1 DEF StatusInv, SessionInv
    <3>2. slot.owner = d => /\ slot.confirmed <= rep[d].durable
                            /\ \A i \in DOMAIN statuses : statuses[i] <= rep[d].durable
      BY Zenon, <2>4 DEF StatusInv, SessionInv
    <3>3. slot.owner = d => slot.confirmed <= rep[d].batch.end
      BY <1>2, <3>1, <3>2
    <3>4. ASSUME slot.owner = d, NEW i \in DOMAIN statuses PROVE statuses[i] <= rep[d].batch.end
      <4>1. statuses[i] <= rep[d].durable /\ statuses[i] \in Nat
        BY <1>2, <3>2, <3>4
      <4> QED
        BY <1>2, <3>1, <4>1
    <3> QED
      BY Zenon, <3>3, <3>4
  <2> QED
    BY Zenon, <1>1, <1>2, <2>1, <2>2, <2>3, <2>5, SentSession
<1> QED
  BY Zenon, <1>1, <1>3, <1>4

\* The server takes a status update at its word, and it is not below the last.
LEMMA HandleSession ==
  ASSUME TypeOK, StatusInv, HandleStatus
  PROVE  StatusInv' /\ slot.confirmed <= slot'.confirmed /\ UNCHANGED db
<1>1. /\ statuses \in Seq(Nat) /\ statuses # << >>
      /\ slot \in [confirmed : Nat, owner : Daemons \cup {Nobody}]
      /\ slot' = [slot EXCEPT !.confirmed = Head(statuses)] /\ statuses' = Tail(statuses)
      /\ UNCHANGED <<rep, db, tx>>
  BY Zenon DEF TypeOK, CaptureType, HandleStatus, daemonVars
<1>2. slot'.confirmed = statuses[1] /\ slot'.owner = slot.owner
  BY <1>1
<1>3. /\ 1 \in DOMAIN statuses /\ Len(statuses) \in Nat
      /\ \A i \in DOMAIN statuses' : /\ i \in Nat /\ i + 1 \in DOMAIN statuses /\ 1 <= i + 1
                                     /\ statuses'[i] = statuses[i + 1]
  BY <1>1
<1>4. \A i, j \in DOMAIN statuses' : i <= j => i + 1 <= j + 1
  BY <1>3
<1>5. \A i \in DOMAIN statuses' : slot'.confirmed <= statuses'[i]
  BY Zenon, <1>2, <1>3 DEF StatusInv
<1>6. \A i, j \in DOMAIN statuses' : i <= j => statuses'[i] <= statuses'[j]
  BY Zenon, <1>3, <1>4 DEF StatusInv
<1>7. \A d \in Daemons : SessionInv(d)'
  BY Zenon, <1>1, <1>2, <1>3 DEF StatusInv, SessionInv
<1>8. slot.confirmed <= slot'.confirmed
  BY Zenon, <1>2, <1>3 DEF StatusInv
<1> QED
  BY Zenon, <1>1, <1>5, <1>6, <1>7, <1>8 DEF StatusInv

\* A walsender ends or begins: nothing is in flight.
LEMMA NewSession ==
  ASSUME TypeOK, CaptureInv, StatusInv,
         \/ ReleaseSlot
         \/ \E d \in Daemons : StartReplication(d) /\ rep'[d].pc = "stream"
  PROVE  StatusInv' /\ slot'.confirmed = slot.confirmed /\ UNCHANGED db
<1>0. /\ slot \in [confirmed : Nat, owner : Daemons \cup {Nobody}]
      /\ rep \in [Daemons -> ReplicatorType]
  BY Zenon DEF TypeOK, CaptureType
<1>1. CASE ReleaseSlot
  <2>1. /\ slot' = [slot EXCEPT !.owner = Nobody] /\ statuses' = << >>
        /\ UNCHANGED <<rep, db, tx>>
    BY Zenon, <1>1 DEF ReleaseSlot, daemonVars
  <2>2. slot'.confirmed = slot.confirmed /\ slot'.owner = Nobody /\ DOMAIN statuses' = {}
    BY <1>0, <2>1
  <2>3. \A d \in Daemons : d # Nobody
    BY Zenon, ProcessAssumption
  <2> QED
    BY Zenon, <2>1, <2>2, <2>3 DEF StatusInv, SessionInv
<1>2. ASSUME NEW d \in Daemons, StartReplication(d), rep'[d].pc = "stream"
      PROVE  StatusInv' /\ slot'.confirmed = slot.confirmed /\ UNCHANGED db
  <2> DEFINE durable == IF db.checkpoint # 0 THEN db.checkpoint ELSE rep[d].start
             cursor == IF rep[d].start > slot.confirmed THEN rep[d].start
                       ELSE slot.confirmed
             r == [Replicator("stream") EXCEPT !.start = rep[d].start, !.cursor = cursor,
                                               !.durable = durable]
  <2>1. ~Goto(d, "backoff")
    <3>1. "backoff" # "stream"
      BY Zenon
    <3> QED
      BY Zenon, <1>2, <3>1, GotoPc
  <2>2. /\ slot' = [slot EXCEPT !.owner = d] /\ statuses' = << >>
        /\ rep' = [rep EXCEPT ![d] = r] /\ UNCHANGED <<db, tx>>
        /\ rep[d].pc = "connect" /\ ~tx[d].open
    BY Zenon, <1>2, <2>1 DEF StartReplication, daemonVars
  <2>3. slot'.confirmed = slot.confirmed /\ slot'.owner = d /\ DOMAIN statuses' = {}
    BY <1>0, <2>2
  <2>4. slot.confirmed <= durable
    <3>1. FirstLSN <= rep[d].start /\ slot.confirmed <= DurableLSN
      BY Zenon, <2>2 DEF CaptureInv, StreamInv, ConnectionInv, PositionInv
    <3>2. slot.confirmed \in Nat /\ rep[d].start \in Nat /\ db.checkpoint \in Nat
      BY Zenon, PositionsType
    <3> QED
      BY <3>1, <3>2 DEF DurableLSN, FirstLSN
  <2> HIDE DEF durable, cursor
  <2>5. r.durable = durable /\ r.pc = "stream"
    BY Zenon DEF Replicator
  <2> HIDE DEF r
  <2>6. rep'[d] = r /\ \A q \in Daemons : q # d => rep'[q] = rep[q]
    BY Zenon, <1>0, <2>2
  <2>7. "stream" # "ack"
    BY Zenon
  <2>8. SessionInv(d)'
    BY Zenon, <2>2, <2>3, <2>4, <2>5, <2>6, <2>7 DEF SessionInv
  <2>9. \A q \in Daemons : q # d => SessionInv(q)'
    BY Zenon, <2>2, <2>3, <2>6 DEF StatusInv, SessionInv
  <2> QED
    BY Zenon, <2>2, <2>3, <2>8, <2>9 DEF StatusInv
<1> QED
  BY Zenon, <1>1, <1>2

\* Receiving moves no position that was made durable.
LEMMA ReceiveSession ==
  ASSUME TypeOK, CaptureInv, StatusInv, NEW d \in Daemons, Receive(d),
         rep'[d].pc \in {"stream", "persist"}
  PROVE  StatusInv' /\ UNCHANGED <<db, slot>>
<1> DEFINE m == MessageAt(wal[rep[d].cursor], rep[d].pos)
           last == rep[d].pos = LastPos(wal[rep[d].cursor])
           next == [rep[d] EXCEPT !.sm = Consume(rep[d].sm, m),
                                  !.cursor = IF last THEN rep[d].cursor + 1 ELSE rep[d].cursor,
                                  !.pos = IF last THEN 0 ELSE rep[d].pos + 1]
           full == [next EXCEPT !.pc = "persist",
                                !.batch = [events |-> rep[d].sm.events,
                                           lsn |-> rep[d].cursor,
                                           end |-> EndLSN(rep[d].cursor)]]
<1>0. rep \in [Daemons -> ReplicatorType] /\ rep[d] \in ReplicatorType
  BY Zenon DEF TypeOK, CaptureType
<1>1. /\ rep[d].pc = "stream" /\ UNCHANGED <<slot, statuses, db, tx>>
  BY Zenon DEF Receive
<1>2. ~Goto(d, "off") /\ ~Goto(d, "paused")
  <2>1. "off" \notin {"stream", "persist"} /\ "paused" \notin {"stream", "persist"}
    BY Zenon
  <2> QED
    BY Zenon, <2>1, GotoPc
<1>3. rep' = [rep EXCEPT ![d] = next] \/ rep' = [rep EXCEPT ![d] = full]
  BY Zenon, <1>2 DEF Receive, Fatal
<1>4. /\ next.durable = rep[d].durable /\ full.durable = rep[d].durable
      /\ next.pc # "ack" /\ full.pc # "ack"
  BY Zenon, <1>0, <1>1 DEF ReplicatorType
<1> HIDE DEF next, full
<1>5. /\ rep'[d].durable = rep[d].durable /\ rep'[d].pc # "ack"
      /\ \A q \in Daemons : q # d => rep'[q] = rep[q]
  BY Zenon, <1>0, <1>3, <1>4
<1>6. rep[d].pc \in Connected /\ rep[d].pc # "persist"
  BY Zenon, <1>1 DEF Connected
<1>7. ~tx[d].open
  BY Zenon, <1>6, NoTransaction
<1>8. SessionInv(d)'
  BY Zenon, <1>1, <1>5, <1>6, <1>7 DEF StatusInv, SessionInv
<1>9. \A q \in Daemons : q # d => SessionInv(q)'
  BY Zenon, <1>1, <1>5 DEF StatusInv, SessionInv
<1> QED
  BY Zenon, <1>1, <1>8, <1>9 DEF StatusInv

\* The transaction of a batch reads the checkpoint that covers durableLSN.
LEMMA TransactionSession ==
  ASSUME TypeOK, CaptureInv, StatusInv, NEW d \in Daemons,
         BeginBatch(d) \/ (PersistEvent(d) /\ tx'[d].open)
  PROVE  StatusInv' /\ UNCHANGED <<db, slot>>
<1>0. DOMAIN tx = Daemons /\ \A q \in Daemons : TxType(tx[q])
  BY Zenon DEF TypeOK, DaemonType
<1>1. /\ UNCHANGED <<slot, statuses, db, rep>> /\ rep[d].pc = "persist"
      /\ \A q \in Daemons : q # d => tx'[q] = tx[q]
  <2>1. CASE BeginBatch(d)
    BY Zenon, <1>0, <2>1 DEF BeginBatch, captureVars
  <2>2. CASE PersistEvent(d) /\ tx'[d].open
    <3>1. ~Rollback(d)
      <4>1. ~NoTx.open
        BY Zenon DEF NoTx
      <4> QED
        BY Zenon, <1>0, <2>2, <4>1 DEF Rollback
    <3> QED
      BY Zenon, <1>0, <2>2, <3>1 DEF PersistEvent
  <2> QED
    BY Zenon, <2>1, <2>2
<1>2. rep[d].durable <= tx'[d].db.checkpoint \/ rep[d].durable <= FirstLSN
  <2>1. CASE BeginBatch(d)
    <3>1. tx'[d] = OpenTx(db, 1, FALSE)
      BY Zenon, <1>0, <2>1 DEF BeginBatch
    <3>2. tx'[d].db = db
      BY <3>1 DEF OpenTx
    <3>3. rep[d].durable <= DurableLSN
      <4>1. rep[d].pc \in Connected
        BY Zenon, <1>1 DEF Connected
      <4> QED
        BY Zenon, <4>1 DEF CaptureInv, StreamInv, ConnectionInv
    <3> QED
      BY Zenon, <3>2, <3>3 DEF DurableLSN
  <2>2. CASE PersistEvent(d) /\ tx'[d].open
    <3> DEFINE e == rep[d].batch.events[tx[d].next]
               b == SpoolEvent(tx[d].db, e, rep[d].batch.lsn)
    <3>1. ~Rollback(d)
      <4>1. ~NoTx.open
        BY Zenon DEF NoTx
      <4> QED
        BY Zenon, <1>0, <2>2, <4>1 DEF Rollback
    <3>2. /\ tx'[d] = OpenTx(b, tx[d].next + 1, tx[d].stale) /\ ~IdentityConflict(tx[d].db, e)
          /\ tx[d].open /\ tx[d].next <= Len(rep[d].batch.events)
      BY Zenon, <1>0, <2>2, <3>1 DEF PersistEvent
    <3>3. LogGrows(tx[d].db, b)
      <4>1. /\ DbType(tx[d].db) /\ tx[d].next \in Nat /\ tx[d].next > 0
            /\ rep[d].batch.events \in Seq(BufferedEvent) /\ rep[d].batch.lsn \in Nat
        BY Zenon, <1>0, <3>2
           DEF TxType, TypeOK, CaptureType, ReplicatorType, CaptureInv, TransactionInv
      <4>2. e \in BufferedEvent
        <5> DEFINE events == rep[d].batch.events
                   next == tx[d].next
        <5>1. events \in Seq(BufferedEvent) /\ next \in Nat /\ next > 0 /\ next <= Len(events)
          BY Zenon, <3>2, <4>1
        <5> HIDE DEF events, next
        <5>2. events[next] \in BufferedEvent
          BY <5>1
        <5> QED
          BY Zenon, <5>2 DEF events, next
      <4>3. e.id \in Identities /\ e.digest \in Digests /\ e.at \in Nat
        BY Zenon, <4>2 DEF BufferedEvent
      <4> HIDE DEF e
      <4> QED
        BY Zenon, <3>2, <4>1, <4>3, SpoolEventGrows
    <3> HIDE DEF b, e
    <3>4. tx'[d].db = b
      BY <3>2 DEF OpenTx
    <3> QED
      BY Zenon, <3>2, <3>3, <3>4 DEF LogGrows, StatusInv, SessionInv
  <2> QED
    BY Zenon, <2>1, <2>2
<1>3. \A q \in Daemons : SessionInv(q)'
  <2>1. SessionInv(d)'
    BY Zenon, <1>1, <1>2 DEF StatusInv, SessionInv
  <2>2. \A q \in Daemons : q # d => SessionInv(q)'
    BY Zenon, <1>1 DEF StatusInv, SessionInv
  <2> QED
    BY Zenon, <2>1, <2>2
<1> QED
  BY Zenon, <1>1, <1>3 DEF StatusInv

\* The commit leaves a checkpoint that is not below the last, and answers with
\* a position that is not below durableLSN.
LEMMA CommitSession ==
  ASSUME TypeOK, CaptureInv, StatusInv, NEW d \in Daemons, CommitBatch(d)
  PROVE  StatusInv' /\ db.checkpoint <= db'.checkpoint /\ UNCHANGED slot
<1> DEFINE b == RaiseCheckpoint(tx[d].db, rep[d].batch.end)
           new == IF lock = d \/ MovesCheckpoint(d) THEN b ELSE db
<1>0. /\ rep \in [Daemons -> ReplicatorType] /\ DbType(tx[d].db)
      /\ rep[d].batch.end \in Nat /\ rep[d].durable \in Nat
      /\ tx[d].db.checkpoint \in Nat /\ db.checkpoint \in Nat
  BY Zenon, PositionsType DEF TypeOK, CaptureType, DaemonType, TxType
<1>1. /\ db' = new /\ tx' = [SnapshotsAfter(new) EXCEPT ![d] = NoTx]
      /\ rep' = [rep EXCEPT ![d].pc = "ack", ![d].batch.end = b.checkpoint]
      /\ UNCHANGED <<slot, statuses>> /\ rep[d].pc = "persist" /\ tx[d].open
  BY Zenon DEF CommitBatch, AllInserted
<1>2. b.checkpoint = IF rep[d].batch.end > tx[d].db.checkpoint THEN rep[d].batch.end
                     ELSE tx[d].db.checkpoint
  BY Zenon, <1>0, RaiseCheckpointType
<1> HIDE DEF b
<1>3. /\ tx[d].db.checkpoint <= b.checkpoint /\ rep[d].batch.end <= b.checkpoint
  BY <1>0, <1>2
<1>4. db.checkpoint <= db'.checkpoint
  <2>1. CASE lock = d \/ MovesCheckpoint(d)
    <3>1. lock = d \/ ~tx[d].stale
      BY Zenon, <2>1 DEF CommitBatch
    <3>2. tx[d].db.checkpoint = db.checkpoint
      BY Zenon, <1>1, <3>1 DEF CaptureInv, TransactionInv, LogGrows
    <3> QED
      BY Zenon, <1>1, <1>3, <2>1, <3>2
  <2>2. CASE ~(lock = d \/ MovesCheckpoint(d))
    <3>1. db' = db /\ db.checkpoint <= db.checkpoint
      BY <1>0, <1>1, <2>2
    <3> QED
      BY Zenon, <3>1
  <2> QED
    BY Zenon, <2>1, <2>2
<1>5. rep[d].durable <= b.checkpoint
  <2>1. rep[d].durable <= tx[d].db.checkpoint \/ rep[d].durable <= FirstLSN
    BY Zenon, <1>1 DEF StatusInv, SessionInv
  <2>2. rep[d].batch.end >= FirstLSN
    <3>1. rep[d].batch.lsn \in DOMAIN wal /\ rep[d].batch.end = rep[d].batch.lsn + 1
      BY Zenon, <1>1 DEF CaptureInv, StreamInv, BatchInv, EndLSN
    <3>2. rep[d].batch.lsn \in Nat
      BY Zenon, <1>0 DEF ReplicatorType
    <3> QED
      BY <3>1, <3>2 DEF FirstLSN
  <2>3. b.checkpoint \in Nat
    BY Zenon, <1>0, <1>2
  <2> QED
    BY <1>0, <1>3, <2>1, <2>2, <2>3 DEF FirstLSN
<1>6. /\ rep'[d].pc = "ack" /\ rep'[d].durable = rep[d].durable
      /\ rep'[d].batch.end = b.checkpoint
      /\ \A q \in Daemons : q # d => rep'[q] = rep[q]
  BY Zenon, <1>0, <1>1 DEF ReplicatorType
<1>7. /\ ~tx'[d].open
      /\ \A q \in Daemons : q # d => tx'[q].open = tx[q].open /\ tx'[q].db = tx[q].db
  <2>1. ~NoTx.open /\ DOMAIN SnapshotsAfter(new) = Daemons
    BY Zenon DEF NoTx, SnapshotsAfter
  <2>2. tx'[d] = NoTx /\ \A q \in Daemons : q # d => tx'[q] = SnapshotsAfter(new)[q]
    BY Zenon, <1>1, <2>1 DEF SnapshotsAfter
  <2> HIDE DEF new
  <2>3. \A q \in Daemons : /\ SnapshotsAfter(new)[q].open = tx[q].open
                         /\ SnapshotsAfter(new)[q].db = tx[q].db
    BY Zenon, SnapshotsFrame
  <2> QED
    BY Zenon, <2>1, <2>2, <2>3
<1>8. SessionInv(d)'
  <2>1. rep[d].pc \in Connected
    BY Zenon, <1>1 DEF Connected
  <2> QED
    BY Zenon, <1>1, <1>5, <1>6, <1>7, <2>1 DEF StatusInv, SessionInv
<1>9. ASSUME NEW q \in Daemons, q # d PROVE SessionInv(q)'
  <2>1. /\ rep'[q] = rep[q] /\ tx'[q].open = tx[q].open /\ tx'[q].db = tx[q].db
        /\ statuses' = statuses /\ slot' = slot
    BY Zenon, <1>1, <1>6, <1>7, <1>9
  <2>2. SessionInv(q)
    BY Zenon DEF StatusInv
  <2> HIDE DEF b, new
  <2> QED
    BY Zenon, <2>1, <2>2 DEF SessionInv
<1>10. \A q \in Daemons : SessionInv(q)'
  BY Zenon, <1>8, <1>9
<1>11. UNCHANGED <<statuses, slot>>
  BY Zenon, <1>1
<1> HIDE DEF b, new
<1> QED
  BY Zenon, <1>4, <1>10, <1>11 DEF StatusInv

\* Every step.
LEMMA NextSession ==
  ASSUME TypeOK, CaptureInv, CaptureInv', StatusInv, [Next]_vars
  PROVE  /\ StatusInv'
         /\ db'.checkpoint >= db.checkpoint /\ slot'.confirmed >= slot.confirmed
<1> DEFINE Rises == db.checkpoint <= db'.checkpoint /\ slot.confirmed <= slot'.confirmed
<1>0. db.checkpoint \in Nat /\ slot.confirmed \in Nat
  BY Zenon DEF TypeOK, DaemonType, DbType, CaptureType
<1>1. db.checkpoint <= db.checkpoint /\ slot.confirmed <= slot.confirmed
  BY <1>0
<1>2. CASE QuietStep
  <2>1. StatusInv'
    BY Zenon, <1>2, QuietSession DEF CaptureInv
  <2>2. Rises
    BY Zenon, <1>1, <1>2 DEF QuietStep, SameLog
  <2> QED
    BY Zenon, <2>1, <2>2
<1>3. CASE HandleStatus
  BY Zenon, <1>1, <1>3, HandleSession
<1>4. CASE ReleaseSlot
  BY Zenon, <1>1, <1>4, NewSession
<1>5. ASSUME NEW w \in WalItems, AppCommit(w) PROVE StatusInv' /\ Rises
  <2>1. UNCHANGED <<slot, statuses, rep, db, tx>>
    BY Zenon, <1>5 DEF AppCommit, daemonVars
  <2> QED
    BY Zenon, <1>1, <2>1 DEF StatusInv, SessionInv
<1>6. ASSUME NEW d \in Daemons, CaptureMoves(d) PROVE StatusInv' /\ Rises
  BY Zenon, <1>1, <1>6, NewSession, ReceiveSession, TransactionSession, CommitSession,
     SendSession DEF CaptureMoves
<1>7. StatusInv' /\ Rises
  <2> HIDE DEF Rises
  <2>1. (QuietStep \/ HandleStatus \/ ReleaseSlot) => StatusInv' /\ Rises
    BY Zenon, <1>2, <1>3, <1>4 DEF Rises
  <2> QED
    BY Zenon, <1>5, <1>6, <2>1, NextQuiet
<1>8. \A x, y : x <= y => y >= x
  BY Zenon
<1> QED
  BY Zenon, <1>7, <1>8

\* Nothing has been sent, and nobody is connected.
LEMMA InitStatus == Init => StatusInv
<1> SUFFICES ASSUME Init PROVE StatusInv
  BY Zenon
<1>1. /\ statuses = << >> /\ rep = [d \in Daemons |-> Replicator("off")]
      /\ tx = [d \in Daemons |-> NoTx]
  BY Zenon DEF Init, CaptureInit, DaemonInit
<1>2. DOMAIN statuses = {}
  BY <1>1
<1>3. ASSUME NEW d \in Daemons PROVE SessionInv(d)
  <2>1. rep[d].pc = "off" /\ ~tx[d].open
    BY Zenon, <1>1 DEF Replicator, NoTx
  <2>2. "off" \notin Connected /\ "off" # "ack"
    BY Zenon DEF Connected
  <2> QED
    BY Zenon, <2>1, <2>2 DEF SessionInv
<1> QED
  BY Zenon, <1>2, <1>3 DEF StatusInv

-----------------------------------------------------------------------------
(* The log: committed events, in commit order.                             *)

\* c has the rows of b, up to the payload.
SameRows(b, c) ==
  \A n \in DOMAIN b.events :
    /\ n \in DOMAIN c.events
    /\ c.events[n].id = b.events[n].id /\ c.events[n].digest = b.events[n].digest
    /\ c.events[n].lsn = b.events[n].lsn /\ c.events[n].at = b.events[n].at

TxLog(d) ==
  tx[d].open /\ (lock = d \/ ~tx[d].stale) =>
    Inserts(db, tx[d].db, rep[d].batch, tx[d].next)

\* The row e is a message of a transaction of the log w below lsn.
RowCommitted(e, w, lsn) ==
  /\ e.lsn \in DOMAIN w /\ e.lsn < lsn /\ w[e.lsn].transactional
  /\ e.at \in DOMAIN w[e.lsn].body /\ w[e.lsn].body[e.at].protected
  /\ w[e.lsn].body[e.at].id = e.id /\ w[e.lsn].body[e.at].digest = e.digest

RowBefore(e, f) ==
  e.id # f.id /\ (e.lsn < f.lsn \/ (e.lsn = f.lsn /\ e.at < f.at))

\* The same rows under a later checkpoint, with a longer write-ahead log.
LEMMA KeptRows ==
  ASSUME SpooledIsCommitted, SpoolOrder, SameRows(db, db'),
         DurableLSN \in Nat, DurableLSN' \in Nat, DurableLSN <= DurableLSN',
         wal \in Seq(WalItems),
         \A i \in DOMAIN wal : i \in DOMAIN wal' /\ wal'[i] = wal[i]
  PROVE  /\ \A n \in DOMAIN db.events : RowCommitted(db'.events[n], wal', DurableLSN')
         /\ \A m, n \in DOMAIN db.events : m < n => RowBefore(db'.events[m], db'.events[n])
<1>1. \A x, y, z \in Nat : x < y /\ y <= z => x < z
  OBVIOUS
<1>2. ASSUME NEW n \in DOMAIN db.events PROVE RowCommitted(db'.events[n], wal', DurableLSN')
  <2> DEFINE e == db.events[n]
             f == db'.events[n]
  <2>1. f.id = e.id /\ f.digest = e.digest /\ f.lsn = e.lsn /\ f.at = e.at
    BY Zenon DEF SameRows
  <2>2. RowCommitted(e, wal, DurableLSN)
    BY Zenon DEF SpooledIsCommitted, RowCommitted
  <2> HIDE DEF e, f
  <2>3. e.lsn \in DOMAIN wal /\ e.lsn < DurableLSN
    BY Zenon, <2>2 DEF RowCommitted
  <2>4. e.lsn \in Nat
    BY Zenon, <2>3, SeqIndex
  <2>5. e.lsn < DurableLSN' /\ e.lsn \in DOMAIN wal' /\ wal'[e.lsn] = wal[e.lsn]
    BY Zenon, <1>1, <2>3, <2>4
  <2> QED
    BY Zenon, <2>1, <2>2, <2>5 DEF RowCommitted, f
<1>3. ASSUME NEW m \in DOMAIN db.events, NEW n \in DOMAIN db.events, m < n
      PROVE  RowBefore(db'.events[m], db'.events[n])
  <2>1. /\ db'.events[m].id = db.events[m].id /\ db'.events[n].id = db.events[n].id
        /\ db'.events[m].lsn = db.events[m].lsn /\ db'.events[n].lsn = db.events[n].lsn
        /\ db'.events[m].at = db.events[m].at /\ db'.events[n].at = db.events[n].at
    BY Zenon DEF SameRows
  <2>2. RowBefore(db.events[m], db.events[n])
    BY Zenon, <1>3 DEF SpoolOrder, RowBefore
  <2> QED
    BY Zenon, <2>1, <2>2 DEF RowBefore
<1> QED
  BY Zenon, <1>2, <1>3

\* A step that adds no event keeps what the log says of the others.
LEMMA RowsFrame ==
  ASSUME SpooledIsCommitted, SpoolOrder, SameRows(db, db'),
         DOMAIN db'.events = DOMAIN db.events,
         DurableLSN \in Nat, DurableLSN' \in Nat, DurableLSN <= DurableLSN',
         wal \in Seq(WalItems),
         \A i \in DOMAIN wal : i \in DOMAIN wal' /\ wal'[i] = wal[i]
  PROVE  SpooledIsCommitted' /\ SpoolOrder'
<1>1. /\ \A n \in DOMAIN db.events : RowCommitted(db'.events[n], wal', DurableLSN')
      /\ \A m, n \in DOMAIN db.events : m < n => RowBefore(db'.events[m], db'.events[n])
  BY Zenon, KeptRows
<1>2. SpooledIsCommitted'
  BY Zenon, <1>1 DEF SpooledIsCommitted, RowCommitted
<1>3. SpoolOrder'
  BY Zenon, <1>1 DEF SpoolOrder, RowBefore
<1> QED
  BY Zenon, <1>2, <1>3

\* A step that is quiet leaves the log, and what may still be committed to it.
LEMMA QuietLog ==
  ASSUME TypeOK, TypeOK', LogInv, QuietStep, SameRows(db, db')
  PROVE  LogInv'
<1>1. /\ UNCHANGED wal /\ SameLog(db, db') /\ \A q \in Daemons : QuietFor(q)
  BY Zenon DEF QuietStep
<1>2. SpooledIsCommitted' /\ SpoolOrder'
  <2>1. /\ DurableLSN' = DurableLSN /\ DOMAIN db'.events = DOMAIN db.events
        /\ wal \in Seq(WalItems) /\ DurableLSN \in Nat
    BY Zenon, <1>1, DurableLSNType DEF SameLog, DurableLSN, TypeOK, CaptureType
  <2>2. DurableLSN <= DurableLSN'
    BY <2>1
  <2> QED
    BY Zenon, <1>1, <2>1, <2>2, RowsFrame DEF LogInv
<1>3. ASSUME NEW q \in Daemons PROVE ReceivedInv(q)' /\ TxLog(q)'
  <2>1. QuietFor(q) /\ ReceivedInv(q) /\ TxLog(q)
    BY Zenon, <1>1 DEF LogInv, TxLog
  <2>2. ReceivedInv(q)'
    <3>1. CASE rep'[q] = rep[q]
      BY Zenon, <1>1, <2>1, <3>1 DEF ReceivedInv
    <3>2. CASE rep'[q].pc \notin Connected
      <4>1. rep'[q].pc # "stream" /\ rep'[q].pc # "persist"
        BY Zenon, <3>2 DEF Connected
      <4> QED
        BY Zenon, <4>1 DEF ReceivedInv
    <3> QED
      BY Zenon, <2>1, <3>1, <3>2 DEF QuietFor
  <2>3. TxLog(q)'
    BY Zenon, <2>1 DEF TxLog, QuietFor
  <2> QED
    BY Zenon, <2>2, <2>3
<1> QED
  BY Zenon, <1>2, <1>3 DEF LogInv, TxLog

\* PostgreSQL: a commit, or a walsender that hears of a position or goes away.
LEMMA ServerLog ==
  ASSUME TypeOK, CaptureInv, LogInv,
         HandleStatus \/ ReleaseSlot \/ \E w \in WalItems : AppCommit(w)
  PROVE  LogInv'
<1>0. wal \in Seq(WalItems) /\ rep \in [Daemons -> ReplicatorType]
  BY Zenon DEF TypeOK, CaptureType
<1>1. UNCHANGED <<db, lock, tx, rep>> /\ \A i \in DOMAIN wal : i \in DOMAIN wal' /\ wal'[i] = wal[i]
  <2>1. CASE HandleStatus \/ ReleaseSlot
    BY Zenon, <2>1 DEF HandleStatus, ReleaseSlot, daemonVars
  <2>2. ASSUME NEW w \in WalItems, AppCommit(w)
        PROVE  UNCHANGED <<db, lock, tx, rep>> /\ \A i \in DOMAIN wal : i \in DOMAIN wal' /\ wal'[i] = wal[i]
    <3>1. UNCHANGED <<db, lock, tx, rep>> /\ wal' = Append(wal, w)
      BY Zenon, <2>2 DEF AppCommit, daemonVars
    <3>2. \A i \in DOMAIN wal : i \in DOMAIN wal' /\ wal'[i] = wal[i]
      BY <1>0, <3>1
    <3> QED
      BY Zenon, <3>1, <3>2
  <2> QED
    BY Zenon, <2>1, <2>2
<1>2. SpooledIsCommitted' /\ SpoolOrder'
  <2>1. SameRows(db, db') /\ DOMAIN db'.events = DOMAIN db.events
        /\ DurableLSN' = DurableLSN /\ DurableLSN \in Nat
    BY Zenon, <1>1, DurableLSNType DEF SameRows, DurableLSN
  <2>2. DurableLSN <= DurableLSN'
    BY <2>1
  <2> QED
    BY Zenon, <1>0, <1>1, <2>1, <2>2, RowsFrame DEF LogInv
<1>3. ASSUME NEW q \in Daemons PROVE ReceivedInv(q)' /\ TxLog(q)'
  <2>1. rep[q].pc = "stream" /\ rep[q].sm.inTx => rep[q].cursor \in DOMAIN wal
    <3> SUFFICES ASSUME rep[q].pc = "stream", rep[q].sm.inTx PROVE rep[q].cursor \in DOMAIN wal
      BY Zenon
    <3>1. rep[q].cursor <= Len(wal)
      BY Zenon DEF CaptureInv, StreamInv, BufferInv
    <3>2. rep[q].pc \in Connected
      BY Zenon DEF Connected
    <3>3. FirstLSN <= rep[q].cursor
      BY Zenon, <3>2 DEF CaptureInv, StreamInv, ConnectionInv
    <3>4. rep[q].cursor \in Nat
      BY Zenon, <1>0 DEF ReplicatorType
    <3> QED
      BY <1>0, <3>1, <3>3, <3>4 DEF FirstLSN
  <2>2. rep[q].pc = "persist" => rep[q].batch.lsn \in DOMAIN wal
    BY Zenon DEF CaptureInv, StreamInv, BatchInv
  <2>3. ReceivedInv(q)'
    BY Zenon, <1>1, <2>1, <2>2 DEF LogInv, ReceivedInv
  <2> QED
    BY Zenon, <1>1, <2>3 DEF LogInv, TxLog
<1> QED
  BY Zenon, <1>2, <1>3 DEF LogInv, TxLog

\* A step of a replicator that has no transaction.
LEMMA ReplicatorLog ==
  ASSUME LogInv, NEW d \in Daemons, UNCHANGED <<wal, db, lock, tx>>, ~tx[d].open,
         \A q \in Daemons : q # d => rep'[q] = rep[q], ReceivedInv(d)'
  PROVE  LogInv'
<1>1. SpooledIsCommitted' /\ SpoolOrder'
  <2>1. SpooledIsCommitted'
    BY Zenon DEF LogInv, SpooledIsCommitted, DurableLSN
  <2>2. SpoolOrder'
    BY DEF LogInv, SpoolOrder
  <2> QED
    BY Zenon, <2>1, <2>2
<1>2. ASSUME NEW q \in Daemons PROVE ReceivedInv(q)' /\ TxLog(q)'
  <2>1. CASE q = d
    BY Zenon, <2>1 DEF TxLog
  <2>2. CASE q # d
    BY Zenon, <2>2 DEF LogInv, ReceivedInv, TxLog
  <2> QED
    BY Zenon, <2>1, <2>2
<1> QED
  BY Zenon, <1>1, <1>2 DEF LogInv, TxLog

\* A stream begins between two transactions, and so does it after a batch.
LEMMA ConnectionLog ==
  ASSUME TypeOK, CaptureInv, LogInv, NEW d \in Daemons,
         \/ StartReplication(d) /\ rep'[d].pc = "stream"
         \/ SendStatus(d) \/ Acknowledge(d)
  PROVE  LogInv'
<1>0. rep \in [Daemons -> ReplicatorType]
  BY Zenon DEF TypeOK, CaptureType
<1>1. UNCHANGED <<wal, db, lock, tx>>
  BY Zenon DEF StartReplication, SendStatus, Acknowledge, daemonVars
<1>2. ~tx[d].open
  <2>1. rep[d].pc \in {"connect", "stream", "ack"}
    BY Zenon DEF StartReplication, SendStatus, Acknowledge
  <2>2. rep[d].pc # "persist"
    BY Zenon, <2>1
  <2> QED
    BY Zenon, <2>2, NoTransaction
<1>3. "stream" # "persist" /\ "backoff" # "stream"
  BY Zenon
<1>4. CASE StartReplication(d) /\ rep'[d].pc = "stream"
  <2> DEFINE durable == IF db.checkpoint # 0 THEN db.checkpoint ELSE rep[d].start
             cursor == IF rep[d].start > slot.confirmed THEN rep[d].start
                       ELSE slot.confirmed
             r == [Replicator("stream") EXCEPT !.start = rep[d].start, !.cursor = cursor,
                                               !.durable = durable]
  <2>1. ~Goto(d, "backoff")
    BY Zenon, <1>3, <1>4, GotoPc
  <2>2. rep' = [rep EXCEPT ![d] = r]
    BY Zenon, <1>4, <2>1 DEF StartReplication
  <2>3. ~r.sm.inTx
    BY Zenon DEF Replicator, NewStateMachine
  <2> HIDE DEF r
  <2>4. ~rep'[d].sm.inTx /\ \A q \in Daemons : q # d => rep'[q] = rep[q]
    BY Zenon, <1>0, <2>2, <2>3
  <2>5. ReceivedInv(d)'
    BY Zenon, <1>3, <1>4, <2>4 DEF ReceivedInv
  <2> QED
    BY Zenon, <1>1, <1>2, <2>4, <2>5, ReplicatorLog
<1>5. CASE SendStatus(d)
  <2>1. UNCHANGED rep
    BY Zenon, <1>5 DEF SendStatus
  <2>2. ReceivedInv(d)'
    BY Zenon, <1>1, <2>1 DEF LogInv, ReceivedInv
  <2> QED
    BY Zenon, <1>1, <1>2, <2>1, <2>2, ReplicatorLog
<1>6. CASE Acknowledge(d)
  <2>1. /\ rep[d].pc = "ack"
        /\ rep' = [rep EXCEPT ![d] = [@ EXCEPT !.pc = "stream", !.batch = NoBatch,
                                               !.durable = rep[d].batch.end]]
    BY Zenon, <1>6 DEF Acknowledge
  <2>2. /\ rep'[d].pc = "stream" /\ rep'[d].sm = rep[d].sm
        /\ \A q \in Daemons : q # d => rep'[q] = rep[q]
    BY Zenon, <1>0, <2>1 DEF ReplicatorType
  <2>3. ~rep[d].sm.inTx
    BY Zenon, <2>1 DEF CaptureInv, StreamInv, ConnectionInv
  <2>4. ReceivedInv(d)'
    BY Zenon, <1>3, <2>2, <2>3 DEF ReceivedInv
  <2> QED
    BY Zenon, <1>1, <1>2, <2>2, <2>4, ReplicatorLog
<1> QED
  BY Zenon, <1>4, <1>5, <1>6

\* A protected message is buffered behind those before it, with its position.
LEMMA ConsumeFromBody ==
  ASSUME NEW s \in MachineState, NEW body \in Seq(Body), NEW p \in DOMAIN body,
         FromBody(s.events, body, p - 1),
         NEW m, m.type = "message", m.protected = body[p].protected,
         m.id = body[p].id, m.digest = body[p].digest, m.at = p
  PROVE  FromBody(Consume(s, m).events, body, p)
<1>1. s.events \in Seq(BufferedEvent) /\ p \in Nat /\ body[p] \in Body
  BY DEF MachineState
<1>2. body[p].protected \in BOOLEAN
  BY Zenon, <1>1 DEF Body
<1>3. \A k \in DOMAIN s.events : s.events[k].at \in Nat
  <2>1. \A k \in DOMAIN s.events : s.events[k] \in BufferedEvent
    BY <1>1
  <2> QED
    BY Zenon, <2>1 DEF BufferedEvent
<1>4. \A x \in Nat : x <= p - 1 => x <= p /\ x < p
  BY <1>1
<1>5. p <= p
  BY <1>1
<1>6. CASE ~m.protected
  <2>1. Consume(s, m) = s
    BY Zenon, <1>6 DEF Consume
  <2> QED
    BY Zenon, <1>3, <1>4, <2>1 DEF FromBody
<1>7. CASE m.protected
  <2> DEFINE e == [id |-> m.id, digest |-> m.digest, at |-> m.at]
             c == Consume(s, m).events
             last == Len(s.events) + 1
  <2>1. c = Append(s.events, e)
    BY Zenon, <1>7 DEF Consume, MachineState
  <2>2. e.id = body[p].id /\ e.digest = body[p].digest /\ e.at = p /\ body[p].protected
    BY Zenon, <1>7
  <2> HIDE DEF c, e
  <2>3. /\ c[last] = e
        /\ \A k \in DOMAIN c : k = last \/ (k \in DOMAIN s.events /\ c[k] = s.events[k])
    BY <1>1, <2>1
  <2>4. \A j, k \in DOMAIN c : j < k => j # last /\ j \in DOMAIN s.events
    <3>1. c \in Seq(BufferedEvent \cup {e}) /\ Len(c) = last
      BY <1>1, <2>1
    <3>2. \A j, k \in DOMAIN c : j < k => j # last
      BY <1>1, <3>1
    <3> QED
      BY Zenon, <2>3, <3>2
  <2> HIDE DEF last
  <2>5. ASSUME NEW k \in DOMAIN c
        PROVE  /\ c[k].at \in DOMAIN body /\ c[k].at <= p /\ body[c[k].at].protected
               /\ body[c[k].at].id = c[k].id /\ body[c[k].at].digest = c[k].digest
    <3>1. CASE k = last
      BY Zenon, <1>5, <2>2, <2>3, <3>1
    <3>2. CASE k \in DOMAIN s.events /\ c[k] = s.events[k]
      BY Zenon, <1>3, <1>4, <3>2 DEF FromBody
    <3> QED
      BY Zenon, <2>3, <3>1, <3>2
  <2>6. ASSUME NEW j \in DOMAIN c, NEW k \in DOMAIN c, j < k PROVE c[j].at < c[k].at
    <3>1. j \in DOMAIN s.events /\ c[j] = s.events[j]
      BY Zenon, <2>3, <2>4, <2>6
    <3>2. CASE k = last
      <4>1. s.events[j].at \in Nat /\ s.events[j].at <= p - 1
        BY Zenon, <1>3, <3>1 DEF FromBody
      <4> QED
        BY Zenon, <1>4, <2>2, <2>3, <3>1, <3>2, <4>1
    <3>3. CASE k \in DOMAIN s.events /\ c[k] = s.events[k]
      BY Zenon, <2>6, <3>1, <3>3 DEF FromBody
    <3> QED
      BY Zenon, <2>3, <3>2, <3>3
  <2> QED
    BY Zenon, <2>5, <2>6 DEF FromBody, c
<1> QED
  BY Zenon, <1>2, <1>6, <1>7

\* A message that does not complete a batch.
LEMMA ConsumedLog ==
  ASSUME TypeOK, NEW d \in Daemons, StreamInv(d), ReceivedInv(d), rep[d].pc = "stream",
         rep[d].cursor <= Len(wal),
         NEW w, w = wal[rep[d].cursor],
         NEW m, m = MessageAt(w, rep[d].pos),
         NEW sm, sm = Consume(rep[d].sm, m),
         ConsumeError(rep[d].sm, m) = "none", ~CompletesBatch(rep[d].sm, m)
  PROVE  sm.inTx => FromBody(sm.events, w.body, rep[d].pos)
<1> DEFINE r == rep[d]
           p == r.pos
<1>1. /\ r \in ReplicatorType /\ wal \in Seq(WalItems)
  BY Zenon DEF TypeOK, CaptureType
<1>2. /\ r.cursor \in Nat /\ p \in Nat /\ r.sm \in MachineState
  BY Zenon, <1>1 DEF ReplicatorType
<1>3. w \in WalItems
  <2>1. r.pc \in Connected
    BY Zenon DEF Connected
  <2>2. FirstLSN <= r.cursor
    BY Zenon, <2>1 DEF StreamInv, ConnectionInv
  <2>3. w = wal[r.cursor] /\ r.cursor <= Len(wal)
    BY Zenon
  <2> HIDE DEF r
  <2> QED
    BY <1>1, <1>2, <2>2, <2>3 DEF FirstLSN
<1>4. /\ w.transactional \in BOOLEAN /\ w.body \in Seq(Body) /\ LastPos(w) \in Nat
  BY Zenon, <1>3, WalItemsAssumption, LastPosType
<1>5. /\ p > 0 => p <= LastPos(w)
      /\ r.sm.inTx <=> p > 0 /\ w.transactional
      /\ r.sm.inTx => FromBody(r.sm.events, w.body, p - 1)
  BY Zenon DEF StreamInv, BufferInv, ReceivedInv
<1>0. /\ m = MessageAt(w, p) /\ sm = Consume(r.sm, m)
      /\ ConsumeError(r.sm, m) = "none" /\ ~CompletesBatch(r.sm, m)
  BY Zenon
<1> HIDE DEF r, p
<1>6. p <= LastPos(w)
  BY <1>2, <1>4, <1>5
<1>7. MessageOf(w, p, m)
  BY Zenon, <1>0, <1>2, <1>3, <1>6, MessageType
<1>8. m.type # "commit"
  BY Zenon, <1>0 DEF ConsumeError, CompletesBatch
<1>9. CASE m.type = "begin"
  <2>1. sm.events = << >>
    BY Zenon, <1>0, <1>9 DEF Consume, NewStateMachine
  <2>2. DOMAIN sm.events = {}
    BY <2>1
  <2> QED
    BY Zenon, <2>2 DEF FromBody, p, r
<1>10. ASSUME NEW j \in DOMAIN w.body, j = IF w.transactional THEN p ELSE p + 1,
              m.type = "message", m.transactional = w.transactional,
              m.protected = w.body[j].protected,
              m.id = w.body[j].id, m.digest = w.body[j].digest, m.at = p
       PROVE  sm.inTx => FromBody(sm.events, w.body, p)
  <2>1. CASE w.transactional
    <3>1. j = p /\ p > 0
      <4>1. j = p
        BY Zenon, <1>10, <2>1
      <4>2. 1 <= p
        BY Zenon, <1>4, <1>10, <4>1, SeqIndex
      <4> QED
        BY <1>2, <4>1, <4>2
    <3>2. FromBody(r.sm.events, w.body, p - 1)
      BY Zenon, <1>5, <2>1, <3>1
    <3>3. FromBody(Consume(r.sm, m).events, w.body, p)
      BY Zenon, <1>2, <1>4, <1>10, <3>1, <3>2, ConsumeFromBody
    <3> QED
      BY Zenon, <1>0, <3>3
  <2>2. CASE ~w.transactional
    <3>1. ~m.protected
      BY Zenon, <1>0, <1>10, <2>2 DEF ConsumeError, LogicalMessageError
    <3>2. ~sm.inTx
      BY Zenon, <1>0, <1>5, <1>10, <2>2, <3>1 DEF Consume
    <3> QED
      BY Zenon, <3>2
  <2> QED
    BY Zenon, <1>4, <2>1, <2>2
<1> QED
  BY Zenon, <1>7, <1>8, <1>9, <1>10 DEF MessageOf, r, p

\* The rows after insertOrVerify and ensureDeliveriesForEvent.
LEMMA SpoolEventRows ==
  ASSUME NEW b, DbType(b), NEW e, NEW lsn
  PROVE  SpoolEvent(b, e, lsn).events =
           IF SequencesOf(b, e.id) # {} THEN b.events
           ELSE Append(b.events, [id |-> e.id, digest |-> e.digest, lsn |-> lsn, at |-> e.at,
                                  pruned |-> FALSE])
<1> DEFINE row == [id |-> e.id, digest |-> e.digest, lsn |-> lsn, at |-> e.at,
                   pruned |-> FALSE]
           i == InsertOrVerify(b, e, lsn)
           n == CHOOSE m \in SequencesOf(i, e.id) : TRUE
<1>1. i.events = (IF SequencesOf(b, e.id) # {} THEN b.events ELSE Append(b.events, row))
      /\ i = [events |-> i.events, sinks |-> i.sinks, deliveries |-> i.deliveries,
              checkpoint |-> i.checkpoint]
  <2>1. CASE SequencesOf(b, e.id) # {}
    BY Zenon, <2>1 DEF InsertOrVerify, DbType
  <2>2. CASE SequencesOf(b, e.id) = {}
    <3>1. i = [b EXCEPT !.events = Append(b.events, row)]
      BY Zenon, <2>2 DEF InsertOrVerify
    <3> HIDE DEF row
    <3>2. i = [events |-> Append(b.events, row), sinks |-> b.sinks,
               deliveries |-> b.deliveries, checkpoint |-> b.checkpoint]
      BY Zenon, <3>1 DEF DbType
    <3> HIDE DEF i
    <3> QED
      BY Zenon, <2>2, <3>2
  <2> QED
    BY Zenon, <2>1, <2>2
<1> HIDE DEF i, n
<1>2. EnsureDeliveriesForEvent(i, n).events = i.events
  <2>1. CASE i.events[n].pruned
    BY Zenon, <2>1 DEF EnsureDeliveriesForEvent
  <2>2. CASE ~i.events[n].pruned
    <3> DEFINE rows == InsertPending(i.deliveries, {n} \X ActiveSinks(i))
    <3>1. EnsureDeliveriesForEvent(i, n) = [i EXCEPT !.deliveries = rows]
      BY Zenon, <2>2 DEF EnsureDeliveriesForEvent
    <3> HIDE DEF rows
    <3> QED
      BY Zenon, <1>1, <3>1
  <2> QED
    BY Zenon, <2>1, <2>2
<1> QED
  BY Zenon, <1>1, <1>2 DEF SpoolEvent, i, n

\* One more event of the batch, or one that is there already.
LEMMA SpoolEventInserts ==
  ASSUME NEW b, NEW c, DbType(c), DOMAIN b.events \subseteq DOMAIN c.events,
         NEW batch, batch.events \in Seq(BufferedEvent),
         \A j, k \in DOMAIN batch.events : j < k => batch.events[j].at < batch.events[k].at,
         NEW next \in DOMAIN batch.events, Inserts(b, c, batch, next),
         NEW f, f = SpoolEvent(c, batch.events[next], batch.lsn)
  PROVE  Inserts(b, f, batch, next + 1)
<1> DEFINE e == batch.events[next]
           row == [id |-> e.id, digest |-> e.digest, lsn |-> batch.lsn, at |-> e.at,
                   pruned |-> FALSE]
           new == Len(c.events) + 1
<1>1. next \in Nat /\ \A k \in DOMAIN batch.events : k \in Nat
  BY Zenon, SeqIndex
<1>2. next < next + 1 /\ \A k \in DOMAIN batch.events : k < next => k < next + 1
  BY <1>1
<1>3. ASSUME NEW r, InsertedFrom(r, batch, next) PROVE InsertedFrom(r, batch, next + 1)
  BY Zenon, <1>2, <1>3 DEF InsertedFrom
<1>4. CASE SequencesOf(c, e.id) # {}
  <2>1. f.events = c.events
    BY Zenon, <1>4, SpoolEventRows
  <2> HIDE DEF e, row, new
  <2>2. UniqueIdentities(f)
    <3>1. UniqueIdentities(c)
      BY Zenon DEF Inserts
    <3> SUFFICES ASSUME NEW m \in DOMAIN f.events, NEW n \in DOMAIN f.events,
                        f.events[m].id = f.events[n].id
                 PROVE  m = n
      BY Zenon DEF UniqueIdentities
    <3>2. /\ m \in DOMAIN c.events /\ n \in DOMAIN c.events
          /\ c.events[m].id = c.events[n].id
      BY Zenon, <2>1
    <3> QED
      BY Zenon, <3>1, <3>2 DEF UniqueIdentities
  <2>3. \A n \in DOMAIN f.events \ DOMAIN b.events : InsertedFrom(f.events[n], batch, next + 1)
    BY Zenon, <1>3, <2>1 DEF Inserts
  <2>4. \A m, n \in DOMAIN f.events \ DOMAIN b.events :
          m < n => f.events[m].at < f.events[n].at
    BY Zenon, <2>1 DEF Inserts
  <2> QED
    BY Zenon, <2>2, <2>3, <2>4 DEF Inserts
<1>5. CASE SequencesOf(c, e.id) = {}
  <2>1. f.events = Append(c.events, row)
    BY Zenon, <1>5, SpoolEventRows
  <2>2. row.id = e.id /\ row.digest = e.digest /\ row.lsn = batch.lsn /\ row.at = e.at
    BY Zenon
  <2> HIDE DEF row
  <2>3. InsertedFrom(row, batch, next + 1)
    BY Zenon, <1>2, <2>2 DEF InsertedFrom
  <2>4. c.events \in Seq(EventRow)
    BY Zenon DEF DbType
  <2>5. /\ new \notin DOMAIN c.events /\ f.events[new] = row
        /\ \A n \in DOMAIN f.events : n = new \/ (n \in DOMAIN c.events /\ f.events[n] = c.events[n])
        /\ \A n \in DOMAIN c.events : n < new /\ ~(new < n)
    BY <2>1, <2>4
  <2>6. ~(new < new)
    BY <2>4
  <2> HIDE DEF new
  <2>7. \A n \in DOMAIN c.events : c.events[n].id # e.id
    BY Zenon, <1>5 DEF SequencesOf
  <2>8. ASSUME NEW n \in DOMAIN f.events \ DOMAIN b.events
        PROVE  InsertedFrom(f.events[n], batch, next + 1)
    BY Zenon, <1>3, <2>3, <2>5 DEF Inserts
  <2>9. ASSUME NEW m \in DOMAIN f.events \ DOMAIN b.events,
               NEW n \in DOMAIN f.events \ DOMAIN b.events, m < n
        PROVE  f.events[m].at < f.events[n].at
    <3>1. m \in DOMAIN c.events /\ f.events[m] = c.events[m]
      BY Zenon, <2>5, <2>6, <2>9
    <3>2. CASE n = new
      <4>1. PICK k \in DOMAIN batch.events : k < next /\ c.events[m].at = batch.events[k].at
        BY Zenon, <3>1 DEF Inserts, InsertedFrom
      <4> QED
        BY Zenon, <2>2, <2>5, <3>1, <3>2, <4>1
    <3>3. CASE n \in DOMAIN c.events /\ f.events[n] = c.events[n]
      BY Zenon, <2>9, <3>1, <3>3 DEF Inserts
    <3> QED
      BY Zenon, <2>5, <3>2, <3>3
  <2>10. UniqueIdentities(f)
    <3>1. ASSUME NEW m \in DOMAIN f.events, NEW n \in DOMAIN f.events,
                 f.events[m].id = f.events[n].id
          PROVE  m = n
      <4>1. CASE m = new
        BY Zenon, <2>2, <2>5, <2>7, <3>1, <4>1
      <4>2. CASE n = new
        BY Zenon, <2>2, <2>5, <2>7, <3>1, <4>2
      <4>3. CASE m # new /\ n # new
        BY Zenon, <2>5, <3>1, <4>3 DEF Inserts, UniqueIdentities
      <4> QED
        BY Zenon, <4>1, <4>2, <4>3
    <3> QED
      BY Zenon, <3>1 DEF UniqueIdentities
  <2> QED
    BY Zenon, <2>8, <2>9, <2>10 DEF Inserts
<1> QED
  BY Zenon, <1>4, <1>5

\* The transaction of a batch begins, or takes over its next event.
LEMMA TransactionLog ==
  ASSUME TypeOK, CaptureInv, LogInv, NEW d \in Daemons,
         BeginBatch(d) \/ (PersistEvent(d) /\ tx'[d].open)
  PROVE  LogInv'
<1>0. DOMAIN tx = Daemons /\ \A q \in Daemons : TxType(tx[q])
  BY Zenon DEF TypeOK, DaemonType
<1>1. PersistEvent(d) /\ tx'[d].open => ~Rollback(d)
  <2>1. ~NoTx.open
    BY Zenon DEF NoTx
  <2> QED
    BY Zenon, <1>0, <2>1 DEF Rollback
<1>2. /\ UNCHANGED <<wal, db, rep>> /\ rep[d].pc = "persist"
      /\ \A q \in Daemons : q # d => tx'[q] = tx[q] /\ (lock' = q => lock = q)
  <2>1. CASE BeginBatch(d)
    BY Zenon, <1>0, <2>1 DEF BeginBatch, captureVars
  <2>2. CASE PersistEvent(d) /\ tx'[d].open
    BY Zenon, <1>0, <1>1, <2>2 DEF PersistEvent
  <2> QED
    BY Zenon, <2>1, <2>2
<1>3. SpooledIsCommitted' /\ SpoolOrder'
  <2>1. SpooledIsCommitted'
    BY Zenon, <1>2 DEF LogInv, SpooledIsCommitted, DurableLSN
  <2>2. SpoolOrder'
    BY <1>2 DEF LogInv, SpoolOrder
  <2> QED
    BY Zenon, <2>1, <2>2
<1>4. TxLog(d)'
  <2>1. CASE BeginBatch(d)
    <3>1. tx'[d] = OpenTx(db, 1, FALSE)
      BY Zenon, <1>0, <2>1 DEF BeginBatch
    <3>2. tx'[d].db = db
      BY <3>1 DEF OpenTx
    <3>3. UniqueIdentities(db)
      <4>1. \A m, n \in DOMAIN db.events : m = n \/ m < n \/ n < m
        BY DEF TypeOK, DaemonType, DbType
      <4> QED
        BY Zenon, <4>1 DEF UniqueIdentities, LogInv, SpoolOrder
    <3>4. \A batch, next : Inserts(db, db, batch, next)
      BY Zenon, <3>3 DEF Inserts
    <3> QED
      BY Zenon, <1>2, <3>2, <3>4 DEF TxLog
  <2>2. CASE PersistEvent(d) /\ tx'[d].open
    <3> DEFINE batch == rep[d].batch
               next == tx[d].next
               f == SpoolEvent(tx[d].db, batch.events[next], batch.lsn)
    <3> SUFFICES ASSUME lock' = d \/ ~tx'[d].stale
                 PROVE  Inserts(db, tx'[d].db, batch, tx'[d].next)
      BY Zenon, <1>2 DEF TxLog
    <3>1. /\ tx'[d] = OpenTx(f, next + 1, tx[d].stale) /\ UNCHANGED lock
          /\ tx[d].open /\ next <= Len(batch.events)
      BY Zenon, <1>0, <1>1, <2>2 DEF PersistEvent
    <3> HIDE DEF f
    <3>2. tx'[d].db = f /\ tx'[d].next = next + 1 /\ tx'[d].stale = tx[d].stale
      BY <3>1 DEF OpenTx
    <3>3. /\ Inserts(db, tx[d].db, batch, next) /\ LogGrows(db, tx[d].db)
          /\ next \in Nat /\ next > 0 /\ DbType(tx[d].db)
      BY Zenon, <1>0, <3>1, <3>2 DEF LogInv, CaptureInv, TransactionInv, TxType
    <3>4. /\ batch.events \in Seq(BufferedEvent)
          /\ \A j, k \in DOMAIN batch.events : j < k => batch.events[j].at < batch.events[k].at
      BY Zenon, <1>2 DEF LogInv, ReceivedInv, FromBody, TypeOK, CaptureType, ReplicatorType
    <3>5. DOMAIN db.events \subseteq DOMAIN tx[d].db.events
      BY Zenon, <3>3 DEF LogGrows
    <3>6. next \in DOMAIN batch.events
      <4> HIDE DEF next, batch
      <4> QED
        BY <3>1, <3>3, <3>4
    <3>7. Inserts(db, f, batch, next + 1)
      <4>1. f = SpoolEvent(tx[d].db, batch.events[next], batch.lsn)
        BY Zenon DEF f
      <4> HIDE DEF next, batch
      <4> QED
        BY Zenon, <3>3, <3>4, <3>5, <3>6, <4>1, SpoolEventInserts
    <3> QED
      BY Zenon, <3>2, <3>7
  <2> QED
    BY Zenon, <2>1, <2>2
<1>5. ASSUME NEW q \in Daemons PROVE ReceivedInv(q)' /\ TxLog(q)'
  <2>1. ReceivedInv(q)'
    BY Zenon, <1>2 DEF LogInv, ReceivedInv
  <2>2. q # d => TxLog(q)'
    BY Zenon, <1>2 DEF LogInv, TxLog
  <2> QED
    BY Zenon, <1>4, <2>1, <2>2
<1> QED
  BY Zenon, <1>3, <1>5 DEF LogInv, TxLog

\* What the commit of a batch changes for every transaction, its own included.
LEMMA CommitFrame ==
  ASSUME TypeOK, CaptureInv, LogInv, NEW d \in Daemons, CommitBatch(d)
  PROVE  \A q \in Daemons : ReceivedInv(q)' /\ TxLog(q)'
<1> DEFINE b == RaiseCheckpoint(tx[d].db, rep[d].batch.end)
           new == IF lock = d \/ MovesCheckpoint(d) THEN b ELSE db
<1>0. rep \in [Daemons -> ReplicatorType]
  BY Zenon DEF TypeOK, CaptureType
<1>1. /\ db' = new /\ tx' = [SnapshotsAfter(new) EXCEPT ![d] = NoTx]
      /\ rep' = [rep EXCEPT ![d].pc = "ack", ![d].batch.end = b.checkpoint]
      /\ lock' = (IF lock = d THEN Nobody ELSE lock) /\ UNCHANGED wal
  BY Zenon DEF CommitBatch
<1>2. db' # db => lock = d \/ lock = Nobody
  BY Zenon, <1>1 DEF CommitBatch
<1> HIDE DEF b, new
<1>3. rep'[d].pc = "ack" /\ \A q \in Daemons : q # d => rep'[q] = rep[q]
  BY Zenon, <1>0, <1>1 DEF ReplicatorType
<1>4. tx'[d] = NoTx /\ \A q \in Daemons : q # d => tx'[q] = SnapshotsAfter(new)[q]
  BY Zenon, <1>1 DEF SnapshotsAfter
<1>5. ~NoTx.open /\ "ack" # "stream" /\ "ack" # "persist"
  BY Zenon DEF NoTx
<1>6. ASSUME NEW q \in Daemons PROVE ReceivedInv(q)' /\ TxLog(q)'
  <2>1. CASE q = d
    BY Zenon, <1>3, <1>4, <1>5, <2>1 DEF ReceivedInv, TxLog
  <2>2. CASE q # d
    <3>1. q # Nobody
      BY Zenon, ProcessAssumption
    <3>2. /\ SnapshotsAfter(new)[q].open = tx[q].open /\ SnapshotsAfter(new)[q].db = tx[q].db
          /\ SnapshotsAfter(new)[q].next = tx[q].next
          /\ tx[q].stale => SnapshotsAfter(new)[q].stale
          /\ tx[q].open /\ new # db => SnapshotsAfter(new)[q].stale
      BY Zenon, SnapshotsFrame
    <3>3. ReceivedInv(q)'
      BY Zenon, <1>1, <1>3, <2>2 DEF LogInv, ReceivedInv
    <3>4. TxLog(q)'
      <4> SUFFICES ASSUME tx'[q].open, lock' = q \/ ~tx'[q].stale
                   PROVE  Inserts(db', tx'[q].db, rep'[q].batch, tx'[q].next)
        BY Zenon DEF TxLog
      <4>1. db' = db
        BY Zenon, <1>1, <1>2, <1>4, <2>2, <3>1, <3>2
      <4>2. /\ tx'[q].open = tx[q].open /\ tx'[q].db = tx[q].db /\ tx'[q].next = tx[q].next
            /\ tx[q].stale => tx'[q].stale
        BY Zenon, <1>4, <2>2, <3>2
      <4>3. lock' = q => lock = q
        BY Zenon, <1>1, <3>1
      <4>4. Inserts(db, tx[q].db, rep[q].batch, tx[q].next)
        BY Zenon, <4>2, <4>3 DEF LogInv
      <4> QED
        BY Zenon, <1>3, <2>2, <4>1, <4>2, <4>4
    <3> QED
      BY Zenon, <3>3, <3>4
  <2> QED
    BY Zenon, <2>1, <2>2
<1> QED
  BY Zenon, <1>6

\* The rows that a commit adds are messages of the transaction of the batch, in
\* its order; a transaction that the checkpoint covers already adds none.
LEMMA CommitRows ==
  ASSUME TypeOK, CaptureInv, LogInv, NEW d \in Daemons, CommitBatch(d), db' # db,
         SameRows(db, db')
  PROVE  LET batch == rep[d].batch
             fresh == DOMAIN db'.events \ DOMAIN db.events
         IN /\ DurableLSN' \in Nat /\ DurableLSN <= DurableLSN' /\ batch.lsn < DurableLSN'
            /\ \A n \in fresh : /\ RowCommitted(db'.events[n], wal, DurableLSN')
                                /\ db'.events[n].lsn = batch.lsn /\ DurableLSN <= batch.lsn
            /\ \A m, n \in fresh : m < n => db'.events[m].at < db'.events[n].at
            /\ UniqueIdentities(db')
<1> DEFINE batch == rep[d].batch
           body == wal[batch.lsn].body
           fresh == DOMAIN db'.events \ DOMAIN db.events
           b == RaiseCheckpoint(tx[d].db, batch.end)
<1>1. /\ db' = b /\ AllInserted(d) /\ tx[d].open /\ rep[d].pc = "persist"
      /\ lock = d \/ ~tx[d].stale
  BY Zenon DEF CommitBatch, AllInserted
<1>2. LogGrows(db, tx[d].db) /\ Inserts(db, tx[d].db, batch, tx[d].next)
  BY Zenon, <1>1 DEF LogInv, CaptureInv, TransactionInv
<1>3. /\ batch.lsn \in Nat /\ batch.end \in Nat /\ DbType(tx[d].db) /\ wal \in Seq(WalItems)
  <2>1. rep \in [Daemons -> ReplicatorType] /\ TxType(tx[d]) /\ wal \in Seq(WalItems)
    BY Zenon DEF TypeOK, CaptureType, DaemonType
  <2> QED
    BY Zenon, <2>1 DEF ReplicatorType, TxType
<1>4. /\ batch.lsn \in DOMAIN wal /\ batch.end = batch.lsn + 1
      /\ wal[batch.lsn].transactional /\ FromBody(batch.events, body, Len(body))
      /\ SpooledBelow(DurableLSN)
  BY Zenon, <1>1 DEF CaptureInv, StreamInv, BatchInv, EndLSN, LogInv, ReceivedInv, PositionInv
<1>5. b.events = tx[d].db.events
  BY Zenon, <1>3, RaiseCheckpointType
<1>6. /\ b.checkpoint \in Nat /\ b.checkpoint >= DurableLSN /\ b.checkpoint >= batch.end
  BY Zenon, <1>1, <1>2, CommitCovers
<1>7. DurableLSN \in Nat /\ DurableLSN >= 1
  BY Zenon, DurableLSNType
<1> HIDE DEF b, batch
<1>8. DurableLSN' \in Nat /\ DurableLSN <= DurableLSN' /\ batch.lsn < DurableLSN'
  <2>1. b.checkpoint # 0
    BY <1>6, <1>7
  <2>2. DurableLSN' = b.checkpoint
    BY Zenon, <1>1, <2>1 DEF DurableLSN
  <2>3. batch.lsn < b.checkpoint
    BY <1>3, <1>4, <1>6
  <2>4. DurableLSN <= b.checkpoint
    BY Zenon, <1>6, <1>7
  <2> QED
    BY Zenon, <1>6, <2>2, <2>3, <2>4
<1>9. UniqueIdentities(db')
  <2>1. db'.events = tx[d].db.events /\ UniqueIdentities(tx[d].db)
    BY Zenon, <1>1, <1>2, <1>5 DEF Inserts
  <2> QED
    BY Zenon, <2>1 DEF UniqueIdentities
<1>10. \A m, n \in fresh : m < n => db'.events[m].at < db'.events[n].at
  BY Zenon, <1>1, <1>2, <1>5 DEF Inserts
<1>11. ASSUME NEW n \in fresh
       PROVE  /\ RowCommitted(db'.events[n], wal, DurableLSN')
              /\ db'.events[n].lsn = batch.lsn /\ DurableLSN <= batch.lsn
  <2> DEFINE e == db'.events[n]
  <2>1. InsertedFrom(e, batch, tx[d].next)
    BY Zenon, <1>1, <1>2, <1>5 DEF Inserts
  <2> HIDE DEF e
  <2>2. PICK k \in DOMAIN batch.events : /\ e.at = batch.events[k].at
                                         /\ e.id = batch.events[k].id
                                         /\ e.digest = batch.events[k].digest
    BY Zenon, <2>1 DEF InsertedFrom
  <2>3. /\ e.lsn = batch.lsn /\ e.at \in DOMAIN body /\ body[e.at].protected
        /\ body[e.at].id = e.id /\ body[e.at].digest = e.digest
    BY Zenon, <1>4, <2>1, <2>2 DEF FromBody, InsertedFrom
  <2>4. RowCommitted(e, wal, DurableLSN')
    BY Zenon, <1>4, <1>8, <2>3 DEF RowCommitted
  <2>5. DurableLSN <= batch.lsn
    <3>1. ASSUME batch.lsn < DurableLSN PROVE FALSE
      <4>1. SpooledIn(db, body[e.at])
        BY Zenon, <1>4, <2>3, <3>1 DEF SpooledBelow
      <4>2. PICK o \in DOMAIN db.events : db.events[o].id = e.id
        BY Zenon, <2>3, <4>1 DEF SpooledIn
      <4>3. o \in DOMAIN db'.events /\ db'.events[o].id = e.id
        BY Zenon, <4>2 DEF SameRows
      <4> QED
        BY Zenon, <1>9, <4>3 DEF UniqueIdentities, e
    <3> QED
      BY <1>3, <1>7, <3>1
  <2> QED
    BY Zenon, <2>3, <2>4, <2>5 DEF e
<1> QED
  BY Zenon, <1>8, <1>9, <1>10, <1>11 DEF batch

\* The commit of a batch adds a transaction behind those in the log.
LEMMA CommitLog ==
  ASSUME TypeOK, TypeOK', CaptureInv, LogInv, NEW d \in Daemons, CommitBatch(d),
         SameRows(db, db')
  PROVE  LogInv'
<1>0. wal \in Seq(WalItems) /\ UNCHANGED wal /\ DurableLSN \in Nat
  BY Zenon, DurableLSNType DEF TypeOK, CaptureType, CommitBatch
<1>1. \A q \in Daemons : ReceivedInv(q)' /\ TxLog(q)'
  BY Zenon, CommitFrame
<1>2. CASE db' = db
  <2>1. SpooledIsCommitted'
    BY Zenon, <1>0, <1>2 DEF LogInv, SpooledIsCommitted, DurableLSN
  <2>2. SpoolOrder'
    BY <1>2 DEF LogInv, SpoolOrder
  <2> QED
    BY Zenon, <1>1, <2>1, <2>2 DEF LogInv, TxLog
<1>3. CASE db' # db
  <2> DEFINE lsn == rep[d].batch.lsn
             fresh == DOMAIN db'.events \ DOMAIN db.events
  <2>1. /\ DurableLSN' \in Nat /\ DurableLSN <= DurableLSN'
        /\ \A n \in fresh : /\ RowCommitted(db'.events[n], wal, DurableLSN')
                            /\ db'.events[n].lsn = lsn /\ DurableLSN <= lsn
        /\ \A m, n \in fresh : m < n => db'.events[m].at < db'.events[n].at
        /\ UniqueIdentities(db')
    BY Zenon, <1>3, CommitRows
  <2>2. /\ \A n \in DOMAIN db.events : RowCommitted(db'.events[n], wal, DurableLSN')
        /\ \A m, n \in DOMAIN db.events : m < n => RowBefore(db'.events[m], db'.events[n])
    BY Zenon, <1>0, <2>1, KeptRows DEF LogInv
  <2>3. SpooledIsCommitted'
    <3>1. \A n \in DOMAIN db'.events : RowCommitted(db'.events[n], wal', DurableLSN')
      BY Zenon, <1>0, <2>1, <2>2
    <3> QED
      BY Zenon, <3>1 DEF SpooledIsCommitted, RowCommitted
  <2>4. /\ lsn \in Nat /\ db.events \in Seq(EventRow) /\ db'.events \in Seq(EventRow)
    <3>1. rep \in [Daemons -> ReplicatorType] /\ DbType(db) /\ DbType(db')
      BY Zenon DEF TypeOK, CaptureType, DaemonType
    <3> QED
      BY Zenon, <3>1 DEF ReplicatorType, DbType
  <2> HIDE DEF lsn
  <2>5. ASSUME NEW m \in DOMAIN db'.events, NEW n \in DOMAIN db'.events, m < n
        PROVE  RowBefore(db'.events[m], db'.events[n])
    <3>1. m # n /\ (n \in DOMAIN db.events => m \in DOMAIN db.events)
      BY <2>4, <2>5
    <3>2. db'.events[m].id # db'.events[n].id
      BY Zenon, <2>1, <3>1 DEF UniqueIdentities
    <3>3. CASE m \in DOMAIN db.events /\ n \in DOMAIN db.events
      BY Zenon, <2>2, <2>5, <3>3
    <3>4. CASE m \in fresh /\ n \in fresh
      <4>1. db'.events[m].lsn = db'.events[n].lsn /\ db'.events[m].at < db'.events[n].at
        BY Zenon, <2>1, <2>5, <3>4
      <4> QED
        BY Zenon, <3>2, <4>1 DEF RowBefore
    <3>5. CASE m \in DOMAIN db.events /\ n \in fresh
      <4>1. db.events[m].lsn \in DOMAIN wal /\ db.events[m].lsn < DurableLSN
        BY Zenon, <3>5 DEF LogInv, SpooledIsCommitted
      <4>2. db.events[m].lsn \in Nat
        BY Zenon, <1>0, <4>1, SeqIndex
      <4>3. DurableLSN <= lsn /\ db'.events[n].lsn = lsn
        BY Zenon, <2>1, <3>5
      <4>4. db'.events[m].lsn = db.events[m].lsn
        BY Zenon, <3>5 DEF SameRows
      <4>5. \A x, y, z \in Nat : x < y /\ y <= z => x < z
        OBVIOUS
      <4>6. db'.events[m].lsn < db'.events[n].lsn
        BY Zenon, <1>0, <2>4, <4>1, <4>2, <4>3, <4>4, <4>5
      <4> QED
        BY Zenon, <3>2, <4>6 DEF RowBefore
    <3> QED
      BY Zenon, <3>1, <3>3, <3>4, <3>5
  <2>6. SpoolOrder'
    BY Zenon, <2>5 DEF SpoolOrder, RowBefore
  <2> QED
    BY Zenon, <1>1, <2>3, <2>6 DEF LogInv, TxLog
<1> QED
  BY Zenon, <1>2, <1>3

\* The spool is empty, and nothing is connected.
LEMMA InitLog == Init => LogInv
<1> SUFFICES ASSUME Init PROVE LogInv
  BY Zenon
<1>1. /\ db = EmptyDb /\ rep = [d \in Daemons |-> Replicator("off")]
      /\ tx = [d \in Daemons |-> NoTx]
  BY Zenon DEF Init, CaptureInit, DaemonInit
<1>2. DOMAIN db.events = {}
  BY <1>1 DEF EmptyDb
<1>3. ASSUME NEW d \in Daemons PROVE ReceivedInv(d) /\ ~tx[d].open
  <2>1. rep[d].pc = "off" /\ ~tx[d].open
    BY Zenon, <1>1 DEF Replicator, NoTx
  <2>2. "off" # "stream" /\ "off" # "persist"
    BY Zenon
  <2> QED
    BY Zenon, <2>1, <2>2 DEF ReceivedInv
<1> QED
  BY Zenon, <1>2, <1>3 DEF LogInv, SpooledIsCommitted, SpoolOrder
-----------------------------------------------------------------------------
(* Capture implements Outbox.                                              *)

\* Nothing is committed, and nothing taken over.
LEMMA InitOutbox == Init => Promise!OutboxInit
<1> SUFFICES ASSUME Init PROVE Promise!OutboxInit
  BY Zenon
<1>1. wal = << >> /\ db = EmptyDb /\ slot = [confirmed |-> FirstLSN, owner |-> Nobody]
  BY Zenon DEF Init, CaptureInit, DaemonInit
<1>2. CommittedIn(wal) = << >>
  BY <1>1 DEF CommittedIn
<1>3. EventsIn(db) = << >>
  BY <1>1 DEF EventsIn, EmptyDb
<1>4. DurableLSN - 1 = 0 /\ slot.confirmed - 1 = 0
  BY <1>1 DEF DurableLSN, EmptyDb, FirstLSN
<1> QED
  BY Zenon, <1>2, <1>3, <1>4 DEF Promise!OutboxInit

\* Nothing that Outbox speaks of changes.
LEMMA SameOutbox ==
  ASSUME UNCHANGED wal, SameLog(db, db'), slot'.confirmed = slot.confirmed
  PROVE  UNCHANGED Promise!outboxVars
<1>1. EventsIn(db') = EventsIn(db)
  BY Zenon DEF EventsIn, SameLog
<1>2. DurableLSN' = DurableLSN
  BY Zenon DEF DurableLSN, SameLog
<1> QED
  BY Zenon, <1>1, <1>2 DEF Promise!outboxVars

\* An application commits a transaction.
LEMMA AppCommitOutbox ==
  ASSUME TypeOK, NEW w \in WalItems, AppCommit(w)
  PROVE  Promise!OutboxNext
<1>1. /\ wal \in Seq(WalItems) /\ wal' = Append(wal, w) /\ UNCHANGED <<slot, db>>
  BY Zenon DEF AppCommit, daemonVars, TypeOK, CaptureType
<1> DEFINE T == {ProtectedEvents(v) : v \in WalItems}
<1>2. CommittedIn(wal) \in Seq(T) /\ Len(CommittedIn(wal)) = Len(wal)
  <2>1. \A i \in DOMAIN wal : ProtectedEvents(wal[i]) \in T
    BY <1>1
  <2> HIDE DEF T
  <2> QED
    BY <1>1, <2>1 DEF CommittedIn
<1>3. ProtectedEvents(w) \in T
  BY Zenon
<1>4. CommittedIn(wal') = Append(CommittedIn(wal), ProtectedEvents(w))
  <2> HIDE DEF T
  <2> QED
    BY <1>1, <1>2, <1>3 DEF CommittedIn
<1>5. DurableLSN' = DurableLSN
  BY Zenon, <1>1 DEF DurableLSN
<1>6. Promise!Commit(ProtectedEvents(w))
  BY Zenon, <1>1, <1>4, <1>5 DEF Promise!Commit
<1> QED
  BY Zenon, <1>3, <1>6 DEF Promise!OutboxNext

\* The server hears of a position: it releases what is taken over.
LEMMA HandleOutbox ==
  ASSUME TypeOK, CaptureInv, CaptureInv', UNCHANGED <<wal, db>>,
         slot.confirmed <= slot'.confirmed, slot'.confirmed \in Nat
  PROVE  Promise!OutboxNext
<1>1. DurableLSN' = DurableLSN /\ DurableLSN \in Nat
  BY Zenon, DurableLSNType DEF DurableLSN
<1>2. slot.confirmed \in Nat
  BY Zenon DEF TypeOK, CaptureType
<1>3. slot'.confirmed <= DurableLSN
  BY Zenon, <1>1 DEF CaptureInv, PositionInv
<1>4. slot'.confirmed - 1 \in (slot.confirmed - 1)..(DurableLSN - 1)
  BY <1>1, <1>2, <1>3
<1>5. Promise!Release
  BY Zenon, <1>1, <1>4 DEF Promise!Release
<1> QED
  BY Zenon, <1>5 DEF Promise!OutboxNext

\* The log is a sequence.
LEMMA EventsInDomain ==
  ASSUME NEW b, DbType(b)
  PROVE  DOMAIN EventsIn(b) = 1..Len(EventsIn(b))
<1> DEFINE S == [id : Identities, digest : Digests]
           row(n) == [id |-> b.events[n].id, digest |-> b.events[n].digest]
<1>1. b.events \in Seq(EventRow)
  BY Zenon DEF DbType
<1>2. \A n \in DOMAIN b.events : row(n) \in S
  <2>1. \A n \in DOMAIN b.events : b.events[n] \in EventRow
    BY <1>1
  <2> QED
    BY Zenon, <2>1 DEF EventRow
<1>3. EventsIn(b) = [n \in DOMAIN b.events |-> row(n)]
  BY Zenon DEF EventsIn
<1> HIDE DEF S, row
<1>4. EventsIn(b) \in Seq(S)
  BY <1>1, <1>2, <1>3
<1> HIDE <1>3
<1> QED
  BY <1>4

\* The commit of a batch adds to the log exactly what it lacks of a transaction,
\* in the order of its messages.
LEMMA CommitExtends ==
  ASSUME TypeOK, TypeOK', CaptureInv, CaptureInv', LogInv, NEW d \in Daemons, CommitBatch(d),
         db' # db, SameRows(db, db'),
         NEW lsn, lsn = rep[d].batch.lsn
  PROVE  Promise!Extends(EventsIn(db'), EventsIn(db), ProtectedEvents(wal[lsn]))
<1> DEFINE new == EventsIn(db')
           old == EventsIn(db)
           t == ProtectedEvents(wal[lsn])
           body == wal[lsn].body
           fresh == DOMAIN new \ DOMAIN old
           Event(m) == [id |-> m.id, digest |-> m.digest]
<1>1. /\ lsn < DurableLSN'
      /\ \A n \in DOMAIN db'.events \ DOMAIN db.events :
           RowCommitted(db'.events[n], wal, DurableLSN') /\ db'.events[n].lsn = lsn
      /\ \A m, n \in DOMAIN db'.events \ DOMAIN db.events :
           m < n => db'.events[m].at < db'.events[n].at
      /\ UniqueIdentities(db')
  BY Zenon, CommitRows
<1>2. UNCHANGED wal /\ rep[d].pc = "persist" /\ lsn \in DOMAIN wal
  BY Zenon DEF CommitBatch, AllInserted, CaptureInv, StreamInv, BatchInv
<1>3. /\ DOMAIN new = DOMAIN db'.events /\ DOMAIN old = DOMAIN db.events
      /\ \A n \in DOMAIN new : new[n] = Event(db'.events[n])
      /\ \A n \in DOMAIN old : old[n] = Event(db.events[n])
  BY Zenon DEF EventsIn
<1>4. DOMAIN new = 1..Len(new)
  BY Zenon, EventsInDomain DEF TypeOK, DaemonType
<1>5. /\ DOMAIN t \subseteq DOMAIN body
      /\ \A j \in DOMAIN body : j \in DOMAIN t <=> body[j].protected
      /\ \A j \in DOMAIN t : t[j] = Event(body[j])
  BY Zenon DEF ProtectedEvents
<1>0. /\ \A m, n : m.id = n.id /\ m.digest = n.digest => Event(m) = Event(n)
      /\ \A m : Event(m).id = m.id
  BY Zenon
<1> HIDE DEF new, old, t, Event
<1>6. DOMAIN old \subseteq DOMAIN new /\ \A k \in DOMAIN old : new[k] = old[k]
  <2> SUFFICES ASSUME NEW k \in DOMAIN old PROVE k \in DOMAIN new /\ new[k] = old[k]
    BY Zenon
  <2>1. /\ k \in DOMAIN new
        /\ db'.events[k].id = db.events[k].id /\ db'.events[k].digest = db.events[k].digest
    BY Zenon, <1>3 DEF SameRows
  <2>2. Event(db'.events[k]) = Event(db.events[k])
    BY Zenon, <1>0, <2>1
  <2>3. new[k] = Event(db'.events[k]) /\ old[k] = Event(db.events[k])
    BY Zenon, <1>3, <2>1
  <2> QED
    BY Zenon, <2>1, <2>2, <2>3
<1>7. ASSUME NEW j \in DOMAIN t PROVE \E k \in DOMAIN new : new[k] = t[j]
  <2>1. SpooledIn(db', body[j])
    <3>1. SpooledBelow(DurableLSN)'
      BY Zenon DEF CaptureInv, PositionInv
    <3>2. j \in DOMAIN body /\ body[j].protected
      BY Zenon, <1>5
    <3> QED
      BY Zenon, <1>1, <1>2, <3>1, <3>2 DEF SpooledBelow
  <2>2. PICK k \in DOMAIN db'.events :
          db'.events[k].id = body[j].id /\ db'.events[k].digest = body[j].digest
    BY Zenon, <2>1 DEF SpooledIn
  <2>3. Event(db'.events[k]) = Event(body[j])
    BY Zenon, <1>0, <2>2
  <2>4. k \in DOMAIN new /\ new[k] = Event(db'.events[k]) /\ t[j] = Event(body[j])
    BY Zenon, <1>3, <1>5
  <2> QED
    BY Zenon, <2>3, <2>4
<1>8. ASSUME NEW k \in fresh
      PROVE  /\ db'.events[k].at \in DOMAIN t
             /\ new[k] = t[db'.events[k].at]
  <2>1. RowCommitted(db'.events[k], wal, DurableLSN') /\ db'.events[k].lsn = lsn
    BY Zenon, <1>1, <1>3
  <2>2. /\ db'.events[k].at \in DOMAIN body /\ body[db'.events[k].at].protected
        /\ body[db'.events[k].at].id = db'.events[k].id
        /\ body[db'.events[k].at].digest = db'.events[k].digest
    BY Zenon, <2>1 DEF RowCommitted
  <2>3. Event(db'.events[k]) = Event(body[db'.events[k].at])
    BY Zenon, <1>0, <2>2
  <2>4. k \in DOMAIN new /\ new[k] = Event(db'.events[k])
    BY Zenon, <1>3
  <2>5. /\ db'.events[k].at \in DOMAIN t
        /\ t[db'.events[k].at] = Event(body[db'.events[k].at])
    BY Zenon, <1>5, <2>2
  <2> QED
    BY Zenon, <2>3, <2>4, <2>5
<1>9. \A k, m \in DOMAIN new : new[k].id = new[m].id => k = m
  <2>1. \A k \in DOMAIN new : new[k].id = db'.events[k].id
    BY Zenon, <1>0, <1>3
  <2> QED
    BY Zenon, <1>1, <1>3, <2>1 DEF UniqueIdentities
<1>10. ASSUME NEW k \in fresh, NEW m \in fresh, k < m
       PROVE  \E i, j \in DOMAIN t : i < j /\ new[k] = t[i] /\ new[m] = t[j]
  <2>1. db'.events[k].at < db'.events[m].at
    BY Zenon, <1>1, <1>3, <1>10
  <2> QED
    BY Zenon, <1>8, <2>1
<1>11. \A k \in fresh : \E j \in DOMAIN t : new[k] = t[j]
  BY Zenon, <1>8
<1> QED
  BY Zenon, <1>4, <1>6, <1>7, <1>9, <1>10, <1>11 DEF Promise!Extends, new, old, t

\* A commit takes over the next transaction that has events, or one that is
\* taken over already.
LEMMA CommitOutbox ==
  ASSUME TypeOK, TypeOK', CaptureInv, CaptureInv', LogInv, NEW d \in Daemons, CommitBatch(d),
         SameRows(db, db')
  PROVE  Promise!OutboxNext \/ UNCHANGED Promise!outboxVars
<1> DEFINE lsn == rep[d].batch.lsn
           end == rep[d].batch.end
<1>0. /\ UNCHANGED <<wal, slot>> /\ rep[d].pc = "persist" /\ tx[d].open
  BY Zenon DEF CommitBatch, AllInserted
<1>1. CASE db' = db
  <2>1. SameLog(db, db')
    BY Zenon, <1>1 DEF SameLog
  <2> QED
    BY Zenon, <1>0, <2>1, SameOutbox
<1>2. CASE db' # db
  <2>1. /\ DurableLSN' \in Nat /\ DurableLSN <= DurableLSN' /\ lsn < DurableLSN'
        /\ \A n \in DOMAIN db'.events \ DOMAIN db.events : DurableLSN <= lsn
    BY Zenon, <1>2, CommitRows
  <2>2. /\ lsn \in DOMAIN wal /\ end = lsn + 1 /\ NothingBetween(DurableLSN, lsn)
        /\ lsn \in Nat /\ end \in Nat /\ wal \in Seq(WalItems) /\ DbType(tx[d].db)
    <3>1. rep \in [Daemons -> ReplicatorType] /\ TxType(tx[d]) /\ wal \in Seq(WalItems)
      BY Zenon DEF TypeOK, CaptureType, DaemonType
    <3> QED
      BY Zenon, <1>0, <3>1 DEF CaptureInv, StreamInv, BatchInv, EndLSN, ReplicatorType, TxType
  <2>3. DurableLSN \in Nat /\ db.checkpoint \in Nat
    BY Zenon, DurableLSNType DEF TypeOK, DaemonType, DbType
  <2>4. CASE DurableLSN' = DurableLSN
    <3>1. DOMAIN db'.events = DOMAIN db.events
      <4>1. ~(DurableLSN <= lsn)
        <5> HIDE DEF lsn
        <5> QED
          BY <2>1, <2>2, <2>3, <2>4
      <4> QED
        BY Zenon, <2>1, <4>1 DEF SameRows
    <3>2. EventsIn(db') = EventsIn(db)
      BY Zenon, <3>1 DEF EventsIn, SameRows
    <3> QED
      BY Zenon, <1>0, <2>4, <3>2 DEF Promise!outboxVars
  <2>5. CASE DurableLSN' # DurableLSN
    <3>1. DurableLSN' = end
      <4>1. /\ db' = RaiseCheckpoint(tx[d].db, end)
            /\ lock = d \/ ~tx[d].stale
        BY Zenon, <1>2 DEF CommitBatch
      <4>2. tx[d].db.checkpoint = db.checkpoint
        BY Zenon, <1>0, <4>1 DEF CaptureInv, TransactionInv, LogGrows
      <4>3. db'.checkpoint = IF end > db.checkpoint THEN end ELSE db.checkpoint
        BY Zenon, <2>2, <4>1, <4>2, RaiseCheckpointType
      <4>4. end # 0
        <5> HIDE DEF end, lsn
        <5> QED
          BY <2>2
      <4>5. db'.checkpoint # db.checkpoint
        BY Zenon, <2>5 DEF DurableLSN
      <4> QED
        BY Zenon, <4>3, <4>4, <4>5 DEF DurableLSN
    <3> HIDE DEF end, lsn
    <3>2. DurableLSN' - 1 = lsn /\ lsn > DurableLSN - 1
      BY <2>1, <2>2, <2>3, <2>5, <3>1
    <3>3. lsn \in DOMAIN CommittedIn(wal) /\ CommittedIn(wal)[lsn] = ProtectedEvents(wal[lsn])
      BY Zenon, <2>2 DEF CommittedIn
    <3>4. \A i \in DurableLSN - 1 + 1 .. lsn - 1 : DOMAIN CommittedIn(wal)[i] = {}
      <4> SUFFICES ASSUME NEW i \in DurableLSN - 1 + 1 .. lsn - 1
                   PROVE  DOMAIN CommittedIn(wal)[i] = {}
        BY Zenon
      <4>1. DurableLSN >= 1
        BY Zenon, DurableLSNType
      <4>2. DurableLSN <= i /\ i < lsn /\ i \in DOMAIN wal
        BY <2>2, <2>3, <4>1
      <4>3. \A j \in DOMAIN wal[i].body : ~wal[i].body[j].protected
        BY Zenon, <2>2, <4>2 DEF NothingBetween
      <4>4. CommittedIn(wal)[i] = ProtectedEvents(wal[i])
        BY Zenon, <4>2 DEF CommittedIn
      <4> QED
        BY Zenon, <4>3, <4>4 DEF ProtectedEvents
    <3>5. Promise!Extends(EventsIn(db'), EventsIn(db), CommittedIn(wal)[lsn])
      BY Zenon, <1>2, <3>3, CommitExtends DEF lsn
    <3>6. Promise!Take(lsn)
      BY Zenon, <1>0, <3>2, <3>3, <3>4, <3>5 DEF Promise!Take
    <3> QED
      BY Zenon, <3>3, <3>6 DEF Promise!OutboxNext
  <2> QED
    BY Zenon, <2>4, <2>5
<1> QED
  BY Zenon, <1>1, <1>2

\* Every step of Relay is a step of Outbox, or leaves what Outbox speaks of.
LEMMA NextOutbox ==
  ASSUME TypeOK, TypeOK', CaptureInv, CaptureInv', StatusInv, LogInv, [Next]_vars,
         SameRows(db, db')
  PROVE  [Promise!OutboxNext]_(Promise!outboxVars)
<1>1. CASE QuietStep
  <2>1. UNCHANGED Promise!outboxVars
    BY Zenon, <1>1, SameOutbox DEF QuietStep
  <2> QED
    BY Zenon, <2>1
<1>2. SameLog(db, db)
  BY Zenon DEF SameLog
<1>3. CASE HandleStatus
  <2>1. slot.confirmed <= slot'.confirmed /\ UNCHANGED <<wal, db>>
    BY Zenon, <1>3, HandleSession DEF HandleStatus
  <2>2. slot'.confirmed \in Nat
    BY Zenon DEF TypeOK, CaptureType
  <2> QED
    BY Zenon, <2>1, <2>2, HandleOutbox
<1>4. CASE ReleaseSlot
  <2>1. slot'.confirmed = slot.confirmed /\ UNCHANGED <<wal, db>>
    BY Zenon, <1>4, NewSession DEF ReleaseSlot
  <2>2. UNCHANGED Promise!outboxVars
    BY Zenon, <1>2, <2>1, SameOutbox
  <2> QED
    BY Zenon, <2>2
<1>5. ASSUME NEW w \in WalItems, AppCommit(w) PROVE Promise!OutboxNext
  BY Zenon, <1>5, AppCommitOutbox
<1>6. ASSUME NEW d \in Daemons, CaptureMoves(d)
      PROVE  Promise!OutboxNext \/ UNCHANGED Promise!outboxVars
  <2>1. CASE CommitBatch(d)
    BY Zenon, <2>1, CommitOutbox
  <2>2. CASE ~CommitBatch(d)
    <3>1. UNCHANGED <<wal, db>>
      BY Zenon, <1>6, <2>2 DEF CaptureMoves, StartReplication, Receive, PersistEvent, BeginBatch,
                               SendStatus, Acknowledge, daemonVars, captureVars
    <3>2. slot'.confirmed = slot.confirmed
      <4>1. CASE StartReplication(d) /\ rep'[d].pc = "stream"
        BY Zenon, <4>1, NewSession
      <4>2. CASE ~(StartReplication(d) /\ rep'[d].pc = "stream")
        BY Zenon, <1>6, <2>2, <4>2 DEF CaptureMoves, Receive, PersistEvent, BeginBatch,
                                       SendStatus, Acknowledge, captureVars
      <4> QED
        BY Zenon, <4>1, <4>2
    <3> QED
      BY Zenon, <1>2, <3>1, <3>2, SameOutbox
  <2> QED
    BY Zenon, <2>1, <2>2
<1> QED
  BY Zenon, <1>1, <1>3, <1>4, <1>5, <1>6, NextQuiet
=============================================================================
