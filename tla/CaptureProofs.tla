--------------------------- MODULE CaptureProofs ---------------------------
(***************************************************************************)
(* CaptureInv is an invariant of Relay, for any number of daemons, any     *)
(* transactions and any faults; with it the type invariant, and what       *)
(* capture promises about the positions that PostgreSQL is told.           *)
(***************************************************************************)
EXTENDS RelayTypes

-----------------------------------------------------------------------------
(* Positions.                                                              *)

\* The durable position of the next state is a position.
LEMMA NextDurableLSNType ==
  ASSUME TypeOK'
  PROVE  DurableLSN' \in Nat /\ DurableLSN' >= 1 /\ db'.checkpoint <= DurableLSN'
  BY DEF TypeOK, DaemonType, DbType, DurableLSN, FirstLSN

\* A step that leaves the log alone leaves the positions alone.
LEMMA PositionFrame ==
  ASSUME TypeOK, PositionInv, SameLog(db, db'), UNCHANGED <<wal, slot, statuses>>
  PROVE  PositionInv' /\ DurableLSN' = DurableLSN
<1>1. DurableLSN' = DurableLSN
  BY Zenon DEF SameLog, DurableLSN
<1>2. SpooledBelow(DurableLSN)'
  BY <1>1 DEF PositionInv, SpooledBelow, SpooledIn, SameLog
<1> QED
  BY Zenon, <1>1, <1>2 DEF PositionInv

\* What is below one position is below a later one.
LEMMA ReleasedBelowDurable ==
  ASSUME TypeOK, PositionInv
  PROVE  AckedIsDurable /\ ReleasedIsSpooled
<1>1. slot.confirmed \in Nat /\ DurableLSN \in Nat /\ wal \in Seq(WalItems)
  BY Zenon, DurableLSNType DEF TypeOK, CaptureType
<1> QED
  BY <1>1 DEF PositionInv, AckedIsDurable, ReleasedIsSpooled, SpooledBelow

\* Positions are ordered.
LEMMA Transitive ==
  ASSUME NEW x \in Nat, NEW y \in Nat, NEW z \in Nat, x <= y, y <= z
  PROVE  x <= z
  OBVIOUS

\* A replicator between two transactions has nothing to account for.
LEMMA EmptyBuffer ==
  ASSUME NEW d, rep'[d].pc = "stream", rep'[d].pos = 0, ~rep'[d].sm.inTx
  PROVE  BufferInv(d)' /\ BatchInv(d)'
<1>1. ~(rep'[d].pos > 0)
  OBVIOUS
<1>2. BufferInv(d)'
  BY Zenon, <1>1 DEF BufferInv
<1>3. BatchInv(d)'
  BY Zenon DEF BatchInv
<1> QED
  BY Zenon, <1>2, <1>3
-----------------------------------------------------------------------------
(* Frames: what a step of one process leaves of another's state.           *)

\* Nobody else's replicator is disturbed by a higher durable position.
LEMMA StreamFrame ==
  ASSUME TypeOK, TypeOK', NEW q \in Daemons, StreamInv(q), UNCHANGED wal,
         rep'[q] = rep[q], DurableLSN <= DurableLSN'
  PROVE  StreamInv(q)'
<1>1. DurableLSN \in Nat /\ DurableLSN' \in Nat /\ wal \in Seq(WalItems)
  BY Zenon, DurableLSNType, NextDurableLSNType DEF TypeOK, CaptureType
<1>2. \A to \in Nat : NothingBetween(DurableLSN, to) => NothingBetween(DurableLSN, to)'
  <2>1. \A i \in DOMAIN wal : DurableLSN' <= i => DurableLSN <= i
    BY <1>1
  <2> QED
    BY Zenon, <2>1 DEF NothingBetween
<1>3. rep[q] \in ReplicatorType
  BY Zenon DEF TypeOK, CaptureType
<1>4. /\ rep[q].start \in Nat /\ rep[q].durable \in Nat /\ rep[q].cursor \in Nat
      /\ rep[q].batch.end \in Nat /\ rep[q].batch.lsn \in Nat
  BY Zenon, <1>3 DEF ReplicatorType
<1>5. ConnectionInv(q)'
  BY <1>1, <1>2, <1>4 DEF StreamInv, ConnectionInv, FirstLSN
<1> DEFINE r == rep[q]
           w == wal[r.cursor]
<1>6. BufferInv(q)'
  <2> SUFFICES ASSUME r'.pc = "stream"
               PROVE  /\ r'.pos > 0 => r'.cursor <= Len(wal') /\ r'.pos <= LastPos(w')
                      /\ r'.sm.inTx <=> r'.pos > 0 /\ w'.transactional
                      /\ r'.pos > 0 /\ w'.transactional => Holds(r'.sm.events, w'.body, r'.pos - 1)
                      /\ r'.pos > 0 /\ ~w'.transactional => \A j \in 1..r'.pos : ~w'.body[j].protected
    BY Zenon DEF BufferInv
  <2>1. r' = r /\ w' = w /\ wal' = wal
    BY Zenon
  <2>2. /\ r.pos > 0 => r.cursor <= Len(wal) /\ r.pos <= LastPos(w)
        /\ r.sm.inTx <=> r.pos > 0 /\ w.transactional
        /\ r.pos > 0 /\ w.transactional => Holds(r.sm.events, w.body, r.pos - 1)
        /\ r.pos > 0 /\ ~w.transactional => \A j \in 1..r.pos : ~w.body[j].protected
    BY Zenon, <2>1 DEF StreamInv, BufferInv
  <2> QED
    BY Zenon, <2>1, <2>2
<1>7. BatchInv(q)'
  <2>1. /\ r.pc = "persist" =>
             /\ r.batch.lsn \in DOMAIN wal /\ r.cursor = r.batch.lsn + 1
             /\ r.batch.end = EndLSN(r.batch.lsn)
             /\ NothingBetween(DurableLSN, r.batch.lsn)
             /\ Holds(r.batch.events, wal[r.batch.lsn].body, Len(wal[r.batch.lsn].body))
        /\ r.pc = "ack" => FirstLSN <= r.batch.end /\ r.batch.end <= DurableLSN
    BY Zenon DEF StreamInv, BatchInv
  <2>2. r.pc = "ack" => r.batch.end <= DurableLSN'
    BY Zenon, <1>1, <1>4, <2>1, Transitive
  <2>3. r.pc = "persist" => NothingBetween(DurableLSN, r.batch.lsn)'
    BY Zenon, <1>2, <1>4, <2>1
  <2> QED
    BY Zenon, <2>1, <2>2, <2>3 DEF BatchInv
<1> QED
  BY Zenon, <1>5, <1>6, <1>7 DEF StreamInv

\* A transaction survives what another process does: it either still sees the
\* current log, or is stale and does not hold the lock.
LEMMA TransactionFrame ==
  ASSUME TypeOK, NEW q \in Daemons, TransactionInv(q), rep'[q] = rep[q],
         tx'[q].open = tx[q].open, tx'[q].db = tx[q].db, tx'[q].next = tx[q].next,
         tx[q].stale => tx'[q].stale,
         (lock' = q) <=> (lock = q),
         mode'[q] = "down" => rep[q].pc = "off",
         db'.checkpoint \in Nat, db.checkpoint <= db'.checkpoint,
         SameLog(db, db') \/ (lock # q /\ tx'[q].stale) \/ ~tx[q].open
  PROVE  TransactionInv(q)'
<1>1. TxType(tx[q]) /\ db.checkpoint \in Nat
  BY Zenon DEF TypeOK, DaemonType, DbType
<1>2. tx[q].db.checkpoint \in Nat
  BY Zenon, <1>1 DEF TxType, DbType
<1>3. CASE ~tx[q].open
  BY Zenon, <1>3 DEF TransactionInv
<1>4. CASE tx[q].open
  <2>1. tx[q].db.checkpoint <= db'.checkpoint
    <3>1. tx[q].db.checkpoint <= db.checkpoint
      BY Zenon, <1>4 DEF TransactionInv
    <3> QED
      BY Zenon, <1>1, <1>2, <3>1, Transitive
  <2>2. lock' = q \/ ~tx'[q].stale => LogGrows(db', tx'[q].db)
    BY <1>4 DEF TransactionInv, LogGrows, SameLog
  <2> QED
    BY Zenon, <1>4, <2>1, <2>2 DEF TransactionInv
<1> QED
  BY Zenon, <1>3, <1>4

\* A replicator without a connection, after Goto.
LEMMA Unconnected ==
  ASSUME NEW d \in Daemons, NEW pc \in Pcs \ (Connected \cup {"connect"}),
         rep'[d] = Replicator(pc), ~tx'[d].open, lock' # d,
         mode'[d] = "down" => pc = "off"
  PROVE  StreamInv(d)' /\ TransactionInv(d)'
<1>1. rep'[d].pc = pc /\ pc \notin {"connect", "stream", "persist", "ack"}
  BY DEF Replicator, Connected
<1> QED
  BY Zenon, <1>1 DEF StreamInv, ConnectionInv, BufferInv, BatchInv, TransactionInv, Connected

\* A step of another process that spools nothing.
OthersKept(d) ==
  \A q \in Daemons \ {d} :
    /\ rep'[q] = rep[q] /\ mode'[q] = mode[q]
    /\ tx'[q].open = tx[q].open /\ tx'[q].db = tx[q].db /\ tx'[q].next = tx[q].next
    /\ tx[q].stale => tx'[q].stale
    /\ (lock' = q) <=> (lock = q)

\* A step of d that leaves the log and the positions of the server alone, and
\* after which the replicator of d is as the invariant says.
LEMMA OwnStep ==
  ASSUME TypeOK, TypeOK', CaptureInv, NEW d, SameLog(db, db'),
         UNCHANGED <<wal, slot, statuses>>, OthersKept(d),
         d \in Daemons => StreamInv(d)' /\ TransactionInv(d)'
  PROVE  CaptureInv'
<1>1. PositionInv' /\ DurableLSN' = DurableLSN
  BY Zenon, PositionFrame DEF CaptureInv
<1>2. ASSUME NEW q \in Daemons, q # d PROVE StreamInv(q)' /\ TransactionInv(q)'
  <2>1. db'.checkpoint \in Nat /\ db.checkpoint <= db'.checkpoint
    BY DEF TypeOK, DaemonType, DbType, SameLog
  <2>2. mode'[q] = "down" => rep[q].pc = "off"
    BY Zenon, <1>2 DEF CaptureInv, TransactionInv, OthersKept
  <2>3. TransactionInv(q)'
    BY Zenon, <1>2, <2>1, <2>2, TransactionFrame DEF CaptureInv, OthersKept
  <2>4. DurableLSN <= DurableLSN'
    BY <1>1, DurableLSNType
  <2>5. StreamInv(q)'
    BY Zenon, <1>2, <2>4, StreamFrame DEF CaptureInv, OthersKept
  <2> QED
    BY Zenon, <2>3, <2>5
<1> QED
  BY Zenon, <1>1, <1>2 DEF CaptureInv
-----------------------------------------------------------------------------
(* The steps.                                                              *)

\* Init satisfies the invariant.
LEMMA InitInv == Init => CaptureInv
<1> SUFFICES ASSUME Init PROVE CaptureInv
  BY Zenon
<1> USE DEF Init
<1>1. DurableLSN = 1 /\ wal = << >> /\ statuses = << >> /\ slot.confirmed = 1
  BY Zenon DEF DaemonInit, CaptureInit, EmptyDb, DurableLSN, FirstLSN
<1>2. PositionInv
  BY <1>1 DEF PositionInv, SpooledBelow, FirstLSN
<1>3. ASSUME NEW d \in Daemons PROVE StreamInv(d) /\ TransactionInv(d)
  <2>1. rep[d].pc = "off" /\ ~tx[d].open /\ lock # d
    BY Zenon, ProcessAssumption DEF DaemonInit, CaptureInit, NoTx, Replicator
  <2> QED
    BY Zenon, <2>1 DEF StreamInv, ConnectionInv, BufferInv, BatchInv, TransactionInv, Connected
<1> QED
  BY Zenon, <1>2, <1>3 DEF CaptureInv

\* The transactions of every process are kept by a step of PostgreSQL.
LEMMA ServerTransactions ==
  ASSUME TypeOK, CaptureInv, UNCHANGED <<daemonVars, rep>>
  PROVE  \A q \in Daemons : TransactionInv(q)'
  BY Zenon DEF CaptureInv, TransactionInv, daemonVars

\* An application commits: the new item lies above every position.
LEMMA AppCommitInv ==
  ASSUME TypeOK, TypeOK', CaptureInv, NEW w \in WalItems, AppCommit(w)
  PROVE  CaptureInv'
<1>1. /\ wal \in Seq(WalItems) /\ wal' = Append(wal, w) /\ Len(wal) \in Nat
      /\ UNCHANGED <<slot, statuses, rep, daemonVars, db>>
  BY DEF AppCommit, TypeOK, CaptureType, daemonVars
<1>2. /\ Len(wal') = Len(wal) + 1
      /\ \A i \in Nat : i <= Len(wal) /\ i >= 1 => i \in DOMAIN wal /\ wal'[i] = wal[i]
      /\ DOMAIN wal' \subseteq Nat \ {0} /\ DOMAIN wal \subseteq DOMAIN wal'
  BY <1>1
<1>3. DurableLSN' = DurableLSN /\ DurableLSN \in Nat
  BY Zenon, <1>1, DurableLSNType DEF DurableLSN, daemonVars
<1>4. PositionInv'
  <2>1. SpooledBelow(DurableLSN)'
    <3> SUFFICES ASSUME NEW i \in DOMAIN wal', i < DurableLSN,
                        NEW j \in DOMAIN wal'[i].body, wal'[i].body[j].protected
                 PROVE  SpooledIn(db', wal'[i].body[j])
      BY Zenon, <1>3 DEF SpooledBelow
    <3>1. i \in DOMAIN wal /\ wal'[i] = wal[i]
      BY <1>1, <1>2, <1>3 DEF CaptureInv, PositionInv
    <3> QED
      BY Zenon, <1>1, <3>1 DEF CaptureInv, PositionInv, SpooledBelow
  <2> QED
    BY <1>1, <1>2, <1>3, <2>1 DEF CaptureInv, PositionInv
<1>5. ASSUME NEW q \in Daemons PROVE StreamInv(q)'
  <2> DEFINE r == rep[q]
  <2>1. r' = r
    BY Zenon, <1>1
  <2>2. /\ r \in ReplicatorType /\ r.cursor \in Nat /\ r.pos \in Nat
        /\ r.batch.lsn \in Nat /\ r.sm.inTx \in BOOLEAN
    BY Zenon DEF TypeOK, CaptureType, ReplicatorType, MachineState
  <2>3. \A to \in Nat : to <= Len(wal) + 1 /\ NothingBetween(DurableLSN, to)
                          => NothingBetween(DurableLSN, to)'
    <3> SUFFICES ASSUME NEW to \in Nat, to <= Len(wal) + 1, NothingBetween(DurableLSN, to)
                 PROVE  NothingBetween(DurableLSN, to)'
      BY Zenon
    <3>1. ASSUME NEW i \in DOMAIN wal', i < to
          PROVE  i \in DOMAIN wal /\ wal'[i] = wal[i]
      <4>1. i \in Nat /\ i >= 1
        BY <1>2
      <4>2. i <= Len(wal)
        BY <1>1, <3>1, <4>1
      <4> QED
        BY Zenon, <1>2, <4>1, <4>2
    <3> QED
      BY Zenon, <1>3, <3>1 DEF NothingBetween
  <2>4. ConnectionInv(q)'
    BY <1>1, <1>2, <1>3, <2>1, <2>2, <2>3
    DEF CaptureInv, StreamInv, ConnectionInv, Connected
  <2>5. BufferInv(q)'
    <3> DEFINE v == wal[r.cursor]
    <3> SUFFICES ASSUME r.pc = "stream"
                 PROVE  /\ r.pos > 0 => r.cursor <= Len(wal') /\ r.pos <= LastPos(v')
                        /\ r.sm.inTx <=> r.pos > 0 /\ v'.transactional
                        /\ r.pos > 0 /\ v'.transactional => Holds(r.sm.events, v'.body, r.pos - 1)
                        /\ r.pos > 0 /\ ~v'.transactional => \A j \in 1..r.pos : ~v'.body[j].protected
      BY Zenon, <2>1 DEF BufferInv
    <3>1. /\ r.pos > 0 => r.cursor <= Len(wal) /\ r.pos <= LastPos(v)
          /\ r.sm.inTx <=> r.pos > 0 /\ v.transactional
          /\ r.pos > 0 /\ v.transactional => Holds(r.sm.events, v.body, r.pos - 1)
          /\ r.pos > 0 /\ ~v.transactional => \A j \in 1..r.pos : ~v.body[j].protected
      BY Zenon DEF CaptureInv, StreamInv, BufferInv
    <3>2. r.cursor >= 1
      BY Zenon, <2>2 DEF CaptureInv, StreamInv, ConnectionInv, Connected, FirstLSN
    <3>3. r.pos > 0 => v' = v
      BY Zenon, <1>2, <2>1, <2>2, <3>1, <3>2
    <3> HIDE DEF v
    <3>4. CASE r.pos > 0
      <4>1. r.cursor <= Len(wal')
        <5>1. r.cursor \in Nat /\ r.cursor <= Len(wal)
          BY Zenon, <2>2, <3>1, <3>4
        <5> HIDE DEF r
        <5>2. Len(wal) \in Nat /\ Len(wal') = Len(wal) + 1
          BY Zenon, <1>1, <1>2
        <5> QED
          BY <5>1, <5>2
      <4> QED
        BY Zenon, <3>1, <3>3, <3>4, <4>1
    <3>5. CASE ~(r.pos > 0)
      BY Zenon, <3>1, <3>5
    <3> QED
      BY Zenon, <3>4, <3>5
  <2>6. BatchInv(q)'
    <3>1. r.pc = "persist" => wal'[r.batch.lsn] = wal[r.batch.lsn] /\ r.batch.lsn <= Len(wal)
      <4>1. r.pc = "persist" => r.batch.lsn \in DOMAIN wal
        BY Zenon DEF CaptureInv, StreamInv, BatchInv
      <4>2. r.pc = "persist" => r.batch.lsn \in Nat /\ 1 <= r.batch.lsn /\ r.batch.lsn <= Len(wal)
        BY Zenon, <1>1, <4>1, SeqIndex
      <4> HIDE DEF r
      <4> QED
        BY Zenon, <1>2, <4>2
    <3>2. r.pc = "persist" =>
            /\ r.batch.lsn \in DOMAIN wal /\ r.cursor = r.batch.lsn + 1
            /\ r.batch.end = EndLSN(r.batch.lsn)
            /\ NothingBetween(DurableLSN, r.batch.lsn)
            /\ Holds(r.batch.events, wal[r.batch.lsn].body, Len(wal[r.batch.lsn].body))
      BY Zenon DEF CaptureInv, StreamInv, BatchInv
    <3>3. r.pc = "persist" => NothingBetween(DurableLSN, r.batch.lsn)'
      <4>1. r.pc = "persist" => r.batch.lsn <= Len(wal) + 1
        <5>1. Len(wal) \in Nat /\ Len(wal) <= Len(wal) + 1 /\ Len(wal) + 1 \in Nat
          BY <1>1
        <5> QED
          BY Zenon, <2>2, <3>1, <5>1, Transitive
      <4> QED
        BY Zenon, <2>1, <2>2, <2>3, <3>2, <4>1
    <3>4. r.pc = "ack" => FirstLSN <= r.batch.end /\ r.batch.end <= DurableLSN
      BY Zenon DEF CaptureInv, StreamInv, BatchInv
    <3> QED
      BY Zenon, <1>2, <1>3, <2>1, <3>1, <3>2, <3>3, <3>4 DEF BatchInv
  <2> QED
    BY Zenon, <2>4, <2>5, <2>6 DEF StreamInv
<1> QED
  BY Zenon, <1>1, <1>4, <1>5, ServerTransactions DEF CaptureInv, daemonVars

\* The walsender takes an acknowledgement, or goes away; the disk changes.
LEMMA ServerInv ==
  ASSUME TypeOK, TypeOK', CaptureInv, HandleStatus \/ ReleaseSlot \/ DiskChange
  PROVE  CaptureInv'
<1>1. UNCHANGED <<wal, rep, daemonVars, db>>
  BY Zenon DEF HandleStatus, ReleaseSlot, DiskChange, daemonVars
<1>2. DurableLSN' = DurableLSN /\ DurableLSN \in Nat
  BY Zenon, <1>1, DurableLSNType DEF DurableLSN
<1>3. /\ FirstLSN <= slot'.confirmed /\ slot'.confirmed <= DurableLSN
      /\ \A i \in DOMAIN statuses' : FirstLSN <= statuses'[i] /\ statuses'[i] <= DurableLSN
  <2>1. /\ statuses \in Seq(Nat)
        /\ slot \in [confirmed : Nat, owner : Daemons \cup {Nobody}]
    BY Zenon DEF TypeOK, CaptureType
  <2>2. /\ FirstLSN <= slot.confirmed /\ slot.confirmed <= DurableLSN
        /\ \A i \in DOMAIN statuses : FirstLSN <= statuses[i] /\ statuses[i] <= DurableLSN
    BY Zenon DEF CaptureInv, PositionInv
  <2>3. CASE HandleStatus
    <3>1. statuses # << >> /\ slot'.confirmed = statuses[1] /\ 1 \in DOMAIN statuses
      BY <2>1, <2>3 DEF HandleStatus
    <3>2. \A i \in DOMAIN statuses' : i + 1 \in DOMAIN statuses /\ statuses'[i] = statuses[i + 1]
      BY <2>1, <2>3 DEF HandleStatus
    <3> QED
      BY Zenon, <2>2, <3>1, <3>2
  <2>4. CASE ReleaseSlot
    BY <2>1, <2>2, <2>4 DEF ReleaseSlot
  <2>5. CASE DiskChange
    BY Zenon, <2>2, <2>5 DEF DiskChange
  <2> QED
    BY Zenon, <2>3, <2>4, <2>5
<1>4. PositionInv'
  BY Zenon, <1>1, <1>2, <1>3 DEF CaptureInv, PositionInv, SpooledBelow
<1>5. \A q \in Daemons : StreamInv(q)'
  BY <1>1, <1>2, StreamFrame DEF CaptureInv
<1> QED
  BY Zenon, <1>1, <1>4, <1>5, ServerTransactions DEF CaptureInv

\* d's replicator is left without a connection; a transaction it had open is
\* rolled back.
LEMMA DisconnectInv ==
  ASSUME TypeOK, TypeOK', CaptureInv, NEW d \in Daemons,
         NEW pc \in Pcs \ (Connected \cup {"connect"}), Goto(d, pc),
         SameLog(db, db'), UNCHANGED <<wal, slot, statuses>>,
         mode'[d] = "down" => pc = "off",
         \A q \in Daemons \ {d} : mode'[q] = mode[q],
         Rollback(d) \/ (UNCHANGED <<lock, tx>> /\ ~tx[d].open /\ lock # d)
  PROVE  CaptureInv'
<1>1. rep'[d] = Replicator(pc) /\ \A q \in Daemons \ {d} : rep'[q] = rep[q]
  BY Zenon DEF Goto, TypeOK, CaptureType
<1>2. ~tx'[d].open /\ lock' # d
  BY ProcessAssumption DEF Rollback, NoTx, TypeOK, DaemonType
<1>3. OthersKept(d)
  BY Zenon, <1>1, ProcessAssumption DEF Rollback, OthersKept, TypeOK, DaemonType
<1>4. StreamInv(d)' /\ TransactionInv(d)'
  BY Zenon, <1>1, <1>2, Unconnected
<1> QED
  BY Zenon, <1>3, <1>4, OwnStep

\* A cancelled context: what it changes for one daemon and for the others.
LEMMA CancelFrame ==
  ASSUME TypeOK, NEW d \in Daemons, NEW reason, Cancel(d, reason)
  PROVE  mode'[d] = "stopping" /\ \A q \in Daemons \ {d} : mode'[q] = mode[q]
  BY Zenon DEF Cancel, TypeOK, DaemonType

\* The failures of PersistCommittedBatch, and cancellation.
LEMMA StopInv ==
  ASSUME TypeOK, TypeOK', CaptureInv, NEW d \in Daemons,
         SnapshotConflict(d) \/ PersistBusy(d) \/ PersistFails(d) \/ StopCapture(d)
  PROVE  CaptureInv'
<1>1. Goto(d, "off") /\ Rollback(d) /\ UNCHANGED <<wal, slot, statuses, db>>
  BY Zenon DEF SnapshotConflict, PersistBusy, PersistFails, StopCapture, Fatal
<1>2. \A q \in Daemons \ {d} : mode'[q] = mode[q]
  BY Zenon, CancelFrame DEF SnapshotConflict, PersistBusy, PersistFails, StopCapture, Fatal
<1>3. "off" \in Pcs \ (Connected \cup {"connect"}) /\ SameLog(db, db')
  BY Zenon, <1>1 DEF Pcs, Connected, SameLog
<1> QED
  BY Zenon, <1>1, <1>2, <1>3, DisconnectInv

\* The connection is lost or given up, or the next attempt begins.
LEMMA ReconnectInv ==
  ASSUME TypeOK, TypeOK', CaptureInv, NEW d \in Daemons,
         \/ LoseConnection(d) \/ NoticeClosed(d) \/ Reconnect(d)
         \/ WaitForDisk(d) \/ RoutineDiskCheck(d)
  PROVE  CaptureInv'
<1>1. /\ rep[d].pc # "persist" /\ mode[d] = "running"
      /\ UNCHANGED <<wal, slot, statuses, daemonVars>>
      /\ \E pc \in {"backoff", "start", "paused"} : Goto(d, pc)
  BY Zenon DEF LoseConnection, NoticeClosed, Reconnect, WaitForDisk, RoutineDiskCheck
<1>2. {"backoff", "start", "paused"} \subseteq Pcs \ (Connected \cup {"connect"})
  BY Zenon DEF Pcs, Connected
<1>3. SameLog(db, db')
  BY Zenon, <1>1 DEF SameLog, daemonVars
<1>4. ~tx[d].open /\ lock # d
  BY Zenon, <1>1, NoTransaction
<1> QED
  BY Zenon, <1>1, <1>2, <1>3, <1>4, DisconnectInv DEF daemonVars

\* runOnce reads the slot and the checkpoint: the start position is durable.
LEMMA RunOnceInv ==
  ASSUME TypeOK, TypeOK', CaptureInv, NEW d \in Daemons, RunOnce(d)
  PROVE  CaptureInv'
<1>1. /\ mode[d] = "running" /\ ~tx[d].open /\ lock # d
      /\ UNCHANGED <<wal, slot, statuses, db, lock, tx>> /\ SameLog(db, db')
  BY Zenon, NoTransaction DEF RunOnce, SameLog
<1>2. CASE Goto(d, "paused") /\ UNCHANGED <<mode, exit>>
  <2>1. "paused" \in Pcs \ (Connected \cup {"connect"})
    BY Zenon DEF Pcs, Connected
  <2> QED
    BY Zenon, <1>1, <1>2, <2>1, DisconnectInv
<1>3. CASE Fatal(d, "slot_mismatch")
  <2>1. "off" \in Pcs \ (Connected \cup {"connect"})
    BY Zenon DEF Pcs, Connected
  <2>2. mode'[d] = "stopping" /\ \A q \in Daemons \ {d} : mode'[q] = mode[q]
    BY Zenon, <1>3, CancelFrame DEF Fatal
  <2> QED
    BY Zenon, <1>1, <1>3, <2>1, <2>2, DisconnectInv DEF Fatal
<1>4. CASE /\ rep' = [rep EXCEPT ![d] = [Replicator("connect") EXCEPT !.start = StartLSN]]
           /\ UNCHANGED <<mode, exit>>
  <2>1. rep'[d] = [Replicator("connect") EXCEPT !.start = StartLSN]
    BY Zenon, <1>4 DEF TypeOK, CaptureType
  <2>2. rep'[d].pc = "connect" /\ rep'[d].start = StartLSN
    BY Zenon, <2>1 DEF Replicator
  <2>3. FirstLSN <= StartLSN /\ StartLSN <= DurableLSN
    <3>1. db.checkpoint \in Nat
      BY Zenon DEF TypeOK, DaemonType, DbType
    <3>2. FirstLSN <= slot.confirmed /\ slot.confirmed <= DurableLSN
      BY Zenon DEF CaptureInv, PositionInv
    <3> QED
      BY <3>1, <3>2 DEF StartLSN, DurableLSN, FirstLSN
  <2>4. DurableLSN' = DurableLSN
    BY Zenon, <1>1 DEF DurableLSN
  <2>5. StreamInv(d)' /\ TransactionInv(d)'
    BY Zenon, <1>1, <1>4, <2>2, <2>3, <2>4
    DEF StreamInv, ConnectionInv, BufferInv, BatchInv, TransactionInv, Connected
  <2>6. OthersKept(d)
    BY Zenon, <1>1, <1>4 DEF OthersKept, TypeOK, CaptureType
  <2> QED
    BY Zenon, <1>1, <2>5, <2>6, OwnStep
<1> QED
  BY Zenon, <1>2, <1>3, <1>4 DEF RunOnce

\* A step that sends, or that opens a connection, leaves every transaction
\* alone, and the replicators of the other daemons.
LEMMA SendFrame ==
  ASSUME TypeOK, TypeOK', CaptureInv, NEW d \in Daemons, UNCHANGED <<wal, daemonVars, db>>,
         \A q \in Daemons \ {d} : rep'[q] = rep[q], rep[d].pc # "persist",
         mode[d] # "down", StreamInv(d)', slot'.confirmed = slot.confirmed,
         \A i \in DOMAIN statuses' : FirstLSN <= statuses'[i] /\ statuses'[i] <= DurableLSN
  PROVE  CaptureInv'
<1>1. DurableLSN' = DurableLSN /\ DurableLSN \in Nat
  BY Zenon, DurableLSNType DEF DurableLSN
<1>2. PositionInv'
  BY Zenon, <1>1 DEF CaptureInv, PositionInv, SpooledBelow
<1>3. ASSUME NEW q \in Daemons, q # d PROVE StreamInv(q)' /\ TransactionInv(q)'
  <2>1. rep'[q] = rep[q]
    BY Zenon, <1>3
  <2>2. StreamInv(q)'
    BY <1>1, <2>1, StreamFrame DEF CaptureInv
  <2>3. TransactionInv(q)'
    BY Zenon, <2>1 DEF CaptureInv, TransactionInv, daemonVars
  <2> QED
    BY Zenon, <2>2, <2>3
<1>4. TransactionInv(d)'
  BY Zenon, NoTransaction DEF TransactionInv, daemonVars
<1> QED
  BY Zenon, <1>2, <1>3, <1>4 DEF CaptureInv

\* START_REPLICATION: the stream begins at a durable position.
LEMMA StartReplicationInv ==
  ASSUME TypeOK, TypeOK', CaptureInv, NEW d \in Daemons, StartReplication(d)
  PROVE  CaptureInv'
<1>1. /\ mode[d] = "running" /\ rep[d].pc = "connect" /\ ~tx[d].open /\ lock # d
      /\ UNCHANGED <<wal, daemonVars, db, lock, tx, mode>> /\ SameLog(db, db')
  BY Zenon, NoTransaction DEF StartReplication, SameLog, daemonVars
<1>2. CASE Goto(d, "backoff") /\ UNCHANGED <<slot, statuses>>
  <2>1. "backoff" \in Pcs \ (Connected \cup {"connect"})
    BY Zenon DEF Pcs, Connected
  <2> QED
    BY Zenon, <1>1, <1>2, <2>1, DisconnectInv
<1>3. CASE ~(Goto(d, "backoff") /\ UNCHANGED <<slot, statuses>>)
  <2> DEFINE cursor == IF rep[d].start > slot.confirmed THEN rep[d].start ELSE slot.confirmed
             durable == IF db.checkpoint # 0 THEN db.checkpoint ELSE rep[d].start
             r == [Replicator("stream") EXCEPT !.start = rep[d].start, !.cursor = cursor,
                                               !.durable = durable]
  <2>1. /\ rep' = [rep EXCEPT ![d] = r] /\ statuses' = << >>
        /\ slot' = [slot EXCEPT !.owner = d]
    BY Zenon, <1>3 DEF StartReplication
  <2>2. slot'.confirmed = slot.confirmed
    BY Zenon, <2>1 DEF TypeOK, CaptureType
  <2>3. /\ FirstLSN <= rep[d].start /\ rep[d].start <= DurableLSN
        /\ FirstLSN <= slot.confirmed /\ slot.confirmed <= DurableLSN
        /\ DurableLSN <= Len(wal) + 1 /\ DurableLSN \in Nat /\ Len(wal) \in Nat
        /\ rep[d].start \in Nat /\ slot.confirmed \in Nat /\ db.checkpoint \in Nat
    <3>1. FirstLSN <= rep[d].start /\ rep[d].start <= DurableLSN
      BY Zenon, <1>1 DEF CaptureInv, StreamInv, ConnectionInv
    <3>2. /\ FirstLSN <= slot.confirmed /\ slot.confirmed <= DurableLSN
          /\ DurableLSN <= Len(wal) + 1
      BY Zenon DEF CaptureInv, PositionInv
    <3>3. /\ rep[d].start \in Nat /\ slot.confirmed \in Nat /\ db.checkpoint \in Nat
          /\ Len(wal) \in Nat
      <4>1. rep[d] \in ReplicatorType /\ slot.confirmed \in Nat /\ Len(wal) \in Nat
        BY DEF TypeOK, CaptureType
      <4> QED
        BY Zenon, <4>1 DEF ReplicatorType, TypeOK, DaemonType, DbType
    <3> QED
      BY Zenon, <3>1, <3>2, <3>3, DurableLSNType
  <2>4. /\ FirstLSN <= cursor /\ cursor <= DurableLSN /\ cursor \in Nat
        /\ FirstLSN <= durable /\ durable <= DurableLSN
    <3>1. FirstLSN <= DurableLSN /\ DurableLSN <= DurableLSN
      BY DurableLSNType DEF FirstLSN
    <3>2. cursor = rep[d].start \/ cursor = slot.confirmed
      BY Zenon
    <3>3. durable = DurableLSN \/ durable = rep[d].start
      BY Zenon DEF DurableLSN
    <3> HIDE DEF cursor, durable
    <3> QED
      BY Zenon, <2>3, <3>1, <3>2, <3>3
  <2>5. DurableLSN' = DurableLSN
    BY Zenon, <1>1 DEF DurableLSN
  <2> HIDE DEF cursor, durable
  <2>6. /\ r.pc = "stream" /\ r.start = rep[d].start /\ r.cursor = cursor
        /\ r.durable = durable /\ r.pos = 0 /\ ~r.sm.inTx
    BY Zenon DEF Replicator, NewStateMachine
  <2>7. rep'[d] = r /\ \A q \in Daemons \ {d} : rep'[q] = rep[q]
    BY Zenon, <2>1 DEF TypeOK, CaptureType
  <2> HIDE DEF r
  <2>8. NothingBetween(DurableLSN, rep[d].cursor)'
    <3>1. \A i \in DOMAIN wal : ~(DurableLSN <= i /\ i < cursor)
      BY <2>3, <2>4 DEF TypeOK, CaptureType
    <3> QED
      BY Zenon, <1>1, <2>5, <2>6, <2>7, <3>1 DEF NothingBetween
  <2>9. ConnectionInv(d)'
    <3>1. cursor <= Len(wal) + 1
      BY <2>3, <2>4
    <3> QED
      BY Zenon, <1>1, <2>3, <2>4, <2>5, <2>6, <2>7, <2>8, <3>1 DEF ConnectionInv, Connected
  <2>10. StreamInv(d)'
    BY Zenon, <2>6, <2>7, <2>9, EmptyBuffer DEF StreamInv
  <2> QED
    <3>1. \A i \in DOMAIN statuses' : FALSE
      BY <2>1
    <3> QED
      BY Zenon, <1>1, <2>2, <2>7, <2>10, <3>1, SendFrame
<1> QED
  BY Zenon, <1>2, <1>3

\* A position sent to the server joins those that are in flight.
LEMMA StatusBounds ==
  ASSUME TypeOK, PositionInv, NEW d \in Daemons, NEW lsn \in Nat, Status(d, lsn),
         FirstLSN <= lsn, lsn <= DurableLSN
  PROVE  \A i \in DOMAIN statuses' : FirstLSN <= statuses'[i] /\ statuses'[i] <= DurableLSN
<1>1. statuses \in Seq(Nat)
  BY Zenon DEF TypeOK, CaptureType
<1>2. \A i \in DOMAIN statuses' : \/ i \in DOMAIN statuses /\ statuses'[i] = statuses[i]
                                  \/ statuses'[i] = lsn
  BY <1>1 DEF Status
<1> QED
  BY Zenon, <1>2 DEF PositionInv

\* A status update repeats a position that is durable.
LEMMA SendStatusInv ==
  ASSUME TypeOK, TypeOK', CaptureInv, NEW d \in Daemons, SendStatus(d)
  PROVE  CaptureInv'
<1>1. /\ mode[d] = "running" /\ rep[d].pc = "stream"
      /\ UNCHANGED <<wal, daemonVars, db, slot, rep>> /\ Status(d, rep[d].durable)
  BY Zenon DEF SendStatus, daemonVars
<1>2. rep[d].durable \in Nat /\ FirstLSN <= rep[d].durable /\ rep[d].durable <= DurableLSN
  BY Zenon, <1>1 DEF CaptureInv, StreamInv, ConnectionInv, Connected, TypeOK, CaptureType,
              ReplicatorType
<1>3. \A i \in DOMAIN statuses' : FirstLSN <= statuses'[i] /\ statuses'[i] <= DurableLSN
  BY Zenon, <1>1, <1>2, StatusBounds DEF CaptureInv
<1>4. DurableLSN' = DurableLSN /\ DurableLSN \in Nat
  BY Zenon, <1>1, DurableLSNType DEF DurableLSN
<1>5. StreamInv(d)'
  <2>1. StreamInv(d) /\ UNCHANGED wal /\ rep'[d] = rep[d]
    BY Zenon, <1>1 DEF CaptureInv
  <2>2. DurableLSN <= DurableLSN'
    BY <1>4
  <2> QED
    BY Zenon, <2>1, <2>2, StreamFrame
<1> QED
  BY Zenon, <1>1, <1>3, <1>5, SendFrame

\* The acknowledgement of a batch is its durable position.
LEMMA AcknowledgeInv ==
  ASSUME TypeOK, TypeOK', CaptureInv, NEW d \in Daemons, Acknowledge(d)
  PROVE  CaptureInv'
<1> DEFINE r == rep[d]
           s == [r EXCEPT !.pc = "stream", !.batch = NoBatch, !.durable = r.batch.end]
<1>1. /\ r.pc = "ack" /\ UNCHANGED <<wal, daemonVars, db, slot>>
      /\ Status(d, r.batch.end) /\ rep' = [rep EXCEPT ![d] = s]
  BY Zenon DEF Acknowledge, daemonVars
<1>2. r \in ReplicatorType /\ r.batch.end \in Nat
  BY Zenon DEF TypeOK, CaptureType, ReplicatorType
<1>3. /\ FirstLSN <= r.batch.end /\ r.batch.end <= DurableLSN
      /\ NothingBetween(DurableLSN, r.cursor) /\ r.pos = 0 /\ ~r.sm.inTx
      /\ FirstLSN <= r.start /\ r.start <= DurableLSN
      /\ FirstLSN <= r.cursor /\ r.cursor <= Len(wal) + 1
  BY Zenon, <1>1 DEF CaptureInv, StreamInv, ConnectionInv, BatchInv, Connected
<1>4. \A i \in DOMAIN statuses' : FirstLSN <= statuses'[i] /\ statuses'[i] <= DurableLSN
  BY Zenon, <1>1, <1>2, <1>3, StatusBounds DEF CaptureInv
<1>5. DurableLSN' = DurableLSN
  BY Zenon, <1>1 DEF DurableLSN
<1>6. /\ s.pc = "stream" /\ s.durable = r.batch.end /\ s.start = r.start
      /\ s.cursor = r.cursor /\ s.pos = r.pos /\ s.sm = r.sm
  BY Zenon, <1>2 DEF ReplicatorType
<1>7. rep'[d] = s /\ \A q \in Daemons \ {d} : rep'[q] = rep[q]
  BY Zenon, <1>1 DEF TypeOK, CaptureType
<1> HIDE DEF s
<1>8. StreamInv(d)'
  <2>1. NothingBetween(DurableLSN, rep[d].cursor)'
    <3>1. rep'[d].cursor = r.cursor /\ wal' = wal
      BY Zenon, <1>1, <1>6, <1>7
    <3> QED
      BY Zenon, <1>3, <1>5, <3>1 DEF NothingBetween
  <2>2. ConnectionInv(d)'
    BY Zenon, <1>1, <1>3, <1>5, <1>6, <1>7, <2>1 DEF ConnectionInv, Connected
  <2> QED
    BY Zenon, <1>3, <1>6, <1>7, <2>2, EmptyBuffer DEF StreamInv
<1>9. mode[d] # "down" /\ r.pc # "persist"
  BY Zenon, <1>1 DEF CaptureInv, TransactionInv
<1> QED
  BY Zenon, <1>1, <1>4, <1>7, <1>8, <1>9, SendFrame

\* The transaction begins on the current database.
LEMMA BeginBatchInv ==
  ASSUME TypeOK, TypeOK', CaptureInv, NEW d \in Daemons, BeginBatch(d)
  PROVE  CaptureInv'
<1>1. /\ mode[d] = "running" /\ rep[d].pc = "persist"
      /\ UNCHANGED <<wal, slot, statuses, rep, db, mode>>
      /\ tx' = [tx EXCEPT ![d] = OpenTx(db, 1, FALSE)]
      /\ lock' = lock \/ (lock = Nobody /\ lock' = d)
  BY Zenon DEF BeginBatch, captureVars
<1>2. /\ tx'[d] = OpenTx(db, 1, FALSE) /\ \A q \in Daemons \ {d} : tx'[q] = tx[q]
  BY Zenon, <1>1 DEF TypeOK, DaemonType
<1>3. /\ tx'[d].open /\ tx'[d].db = db /\ tx'[d].next = 1
  BY <1>2 DEF OpenTx
<1>4. SameLog(db, db') /\ LogGrows(db', tx'[d].db)
  BY Zenon, <1>1, <1>3 DEF SameLog, LogGrows
<1>5. TransactionInv(d)'
  <2>1. rep[d].batch.events \in Seq(BufferedEvent) /\ db.checkpoint \in Nat
    <3>1. rep[d] \in ReplicatorType
      BY Zenon DEF TypeOK, CaptureType
    <3> QED
      BY Zenon, <3>1 DEF ReplicatorType, TypeOK, DaemonType, DbType
  <2>2. \A k \in DOMAIN rep[d].batch.events : ~(k < 1)
    <3>1. \A f \in Seq(BufferedEvent) : \A k \in DOMAIN f : ~(k < 1)
      OBVIOUS
    <3> QED
      BY Zenon, <2>1, <3>1
  <2> QED
    <3>1. tx'[d].next > 0 /\ tx'[d].db.checkpoint <= db'.checkpoint
      <4>1. db' = db
        BY Zenon, <1>1
      <4>2. tx'[d].next > 0
        BY <1>3
      <4>3. db.checkpoint <= db.checkpoint
        BY <2>1
      <4> QED
        BY Zenon, <4>1, <4>2, <4>3, <1>3
    <3>2. \A k \in DOMAIN rep'[d].batch.events :
            k < tx'[d].next => SpooledIn(tx'[d].db, rep'[d].batch.events[k])
      BY Zenon, <1>1, <1>3, <2>2
    <3> QED
      BY Zenon, <1>1, <1>3, <1>4, <3>1, <3>2 DEF TransactionInv
<1>6. OthersKept(d)
  BY Zenon, <1>1, <1>2, ProcessAssumption DEF OthersKept
<1>7. StreamInv(d)'
  <2>1. DurableLSN' = DurableLSN /\ DurableLSN \in Nat
    BY Zenon, <1>1, DurableLSNType DEF DurableLSN
  <2>2. StreamInv(d) /\ UNCHANGED wal /\ rep'[d] = rep[d]
    BY Zenon, <1>1 DEF CaptureInv
  <2>3. DurableLSN <= DurableLSN'
    BY <2>1
  <2> QED
    BY Zenon, <2>2, <2>3, StreamFrame
<1> QED
  BY Zenon, <1>1, <1>4, <1>5, <1>6, <1>7, OwnStep

\* One more event of the batch is in the transaction.
LEMMA PersistEventInv ==
  ASSUME TypeOK, TypeOK', CaptureInv, NEW d \in Daemons, PersistEvent(d)
  PROVE  CaptureInv'
<1> DEFINE t == tx[d]
           batch == rep[d].batch
           e == batch.events[t.next]
           b == SpoolEvent(t.db, e, batch.lsn)
<1>1. /\ rep[d].pc = "persist" /\ t.open /\ t.next <= Len(batch.events)
      /\ UNCHANGED <<wal, slot, statuses, db>> /\ SameLog(db, db')
  BY Zenon DEF PersistEvent, SameLog
<1>2. CASE IdentityConflict(t.db, e)
  <2>1. Rollback(d) /\ Goto(d, "off") /\ Cancel(d, "identity_conflict")
    BY Zenon, <1>2 DEF PersistEvent, Fatal
  <2>2. "off" \in Pcs \ (Connected \cup {"connect"})
    BY Zenon DEF Pcs, Connected
  <2>3. \A q \in Daemons \ {d} : mode'[q] = mode[q]
    BY Zenon, <2>1, CancelFrame
  <2> QED
    BY Zenon, <1>1, <2>1, <2>2, <2>3, DisconnectInv
<1>3. CASE ~IdentityConflict(t.db, e)
  <2>1. /\ tx' = [tx EXCEPT ![d] = OpenTx(b, t.next + 1, t.stale)]
        /\ UNCHANGED <<rep, lock, mode>>
    BY Zenon, <1>3 DEF PersistEvent
  <2>2. /\ tx'[d] = OpenTx(b, t.next + 1, t.stale) /\ \A q \in Daemons \ {d} : tx'[q] = tx[q]
    BY Zenon, <2>1 DEF TypeOK, DaemonType
  <2>3. /\ tx'[d].open /\ tx'[d].db = b /\ tx'[d].next = t.next + 1 /\ tx'[d].stale = t.stale
    <3> HIDE DEF t, batch, e, b
    <3> QED
      BY <2>2 DEF OpenTx
  <2>4. /\ TxType(t) /\ DbType(t.db) /\ t.next \in Nat /\ t.next > 0
        /\ batch.events \in Seq(BufferedEvent) /\ batch.lsn \in Nat
    BY Zenon, <1>1 DEF TypeOK, DaemonType, TxType, CaptureType, ReplicatorType, CaptureInv,
                TransactionInv
  <2>5. e \in BufferedEvent
    <3>1. /\ t.next \in Nat /\ t.next > 0 /\ t.next <= Len(batch.events)
          /\ batch.events \in Seq(BufferedEvent)
      BY Zenon, <1>1, <2>4
    <3> HIDE DEF t, batch
    <3>2. t.next \in DOMAIN batch.events
      BY <3>1
    <3> QED
      BY <3>1, <3>2
  <2>6. LogGrows(t.db, b) /\ SpooledIn(b, e)
    <3> HIDE DEF t, batch, e
    <3>1. e.id \in Identities /\ e.digest \in Digests /\ e.at \in Nat
      BY Zenon, <2>5 DEF BufferedEvent
    <3> QED
      BY Zenon, <1>3, <2>4, <3>1, SpoolEventGrows
  <2>7. /\ t.db.checkpoint <= db.checkpoint
        /\ \A k \in DOMAIN batch.events : k < t.next => SpooledIn(t.db, batch.events[k])
        /\ lock = d \/ ~t.stale => LogGrows(db, t.db)
        /\ mode[d] # "down"
    BY Zenon, <1>1 DEF CaptureInv, TransactionInv
  <2> HIDE DEF b
  <2>8. \A k \in DOMAIN batch.events : k < t.next + 1 => SpooledIn(b, batch.events[k])
    <3> SUFFICES ASSUME NEW k \in DOMAIN batch.events, k < t.next + 1
                 PROVE  SpooledIn(b, batch.events[k])
      BY Zenon
    <3>1. k < t.next \/ k = t.next
      <4>1. k \in Nat /\ t.next \in Nat
        BY Zenon, <2>4, SeqIndex
      <4> HIDE DEF t, batch
      <4> QED
        BY <4>1
    <3>2. CASE k < t.next
      BY Zenon, <2>6, <2>7, <3>2, GrowingLog
    <3>3. CASE k = t.next
      BY Zenon, <2>6, <3>3
    <3> QED
      BY Zenon, <3>1, <3>2, <3>3
  <2>9. /\ lock = d \/ ~t.stale => LogGrows(db, b)
        /\ b.checkpoint <= db.checkpoint
    BY Zenon, <2>6, <2>7, GrowingLog DEF LogGrows
  <2>10. TransactionInv(d)'
    <3>1. /\ rep'[d] = rep[d] /\ mode'[d] # "down" /\ tx'[d].open
          /\ (lock' = d <=> lock = d) /\ db' = db
      BY Zenon, <1>1, <2>1, <2>3, <2>7
    <3>2. tx'[d].next > 0
      BY <2>3, <2>4
    <3>3. tx'[d].db.checkpoint <= db'.checkpoint
      BY Zenon, <2>3, <2>9, <3>1
    <3>4. \A k \in DOMAIN rep'[d].batch.events :
            k < tx'[d].next => SpooledIn(tx'[d].db, rep'[d].batch.events[k])
      BY Zenon, <2>3, <2>8, <3>1
    <3>5. lock' = d \/ ~tx'[d].stale => LogGrows(db', tx'[d].db)
      BY Zenon, <2>3, <2>9, <3>1
    <3> QED
      BY Zenon, <1>1, <3>1, <3>2, <3>3, <3>4, <3>5 DEF TransactionInv
  <2>11. OthersKept(d)
    BY Zenon, <2>1, <2>2 DEF OthersKept
  <2>12. StreamInv(d)'
    <3>1. DurableLSN' = DurableLSN /\ DurableLSN \in Nat
      BY Zenon, <1>1, DurableLSNType DEF DurableLSN
    <3>2. StreamInv(d) /\ UNCHANGED wal /\ rep'[d] = rep[d]
      BY Zenon, <1>1, <2>1 DEF CaptureInv
    <3>3. DurableLSN <= DurableLSN'
      BY <3>1
    <3> QED
      BY Zenon, <3>2, <3>3, StreamFrame
  <2> QED
    BY Zenon, <1>1, <2>10, <2>11, <2>12, OwnStep
<1> QED
  BY Zenon, <1>2, <1>3

\* The commit of PersistCommittedBatch.
LEMMA CommitBatchInv ==
  ASSUME TypeOK, TypeOK', CaptureInv, NEW d \in Daemons, CommitBatch(d)
  PROVE  CaptureInv'
<1> DEFINE r == rep[d]
           b == RaiseCheckpoint(tx[d].db, r.batch.end)
           new == IF lock = d \/ MovesCheckpoint(d) THEN b ELSE db
<1>1. /\ AllInserted(d) /\ r.pc = "persist" /\ tx[d].open
      /\ db' = new /\ tx' = [SnapshotsAfter(new) EXCEPT ![d] = NoTx]
      /\ rep' = [rep EXCEPT ![d].pc = "ack", ![d].batch.end = b.checkpoint]
      /\ lock' = IF lock = d THEN Nobody ELSE lock
      /\ UNCHANGED <<wal, slot, statuses, mode>>
  BY Zenon DEF CommitBatch, AllInserted
<1>2. /\ r \in ReplicatorType /\ TxType(tx[d]) /\ wal \in Seq(WalItems)
      /\ db.checkpoint \in Nat /\ rep \in [Daemons -> ReplicatorType]
  BY Zenon DEF TypeOK, CaptureType, DaemonType, DbType
<1>3. /\ r.batch.lsn \in Nat /\ r.batch.end \in Nat /\ DbType(tx[d].db)
      /\ r.start \in Nat /\ r.durable \in Nat /\ r.cursor \in Nat
      /\ tx[d].db.checkpoint \in Nat
  BY Zenon, <1>2 DEF ReplicatorType, TxType, DbType
<1>4. /\ FirstLSN <= r.start /\ r.start <= DurableLSN
      /\ FirstLSN <= r.durable /\ r.durable <= DurableLSN
      /\ FirstLSN <= r.cursor /\ r.cursor <= Len(wal) + 1
      /\ r.pos = 0 /\ ~r.sm.inTx
      /\ r.cursor = r.batch.lsn + 1 /\ r.batch.end = r.batch.lsn + 1
      /\ tx[d].db.checkpoint <= db.checkpoint
      /\ mode[d] # "down"
      /\ lock = d \/ ~tx[d].stale => LogGrows(db, tx[d].db)
  BY Zenon, <1>1 DEF CaptureInv, StreamInv, ConnectionInv, BatchInv, TransactionInv, Connected,
              EndLSN
<1>5. b.checkpoint = IF r.batch.end > tx[d].db.checkpoint THEN r.batch.end
                     ELSE tx[d].db.checkpoint
  BY Zenon, <1>3, RaiseCheckpointType
<1> HIDE DEF b
<1>6. /\ DurableLSN \in Nat /\ DurableLSN >= 1 /\ db.checkpoint <= DurableLSN
      /\ DurableLSN' \in Nat
  BY Zenon, DurableLSNType, NextDurableLSNType
\* The new positions, with or without a write.
<1>7. /\ DurableLSN <= DurableLSN' /\ db.checkpoint <= db'.checkpoint
      /\ DurableLSN' <= Len(wal) + 1 /\ SpooledBelow(DurableLSN)'
      /\ FirstLSN <= b.checkpoint /\ b.checkpoint <= DurableLSN'
      /\ r.cursor <= DurableLSN' /\ b.checkpoint \in Nat
  <2>1. CASE lock = d \/ MovesCheckpoint(d)
    <3>1. db' = b
      BY Zenon, <1>1, <2>1
    <3>2. LogGrows(db, tx[d].db)
      BY Zenon, <1>4, <2>1 DEF CommitBatch
    <3>3. /\ b.checkpoint \in Nat /\ b.checkpoint >= DurableLSN
          /\ b.checkpoint >= r.batch.end /\ b.checkpoint <= Len(wal) + 1
          /\ \A i \in DOMAIN wal : i < b.checkpoint =>
               \A j \in DOMAIN wal[i].body :
                 wal[i].body[j].protected => SpooledIn(b, wal[i].body[j])
      BY Zenon, <1>1, <3>2, CommitCovers DEF b
    <3>4. DurableLSN' = b.checkpoint
      <4>1. b.checkpoint # 0
        BY <1>6, <3>3
      <4> QED
        BY Zenon, <3>1, <4>1 DEF DurableLSN
    <3>5. SpooledBelow(DurableLSN)'
      BY Zenon, <1>1, <3>1, <3>3, <3>4 DEF SpooledBelow
    <3>6. Len(wal) \in Nat
      BY <1>2
    <3>7. /\ db.checkpoint <= b.checkpoint /\ 1 <= b.checkpoint
          /\ b.checkpoint <= b.checkpoint /\ r.cursor <= b.checkpoint
      <4>1. r.cursor = r.batch.end
        BY Zenon, <1>4
      <4>2. DurableLSN \in Nat /\ DurableLSN >= 1 /\ db.checkpoint <= DurableLSN
        BY Zenon, <1>6
      <4>3. db.checkpoint \in Nat /\ r.batch.end \in Nat
        BY Zenon, <1>2, <1>3
      <4> HIDE DEF r
      <4> QED
        BY <3>3, <4>1, <4>2, <4>3
    <3> QED
      BY Zenon, <3>1, <3>3, <3>4, <3>5, <3>7 DEF FirstLSN
  <2>2. CASE ~(lock = d \/ MovesCheckpoint(d))
    <3>1. db' = db /\ wal' = wal
      BY Zenon, <1>1, <2>2
    <3>2. DurableLSN' = DurableLSN
      BY Zenon, <3>1 DEF DurableLSN
    <3>3. SpooledBelow(DurableLSN)' /\ DurableLSN <= Len(wal) + 1
      BY Zenon, <3>1, <3>2 DEF SpooledBelow, CaptureInv, PositionInv
    <3>4. b.checkpoint = tx[d].db.checkpoint /\ r.batch.end <= tx[d].db.checkpoint
      <4>1. \A x, y \in Nat : ~(x > y) => x <= y
        OBVIOUS
      <4>2. ~(r.batch.end > tx[d].db.checkpoint)
        BY Zenon, <2>2 DEF MovesCheckpoint
      <4> QED
        BY Zenon, <1>3, <1>5, <4>1, <4>2
    <3>5. DurableLSN <= DurableLSN /\ db.checkpoint <= db.checkpoint
      BY <1>2, <1>6
    <3>6. /\ FirstLSN <= b.checkpoint /\ b.checkpoint <= DurableLSN
          /\ r.cursor <= DurableLSN /\ b.checkpoint \in Nat
      <4>1. /\ r.cursor = r.batch.end /\ r.batch.end = r.batch.lsn + 1
            /\ tx[d].db.checkpoint <= db.checkpoint
        BY Zenon, <1>4
      <4>2. DurableLSN \in Nat /\ db.checkpoint <= DurableLSN /\ db.checkpoint \in Nat
        BY Zenon, <1>2, <1>6
      <4>3. r.batch.lsn \in Nat /\ tx[d].db.checkpoint \in Nat
        BY Zenon, <1>3
      <4> HIDE DEF r
      <4> QED
        BY <3>4, <4>1, <4>2, <4>3 DEF FirstLSN
    <3> QED
      BY Zenon, <3>1, <3>2, <3>3, <3>5, <3>6
  <2> QED
    BY Zenon, <2>1, <2>2
<1>8. PositionInv'
  <2>1. /\ slot.confirmed \in Nat /\ statuses \in Seq(Nat)
    BY Zenon DEF TypeOK, CaptureType
  <2> QED
    BY <1>1, <1>6, <1>7, <2>1 DEF CaptureInv, PositionInv
<1>9. StreamInv(d)' /\ TransactionInv(d)'
  <2> DEFINE s == rep'[d]
  <2>1. /\ s.pc = "ack" /\ s.start = r.start /\ s.durable = r.durable
        /\ s.cursor = r.cursor /\ s.pos = r.pos /\ s.sm = r.sm
        /\ s.batch.end = b.checkpoint
    BY Zenon, <1>1, <1>2 DEF ReplicatorType
  <2>2. tx'[d] = NoTx /\ lock' # d /\ mode'[d] # "down"
    BY Zenon, <1>1, <1>4, ProcessAssumption DEF SnapshotsAfter
  <2>3. NothingBetween(DurableLSN, rep[d].cursor)'
    <3>1. \A i \in DOMAIN wal : ~(DurableLSN' <= i /\ i < r.cursor)
      <4>1. \A x, y, i \in Nat : x <= y => ~(y <= i /\ i < x)
        OBVIOUS
      <4>2. \A i \in DOMAIN wal : i \in Nat
        BY Zenon, <1>2, SeqIndex
      <4> QED
        BY Zenon, <1>3, <1>6, <1>7, <4>1, <4>2
    <3> QED
      BY Zenon, <1>1, <2>1, <3>1 DEF NothingBetween
  <2>4. ConnectionInv(d)'
    <3>1. r.start <= DurableLSN' /\ r.durable <= DurableLSN'
      <4>1. /\ r.start \in Nat /\ r.durable \in Nat
            /\ r.start <= DurableLSN /\ r.durable <= DurableLSN
        BY Zenon, <1>3, <1>4
      <4>2. DurableLSN \in Nat /\ DurableLSN' \in Nat /\ DurableLSN <= DurableLSN'
        BY Zenon, <1>6, <1>7
      <4> HIDE DEF r
      <4> QED
        BY <4>1, <4>2
    <3> QED
      BY Zenon, <1>1, <1>4, <2>1, <2>3, <3>1 DEF ConnectionInv, Connected
  <2>5. BufferInv(d)' /\ BatchInv(d)'
    BY Zenon, <1>7, <2>1 DEF BufferInv, BatchInv
  <2>6. TransactionInv(d)'
    <3>1. ~tx'[d].open
      BY <2>2 DEF NoTx
    <3> QED
      BY Zenon, <2>2, <3>1 DEF TransactionInv
  <2> QED
    BY Zenon, <2>4, <2>5, <2>6 DEF StreamInv
<1>10. ASSUME NEW q \in Daemons, q # d PROVE StreamInv(q)' /\ TransactionInv(q)'
  <2>1. rep'[q] = rep[q] /\ tx'[q] = SnapshotsAfter(new)[q]
    BY Zenon, <1>1, <1>2, <1>10 DEF SnapshotsAfter
  <2>2. StreamInv(q)'
    BY Zenon, <1>1, <1>7, <2>1, StreamFrame DEF CaptureInv
  <2> HIDE DEF new
  <2>3. /\ tx'[q].open = tx[q].open /\ tx'[q].db = tx[q].db /\ tx'[q].next = tx[q].next
        /\ tx[q].stale => tx'[q].stale
        /\ tx[q].open /\ db' # db => tx'[q].stale
    BY <1>1, <2>1, SnapshotsFrame
  <2>4. (lock' = q) <=> (lock = q)
    BY <1>1, <1>10, ProcessAssumption
  <2>5. db' # db => lock # q
    BY Zenon, <1>10, <1>1, ProcessAssumption DEF CommitBatch, new
  <2>6. SameLog(db, db') \/ (lock # q /\ tx'[q].stale) \/ ~tx[q].open
    BY Zenon, <2>3, <2>5 DEF SameLog
  <2>7. mode'[q] = "down" => rep[q].pc = "off"
    BY Zenon, <1>1 DEF CaptureInv, TransactionInv
  <2>8. db'.checkpoint \in Nat
    BY Zenon DEF TypeOK, DaemonType, DbType
  <2>9. TransactionInv(q)'
    BY Zenon, <1>7, <2>1, <2>3, <2>4, <2>6, <2>7, <2>8, TransactionFrame DEF CaptureInv
  <2> QED
    BY Zenon, <2>2, <2>9
<1> QED
  BY Zenon, <1>8, <1>9, <1>10 DEF CaptureInv

-----------------------------------------------------------------------------
(* Receive.                                                                *)

\* A protected message joins the buffer and no other does: the buffer remains
\* complete.
LEMMA ConsumeHolds ==
  ASSUME NEW s \in MachineState, NEW body \in Seq(Body), NEW p \in DOMAIN body,
         Holds(s.events, body, p - 1),
         NEW m, m.type = "message", m.protected = body[p].protected,
         m.id = body[p].id, m.digest = body[p].digest
  PROVE  Consume(s, m).inTx = s.inTx /\ Holds(Consume(s, m).events, body, p)
<1> DEFINE c == Consume(s, m)
           Has(events, k) == \E n \in DOMAIN events : /\ events[n].id = body[k].id
                                                     /\ events[n].digest = body[k].digest
<1>1. /\ s.events \in Seq(BufferedEvent) /\ DOMAIN body = 1..Len(body)
      /\ p \in Nat /\ body[p] \in Body
  BY DEF MachineState
<1>2. body[p].protected \in BOOLEAN
  BY Zenon, <1>1 DEF Body
<1>3. ASSUME NEW k \in DOMAIN body, k <= p, k # p, body[k].protected
      PROVE  Has(s.events, k)
  <2>1. k <= p - 1
    BY <1>1, <1>3
  <2> QED
    BY Zenon, <1>3, <2>1 DEF Holds
<1>4. CASE ~m.protected
  <2>1. c = s
    BY Zenon, <1>4 DEF Consume
  <2> QED
    BY <1>3, <1>4, <2>1 DEF Holds
<1>5. CASE m.protected
  <2> DEFINE e == [id |-> m.id, digest |-> m.digest, at |-> m.at]
  <2>1. c.inTx = s.inTx /\ c.events = Append(s.events, e)
    BY Zenon, <1>5 DEF Consume, MachineState
  <2>2. e.id = body[p].id /\ e.digest = body[p].digest
    BY Zenon
  <2> HIDE DEF c, e
  <2>3. /\ \A k \in DOMAIN s.events : k \in DOMAIN c.events /\ c.events[k] = s.events[k]
        /\ Len(s.events) + 1 \in DOMAIN c.events
        /\ c.events[Len(s.events) + 1] = e
    BY <1>1, <2>1
  <2>4. ASSUME NEW k \in DOMAIN body, k <= p, body[k].protected PROVE Has(c.events, k)
    <3>1. CASE k = p
      BY Zenon, <2>2, <2>3, <3>1
    <3>2. CASE k # p
      BY <1>3, <2>3, <2>4, <3>2
    <3> QED
      BY Zenon, <3>1, <3>2
  <2> QED
    BY Zenon, <2>1, <2>4 DEF Holds, c
<1> QED
  BY Zenon, <1>2, <1>4, <1>5

\* What a log item is.
LEMMA WalItemType ==
  ASSUME NEW w \in WalItems
  PROVE  /\ w.transactional \in BOOLEAN /\ w.body \in Seq(Body)
         /\ Len(w.body) \in Nat /\ DOMAIN w.body = 1..Len(w.body)
         /\ ~w.transactional => Len(w.body) >= 1
         /\ w.transactional => LastPos(w) - 1 = Len(w.body)
<1>1. /\ w.transactional \in BOOLEAN /\ w.body \in Seq(Body)
      /\ ~w.transactional => w.body # << >>
  BY Zenon, WalItemsAssumption
<1>2. /\ Len(w.body) \in Nat /\ DOMAIN w.body = 1..Len(w.body)
      /\ ~w.transactional => Len(w.body) >= 1
  BY <1>1
<1>3. w.transactional => LastPos(w) = Len(w.body) + 1
  BY Zenon, LastPosType
<1>4. w.transactional => LastPos(w) - 1 = Len(w.body)
  BY <1>2, <1>3
<1> QED
  BY Zenon, <1>1, <1>2, <1>4

\* A position is inside its item when it is as soon as it is not the first.
LEMMA InsideItem ==
  ASSUME NEW w \in WalItems, NEW p \in Nat, p > 0 => p <= LastPos(w)
  PROVE  p <= LastPos(w)
<1>1. LastPos(w) \in Nat
  BY Zenon, LastPosType
<1> QED
  BY <1>1

\* What Consume does with a message of a log item that does not complete a
\* batch, given what the machine holds of the item so far.
LEMMA ConsumedMessage ==
  ASSUME NEW w \in WalItems, NEW p \in Nat, p <= LastPos(w), NEW s \in MachineState,
         s.inTx <=> p > 0 /\ w.transactional,
         p > 0 /\ w.transactional => Holds(s.events, w.body, p - 1),
         p > 0 /\ ~w.transactional => \A j \in 1..p : ~w.body[j].protected,
         NEW m, MessageOf(w, p, m), ConsumeError(s, m) = "none", ~CompletesBatch(s, m)
  PROVE  /\ p = LastPos(w) => /\ ~Consume(s, m).inTx
                              /\ \A j \in DOMAIN w.body : ~w.body[j].protected
         /\ p # LastPos(w) =>
              /\ p + 1 <= LastPos(w)
              /\ Consume(s, m).inTx <=> w.transactional
              /\ w.transactional => Holds(Consume(s, m).events, w.body, p)
              /\ ~w.transactional => \A j \in 1..p + 1 : ~w.body[j].protected
<1> DEFINE sm == Consume(s, m)
<1>0. /\ sm = Consume(s, m)
      /\ ConsumeError(s, m) = "none" /\ ~CompletesBatch(s, m)
  BY Zenon
<1> HIDE DEF sm
<1>2. /\ w.transactional \in BOOLEAN /\ w.body \in Seq(Body)
      /\ Len(w.body) \in Nat /\ DOMAIN w.body = 1..Len(w.body)
  BY Zenon, WalItemType
<1>3. /\ s.inTx <=> p > 0 /\ w.transactional
      /\ p > 0 /\ w.transactional => Holds(s.events, w.body, p - 1)
      /\ p > 0 /\ ~w.transactional => \A j \in 1..p : ~w.body[j].protected
  BY Zenon
<1>4. /\ p <= LastPos(w) /\ LastPos(w) \in Nat
      /\ w.transactional => LastPos(w) = Len(w.body) + 1
      /\ ~w.transactional => LastPos(w) = Len(w.body) - 1
  BY Zenon, LastPosType
<1>6. m.type # "commit"
  BY Zenon, <1>0 DEF ConsumeError, CompletesBatch
<1>7. CASE w.transactional /\ p = 0 /\ m.type = "begin"
  <2>1. sm.inTx
    BY Zenon, <1>0, <1>7 DEF Consume, NewStateMachine
  <2>2. Holds(sm.events, w.body, p)
    <3>1. \A k \in DOMAIN w.body : ~(k <= 0)
      BY <1>2
    <3> QED
      BY Zenon, <1>7, <3>1 DEF Holds
  <2>3. p # LastPos(w) /\ p + 1 <= LastPos(w)
    BY <1>2, <1>4, <1>7
  <2> QED
    BY Zenon, <1>7, <2>1, <2>2, <2>3 DEF sm
<1>8. ASSUME NEW j \in DOMAIN w.body, j = IF w.transactional THEN p ELSE p + 1,
             m.type = "message", m.transactional = w.transactional,
             m.protected = w.body[j].protected,
             m.id = w.body[j].id, m.digest = w.body[j].digest
      PROVE  /\ p = LastPos(w) => ~sm.inTx /\ \A k \in DOMAIN w.body : ~w.body[k].protected
             /\ p # LastPos(w) =>
                  /\ p + 1 <= LastPos(w)
                  /\ sm.inTx <=> w.transactional
                  /\ w.transactional => Holds(sm.events, w.body, p)
                  /\ ~w.transactional => \A k \in 1..p + 1 : ~w.body[k].protected
  <2>0. w.body[j].protected \in BOOLEAN /\ DOMAIN w.body = 1..Len(w.body)
    <3>1. w.body[j] \in Body /\ DOMAIN w.body = 1..Len(w.body)
      BY <1>2
    <3> QED
      BY Zenon, <3>1 DEF Body
  <2>1. CASE w.transactional
    <3>1. p > 0 /\ p <= Len(w.body) /\ p # LastPos(w) /\ p + 1 <= LastPos(w) /\ j = p
      <4>1. LastPos(w) = Len(w.body) + 1 /\ j = p
        BY Zenon, <1>4, <1>8, <2>1
      <4>2. p >= 1 /\ p <= Len(w.body)
        <5>1. p \in 1..Len(w.body)
          BY Zenon, <1>8, <2>0, <4>1
        <5>2. Len(w.body) \in Nat
          BY Zenon, <1>2
        <5> QED
          BY <5>1, <5>2
      <4> QED
        BY <1>2, <4>1, <4>2
    <3>2. s.inTx /\ Holds(s.events, w.body, p - 1) /\ s.events \in Seq(BufferedEvent)
      BY Zenon, <1>3, <2>1, <3>1 DEF MachineState
    <3>3. sm.inTx /\ Holds(sm.events, w.body, p)
      <4>1. /\ p \in DOMAIN w.body /\ sm = Consume(s, m)
            /\ w.body \in Seq(Body) /\ m.type = "message"
            /\ m.protected = w.body[p].protected
            /\ m.id = w.body[p].id /\ m.digest = w.body[p].digest
        BY Zenon, <1>0, <1>2, <1>8, <3>1
      <4>2. /\ Consume(s, m).inTx = s.inTx
            /\ Holds(Consume(s, m).events, w.body, p)
        BY Zenon, <3>2, <4>1, ConsumeHolds
      <4> QED
        BY Zenon, <3>2, <4>1, <4>2
    <3> QED
      BY Zenon, <2>1, <3>1, <3>3
  <2>2. CASE ~w.transactional
    <3>1. ~m.protected
      BY Zenon, <1>0, <1>8, <2>2 DEF ConsumeError, LogicalMessageError
    <3>2. sm = s /\ ~sm.inTx
      BY Zenon, <1>0, <1>3, <1>8, <2>2, <3>1 DEF Consume
    <3>3. \A k \in 1..p + 1 : ~w.body[k].protected
      <4> SUFFICES ASSUME NEW k \in 1..p + 1 PROVE ~w.body[k].protected
        BY Zenon
      <4>1. CASE k = p + 1
        BY Zenon, <1>8, <2>2, <3>1, <4>1
      <4>2. CASE k # p + 1
        <5>1. k \in 1..p /\ p > 0
          BY <4>2
        <5> QED
          BY Zenon, <1>3, <2>2, <5>1
      <4> QED
        BY Zenon, <4>1, <4>2
    <3>4. p = LastPos(w) => DOMAIN w.body = 1..p + 1
      <4>1. LastPos(w) = Len(w.body) - 1
        BY Zenon, <1>4, <2>2
      <4>2. p = LastPos(w) => p + 1 = Len(w.body)
        BY <1>2, <4>1
      <4> QED
        BY Zenon, <2>0, <4>2
    <3>5. p # LastPos(w) => p + 1 <= LastPos(w)
      BY <1>4
    <3> QED
      BY Zenon, <2>2, <3>2, <3>3, <3>4, <3>5
  <2> QED
    BY Zenon, <1>2, <2>1, <2>2
<1> QED
  BY Zenon, <1>6, <1>7, <1>8 DEF MessageOf, sm

\* A message that does not complete a batch: the position moves on inside the
\* item or to the next one, and nothing protected is passed over.
LEMMA ConsumedInv ==
  ASSUME TypeOK, NEW d \in Daemons, StreamInv(d), rep[d].pc = "stream",
         rep[d].cursor <= Len(wal),
         NEW w, w = wal[rep[d].cursor],
         NEW m, m = MessageAt(w, rep[d].pos),
         NEW sm, sm = Consume(rep[d].sm, m),
         ConsumeError(rep[d].sm, m) = "none", ~CompletesBatch(rep[d].sm, m)
  PROVE  /\ rep[d].pos = LastPos(w) => /\ ~sm.inTx
                                       /\ \A j \in DOMAIN w.body : ~w.body[j].protected
         /\ rep[d].pos # LastPos(w) =>
              /\ rep[d].pos + 1 <= LastPos(w)
              /\ sm.inTx <=> w.transactional
              /\ w.transactional => Holds(sm.events, w.body, rep[d].pos)
              /\ ~w.transactional => \A j \in 1..rep[d].pos + 1 : ~w.body[j].protected
<1> DEFINE r == rep[d]
           p == r.pos
<1>1. /\ r \in ReplicatorType /\ r.cursor \in Nat /\ p \in Nat /\ r.cursor >= 1
      /\ r.sm \in MachineState /\ wal \in Seq(WalItems)
  <2>1. r \in ReplicatorType /\ wal \in Seq(WalItems)
    BY Zenon DEF TypeOK, CaptureType
  <2> QED
    BY Zenon, <2>1 DEF ReplicatorType, StreamInv, ConnectionInv, Connected, FirstLSN
<1>2. w \in WalItems
  BY <1>1
<1>3. /\ p > 0 => p <= LastPos(w)
      /\ r.sm.inTx <=> p > 0 /\ w.transactional
      /\ p > 0 /\ w.transactional => Holds(r.sm.events, w.body, p - 1)
      /\ p > 0 /\ ~w.transactional => \A j \in 1..p : ~w.body[j].protected
  BY Zenon DEF StreamInv, BufferInv
<1>0. /\ m = MessageAt(w, p) /\ sm = Consume(r.sm, m)
      /\ ConsumeError(r.sm, m) = "none" /\ ~CompletesBatch(r.sm, m)
  BY Zenon
<1> HIDE DEF r, p
<1>4. p <= LastPos(w)
  BY Zenon, <1>1, <1>2, <1>3, InsideItem
<1>5. MessageOf(w, p, m)
  BY Zenon, <1>0, <1>1, <1>2, <1>4, MessageType
<1>6. /\ p = LastPos(w) => /\ ~Consume(r.sm, m).inTx
                           /\ \A j \in DOMAIN w.body : ~w.body[j].protected
      /\ p # LastPos(w) =>
           /\ p + 1 <= LastPos(w)
           /\ Consume(r.sm, m).inTx <=> w.transactional
           /\ w.transactional => Holds(Consume(r.sm, m).events, w.body, p)
           /\ ~w.transactional => \A j \in 1..p + 1 : ~w.body[j].protected
  BY Zenon, <1>0, <1>1, <1>2, <1>3, <1>4, <1>5, ConsumedMessage
<1> QED
  BY Zenon, <1>0, <1>6 DEF r, p

\* A message that completes a batch: the buffer holds the whole transaction.
LEMMA CompletedInv ==
  ASSUME TypeOK, NEW d \in Daemons, StreamInv(d), rep[d].pc = "stream",
         rep[d].cursor <= Len(wal),
         NEW w, w = wal[rep[d].cursor],
         CompletesBatch(rep[d].sm, MessageAt(w, rep[d].pos))
  PROVE  /\ rep[d].pos = LastPos(w)
         /\ Holds(rep[d].sm.events, w.body, Len(w.body))
<1> DEFINE r == rep[d]
           p == r.pos
<1>1. r \in ReplicatorType /\ wal \in Seq(WalItems)
  BY Zenon DEF TypeOK, CaptureType
<1>2. r.cursor \in Nat /\ p \in Nat /\ r.cursor >= 1
  BY Zenon, <1>1 DEF ReplicatorType, StreamInv, ConnectionInv, Connected, FirstLSN
<1>3. w \in WalItems
  BY <1>1, <1>2
<1>4. /\ p > 0 => p <= LastPos(w)
      /\ r.sm.inTx <=> p > 0 /\ w.transactional
      /\ p > 0 /\ w.transactional => Holds(r.sm.events, w.body, p - 1)
  BY Zenon DEF StreamInv, BufferInv
<1>5. r.sm.inTx /\ MessageAt(w, p).type = "commit"
  BY Zenon DEF CompletesBatch
<1> HIDE DEF r, p
<1>6. p > 0 /\ w.transactional /\ p <= LastPos(w) /\ Holds(r.sm.events, w.body, p - 1)
  BY Zenon, <1>4, <1>5
<1>7. p = LastPos(w)
  <2>1. MessageOf(w, p, MessageAt(w, p))
    BY Zenon, <1>2, <1>3, <1>6, MessageType
  <2> QED
    BY Zenon, <1>5, <2>1 DEF MessageOf
<1>8. p - 1 = Len(w.body)
  BY Zenon, <1>3, <1>6, <1>7, WalItemType
<1> QED
  BY Zenon, <1>6, <1>7, <1>8 DEF r, p

\* An XLogData message.
LEMMA ReceiveInv ==
  ASSUME TypeOK, TypeOK', CaptureInv, NEW d \in Daemons, Receive(d)
  PROVE  CaptureInv'
<1> DEFINE r == rep[d]
           w == wal[r.cursor]
           m == MessageAt(w, r.pos)
           last == r.pos = LastPos(w)
           cursor == IF last THEN r.cursor + 1 ELSE r.cursor
           pos == IF last THEN 0 ELSE r.pos + 1
           sm == Consume(r.sm, m)
           next == [r EXCEPT !.sm = sm, !.cursor = cursor, !.pos = pos]
           batch == [events |-> r.sm.events, lsn |-> r.cursor, end |-> EndLSN(r.cursor)]
           full == [next EXCEPT !.pc = "persist", !.batch = batch]
<1>1. /\ r.pc = "stream" /\ r.cursor <= Len(wal) /\ mode[d] = "running"
      /\ UNCHANGED <<wal, slot, statuses, db, lock, tx>> /\ SameLog(db, db')
  BY Zenon DEF Receive, SameLog
<1>2. ~tx[d].open /\ lock # d /\ StreamInv(d)
  BY Zenon, <1>1, NoTransaction DEF CaptureInv
<1>3. /\ r \in ReplicatorType /\ wal \in Seq(WalItems) /\ Len(wal) \in Nat
  BY DEF TypeOK, CaptureType
<1>4. /\ r.cursor \in Nat /\ r.pos \in Nat /\ r.sm \in MachineState
      /\ FirstLSN <= r.start /\ r.start <= DurableLSN
      /\ FirstLSN <= r.durable /\ r.durable <= DurableLSN
      /\ FirstLSN <= r.cursor /\ NothingBetween(DurableLSN, r.cursor)
  BY Zenon, <1>1, <1>2, <1>3 DEF ReplicatorType, StreamInv, ConnectionInv, Connected
<1>5. DurableLSN' = DurableLSN /\ DurableLSN \in Nat
  BY Zenon, <1>1, DurableLSNType DEF DurableLSN
<1>6. \/ Fatal(d, ConsumeError(r.sm, m))
      \/ /\ ConsumeError(r.sm, m) = "none" /\ ~CompletesBatch(r.sm, m)
         /\ rep' = [rep EXCEPT ![d] = next] /\ UNCHANGED mode
      \/ Goto(d, "paused") /\ UNCHANGED mode
      \/ /\ ConsumeError(r.sm, m) = "none" /\ CompletesBatch(r.sm, m)
         /\ rep' = [rep EXCEPT ![d] = full] /\ UNCHANGED mode
  BY Zenon DEF Receive
<1>7. CASE Fatal(d, ConsumeError(r.sm, m))
  <2>1. "off" \in Pcs \ (Connected \cup {"connect"})
    BY Zenon DEF Pcs, Connected
  <2>2. Goto(d, "off") /\ mode'[d] = "stopping" /\ \A q \in Daemons \ {d} : mode'[q] = mode[q]
    BY Zenon, <1>7, CancelFrame DEF Fatal
  <2> QED
    BY Zenon, <1>1, <1>2, <2>1, <2>2, DisconnectInv
<1>8. CASE Goto(d, "paused") /\ UNCHANGED mode
  <2>1. "paused" \in Pcs \ (Connected \cup {"connect"})
    BY Zenon DEF Pcs, Connected
  <2> QED
    BY Zenon, <1>1, <1>2, <1>8, <2>1, DisconnectInv
<1>9. CASE /\ ConsumeError(r.sm, m) = "none" /\ ~CompletesBatch(r.sm, m)
           /\ rep' = [rep EXCEPT ![d] = next] /\ UNCHANGED mode
  <2>1. /\ last => ~sm.inTx /\ \A j \in DOMAIN w.body : ~w.body[j].protected
        /\ ~last => /\ r.pos + 1 <= LastPos(w)
                    /\ sm.inTx <=> w.transactional
                    /\ w.transactional => Holds(sm.events, w.body, r.pos)
                    /\ ~w.transactional => \A j \in 1..r.pos + 1 : ~w.body[j].protected
    BY Zenon, <1>1, <1>2, <1>9, ConsumedInv
  <2>2. rep'[d] = next /\ \A q \in Daemons \ {d} : rep'[q] = rep[q]
    BY Zenon, <1>9 DEF TypeOK, CaptureType
  <2> HIDE DEF sm, cursor, pos
  <2>3. /\ next.pc = "stream" /\ next.start = r.start /\ next.durable = r.durable
        /\ next.cursor = cursor /\ next.pos = pos /\ next.sm = sm
    BY Zenon, <1>1, <1>3 DEF ReplicatorType
  <2> HIDE DEF next
  <2>4. /\ cursor \in Nat /\ FirstLSN <= cursor /\ cursor <= Len(wal) + 1
        /\ last => cursor = r.cursor + 1 /\ pos = 0
        /\ ~last => cursor = r.cursor /\ pos = r.pos + 1
    <3>1. /\ last => cursor = r.cursor + 1 /\ pos = 0
          /\ ~last => cursor = r.cursor /\ pos = r.pos + 1
      BY Zenon DEF cursor, pos
    <3> HIDE DEF last
    <3>2. r.cursor \in Nat /\ 1 <= r.cursor /\ r.cursor <= Len(wal) /\ Len(wal) \in Nat
      BY Zenon, <1>1, <1>3, <1>4 DEF FirstLSN
    <3>3. cursor \in Nat /\ 1 <= cursor /\ cursor <= Len(wal) + 1
      BY <3>1, <3>2
    <3> QED
      BY Zenon, <3>1, <3>3 DEF FirstLSN
  <2> HIDE DEF last
  <2>5. NothingBetween(DurableLSN, rep[d].cursor)'
    <3> SUFFICES ASSUME NEW i \in DOMAIN wal, DurableLSN <= i, i < cursor,
                        NEW j \in DOMAIN wal[i].body
                 PROVE  ~wal[i].body[j].protected
      BY Zenon, <1>1, <1>5, <2>2, <2>3 DEF NothingBetween
    <3>1. i < r.cursor \/ (last /\ i = r.cursor)
      BY <1>3, <1>4, <2>4
    <3>2. CASE i < r.cursor
      BY Zenon, <1>4, <3>2 DEF NothingBetween
    <3>3. CASE last /\ i = r.cursor
      BY Zenon, <2>1, <3>3
    <3> QED
      BY Zenon, <3>1, <3>2, <3>3
  <2>6. ConnectionInv(d)'
    BY Zenon, <1>1, <1>4, <1>5, <2>2, <2>3, <2>4, <2>5 DEF ConnectionInv, Connected
  <2>7. BufferInv(d)'
    <3>1. CASE last
      <4>1. next.pos = 0 /\ ~next.sm.inTx
        BY Zenon, <2>1, <2>3, <2>4, <3>1
      <4> QED
        BY <2>2, <4>1 DEF BufferInv
    <3>2. CASE ~last
      <4>1. rep'[d].cursor = r.cursor /\ rep'[d].pos = r.pos + 1 /\ rep'[d].sm = sm
        BY Zenon, <2>2, <2>3, <2>4, <3>2
      <4>2. wal'[rep'[d].cursor] = w /\ rep'[d].pos > 0 /\ rep'[d].pos - 1 = r.pos
        BY <1>1, <1>4, <4>1
      <4> HIDE DEF r, w
      <4>3. /\ rep'[d].cursor <= Len(wal') /\ rep'[d].pos <= LastPos(w)
            /\ rep'[d].sm.inTx <=> w.transactional
            /\ w.transactional => Holds(rep'[d].sm.events, w.body, rep'[d].pos - 1)
            /\ ~w.transactional => \A j \in 1..rep'[d].pos : ~w.body[j].protected
        BY Zenon, <1>1, <2>1, <3>2, <4>1, <4>2
      <4> QED
        BY Zenon, <4>2, <4>3 DEF BufferInv
    <3> QED
      BY Zenon, <3>1, <3>2
  <2>8. BatchInv(d)' /\ TransactionInv(d)'
    BY Zenon, <1>1, <1>2, <1>9, <2>2, <2>3 DEF BatchInv, TransactionInv
  <2>9. OthersKept(d)
    BY Zenon, <1>1, <1>9, <2>2 DEF OthersKept
  <2> QED
    BY Zenon, <1>1, <2>6, <2>7, <2>8, <2>9, OwnStep DEF StreamInv
<1>10. CASE /\ ConsumeError(r.sm, m) = "none" /\ CompletesBatch(r.sm, m)
            /\ rep' = [rep EXCEPT ![d] = full] /\ UNCHANGED mode
  <2>1. last /\ Holds(r.sm.events, w.body, Len(w.body))
    BY Zenon, <1>1, <1>2, <1>10, CompletedInv
  <2>2. ~sm.inTx
    BY Zenon, <1>10 DEF Consume, CompletesBatch, NewStateMachine
  <2>3. rep'[d] = full /\ \A q \in Daemons \ {d} : rep'[q] = rep[q]
    BY Zenon, <1>10 DEF TypeOK, CaptureType
  <2>4. cursor = r.cursor + 1 /\ pos = 0
    BY Zenon, <2>1
  <2> HIDE DEF sm, cursor, pos, last
  <2>5. /\ full.pc = "persist" /\ full.start = r.start /\ full.durable = r.durable
        /\ full.cursor = cursor /\ full.pos = pos /\ full.sm = sm
        /\ full.batch.events = r.sm.events /\ full.batch.lsn = r.cursor
        /\ full.batch.end = EndLSN(r.cursor)
    BY Zenon, <1>3 DEF ReplicatorType
  <2> HIDE DEF full
  <2>6. ConnectionInv(d)'
    <3>1. FirstLSN <= cursor /\ cursor <= Len(wal) + 1
      BY <1>1, <1>3, <1>4, <2>4 DEF FirstLSN
    <3> QED
      BY Zenon, <1>1, <1>4, <1>5, <2>2, <2>3, <2>4, <2>5, <3>1 DEF ConnectionInv, Connected
  <2>7. BatchInv(d)'
    <3>1. r.cursor \in DOMAIN wal
      BY <1>1, <1>3, <1>4 DEF FirstLSN
    <3>2. NothingBetween(DurableLSN, rep[d].batch.lsn)'
      BY Zenon, <1>1, <1>4, <1>5, <2>3, <2>5 DEF NothingBetween
    <3> QED
      BY Zenon, <1>1, <2>1, <2>3, <2>4, <2>5, <3>1, <3>2 DEF BatchInv
  <2>8. BufferInv(d)' /\ TransactionInv(d)'
    BY Zenon, <1>1, <1>2, <1>10, <2>3, <2>5 DEF BufferInv, TransactionInv
  <2>9. OthersKept(d)
    BY Zenon, <1>1, <1>10, <2>3 DEF OthersKept
  <2> QED
    BY Zenon, <1>1, <2>6, <2>7, <2>8, <2>9, OwnStep DEF StreamInv
<1> QED
  BY Zenon, <1>6, <1>7, <1>8, <1>9, <1>10

\* A step of a worker, of a maintenance command or of time: it may write, but
\* not to the log.
LEMMA WriterInv ==
  ASSUME TypeOK, TypeOK', CaptureInv, SameLog(db, db'), UNCHANGED captureVars,
         \A q \in Daemons : mode'[q] = mode[q] \/ mode'[q] # "down",
         \A q \in Daemons : (lock' = q) <=> (lock = q),
         UNCHANGED tx \/ tx' = SnapshotsAfter(db')
  PROVE  CaptureInv'
<1>1. UNCHANGED <<wal, slot, statuses, rep>>
  BY Zenon DEF captureVars
<1>2. PositionInv' /\ DurableLSN' = DurableLSN /\ DurableLSN \in Nat
  BY Zenon, <1>1, PositionFrame, DurableLSNType DEF CaptureInv
<1>3. ASSUME NEW q \in Daemons PROVE StreamInv(q)' /\ TransactionInv(q)'
  <2>1. StreamInv(q)'
    BY <1>1, <1>2, StreamFrame DEF CaptureInv
  <2>2. /\ tx'[q].open = tx[q].open /\ tx'[q].db = tx[q].db /\ tx'[q].next = tx[q].next
        /\ tx[q].stale => tx'[q].stale
    BY SnapshotsFrame
  <2>3. mode'[q] = "down" => rep[q].pc = "off"
    BY Zenon DEF CaptureInv, TransactionInv
  <2>4. db'.checkpoint \in Nat /\ db.checkpoint <= db'.checkpoint
    BY DEF TypeOK, DaemonType, DbType, SameLog
  <2>5. TransactionInv(q)'
    BY Zenon, <1>1, <2>2, <2>3, <2>4, TransactionFrame DEF CaptureInv
  <2> QED
    BY Zenon, <2>1, <2>5
<1> QED
  BY Zenon, <1>2, <1>3 DEF CaptureInv

\* The worker.
LEMMA WorkerInv ==
  ASSUME TypeOK, TypeOK', CaptureInv, NEW d \in Daemons,
         WorkerStep(d) \/ StoreFails(d), UNCHANGED <<captureVars, calm>>
  PROVE  CaptureInv'
<1>1. CASE \/ SelectNext(d) \/ Accept(d) \/ StopWorker(d) \/ RecordFails(d) \/ StoreFails(d)
           \/ \E result \in Results \ {"none"} : SendReturns(d, result)
  <2>1. UNCHANGED <<db, lock, tx>>
    BY Zenon, <1>1 DEF SelectNext, Accept, StopWorker, RecordFails, StoreFails, SendReturns
  <2>2. UNCHANGED mode \/ \E reason \in ExitReasons : Cancel(d, reason)
    BY Zenon, <1>1 DEF SelectNext, Accept, StopWorker, RecordFails, StoreFails, SendReturns,
                       ExitReasons
  <2>3. \A q \in Daemons : mode'[q] = mode[q] \/ mode'[q] # "down"
    BY Zenon, <2>2, CancelFrame
  <2>4. SameLog(db, db')
    BY Zenon, <2>1 DEF SameLog
  <2> QED
    BY Zenon, <2>1, <2>3, <2>4, WriterInv
<1>2. CASE \/ RecordSuccess(d)
           \/ \E delay \in InitialDelay..MaxDelay : RecordFailure(d, delay)
  <2>1. SameLog(db, db')
    BY Zenon, <1>2, RecordType
  <2>2. UNCHANGED <<lock, mode>> /\ tx' = SnapshotsAfter(db')
    BY Zenon, <1>2 DEF RecordSuccess, RecordFailure, Write
  <2> QED
    BY Zenon, <2>1, <2>2, WriterInv
<1> QED
  BY Zenon, <1>1, <1>2 DEF WorkerStep

\* redrive, prune, time.
LEMMA MaintenanceInv ==
  ASSUME TypeOK, TypeOK', CaptureInv, UNCHANGED <<captureVars, calm>>,
         \/ \E k \in DOMAIN db.deliveries : Redrive(k)
         \/ \E c \in Cutoffs, l \in Limits : PruneBegin(c, l)
         \/ PruneCommit \/ PruneAbort \/ Tick
  PROVE  CaptureInv'
<1>1. SameLog(db, db')
  BY Zenon, MaintenanceType
<1>2. UNCHANGED mode /\ (UNCHANGED tx \/ tx' = SnapshotsAfter(db'))
  BY Zenon DEF Redrive, PruneBegin, PruneCommit, PruneAbort, Tick, Write
<1>3. \A q \in Daemons : (lock' = q) <=> (lock = q)
  BY Zenon, ProcessAssumption DEF Redrive, PruneBegin, PruneCommit, PruneAbort, Tick
<1> QED
  BY Zenon, <1>1, <1>2, <1>3, WriterInv

\* A daemon starts, is told to stop, ends or dies.
LEMMA LifeInv ==
  ASSUME TypeOK, TypeOK', CaptureInv, NEW d \in Daemons,
         \/ \E regs \in Configs : Start(d, regs)
         \/ Signal(d) \/ Exit(d) \/ Crash(d)
  PROVE  CaptureInv'
<1>1. SameLog(db, db')
  BY Zenon, LifeType
<1>2. ASSUME NEW regs \in Configs, Start(d, regs) PROVE CaptureInv'
  <2>1. rep[d].pc = "off" /\ ~tx[d].open /\ lock # d
    BY Zenon, <1>2 DEF Start, CaptureInv, TransactionInv
  <2>2. /\ UNCHANGED <<wal, slot, statuses, lock>>
        /\ UNCHANGED tx \/ tx' = SnapshotsAfter(db')
        /\ rep' = [rep EXCEPT ![d] = Replicator("start")]
        /\ mode' = [mode EXCEPT ![d] = "running"]
    BY Zenon, <1>2 DEF Start, Write
  <2>3. /\ rep'[d] = Replicator("start") /\ mode'[d] = "running"
        /\ \A q \in Daemons \ {d} : rep'[q] = rep[q] /\ mode'[q] = mode[q]
    BY Zenon, <2>2 DEF TypeOK, CaptureType, DaemonType
  <2>4. \A q \in Daemons :
          /\ tx'[q].open = tx[q].open /\ tx'[q].db = tx[q].db /\ tx'[q].next = tx[q].next
          /\ tx[q].stale => tx'[q].stale
    <3>1. CASE UNCHANGED tx
      BY Zenon, <3>1
    <3>2. CASE tx' = SnapshotsAfter(db')
      <4>1. \A q \in Daemons :
              LET t == SnapshotsAfter(db')[q]
              IN  /\ t.open = tx[q].open /\ t.db = tx[q].db /\ t.next = tx[q].next
                  /\ tx[q].stale => t.stale
        BY Zenon, SnapshotsFrame
      <4> QED
        BY Zenon, <3>2, <4>1
    <3> QED
      BY Zenon, <2>2, <3>1, <3>2
  <2>5. OthersKept(d)
    BY Zenon, <2>2, <2>3, <2>4 DEF OthersKept
  <2>6. "start" \in Pcs \ (Connected \cup {"connect"})
    BY Zenon DEF Pcs, Connected
  <2>7. StreamInv(d)' /\ TransactionInv(d)'
    BY Zenon, <2>1, <2>2, <2>3, <2>4, <2>6, Unconnected
  <2> QED
    BY Zenon, <1>1, <2>2, <2>5, <2>7, OwnStep
<1>3. CASE Signal(d)
  <2>1. \A q \in Daemons : mode'[q] = mode[q] \/ mode'[q] # "down"
    BY Zenon, <1>3, CancelFrame DEF Signal
  <2> QED
    BY Zenon, <1>1, <1>3, <2>1, WriterInv DEF Signal
<1>4. CASE Exit(d)
  <2>1. /\ UNCHANGED <<wal, slot, statuses, rep, db, lock, tx>> /\ rep[d].pc = "off"
        /\ \A q \in Daemons \ {d} : mode'[q] = mode[q]
    BY Zenon, <1>4 DEF Exit, TypeOK, DaemonType
  <2>2. OthersKept(d)
    BY Zenon, <2>1 DEF OthersKept
  <2>3. ~tx[d].open /\ lock # d
    BY Zenon, <2>1, NoTransaction
  <2>4. StreamInv(d)' /\ TransactionInv(d)'
    BY Zenon, <2>1, <2>3
    DEF StreamInv, ConnectionInv, BufferInv, BatchInv, TransactionInv, Connected
  <2> QED
    BY Zenon, <1>1, <2>1, <2>2, <2>4, OwnStep
<1>5. CASE Crash(d)
  <2>1. /\ Goto(d, "off") /\ Rollback(d) /\ UNCHANGED <<wal, slot, statuses>>
        /\ \A q \in Daemons \ {d} : mode'[q] = mode[q]
    BY Zenon, <1>5 DEF Crash, Goto, TypeOK, DaemonType
  <2>2. "off" \in Pcs \ (Connected \cup {"connect"})
    BY Zenon DEF Pcs, Connected
  <2> QED
    BY Zenon, <1>1, <2>1, <2>2, DisconnectInv
<1> QED
  BY Zenon, <1>2, <1>3, <1>4, <1>5

\* A step of a replicator.
LEMMA ReplicatorInv ==
  ASSUME TypeOK, CaptureInv, NEW d \in Daemons, UNCHANGED <<deliveryVars, calm>>,
         ReplicatorStep(d) \/ LoseConnection(d) \/ PersistFails(d)
  PROVE  TypeOK' /\ CaptureInv'
<1>1. StreamInv(d) /\ TransactionInv(d)
  BY Zenon DEF CaptureInv
<1>2. CASE \/ RunOnce(d) \/ StartReplication(d) \/ LoseConnection(d) \/ NoticeClosed(d)
           \/ Reconnect(d) \/ WaitForDisk(d) \/ RoutineDiskCheck(d) \/ SendStatus(d)
           \/ StopCapture(d)
  <2>1. TypeOK'
    BY Zenon, <1>2, ConnectionType
  <2> QED
    BY Zenon, <1>2, <2>1, RunOnceInv, StartReplicationInv, ReconnectInv, SendStatusInv, StopInv
<1>3. CASE Receive(d)
  BY Zenon, <1>1, <1>3, ReceiveType, ReceiveInv
<1>4. CASE BeginBatch(d) \/ PersistEvent(d)
  BY Zenon, <1>1, <1>4, PersistType, BeginBatchInv, PersistEventInv
<1>5. CASE CommitBatch(d) \/ Acknowledge(d)
  BY Zenon, <1>5, CommitType, CommitBatchInv, AcknowledgeInv
<1>6. CASE SnapshotConflict(d) \/ PersistBusy(d) \/ PersistFails(d)
  BY Zenon, <1>6, PersistErrorType, StopInv
<1> QED
  BY Zenon, <1>2, <1>3, <1>4, <1>5, <1>6 DEF ReplicatorStep

\* Every step preserves the invariant.
LEMMA NextInv ==
  ASSUME TypeOK, CaptureInv, [Next]_vars
  PROVE  TypeOK' /\ CaptureInv'
<1>1. CASE \/ \E w \in WalItems : AppCommit(w) /\ UNCHANGED <<deliveryVars, calm>>
           \/ (HandleStatus \/ ReleaseSlot \/ DiskChange) /\ UNCHANGED <<deliveryVars, calm>>
  <2>1. TypeOK'
    BY Zenon, <1>1, EnvironmentType
  <2> QED
    BY Zenon, <1>1, <2>1, AppCommitInv, ServerInv
<1>2. ASSUME NEW d \in Daemons,
             \/ \E regs \in Configs : Start(d, regs)
             \/ Signal(d) \/ Exit(d) \/ Crash(d)
      PROVE  TypeOK' /\ CaptureInv'
  BY Zenon, <1>2, LifeType, LifeInv
<1>3. ASSUME NEW d \in Daemons, UNCHANGED <<deliveryVars, calm>>,
             ReplicatorStep(d) \/ LoseConnection(d) \/ PersistFails(d)
      PROVE  TypeOK' /\ CaptureInv'
  BY Zenon, <1>3, ReplicatorInv
<1>4. ASSUME NEW d \in Daemons, UNCHANGED <<captureVars, calm>>,
             WorkerStep(d) \/ StoreFails(d)
      PROVE  TypeOK' /\ CaptureInv'
  <2>1. TypeOK'
    BY Zenon, <1>4, SendType, RecordType DEF WorkerStep
  <2> QED
    BY Zenon, <1>4, <2>1, WorkerInv
<1>5. CASE /\ \/ \E k \in DOMAIN db.deliveries : Redrive(k)
              \/ \E c \in Cutoffs, l \in Limits : PruneBegin(c, l)
              \/ PruneCommit \/ PruneAbort \/ Tick
           /\ UNCHANGED <<captureVars, calm>>
  BY Zenon, <1>5, MaintenanceType, MaintenanceInv
<1>6. CASE UNCHANGED vars
  <2>1. TypeOK'
    BY Zenon, <1>6 DEF vars, TypeOK, DaemonType, CaptureType, DeliveryType
  <2>2. SameLog(db, db')
    BY Zenon, <1>6 DEF vars, SameLog
  <2> QED
    BY Zenon, <1>6, <2>1, <2>2, WriterInv DEF vars, captureVars
<1> QED
  BY Zenon, <1>1, <1>2, <1>3, <1>4, <1>5, <1>6
  DEF Next, CaptureStep, DeliveryStep, ServerStep, PruneEnds, Time, Fault
-----------------------------------------------------------------------------
(* The theorems.                                                           *)

\* The type invariant and the invariant of the capture protocol, for any
\* number of daemons over one spool, any transactions, sinks and faults.
THEOREM CaptureInvariance == Spec => [](TypeOK /\ CaptureInv)
<1>1. Init => TypeOK /\ CaptureInv
  BY Zenon, InitType, InitInv
<1>2. TypeOK /\ CaptureInv /\ [Next]_vars => (TypeOK /\ CaptureInv)'
  BY Zenon, NextInv
<1> QED
  BY <1>1, <1>2, PTL DEF Spec

\* The type invariant of the whole system.
THEOREM TypeCorrectness == Spec => []TypeOK
  BY CaptureInvariance, PTL

\* No acknowledgement, handled or in flight, runs ahead of the SQLite
\* checkpoint, and the checkpoint covers only what is in the spool
\* (persistThenAcknowledge, the status updates of runOnce).
THEOREM AcknowledgedIsDurable == Spec => []AckedIsDurable
<1>1. TypeOK /\ CaptureInv => AckedIsDurable
  BY Zenon, ReleasedBelowDurable DEF CaptureInv
<1> QED
  BY <1>1, CaptureInvariance, PTL

\* PostgreSQL never forgets a protected event that the spool does not hold:
\* capture loses nothing, whatever crashes, disconnects, fails or overlaps.
THEOREM NothingIsLost == Spec => []ReleasedIsSpooled
<1>1. TypeOK /\ CaptureInv => ReleasedIsSpooled
  BY Zenon, ReleasedBelowDurable DEF CaptureInv
<1> QED
  BY <1>1, CaptureInvariance, PTL
-----------------------------------------------------------------------------
(* The disk-space guard.                                                   *)

\* What a cancelled context changes.
LEMMA CancelMode ==
  ASSUME TypeOK, NEW d \in Daemons, NEW reason, Cancel(d, reason)
  PROVE  /\ mode'[d] = "stopping"
         /\ \A q \in Daemons : q # d => mode'[q] = mode[q]
  BY Zenon DEF Cancel, TypeOK, DaemonType

\* A step of daemon d, as the guard sees it.
GuardStep(d) ==
  /\ \A q \in Daemons : q # d => /\ rep'[q] = rep[q]
                                 /\ paused'[q] = paused[q] /\ mode'[q] = mode[q]
  /\ paused'[d] => rep'[d].pc \in {"paused", "off"}
  /\ mode'[d] = "down" => ~paused'[d]
  /\ Admits(d)

\* The guards of the other daemons are untouched.
LEMMA GuardStepPauses ==
  ASSUME PauseInv, NEW d \in Daemons, GuardStep(d)
  PROVE  PauseInv' /\ \A q \in Daemons : Admits(q)
<1>1. ASSUME NEW q \in Daemons
      PROVE  /\ paused'[q] => rep'[q].pc \in {"paused", "off"}
             /\ mode'[q] = "down" => ~paused'[q]
             /\ Admits(q)
  <2>1. CASE q = d
    BY Zenon, <2>1 DEF GuardStep
  <2>2. CASE q # d
    <3>1. rep'[q] = rep[q] /\ paused'[q] = paused[q] /\ mode'[q] = mode[q]
      BY Zenon, <2>2 DEF GuardStep
    <3> QED
      BY Zenon, <3>1 DEF PauseInv, PausedIsDisconnected, Admits
  <2> QED
    BY Zenon, <2>1, <2>2
<1> QED
  BY Zenon, <1>1 DEF PauseInv, PausedIsDisconnected

\* A step that leaves the guard, the replicators and the modes alone.
LEMMA GuardIdle ==
  ASSUME PauseInv, UNCHANGED <<rep, paused, mode>>
  PROVE  PauseInv' /\ \A q \in Daemons : Admits(q)
  BY Zenon DEF PauseInv, PausedIsDisconnected, Admits

\* A guard that is not paused admits what the disk has room for.
LEMMA PausedAfterMonotone ==
  ASSUME NEW p \in BOOLEAN, NEW available \in ProbeResults, ~PausedAfter(p, available)
  PROVE  ~PausedAfter(FALSE, available)
  BY Zenon DEF PausedAfter

\* Run returns, or its daemon is told to stop.
LEMMA GuardStops ==
  ASSUME TypeOK, PauseInv, NEW d \in Daemons, UNCHANGED paused,
         \/ Goto(d, "off") /\ (UNCHANGED mode \/ \E reason : Cancel(d, reason))
         \/ UNCHANGED rep /\ \E reason : Cancel(d, reason),
         mode[d] # "down"
  PROVE  PauseInv' /\ \A q \in Daemons : Admits(q)
<1>1. /\ rep'[d].pc = "off" \/ rep'[d] = rep[d]
      /\ \A q \in Daemons : q # d => rep'[q] = rep[q]
  BY Zenon, GotoPc
<1>2. /\ mode'[d] # "down"
      /\ \A q \in Daemons : q # d => mode'[q] = mode[q]
  <2>1. "stopping" # "down"
    BY Zenon
  <2> QED
    BY Zenon, <2>1, CancelMode
<1>3. "off" # "persist"
  BY Zenon
<1>4. GuardStep(d)
  BY Zenon, <1>1, <1>2, <1>3 DEF GuardStep, Admits, PauseInv, PausedIsDisconnected
<1> QED
  BY Zenon, <1>4, GuardStepPauses

\* The steps of Run and runOnce.
LEMMA RunPauses ==
  ASSUME TypeOK, PauseInv, NEW d \in Daemons,
         \/ RunOnce(d) \/ StartReplication(d) \/ LoseConnection(d) \/ NoticeClosed(d)
         \/ Reconnect(d) \/ WaitForDisk(d) \/ RoutineDiskCheck(d) \/ SendStatus(d)
         \/ StopCapture(d)
  PROVE  PauseInv' /\ \A q \in Daemons : Admits(q)
<1>0. /\ rep \in [Daemons -> ReplicatorType] /\ paused \in [Daemons -> BOOLEAN]
      /\ mode \in [Daemons -> {"down", "running", "stopping"}] /\ disk \in ProbeResults
  BY Zenon DEF TypeOK, DaemonType, CaptureType
<1>1. CASE RunOnce(d)
  <2>1. /\ mode[d] = "running" /\ rep[d].pc = "start"
        /\ paused' = [paused EXCEPT ![d] = PausedAfter(paused[d], disk)]
    BY Zenon, <1>1 DEF RunOnce
  <2>2. /\ paused'[d] = PausedAfter(paused[d], disk)
        /\ \A q \in Daemons : q # d => paused'[q] = paused[q]
    BY Zenon, <1>0, <2>1
  <2>3. ~paused[d]
    <3>1. "start" \notin {"paused", "off"}
      BY Zenon
    <3> QED
      BY Zenon, <2>1, <3>1 DEF PauseInv, PausedIsDisconnected
  <2>4. CASE paused'[d]
    <3>1. Goto(d, "paused") /\ UNCHANGED mode
      BY Zenon, <1>1, <2>4 DEF RunOnce
    <3>2. rep'[d].pc = "paused" /\ \A q \in Daemons : q # d => rep'[q] = rep[q]
      BY Zenon, <3>1, GotoPc
    <3>3. "running" # "down" /\ "paused" # "persist"
      BY Zenon
    <3>4. GuardStep(d)
      BY Zenon, <2>1, <2>2, <2>3, <2>4, <3>1, <3>2, <3>3 DEF GuardStep, Admits
    <3> QED
      BY Zenon, <3>4, GuardStepPauses
  <2>5. CASE ~paused'[d]
    <3>1. /\ rep'[d].pc # "persist" /\ \A q \in Daemons : q # d => rep'[q] = rep[q]
          /\ \A q \in Daemons : q # d => mode'[q] = mode[q]
      <4>1. CASE Fatal(d, "slot_mismatch")
        <5>1. rep'[d].pc = "off" /\ \A q \in Daemons : q # d => rep'[q] = rep[q]
          BY Zenon, <4>1, GotoPc DEF Fatal
        <5>2. \A q \in Daemons : q # d => mode'[q] = mode[q]
          BY Zenon, <4>1, CancelMode DEF Fatal
        <5>3. "off" # "persist"
          BY Zenon
        <5> QED
          BY Zenon, <5>1, <5>2, <5>3
      <4>2. CASE /\ rep' = [rep EXCEPT ![d] = [Replicator("connect") EXCEPT !.start = StartLSN]]
                 /\ UNCHANGED mode
        <5> DEFINE r == [Replicator("connect") EXCEPT !.start = StartLSN]
        <5>1. r.pc # "persist"
          BY Zenon DEF Replicator
        <5> HIDE DEF r
        <5> QED
          BY Zenon, <1>0, <4>2, <5>1 DEF r
      <4> QED
        BY Zenon, <1>1, <2>5, <4>1, <4>2 DEF RunOnce
    <3>2. GuardStep(d)
      BY Zenon, <2>2, <2>3, <2>5, <3>1 DEF GuardStep, Admits
    <3> QED
      BY Zenon, <3>2, GuardStepPauses
  <2> QED
    BY Zenon, <2>4, <2>5
<1>2. CASE StartReplication(d) \/ LoseConnection(d) \/ NoticeClosed(d) \/ Reconnect(d)
  <2>1. /\ rep[d].pc \in {"start", "connect", "stream", "ack", "backoff"}
        /\ UNCHANGED <<paused, mode>>
    BY Zenon, <1>2 DEF StartReplication, LoseConnection, NoticeClosed, Reconnect, daemonVars
  <2>2. ~paused[d]
    <3>1. rep[d].pc \notin {"paused", "off"}
      BY Zenon, <2>1
    <3> QED
      BY Zenon, <3>1 DEF PauseInv, PausedIsDisconnected
  <2>3. rep'[d].pc # "persist" /\ \A q \in Daemons : q # d => rep'[q] = rep[q]
    <3>1. CASE \E pc \in {"backoff", "start"} : Goto(d, pc)
      <4>1. PICK pc \in {"backoff", "start"} : Goto(d, pc)
        BY Zenon, <3>1
      <4>2. pc # "persist"
        BY Zenon
      <4> QED
        BY Zenon, <4>1, <4>2, GotoPc
    <3>2. CASE StartReplication(d) /\ ~Goto(d, "backoff")
      <4> DEFINE r == [Replicator("stream") EXCEPT
                         !.start = rep[d].start,
                         !.cursor = IF rep[d].start > slot.confirmed THEN rep[d].start
                                    ELSE slot.confirmed,
                         !.durable = IF db.checkpoint # 0 THEN db.checkpoint
                                     ELSE rep[d].start]
      <4>1. rep' = [rep EXCEPT ![d] = r]
        BY Zenon, <3>2 DEF StartReplication
      <4>2. r.pc # "persist"
        BY Zenon DEF Replicator
      <4> HIDE DEF r
      <4> QED
        BY Zenon, <1>0, <4>1, <4>2
    <3> QED
      BY Zenon, <1>2, <3>1, <3>2 DEF LoseConnection, NoticeClosed, Reconnect
  <2>4. GuardStep(d)
    BY Zenon, <2>1, <2>2, <2>3 DEF GuardStep, Admits
  <2> QED
    BY Zenon, <2>4, GuardStepPauses
<1>3. CASE WaitForDisk(d)
  <2>1. /\ ~PausedAfter(paused[d], disk) /\ paused' = [paused EXCEPT ![d] = FALSE]
        /\ Goto(d, "start") /\ UNCHANGED mode
    BY Zenon, <1>3 DEF WaitForDisk, daemonVars
  <2>2. rep'[d].pc = "start" /\ \A q \in Daemons : q # d => rep'[q] = rep[q]
    BY Zenon, <2>1, GotoPc
  <2>3. ~paused'[d] /\ \A q \in Daemons : q # d => paused'[q] = paused[q]
    BY Zenon, <1>0, <2>1
  <2>4. paused[d] => ~PausedAfter(TRUE, disk)
    BY Zenon, <2>1 DEF PausedAfter
  <2>5. "start" # "persist"
    BY Zenon
  <2>6. GuardStep(d)
    BY Zenon, <2>1, <2>2, <2>3, <2>4, <2>5 DEF GuardStep, Admits
  <2> QED
    BY Zenon, <2>6, GuardStepPauses
<1>4. CASE RoutineDiskCheck(d)
  <2>1. /\ mode[d] = "running" /\ paused' = [paused EXCEPT ![d] = TRUE]
        /\ Goto(d, "paused") /\ UNCHANGED mode
    BY Zenon, <1>4 DEF RoutineDiskCheck, daemonVars
  <2>2. rep'[d].pc = "paused" /\ \A q \in Daemons : q # d => rep'[q] = rep[q]
    BY Zenon, <2>1, GotoPc
  <2>3. paused'[d] /\ \A q \in Daemons : q # d => paused'[q] = paused[q]
    BY Zenon, <1>0, <2>1
  <2>4. "paused" # "persist" /\ "running" # "down"
    BY Zenon
  <2>5. GuardStep(d)
    BY Zenon, <2>1, <2>2, <2>3, <2>4 DEF GuardStep, Admits
  <2> QED
    BY Zenon, <2>5, GuardStepPauses
<1>5. CASE SendStatus(d)
  BY Zenon, <1>5, GuardIdle DEF SendStatus, daemonVars
<1>6. CASE StopCapture(d)
  <2>1. "stopping" # "down"
    BY Zenon
  <2> QED
    BY Zenon, <1>6, <2>1, GuardStops DEF StopCapture
<1> QED
  BY Zenon, <1>1, <1>2, <1>3, <1>4, <1>5, <1>6

\* Receive: the forced check of persistBatch decides between the pause and the
\* write.
LEMMA ReceivePauses ==
  ASSUME TypeOK, PauseInv, NEW d \in Daemons, Receive(d)
  PROVE  PauseInv' /\ \A q \in Daemons : Admits(q)
<1> DEFINE m == MessageAt(wal[rep[d].cursor], rep[d].pos)
           last == rep[d].pos = LastPos(wal[rep[d].cursor])
           next == [rep[d] EXCEPT !.sm = Consume(rep[d].sm, m),
                                  !.cursor = IF last THEN rep[d].cursor + 1 ELSE rep[d].cursor,
                                  !.pos = IF last THEN 0 ELSE rep[d].pos + 1]
           full == [next EXCEPT !.pc = "persist",
                                !.batch = [events |-> rep[d].sm.events,
                                           lsn |-> rep[d].cursor,
                                           end |-> EndLSN(rep[d].cursor)]]
<1>0. /\ rep \in [Daemons -> ReplicatorType] /\ paused \in [Daemons -> BOOLEAN]
      /\ mode \in [Daemons -> {"down", "running", "stopping"}] /\ disk \in ProbeResults
  BY Zenon DEF TypeOK, DaemonType, CaptureType
<1>1. mode[d] = "running" /\ rep[d].pc = "stream"
  BY Zenon DEF Receive
<1>2. /\ mode[d] # "down" /\ ~paused[d]
  <2>1. "running" # "down" /\ "stream" \notin {"paused", "off"}
    BY Zenon
  <2> QED
    BY Zenon, <1>1, <2>1 DEF PauseInv, PausedIsDisconnected
<1>3. next.pc = "stream"
  <2>1. rep[d] \in ReplicatorType
    BY Zenon, <1>0
  <2> QED
    BY Zenon, <1>1, <2>1 DEF ReplicatorType
<1>4. \/ Fatal(d, ConsumeError(rep[d].sm, m)) /\ UNCHANGED paused
      \/ rep' = [rep EXCEPT ![d] = next] /\ UNCHANGED <<paused, mode>>
      \/ /\ paused' = [paused EXCEPT ![d] = PausedAfter(paused[d], disk)]
         /\ \/ paused'[d] /\ Goto(d, "paused")
            \/ ~paused'[d] /\ rep' = [rep EXCEPT ![d] = full]
         /\ UNCHANGED mode
  BY Zenon DEF Receive
<1> HIDE DEF m, last, next, full
<1>5. CASE Fatal(d, ConsumeError(rep[d].sm, m)) /\ UNCHANGED paused
  BY Zenon, <1>2, <1>5, GuardStops DEF Fatal
<1>6. CASE rep' = [rep EXCEPT ![d] = next] /\ UNCHANGED <<paused, mode>>
  <2>1. rep'[d] = next /\ \A q \in Daemons : q # d => rep'[q] = rep[q]
    BY Zenon, <1>0, <1>6
  <2>2. "stream" # "persist"
    BY Zenon
  <2>3. GuardStep(d)
    BY Zenon, <1>2, <1>3, <1>6, <2>1, <2>2 DEF GuardStep, Admits
  <2> QED
    BY Zenon, <2>3, GuardStepPauses
<1>7. CASE /\ paused' = [paused EXCEPT ![d] = PausedAfter(paused[d], disk)]
           /\ \/ paused'[d] /\ Goto(d, "paused")
              \/ ~paused'[d] /\ rep' = [rep EXCEPT ![d] = full]
           /\ UNCHANGED mode
  <2>1. /\ paused'[d] = PausedAfter(paused[d], disk)
        /\ \A q \in Daemons : q # d => paused'[q] = paused[q]
    BY Zenon, <1>0, <1>7
  <2>2. /\ paused'[d] => rep'[d].pc = "paused"
        /\ \A q \in Daemons : q # d => rep'[q] = rep[q]
    BY Zenon, <1>0, <1>7, GotoPc
  <2>3. ~paused'[d] => ~PausedAfter(FALSE, disk)
    <3>1. paused[d] \in BOOLEAN
      BY Zenon, <1>0
    <3> QED
      BY Zenon, <1>0, <2>1, <3>1, PausedAfterMonotone
  <2>4. "paused" # "persist"
    BY Zenon
  <2>5. GuardStep(d)
    BY Zenon, <1>2, <1>7, <2>1, <2>2, <2>3, <2>4 DEF GuardStep, Admits
  <2> QED
    BY Zenon, <2>5, GuardStepPauses
<1> QED
  BY Zenon, <1>4, <1>5, <1>6, <1>7

\* PersistCommittedBatch and the acknowledgement do not consult the guard.
LEMMA PersistPauses ==
  ASSUME TypeOK, PauseInv, \A e \in Daemons : TransactionInv(e), NEW d \in Daemons,
         \/ BeginBatch(d) \/ PersistEvent(d) \/ CommitBatch(d) \/ SnapshotConflict(d)
         \/ PersistBusy(d) \/ PersistFails(d) \/ Acknowledge(d)
  PROVE  PauseInv' /\ \A q \in Daemons : Admits(q)
<1>0. rep \in [Daemons -> ReplicatorType] /\ rep[d] \in ReplicatorType
  BY Zenon DEF TypeOK, CaptureType
<1>1. UNCHANGED paused /\ rep[d].pc \in {"persist", "ack"}
  BY Zenon DEF BeginBatch, PersistEvent, CommitBatch, AllInserted, SnapshotConflict,
               PersistBusy, PersistFails, Acknowledge, captureVars
<1>2. ~paused[d] /\ mode[d] # "down"
  <2>1. rep[d].pc \notin {"paused", "off"} /\ rep[d].pc # "off"
    BY Zenon, <1>1
  <2> QED
    BY Zenon, <2>1 DEF PauseInv, PausedIsDisconnected, TransactionInv
<1>3. CASE \E reason : Fatal(d, reason)
  BY Zenon, <1>1, <1>2, <1>3, GuardStops DEF Fatal
<1>4. CASE UNCHANGED <<rep, mode>>
  BY Zenon, <1>1, <1>4, GuardIdle
<1>5. CASE CommitBatch(d) \/ Acknowledge(d)
  <2>1. /\ rep'[d].pc # "persist" /\ UNCHANGED mode
        /\ \A q \in Daemons : q # d => rep'[q] = rep[q]
    <3>1. CASE CommitBatch(d)
      <4> DEFINE end == RaiseCheckpoint(tx[d].db, rep[d].batch.end).checkpoint
      <4>1. rep' = [rep EXCEPT ![d].pc = "ack", ![d].batch.end = end] /\ UNCHANGED mode
        BY Zenon, <3>1 DEF CommitBatch
      <4> HIDE DEF end
      <4>2. rep'[d].pc = "ack" /\ \A q \in Daemons : q # d => rep'[q] = rep[q]
        BY Zenon, <1>0, <4>1 DEF ReplicatorType
      <4> QED
        BY Zenon, <4>1, <4>2
    <3>2. CASE Acknowledge(d)
      <4>1. /\ rep' = [rep EXCEPT ![d] = [@ EXCEPT !.pc = "stream", !.batch = NoBatch,
                                                   !.durable = rep[d].batch.end]]
            /\ UNCHANGED mode
        BY Zenon, <3>2 DEF Acknowledge, daemonVars
      <4>2. rep'[d].pc = "stream" /\ \A q \in Daemons : q # d => rep'[q] = rep[q]
        BY Zenon, <1>0, <4>1 DEF ReplicatorType
      <4> QED
        BY Zenon, <4>1, <4>2
    <3> QED
      BY Zenon, <1>5, <3>1, <3>2
  <2>2. GuardStep(d)
    BY Zenon, <1>1, <1>2, <2>1 DEF GuardStep, Admits
  <2> QED
    BY Zenon, <2>2, GuardStepPauses
<1> QED
  BY Zenon, <1>3, <1>4, <1>5
     DEF BeginBatch, PersistEvent, SnapshotConflict, PersistBusy, PersistFails, captureVars

\* A daemon starts unpaused, and forgets the pause when its process ends.
LEMMA LifePauses ==
  ASSUME TypeOK, PauseInv, NEW d \in Daemons,
         (\E regs \in Configs : Start(d, regs)) \/ Signal(d) \/ Exit(d) \/ Crash(d)
  PROVE  PauseInv' /\ \A q \in Daemons : Admits(q)
<1>0. /\ rep \in [Daemons -> ReplicatorType] /\ paused \in [Daemons -> BOOLEAN]
      /\ mode \in [Daemons -> {"down", "running", "stopping"}]
  BY Zenon DEF TypeOK, DaemonType, CaptureType
<1>1. CASE \E regs \in Configs : Start(d, regs)
  <2>1. /\ mode[d] = "down" /\ mode' = [mode EXCEPT ![d] = "running"]
        /\ Goto(d, "start") /\ UNCHANGED paused
    BY Zenon, <1>1 DEF Start, Goto
  <2>2. rep'[d].pc = "start" /\ \A q \in Daemons : q # d => rep'[q] = rep[q]
    BY Zenon, <2>1, GotoPc
  <2>3. \A q \in Daemons : q # d => mode'[q] = mode[q]
    BY Zenon, <1>0, <2>1
  <2>4. ~paused[d] /\ "start" # "persist"
    BY Zenon, <2>1 DEF PauseInv
  <2>5. GuardStep(d)
    BY Zenon, <2>1, <2>2, <2>3, <2>4 DEF GuardStep, Admits
  <2> QED
    BY Zenon, <2>5, GuardStepPauses
<1>2. CASE Signal(d)
  <2>1. mode[d] = "running" /\ Cancel(d, "signal") /\ UNCHANGED <<rep, paused>>
    BY Zenon, <1>2 DEF Signal, captureVars
  <2>2. mode[d] # "down"
    BY Zenon, <2>1
  <2> QED
    BY Zenon, <2>1, <2>2, GuardStops
<1>3. CASE Exit(d) \/ Crash(d)
  <2>1. /\ mode' = [mode EXCEPT ![d] = "down"]
        /\ paused' = [paused EXCEPT ![d] = FALSE]
        /\ UNCHANGED rep \/ Goto(d, "off")
    BY Zenon, <1>3 DEF Exit, Crash, Goto
  <2>2. /\ mode'[d] = "down" /\ ~paused'[d]
        /\ \A q \in Daemons : q # d => mode'[q] = mode[q] /\ paused'[q] = paused[q]
    BY Zenon, <1>0, <2>1
  <2>3. /\ rep'[d].pc = "off" \/ rep'[d] = rep[d]
        /\ \A q \in Daemons : q # d => rep'[q] = rep[q]
    BY Zenon, <2>1, GotoPc
  <2>4. "off" # "persist" /\ "down" # "running"
    BY Zenon
  <2>5. GuardStep(d)
    BY Zenon, <2>2, <2>3, <2>4 DEF GuardStep, Admits
  <2> QED
    BY Zenon, <2>5, GuardStepPauses
<1> QED
  BY Zenon, <1>1, <1>2, <1>3

\* The worker's errors cancel the context; nothing else it does matters here.
LEMMA WorkerPauses ==
  ASSUME TypeOK, PauseInv, \A e \in Daemons : TransactionInv(e), NEW d \in Daemons,
         WorkerStep(d) \/ StoreFails(d), UNCHANGED captureVars
  PROVE  PauseInv' /\ \A q \in Daemons : Admits(q)
<1>1. UNCHANGED <<rep, paused>>
  BY Zenon DEF captureVars
<1>2. CASE UNCHANGED mode
  BY Zenon, <1>1, <1>2, GuardIdle
<1>3. CASE \E reason : Cancel(d, reason)
  <2>1. /\ mode'[d] = "stopping" /\ \A q \in Daemons : q # d => mode'[q] = mode[q]
    BY Zenon, <1>3, CancelMode
  <2>2. "stopping" # "down"
    BY Zenon
  <2>3. GuardStep(d)
    BY Zenon, <1>1, <2>1, <2>2 DEF GuardStep, Admits, PauseInv, PausedIsDisconnected
  <2> QED
    BY Zenon, <2>3, GuardStepPauses
<1> QED
  BY Zenon, <1>2, <1>3
     DEF WorkerStep, SelectNext, Accept, SendReturns, RecordSuccess, RecordFailure,
         RecordFails, StoreFails, StopWorker

\* The server, the disk, the maintenance commands and time.
LEMMA EnvironmentPauses ==
  ASSUME PauseInv,
         \/ (\E w \in WalItems : AppCommit(w)) \/ HandleStatus \/ ReleaseSlot \/ DiskChange
         \/ /\ \/ (\E k \in DOMAIN db.deliveries : Redrive(k)) \/ PruneCommit \/ PruneAbort
               \/ (\E c \in Cutoffs, l \in Limits : PruneBegin(c, l)) \/ Tick
            /\ UNCHANGED captureVars
  PROVE  PauseInv' /\ \A q \in Daemons : Admits(q)
<1>1. UNCHANGED <<rep, paused, mode>>
  BY Zenon DEF AppCommit, HandleStatus, ReleaseSlot, DiskChange, daemonVars, captureVars,
               Redrive, PruneCommit, PruneAbort, PruneBegin, Tick
<1> QED
  BY Zenon, <1>1, GuardIdle

\* Every step keeps PauseInv and admits only what the disk has room for.
LEMMA NextPauses ==
  ASSUME TypeOK, PauseInv, \A d \in Daemons : TransactionInv(d), [Next]_vars
  PROVE  PauseInv' /\ \A q \in Daemons : Admits(q)
<1>1. ASSUME NEW d \in Daemons, CaptureStep(d) \/ LoseConnection(d) \/ PersistFails(d)
      PROVE  PauseInv' /\ \A q \in Daemons : Admits(q)
  BY Zenon, <1>1, RunPauses, ReceivePauses, PersistPauses DEF CaptureStep, ReplicatorStep
<1>2. CASE UNCHANGED vars
  BY Zenon, <1>2, GuardIdle DEF vars, captureVars, daemonVars
<1>3. CASE Fault
  <2>1. CASE \E d \in Daemons : Crash(d) \/ Signal(d)
    BY Zenon, <2>1, LifePauses
  <2>2. CASE \E d \in Daemons : StoreFails(d) /\ UNCHANGED captureVars
    BY Zenon, <2>2, WorkerPauses
  <2> QED
    BY Zenon, <1>1, <1>3, <2>1, <2>2, EnvironmentPauses DEF Fault
<1>4. CASE \E d \in Daemons : DeliveryStep(d)
  BY Zenon, <1>4, WorkerPauses DEF DeliveryStep
<1>5. CASE \E d \in Daemons : Exit(d) \/ \E regs \in Configs : Start(d, regs)
  BY Zenon, <1>5, LifePauses
<1>6. CASE (\E w \in WalItems : AppCommit(w)) \/ ServerStep \/ PruneEnds \/ Time
  BY Zenon, <1>6, EnvironmentPauses DEF ServerStep, PruneEnds, Time
<1> QED
  BY Zenon, <1>1, <1>2, <1>3, <1>4, <1>5, <1>6 DEF Next

\* The guard's state and the replicator's agree after every step.
THEOREM PauseInvariance == Spec => []PauseInv
<1>1. Init => PauseInv
  <2>1. Replicator("off").pc = "off"
    BY Zenon DEF Replicator
  <2> QED
    BY Zenon, <2>1 DEF Init, DaemonInit, CaptureInit, PauseInv, PausedIsDisconnected
<1>2. TypeOK /\ CaptureInv /\ PauseInv /\ [Next]_vars => PauseInv'
  BY Zenon, NextPauses DEF CaptureInv
<1> QED
  BY <1>1, <1>2, CaptureInvariance, PTL DEF Spec

\* checkDisk and persistBatch: a paused daemon holds no stream open and writes
\* nothing.
THEOREM PausedDaemonsAreDisconnected == Spec => []PausedIsDisconnected
<1>1. PauseInv => PausedIsDisconnected
  BY Zenon DEF PauseInv
<1> QED
  BY <1>1, PauseInvariance, PTL

\* persistBatch admits a batch only when the probe of that moment finds room,
\* and a pause ends only at the higher threshold: guard.go, Check.
THEOREM DiskIsAdmitted == Spec => DiskAdmission
<1>1. TypeOK /\ CaptureInv /\ PauseInv /\ [Next]_vars
        => [\A d \in Daemons : Admits(d)]_<<rep, paused, mode>>
  BY Zenon, NextPauses DEF CaptureInv
<1> QED
  BY <1>1, CaptureInvariance, PauseInvariance, PTL DEF Spec, DiskAdmission
=============================================================================
