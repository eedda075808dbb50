------------------------------ MODULE Capture ------------------------------
(***************************************************************************)
(* Capture, internal/postgres/replicator.go: each daemon's Replicator      *)
(* reads the logical replication stream of one PostgreSQL slot, spools     *)
(* every committed transaction in one SQLite transaction together with its *)
(* end position, and only then acknowledges that position.                 *)
(*                                                                         *)
(* PostgreSQL is external.  wal holds, in commit order, what the slot      *)
(* decodes: transactions and non-transactional messages (a rolled-back     *)
(* transaction never gets there).  The i-th item starts at LSN i and ends  *)
(* at LSN i + 1; LSN 0 is the invalid position.                            *)
(***************************************************************************)
EXTENDS Daemon, StateMachine, DiskGuard

CONSTANTS
  WalItems,         \* the items that applications may commit
  MaxWal,           \* bound: items committed
  MaxStatuses       \* bound: status updates in flight

VARIABLES
  wal,      \* the decoded write-ahead log
  slot,     \* [confirmed, owner]: confirmed_flush_lsn, and the daemon whose
            \* walsender the server believes alive
  statuses, \* standby status updates sent to the walsender, not yet handled
  rep,      \* rep[d]: the replicator of daemon d
  disk,     \* what a probe of the spool's filesystem would see
  paused    \* paused[d]: the guard's status.Paused

captureVars == <<wal, slot, statuses, rep, disk, paused>>
daemonVars == <<db, lock, tx, mode, exit>>

Body == [protected : BOOLEAN, valid : BOOLEAN, id : Identities, digest : Digests]
ASSUME WalItemsAssumption ==
  \A w \in WalItems : /\ w = [transactional |-> w.transactional, body |-> w.body]
                      /\ w.transactional \in BOOLEAN
                      /\ w.body \in Seq(Body)
                      /\ ~w.transactional => w.body # << >>

FirstLSN == 1
EndLSN(i) == i + 1

NoBatch == [events |-> << >>, lsn |-> 0, end |-> 0]
Replicator(pc) == [pc |-> pc, start |-> 0, durable |-> 0, cursor |-> 0, pos |-> 0,
                   sm |-> NewStateMachine, batch |-> NoBatch]

\* The states of Run and runOnce: about to call runOnce, between startLSN and
\* StartReplication, receiving, inside PersistCommittedBatch, about to send
\* the acknowledgement, waiting to reconnect, waiting for disk space, returned.
Pcs == {"start", "connect", "stream", "persist", "ack", "backoff", "paused", "off"}
Connected == {"stream", "persist", "ack"}

ReplicatorType ==
  [pc : Pcs, start : Nat, durable : Nat, cursor : Nat, pos : Nat,
   sm : MachineState,
   batch : [events : Seq(BufferedEvent), lsn : Nat, end : Nat]]

CaptureType ==
  /\ wal \in Seq(WalItems)
  /\ slot \in [confirmed : Nat, owner : Daemons \cup {Nobody}]
  /\ statuses \in Seq(Nat)
  /\ rep \in [Daemons -> ReplicatorType]
  /\ disk \in ProbeResults
  /\ paused \in [Daemons -> BOOLEAN]

CaptureInit ==
  /\ wal = << >>
  /\ slot = [confirmed |-> FirstLSN, owner |-> Nobody]
  /\ statuses = << >>
  /\ rep = [d \in Daemons |-> Replicator("off")]
  /\ disk \in {l \in DiskLevels : ~PausedAfter(FALSE, l)}
  /\ paused = [d \in Daemons |-> FALSE]
-----------------------------------------------------------------------------
(* PostgreSQL.                                                             *)

AppCommit(w) ==
  /\ Len(wal) < MaxWal
  /\ wal' = Append(wal, w)
  /\ UNCHANGED <<slot, statuses, rep, disk, paused, daemonVars>>

\* The walsender handles a status update: confirmed_flush_lsn is set to it.
HandleStatus ==
  /\ statuses # << >>
  /\ slot' = [slot EXCEPT !.confirmed = Head(statuses)]
  /\ statuses' = Tail(statuses)
  /\ UNCHANGED <<wal, rep, disk, paused, daemonVars>>

\* The server ends the walsender and frees the slot; what it has not read
\* from the connection is lost.
ReleaseSlot ==
  /\ slot.owner # Nobody
  /\ slot' = [slot EXCEPT !.owner = Nobody]
  /\ statuses' = << >>
  /\ UNCHANGED <<wal, rep, disk, paused, daemonVars>>

\* The pgoutput messages of an item: Begin, its body, Commit; or the bare
\* non-transactional message.
LastPos(w) == IF w.transactional THEN Len(w.body) + 1 ELSE Len(w.body) - 1
MessageAt(w, p) ==
  IF w.transactional /\ p = 0 THEN [type |-> "begin"]
  ELSE IF w.transactional /\ p > Len(w.body) THEN [type |-> "commit"]
  ELSE LET b == w.body[IF w.transactional THEN p ELSE p + 1]
       IN  [type |-> "message", transactional |-> w.transactional,
            protected |-> b.protected, valid |-> b.valid,
            id |-> b.id, digest |-> b.digest, at |-> p]

DiskChange ==
  /\ disk' \in ProbeResults \ {disk}
  /\ UNCHANGED <<wal, slot, statuses, rep, paused, daemonVars>>
-----------------------------------------------------------------------------
(* The replicator.                                                         *)

\* runOnce returns: its deferred functions close the connection.
Goto(d, pc) == rep' = [rep EXCEPT ![d] = Replicator(pc)]

\* Run returns a fatal error.
Fatal(d, reason) == Goto(d, "off") /\ Cancel(d, reason)

\* Mutant: replication starts one position late.
StartLSNLate == IF db.checkpoint # 0 THEN db.checkpoint + 1 ELSE slot.confirmed

StartLSN == IF db.checkpoint # 0 THEN db.checkpoint ELSE slot.confirmed

\* runOnce up to the end of startLSN: the forced disk check, then the slot is
\* read and validated, then the local checkpoint is read.
RunOnce(d) ==
  /\ mode[d] = "running" /\ rep[d].pc = "start" /\ ~tx[d].open
  /\ paused' = [paused EXCEPT ![d] = PausedAfter(@, disk)]
  /\ \/ /\ paused'[d]
        /\ Goto(d, "paused")
        /\ UNCHANGED <<mode, exit>>
     \/ /\ ~paused'[d]
        /\ slot.owner # Nobody
        /\ Fatal(d, "slot_mismatch")
     \/ /\ ~paused'[d]
        /\ slot.owner = Nobody
        /\ rep' = [rep EXCEPT ![d] = [Replicator("connect") EXCEPT !.start = StartLSN]]
        /\ UNCHANGED <<mode, exit>>
  /\ UNCHANGED <<wal, slot, statuses, disk, db, lock, tx>>

\* START_REPLICATION, then LastDurableLSN.  The server streams from the later
\* of the requested position and confirmed_flush_lsn; it refuses while the
\* slot is in use.
StartReplication(d) ==
  /\ mode[d] = "running" /\ rep[d].pc = "connect" /\ ~tx[d].open
  /\ \/ /\ slot.owner # Nobody
        /\ Goto(d, "backoff")
        /\ UNCHANGED <<slot, statuses>>
     \/ /\ slot.owner = Nobody
        /\ slot' = [slot EXCEPT !.owner = d]
        /\ statuses' = << >>
        /\ rep' = [rep EXCEPT ![d] =
             [Replicator("stream") EXCEPT
                !.start = rep[d].start,
                !.cursor = IF rep[d].start > slot.confirmed THEN rep[d].start
                           ELSE slot.confirmed,
                !.durable = IF db.checkpoint # 0 THEN db.checkpoint
                            ELSE rep[d].start]]
  /\ UNCHANGED <<wal, disk, paused, daemonVars>>

\* A connection attempt fails, or an established one is lost.  runOnce gets to
\* its first attempt only if the disk check lets it.
LoseConnection(d) ==
  /\ mode[d] = "running" /\ rep[d].pc \in {"start", "connect", "stream", "ack"}
  /\ rep[d].pc = "start" => ~PausedAfter(paused[d], disk)
  /\ Goto(d, "backoff")
  /\ UNCHANGED <<wal, slot, statuses, disk, paused, daemonVars>>

\* A receive or a send finds that the server has closed the connection.
NoticeClosed(d) ==
  /\ rep[d].pc \in {"stream", "ack"} /\ slot.owner # d
  /\ mode[d] = "running"
  /\ Goto(d, "backoff")
  /\ UNCHANGED <<wal, slot, statuses, disk, paused, daemonVars>>

\* Mutant: the backoff timer is set again each time it fires.
ReconnectNever(d) ==
  /\ mode[d] = "running" /\ rep[d].pc = "backoff"
  /\ UNCHANGED <<captureVars, daemonVars>>

Reconnect(d) ==
  /\ mode[d] = "running" /\ rep[d].pc = "backoff"
  /\ Goto(d, "start")
  /\ UNCHANGED <<wal, slot, statuses, disk, paused, daemonVars>>

\* Mutant: capture resumes at the threshold at which it pauses.
WaitForDiskEager(d) ==
  /\ mode[d] = "running" /\ rep[d].pc = "paused"
  /\ ~PausedAfter(FALSE, disk)
  /\ paused' = [paused EXCEPT ![d] = FALSE]
  /\ Goto(d, "start")
  /\ UNCHANGED <<wal, slot, statuses, disk, daemonVars>>

WaitForDisk(d) ==
  /\ mode[d] = "running" /\ rep[d].pc = "paused"
  /\ ~PausedAfter(paused[d], disk)
  /\ paused' = [paused EXCEPT ![d] = FALSE]
  /\ Goto(d, "start")
  /\ UNCHANGED <<wal, slot, statuses, disk, daemonVars>>

\* Mutant: the pause leaves the stream open.
RoutineDiskCheckStreaming(d) ==
  /\ mode[d] = "running" /\ rep[d].pc = "stream"
  /\ PausedAfter(paused[d], disk)
  /\ paused' = [paused EXCEPT ![d] = TRUE]
  /\ UNCHANGED <<wal, slot, statuses, rep, disk, daemonVars>>

\* checkDisk(false) at the head of the receive loop, when the last sample has
\* expired and the new one pauses capture.
RoutineDiskCheck(d) ==
  /\ mode[d] = "running" /\ rep[d].pc = "stream"
  /\ PausedAfter(paused[d], disk)
  /\ paused' = [paused EXCEPT ![d] = TRUE]
  /\ Goto(d, "paused")
  /\ UNCHANGED <<wal, slot, statuses, disk, daemonVars>>

\* The receive timeout, or a keepalive that requests a reply.  What is sent
\* on a connection the server has closed is lost.
Status(d, lsn) ==
  statuses' = IF slot.owner = d THEN Append(statuses, lsn) ELSE statuses
\* Mutants: a keepalive is answered with the server's own position; or with
\* the position replication started from.
SendStatusServerEnd(d) ==
  /\ mode[d] = "running" /\ rep[d].pc = "stream"
  /\ Len(statuses) < MaxStatuses
  /\ Status(d, Len(wal) + 1)
  /\ UNCHANGED <<wal, slot, rep, disk, paused, daemonVars>>
SendStatusStart(d) ==
  /\ mode[d] = "running" /\ rep[d].pc = "stream"
  /\ Len(statuses) < MaxStatuses
  /\ Status(d, rep[d].start)
  /\ UNCHANGED <<wal, slot, rep, disk, paused, daemonVars>>

SendStatus(d) ==
  /\ mode[d] = "running" /\ rep[d].pc = "stream"
  /\ Len(statuses) < MaxStatuses
  /\ Status(d, rep[d].durable)
  /\ UNCHANGED <<wal, slot, rep, disk, paused, daemonVars>>

\* An XLogData message: it is decoded and consumed; a completed batch enters
\* persistBatch, whose forced disk check may drop it.
Receive(d) ==
  /\ mode[d] = "running" /\ rep[d].pc = "stream"
  /\ rep[d].cursor <= Len(wal)
  /\ LET r == rep[d]
         m == MessageAt(wal[r.cursor], r.pos)
         last == r.pos = LastPos(wal[r.cursor])
         next == [r EXCEPT !.sm = Consume(r.sm, m),
                           !.cursor = IF last THEN r.cursor + 1 ELSE r.cursor,
                           !.pos = IF last THEN 0 ELSE r.pos + 1]
     IN \/ /\ ConsumeError(r.sm, m) # "none"
           /\ Fatal(d, ConsumeError(r.sm, m))
           /\ UNCHANGED paused
        \/ /\ ConsumeError(r.sm, m) = "none" /\ ~CompletesBatch(r.sm, m)
           /\ rep' = [rep EXCEPT ![d] = next]
           /\ UNCHANGED <<paused, mode, exit>>
        \/ /\ ConsumeError(r.sm, m) = "none" /\ CompletesBatch(r.sm, m)
           /\ paused' = [paused EXCEPT ![d] = PausedAfter(@, disk)]
           /\ \/ paused'[d] /\ Goto(d, "paused")
              \/ /\ ~paused'[d]
                 /\ rep' = [rep EXCEPT ![d] =
                      [next EXCEPT !.pc = "persist",
                                   !.batch = [events |-> r.sm.events,
                                              lsn |-> r.cursor,
                                              end |-> EndLSN(r.cursor)]]]
           /\ UNCHANGED <<mode, exit>>
  /\ UNCHANGED <<wal, slot, statuses, disk, db, lock, tx>>
-----------------------------------------------------------------------------
(* PersistCommittedBatch, then the acknowledgement.                        *)

\* BEGIN is deferred: the first INSERT takes the write lock; the transaction
\* of a batch without events only reads the checkpoint at first.
BeginBatch(d) ==
  /\ mode[d] = "running" /\ rep[d].pc = "persist" /\ ~tx[d].open
  /\ \/ /\ rep[d].batch.events # << >>
        /\ lock = Nobody
        /\ lock' = d
     \/ /\ rep[d].batch.events = << >>
        /\ UNCHANGED lock
  /\ tx' = [tx EXCEPT ![d] = OpenTx(db, 1, FALSE)]
  /\ UNCHANGED <<captureVars, db, mode, exit>>

\* Mutant: each event is committed on its own.
PersistEventAutocommit(d) ==
  /\ rep[d].pc = "persist" /\ tx[d].open
  /\ tx[d].next <= Len(rep[d].batch.events)
  /\ ~IdentityConflict(tx[d].db, rep[d].batch.events[tx[d].next])
  /\ LET b == SpoolEvent(tx[d].db, rep[d].batch.events[tx[d].next], rep[d].batch.lsn)
     IN /\ db' = b
        /\ tx' = [tx EXCEPT ![d] = OpenTx(b, @.next + 1, @.stale)]
  /\ UNCHANGED <<captureVars, lock, mode, exit>>

\* insertOrVerify and ensureDeliveriesForEvent for the next event.
PersistEvent(d) ==
  /\ rep[d].pc = "persist" /\ tx[d].open
  /\ tx[d].next <= Len(rep[d].batch.events)
  /\ LET e == rep[d].batch.events[tx[d].next]
     IN \/ /\ IdentityConflict(tx[d].db, e)
           /\ Rollback(d)
           /\ Fatal(d, "identity_conflict")
        \/ /\ ~IdentityConflict(tx[d].db, e)
           /\ tx' = [tx EXCEPT ![d] =
                OpenTx(SpoolEvent(@.db, e, rep[d].batch.lsn), @.next + 1, @.stale)]
           /\ UNCHANGED <<rep, lock, mode, exit>>
  /\ UNCHANGED <<wal, slot, statuses, disk, paused, db>>

AllInserted(d) ==
  /\ rep[d].pc = "persist" /\ tx[d].open
  /\ tx[d].next > Len(rep[d].batch.events)

\* The checkpoint moves, which needs the write lock.
MovesCheckpoint(d) == rep[d].batch.end > tx[d].db.checkpoint

\* The checkpoint is raised and the transaction commits; the result is the
\* checkpoint it leaves.
CommitBatch(d) ==
  /\ AllInserted(d)
  /\ \/ lock = d
     \/ MovesCheckpoint(d) /\ lock = Nobody /\ ~tx[d].stale
     \/ ~MovesCheckpoint(d)
  /\ LET b == RaiseCheckpoint(tx[d].db, rep[d].batch.end)
         new == IF lock = d \/ MovesCheckpoint(d) THEN b ELSE db
     IN /\ db' = new
        /\ tx' = [SnapshotsAfter(new) EXCEPT ![d] = NoTx]
        /\ rep' = [rep EXCEPT ![d].pc = "ack", ![d].batch.end = b.checkpoint]
  /\ lock' = IF lock = d THEN Nobody ELSE lock
  /\ UNCHANGED <<wal, slot, statuses, disk, paused, mode, exit>>

\* The checkpoint's first write meets a newer commit than its snapshot.
SnapshotConflict(d) ==
  /\ AllInserted(d) /\ lock # d
  /\ MovesCheckpoint(d) /\ tx[d].stale
  /\ Rollback(d)
  /\ Fatal(d, "busy_snapshot")
  /\ UNCHANGED <<wal, slot, statuses, disk, paused, db>>

\* Another process keeps the write lock longer than the busy timeout; a
\* transaction that has already read does not even wait.
PersistBusy(d) ==
  /\ rep[d].pc = "persist" /\ lock \notin {d, Nobody}
  /\ \/ ~tx[d].open /\ rep[d].batch.events # << >>
     \/ AllInserted(d) /\ MovesCheckpoint(d)
  /\ Rollback(d)
  /\ Fatal(d, "busy_timeout")
  /\ UNCHANGED <<wal, slot, statuses, disk, paused, db>>

\* A statement or the COMMIT fails (disk full, I/O error): ErrDurability.
PersistFails(d) ==
  /\ rep[d].pc = "persist" /\ tx[d].open
  /\ Rollback(d)
  /\ Fatal(d, "durability")
  /\ UNCHANGED <<wal, slot, statuses, disk, paused, db>>

\* acknowledge(result.DurableLSN); durableLSN follows it.
Acknowledge(d) ==
  /\ rep[d].pc = "ack"
  /\ Len(statuses) < MaxStatuses
  /\ Status(d, rep[d].batch.end)
  /\ rep' = [rep EXCEPT ![d] = [@ EXCEPT !.pc = "stream", !.batch = NoBatch,
                                         !.durable = rep[d].batch.end]]
  /\ UNCHANGED <<wal, slot, disk, paused, daemonVars>>

\* The cancelled context ends Run; inside PersistCommittedBatch it rolls the
\* transaction back.
StopCapture(d) ==
  /\ mode[d] = "stopping" /\ rep[d].pc \notin {"off", "ack"}
  /\ Rollback(d)
  /\ Goto(d, "off")
  /\ UNCHANGED <<wal, slot, statuses, disk, paused, db, mode, exit>>
-----------------------------------------------------------------------------
ReplicatorStep(d) ==
  \/ RunOnce(d) \/ StartReplication(d) \/ NoticeClosed(d) \/ Reconnect(d)
  \/ WaitForDisk(d) \/ RoutineDiskCheck(d) \/ SendStatus(d) \/ Receive(d)
  \/ BeginBatch(d) \/ PersistEvent(d) \/ CommitBatch(d) \/ SnapshotConflict(d)
  \/ PersistBusy(d) \/ Acknowledge(d) \/ StopCapture(d)
-----------------------------------------------------------------------------
(* What capture promises.                                                  *)

\* The position up to which the spool has taken over from the slot.
DurableLSN == IF db.checkpoint # 0 THEN db.checkpoint ELSE FirstLSN

\* Every protected message below an LSN is in the spool, with its content.
SpooledBelow(lsn) ==
  \A i \in DOMAIN wal : i < lsn =>
    \A j \in DOMAIN wal[i].body :
      wal[i].body[j].protected => SpooledIn(db, wal[i].body[j])

\* PostgreSQL is never allowed to forget an event that is not in the spool,
\* whatever was lost, retried or replayed: persistThenAcknowledge, the
\* keepalive replies of runOnce and startLSN.
ReleasedIsSpooled == SpooledBelow(slot.confirmed)

\* No acknowledgement, handled or in flight, exceeds the durable checkpoint,
\* and the checkpoint covers only transactions that are in the spool.
AckedIsDurable ==
  /\ slot.confirmed <= DurableLSN
  /\ \A i \in DOMAIN statuses : statuses[i] <= DurableLSN
  /\ SpooledBelow(DurableLSN)

\* The spool holds only events of committed transactions that lie below its
\* checkpoint: PersistCommittedBatch stores a transaction and the checkpoint
\* together, and nothing of a transaction before its Commit.
SpooledIsCommitted ==
  \A n \in DOMAIN db.events :
    LET e == db.events[n]
    IN /\ e.lsn \in DOMAIN wal /\ e.lsn < DurableLSN
       /\ wal[e.lsn].transactional
       /\ e.at \in DOMAIN wal[e.lsn].body
       /\ wal[e.lsn].body[e.at].protected
       /\ wal[e.lsn].body[e.at].id = e.id
       /\ wal[e.lsn].body[e.at].digest = e.digest

\* Spool sequence numbers follow commit order, and message order within a
\* transaction; an identity is stored once.
SpoolOrder ==
  \A m, n \in DOMAIN db.events : m < n =>
    /\ db.events[m].id # db.events[n].id
    /\ \/ db.events[m].lsn < db.events[n].lsn
       \/ db.events[m].lsn = db.events[n].lsn /\ db.events[m].at < db.events[n].at

\* A paused guard has closed the stream: it neither receives nor writes
\* (checkDisk, persistBatch).
PausedIsDisconnected ==
  \A d \in Daemons : paused[d] => rep[d].pc \in {"paused", "off"}

\* The checkpoint and confirmed_flush_lsn never move back, even though the
\* server takes every status update at its word (RaiseCheckpoint, runOnce).
PositionsNeverRegress ==
  [][db'.checkpoint >= db.checkpoint /\ slot'.confirmed >= slot.confirmed]_<<db, slot>>

Admits(d) ==
  /\ rep[d].pc # "persist" /\ rep'[d].pc = "persist" => ~PausedAfter(FALSE, disk)
  /\ paused[d] /\ ~paused'[d] /\ mode'[d] = "running" => ~PausedAfter(TRUE, disk)

\* A batch is handed to SQLite only when the disk has room at that moment, and
\* a paused daemon resumes only at the higher threshold (guard.go, Check).
DiskAdmission == [][\A d \in Daemons : Admits(d)]_<<rep, paused, mode>>
-----------------------------------------------------------------------------
(* Why it holds: the invariant of the capture protocol.                    *)

\* No item from one position up to another holds a protected message.
NothingBetween(from, to) ==
  \A i \in DOMAIN wal : from <= i /\ i < to =>
    \A j \in DOMAIN wal[i].body : ~wal[i].body[j].protected

\* The events include every protected message of a body up to the p-th.
Holds(events, body, p) ==
  \A j \in DOMAIN body : j <= p /\ body[j].protected =>
    \E k \in DOMAIN events : /\ events[k].id = body[j].id
                             /\ events[k].digest = body[j].digest

PositionInv ==
  /\ FirstLSN <= slot.confirmed /\ slot.confirmed <= DurableLSN
  /\ \A i \in DOMAIN statuses : FirstLSN <= statuses[i] /\ statuses[i] <= DurableLSN
  /\ DurableLSN <= Len(wal) + 1
  /\ SpooledBelow(DurableLSN)

\* A connected replicator has passed nothing but what is durable or needs no
\* spooling.
ConnectionInv(d) ==
  LET r == rep[d]
  IN /\ r.pc \in Connected \cup {"connect"} => FirstLSN <= r.start /\ r.start <= DurableLSN
     /\ r.pc \in Connected =>
          /\ FirstLSN <= r.durable /\ r.durable <= DurableLSN
          /\ FirstLSN <= r.cursor /\ r.cursor <= Len(wal) + 1
     /\ r.pc \in {"stream", "ack"} => NothingBetween(DurableLSN, r.cursor)
     /\ r.pc \in {"persist", "ack"} => r.pos = 0 /\ ~r.sm.inTx

\* Its buffer is complete up to the last message it has received.
BufferInv(d) ==
  LET r == rep[d]
      w == wal[r.cursor]
  IN r.pc = "stream" =>
       /\ r.pos > 0 => r.cursor <= Len(wal) /\ r.pos <= LastPos(w)
       /\ r.sm.inTx <=> r.pos > 0 /\ w.transactional
       /\ r.pos > 0 /\ w.transactional => Holds(r.sm.events, w.body, r.pos - 1)
       /\ r.pos > 0 /\ ~w.transactional => \A j \in 1..r.pos : ~w.body[j].protected

\* The batch being persisted is a whole transaction, the next one that matters.
BatchInv(d) ==
  LET r == rep[d]
  IN /\ r.pc = "persist" =>
          /\ r.batch.lsn \in DOMAIN wal /\ r.cursor = r.batch.lsn + 1
          /\ r.batch.end = EndLSN(r.batch.lsn)
          /\ NothingBetween(DurableLSN, r.batch.lsn)
          /\ Holds(r.batch.events, wal[r.batch.lsn].body, Len(wal[r.batch.lsn].body))
     /\ r.pc = "ack" => FirstLSN <= r.batch.end /\ r.batch.end <= DurableLSN

StreamInv(d) == ConnectionInv(d) /\ BufferInv(d) /\ BatchInv(d)

\* An open transaction has spooled the events before "next", on top of a
\* database that is still current unless its snapshot is stale.
TransactionInv(d) ==
  /\ mode[d] = "down" => rep[d].pc = "off"
  /\ tx[d].open => rep[d].pc = "persist"
  /\ lock = d => tx[d].open
  /\ tx[d].open =>
       /\ tx[d].next > 0 /\ tx[d].db.checkpoint <= db.checkpoint
       /\ \A k \in DOMAIN rep[d].batch.events :
            k < tx[d].next => SpooledIn(tx[d].db, rep[d].batch.events[k])
       /\ lock = d \/ ~tx[d].stale => LogGrows(db, tx[d].db)

\* Inductive, and stronger than AckedIsDurable and ReleasedIsSpooled: at each
\* point of the protocol of runOnce, persistThenAcknowledge and startLSN, what
\* has been received and not yet made durable is still in the replicator's
\* buffer or in its SQLite transaction.
CaptureInv ==
  /\ PositionInv
  /\ \A d \in Daemons : StreamInv(d) /\ TransactionInv(d)

\* Inductive: a daemon that is down has forgotten the pause.
PauseInv ==
  PausedIsDisconnected /\ \A d \in Daemons : mode[d] = "down" => ~paused[d]

\* What the walsender of d has heard does not exceed what d will send next.
SessionInv(d) ==
  LET r == rep[d]
  IN /\ slot.owner = d /\ r.pc \in Connected =>
          /\ slot.confirmed <= r.durable
          /\ \A i \in DOMAIN statuses : statuses[i] <= r.durable
     /\ r.pc = "ack" => r.durable <= r.batch.end
     /\ tx[d].open => r.durable <= tx[d].db.checkpoint \/ r.durable <= FirstLSN

\* Inductive with CaptureInv: status updates are handled in the order of their
\* positions, so confirmed_flush_lsn only rises.
StatusInv ==
  /\ \A i \in DOMAIN statuses : slot.confirmed <= statuses[i]
  /\ \A i, j \in DOMAIN statuses : i <= j => statuses[i] <= statuses[j]
  /\ \A d \in Daemons : SessionInv(d)

\* The events are protected messages of a body up to the p-th, in their order.
FromBody(events, body, p) ==
  /\ \A k \in DOMAIN events :
       LET at == events[k].at
       IN /\ at \in DOMAIN body /\ at <= p /\ body[at].protected
          /\ body[at].id = events[k].id /\ body[at].digest = events[k].digest
  /\ \A j, k \in DOMAIN events : j < k => events[j].at < events[k].at

ReceivedInv(d) ==
  LET r == rep[d]
      w == wal[r.batch.lsn]
  IN /\ r.pc = "stream" /\ r.sm.inTx =>
          FromBody(r.sm.events, wal[r.cursor].body, r.pos - 1)
     /\ r.pc = "persist" => w.transactional /\ FromBody(r.batch.events, w.body, Len(w.body))

\* The row is one of the events of the batch before the next one.
InsertedFrom(row, batch, next) ==
  /\ row.lsn = batch.lsn
  /\ \E k \in DOMAIN batch.events :
       /\ k < next /\ row.at = batch.events[k].at
       /\ row.id = batch.events[k].id /\ row.digest = batch.events[k].digest

UniqueIdentities(b) ==
  \A m, n \in DOMAIN b.events : b.events[m].id = b.events[n].id => m = n

\* c is b with events of the batch before the next one, in their order.
Inserts(b, c, batch, next) ==
  LET fresh == DOMAIN c.events \ DOMAIN b.events
  IN /\ \A n \in fresh : InsertedFrom(c.events[n], batch, next)
     /\ \A m, n \in fresh : m < n => c.events[m].at < c.events[n].at
     /\ UniqueIdentities(c)

\* Inductive with CaptureInv: what reaches the spool was received between the
\* Begin and the Commit of one transaction, in its order.
LogInv ==
  /\ SpooledIsCommitted /\ SpoolOrder
  /\ \A d \in Daemons :
       /\ ReceivedInv(d)
       /\ tx[d].open /\ (lock = d \/ ~tx[d].stale) =>
            Inserts(db, tx[d].db, rep[d].batch, tx[d].next)
=============================================================================
