------------------------------- MODULE Daemon -------------------------------
(***************************************************************************)
(* The processes that share one spool file: writerelayd daemons            *)
(* (internal/app/app.go) and the maintenance commands.  The module holds   *)
(* the durable database, the SQLite transactions that are open on it, and  *)
(* the life of each daemon.                                                *)
(*                                                                         *)
(* SQLite runs in WAL mode: one writer at a time, readers see the last     *)
(* committed database.  A transaction that has only read is on a snapshot; *)
(* when another process commits meanwhile, its first write fails at once   *)
(* (SQLITE_BUSY_SNAPSHOT), whatever the busy timeout.  A daemon has one    *)
(* connection (SetMaxOpenConns(1)): while a transaction of the daemon is   *)
(* open its other statements wait.                                         *)
(***************************************************************************)
EXTENDS Spool

CONSTANTS
  Daemons,          \* daemon processes that may run against the spool
  Nobody,           \* no process: no lock holder, no slot owner
  Operator          \* the process of a maintenance command

ASSUME ProcessAssumption == /\ Nobody \notin Daemons
                            /\ Operator \notin Daemons
                            /\ Operator # Nobody

VARIABLES
  db,       \* the committed database
  lock,     \* the process that holds SQLite's write lock
  tx,       \* tx[d]: the open capture transaction of daemon d
  mode,     \* mode[d]: "down", "running", or "stopping" (context cancelled)
  exit      \* exit[d]: why the daemon's context was cancelled

\* next: the event of the batch to insert next; stale: another process has
\* committed since the transaction's snapshot.
NoTx == [open |-> FALSE, db |-> EmptyDb, next |-> 0, stale |-> FALSE]
OpenTx(b, next, stale) == [open |-> TRUE, db |-> b, next |-> next, stale |-> stale]
TxType(t) ==
  /\ t = [open |-> t.open, db |-> t.db, next |-> t.next, stale |-> t.stale]
  /\ t.open \in BOOLEAN /\ t.stale \in BOOLEAN
  /\ t.next \in Nat
  /\ DbType(t.db)

ExitReasons == {"none", "signal", "protocol_state", "protected_event",
                "transaction_limit", "slot_mismatch", "identity_conflict",
                "durability", "busy_timeout", "busy_snapshot", "worker"}

DaemonType ==
  /\ DbType(db)
  /\ lock \in Daemons \cup {Operator, Nobody}
  /\ DOMAIN tx = Daemons /\ \A d \in Daemons : TxType(tx[d])
  /\ mode \in [Daemons -> {"down", "running", "stopping"}]
  /\ exit \in [Daemons -> ExitReasons]

DaemonInit ==
  /\ db = EmptyDb
  /\ lock = Nobody
  /\ tx = [d \in Daemons |-> NoTx]
  /\ mode = [d \in Daemons |-> "down"]
  /\ exit = [d \in Daemons |-> "none"]
-----------------------------------------------------------------------------
\* A commit that changes the database invalidates every snapshot that is open;
\* one that changes nothing leaves no trace in the write-ahead log.
SnapshotsAfter(b) ==
  [d \in Daemons |-> [tx[d] EXCEPT !.stale = @ \/ (tx[d].open /\ b # db)]]

\* A statement of its own transaction by a process without an open one.
Write(b) ==
  /\ lock = Nobody
  /\ db' = b
  /\ tx' = SnapshotsAfter(b)

\* The connection of daemon d is free, and so is the write lock.
CanWrite(d) == lock = Nobody /\ ~tx[d].open

\* d loses its transaction: SQLite rolls it back and frees the lock.
Rollback(d) ==
  /\ tx' = [tx EXCEPT ![d] = NoTx]
  /\ lock' = IF lock = d THEN Nobody ELSE lock

\* The first task error cancels the context of every task (runTogether);
\* once it is cancelled, Run and Worker.Run report no error any more.
Cancel(d, reason) ==
  /\ mode' = [mode EXCEPT ![d] = "stopping"]
  /\ exit' = [exit EXCEPT ![d] = IF mode[d] = "running" THEN reason ELSE @]
=============================================================================
