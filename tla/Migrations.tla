----------------------------- MODULE Migrations -----------------------------
(***************************************************************************)
(* Opening the spool: Open, initialize and applyMigration of               *)
(* internal/spool/sqlite/sqlite.go.  Every process that opens the file     *)
(* reads the schema version and then applies the migrations that are       *)
(* missing, each in a SQLite transaction of its own; the version is read   *)
(* outside of them, so processes that start together may work from a       *)
(* version that is out of date.                                            *)
(*                                                                         *)
(* A schema is the set of the statements that have been carried out, the   *)
(* pair <<v, i>> standing for the i-th statement of migration v.  None of  *)
(* them can be repeated (CREATE TABLE, CREATE INDEX, CREATE TRIGGER and    *)
(* ADD COLUMN without IF NOT EXISTS), and the last one of a migration      *)
(* inserts its row into schema_migrations.                                 *)
(***************************************************************************)
EXTENDS Integers

CONSTANTS
  Openers,      \* processes that open the spool
  Nobody,       \* no process
  Newest,       \* the newest schema version
  Release,      \* Release[p]: currentSchemaVersion of the release p runs
  Statements    \* Statements[v]: how many statements migration v has

ASSUME MigrationAssumption ==
  /\ Nobody \notin Openers
  /\ Newest \in Nat /\ Release \in [Openers -> 1..Newest]
  /\ Statements \in [1..Newest -> Nat \ {0}]

VARIABLES
  schema,   \* the committed statements
  writer,   \* the process that holds SQLite's write lock
  op        \* op[p]: [pc, next, done]: a process in Open, the migration it
            \* applies, and how far it has got

openVars == <<schema, writer, op>>

OpenPcs == {"closed", "version", "migrate", "exec", "open"}
At(pc, next, done) == [pc |-> pc, next |-> next, done |-> done]
Closed == At("closed", 0, 0)

OpenType ==
  /\ schema \subseteq (1..Newest) \X Nat
  /\ writer \in Openers \cup {Nobody}
  /\ op \in [Openers -> [pc : OpenPcs, next : 0..Newest, done : Nat]]

\* A migration that is carried out, and all of them up to a version.
Migration(v) == {v} \X (1..Statements[v])
SchemaAt(n) == UNION {Migration(v) : v \in 1..n}

\* A new file, or one that an earlier release has left.
OpenInit ==
  /\ schema \in {SchemaAt(n) : n \in 0..Newest}
  /\ writer = Nobody
  /\ op = [p \in Openers |-> Closed]

\* COALESCE(MAX(version), 0), or 0 when there is no schema_migrations.
HasVersion(s, v) == <<v, Statements[v]>> \in s
Version(s) ==
  CHOOSE n \in 0..Newest : /\ n > 0 => HasVersion(s, n)
                           /\ \A m \in n + 1..Newest : ~HasVersion(s, m)
-----------------------------------------------------------------------------
\* A process starts, or starts again.
Open(p) ==
  /\ op[p].pc = "closed"
  /\ op' = [op EXCEPT ![p] = At("version", 0, 0)]
  /\ UNCHANGED <<schema, writer>>

\* Mutant: the loop over the missing migrations ends before the last one.
ReadVersionShort(p) ==
  /\ op[p].pc = "version"
  /\ LET v == Version(schema)
     IN op' = [op EXCEPT ![p] =
          IF v > Release[p] THEN Closed
          ELSE IF v + 1 >= Release[p] THEN At("open", 0, 0)
          ELSE At("migrate", v + 1, 0)]
  /\ UNCHANGED <<schema, writer>>

\* The version is read; a newer one than the release knows is an error.
ReadVersion(p) ==
  /\ op[p].pc = "version"
  /\ LET v == Version(schema)
     IN op' = [op EXCEPT ![p] =
          IF v > Release[p] THEN Closed
          ELSE IF v = Release[p] THEN At("open", 0, 0)
          ELSE At("migrate", v + 1, 0)]
  /\ UNCHANGED <<schema, writer>>

\* The first statement of the transaction takes the write lock; it waits while
\* another process holds it.
BeginMigration(p) ==
  /\ op[p].pc = "migrate" /\ writer = Nobody
  /\ writer' = p
  /\ op' = [op EXCEPT ![p] = At("exec", op[p].next, 0)]
  /\ UNCHANGED schema

\* Open returns an error: the transaction is rolled back.
OpenFails(p) ==
  /\ op' = [op EXCEPT ![p] = Closed]
  /\ writer' = IF writer = p THEN Nobody ELSE writer
  /\ UNCHANGED schema

\* Mutants: every statement is a transaction of its own; a failure leaves the
\* transaction open.
ExecAutocommit(p) ==
  /\ op[p].pc = "exec" /\ op[p].done < Statements[op[p].next]
  /\ LET statement == <<op[p].next, op[p].done + 1>>
     IN \/ statement \in schema /\ OpenFails(p)
        \/ /\ statement \notin schema
           /\ op' = [op EXCEPT ![p] = At("exec", op[p].next, op[p].done + 1)]
           /\ schema' = schema \cup {statement}
           /\ UNCHANGED writer
ExecFailsKeepingLock(p) ==
  /\ op[p].pc = "exec" /\ op[p].done < Statements[op[p].next]
  /\ LET statement == <<op[p].next, op[p].done + 1>>
     IN IF statement \in schema THEN op' = [op EXCEPT ![p] = Closed]
        ELSE op' = [op EXCEPT ![p] = At("exec", op[p].next, op[p].done + 1)]
  /\ UNCHANGED <<schema, writer>>

\* The next statement; it fails when it has been carried out already.
ExecStatement(p) ==
  /\ op[p].pc = "exec" /\ op[p].done < Statements[op[p].next]
  /\ LET statement == <<op[p].next, op[p].done + 1>>
     IN \/ statement \in schema /\ OpenFails(p)
        \/ /\ statement \notin schema
           /\ op' = [op EXCEPT ![p] = At("exec", op[p].next, op[p].done + 1)]
           /\ UNCHANGED <<schema, writer>>

CommitMigration(p) ==
  /\ op[p].pc = "exec" /\ op[p].done = Statements[op[p].next]
  /\ schema' = schema \cup Migration(op[p].next)
  /\ writer' = Nobody
  /\ op' = [op EXCEPT ![p] =
       IF op[p].next = Release[p] THEN At("open", 0, 0)
       ELSE At("migrate", op[p].next + 1, 0)]

\* A statement or the COMMIT fails (I/O error, disk full, five seconds without
\* the lock), the process dies, or, once the spool is open, closes it.
Close(p) ==
  /\ op[p].pc # "closed"
  /\ OpenFails(p)

OpenStep(p) ==
  \/ Open(p) \/ ReadVersion(p) \/ BeginMigration(p) \/ ExecStatement(p)
  \/ CommitMigration(p)

OpenNext == \E p \in Openers : OpenStep(p) \/ Close(p)

OpenSpec == OpenInit /\ [][OpenNext]_openVars

\* A process that has ended is started again.
OpenLiveSpec == OpenSpec /\ \A p \in Openers : WF_openVars(OpenStep(p))
-----------------------------------------------------------------------------
\* The schema is that of its version: no migration is carried out in part, left
\* out or repeated, whoever starts together, fails or dies in the middle of one
\* (applyMigration).
SchemaIsVersioned == schema = SchemaAt(Version(schema))

\* An open spool has the schema that its process was built for, or a newer one
\* that a later release has given it since (initialize).
OpenedIsCurrent ==
  \A p \in Openers : op[p].pc = "open" => Version(schema) >= Release[p]

\* The inductive strengthening of the two: where every process in Open stands with
\* respect to the version of the file; only the holder of the write lock has carried
\* out statements, and the version is then the one before its migration.
OpenInv ==
  /\ OpenType
  /\ \E n \in 0..Newest : schema = SchemaAt(n)
  /\ OpenedIsCurrent
  /\ \A p \in Openers :
       /\ op[p].pc \in {"migrate", "exec"} =>
            op[p].next \in 1..Release[p] /\ Version(schema) >= op[p].next - 1
       /\ op[p].pc = "exec" =>
            /\ writer = p
            /\ op[p].done <= Statements[op[p].next]
            /\ op[p].done > 0 => Version(schema) = op[p].next - 1

\* Once no process dies, closes its spool or meets an I/O error any more, every
\* process has its spool open, or is of a release that is older than the schema.
\* Those that lose the race for a migration fail and succeed when they are started
\* again; one that is refused for its release, and is started again for ever, keeps
\* nobody else from opening the spool (Open, initialize, applyMigration).
EventuallyOpen ==
  <>[][\A p \in Openers : Close(p) => OpenStep(p)]_openVars =>
    \A p \in Openers : <>[](op[p].pc = "open" \/ Version(schema) > Release[p])
=============================================================================
