---------------------------- MODULE ComponentProofs ---------------------------
(***************************************************************************)
(* The components around the relay: opening and migrating the spool,       *)
(* setting up PostgreSQL, and the receiver's inbox.                        *)
(***************************************************************************)
EXTENDS Migrations, Setup, Inbox, TLAPS

-----------------------------------------------------------------------------
(* Migrations.  For any number of processes, releases, migrations and      *)
(* statements: a spool has the schema of its version, and whoever has it   *)
(* open finds the schema it was built for.                                 *)

\* Which versions the schema after n migrations records (schema_migrations).
LEMMA RecordedVersions ==
  ASSUME NEW n \in 0..Newest, NEW v \in 1..Newest
  PROVE  HasVersion(SchemaAt(n), v) <=> v <= n
<1>1. Statements[v] \in 1..Statements[v]
  BY MigrationAssumption
<1>2. HasVersion(SchemaAt(n), v) <=> \E u \in 1..n : <<v, Statements[v]>> \in Migration(u)
  BY Zenon DEF HasVersion, SchemaAt
<1>3. \A u \in 1..n : <<v, Statements[v]>> \in Migration(u) <=> v = u
  BY Zenon, <1>1 DEF Migration
<1>4. (\E u \in 1..n : <<v, Statements[v]>> \in Migration(u)) <=> v \in 1..n
  BY Zenon, <1>3
<1>5. v \in 1..n <=> v <= n
  BY MigrationAssumption
<1> QED
  BY Zenon, <1>2, <1>4, <1>5

\* What initialize reads from it is n.
LEMMA VersionOfSchema ==
  ASSUME NEW n \in 0..Newest
  PROVE  Version(SchemaAt(n)) = n
<1> DEFINE P(m) == /\ m > 0 => HasVersion(SchemaAt(n), m)
                   /\ \A k \in m + 1..Newest : ~HasVersion(SchemaAt(n), k)
<1>1. P(n)
  BY RecordedVersions, MigrationAssumption
<1>2. \A m \in 0..Newest : P(m) => m = n
  <2> SUFFICES ASSUME NEW m \in 0..Newest, P(m)  PROVE m = n
    BY Zenon
  <2>1. ~(m > n)
    BY RecordedVersions, MigrationAssumption
  <2>2. ~(m < n)
    <3> SUFFICES ASSUME m < n  PROVE FALSE
      BY Zenon
    <3>1. n \in m + 1..Newest /\ n \in 1..Newest
      BY MigrationAssumption
    <3>2. HasVersion(SchemaAt(n), n)
      BY <3>1, RecordedVersions
    <3> QED
      BY Zenon, <3>1, <3>2
  <2> QED
    BY <2>1, <2>2, MigrationAssumption
<1>3. Version(SchemaAt(n)) = CHOOSE m \in 0..Newest : P(m)
  BY Zenon DEF Version
<1> HIDE DEF P
<1> QED
  BY Zenon, <1>1, <1>2, <1>3

\* One more migration makes the next schema (applyMigration).
LEMMA NextSchema ==
  ASSUME NEW n \in 1..Newest
  PROVE  SchemaAt(n - 1) \cup Migration(n) = SchemaAt(n)
<1>1. n \in Nat /\ 1..n = (1..n - 1) \cup {n}
  BY MigrationAssumption
<1> QED
  BY Zenon, <1>1 DEF SchemaAt

\* A migration whose first statement can be carried out has not been applied.
LEMMA FirstStatement ==
  ASSUME NEW n \in 0..Newest, NEW v \in 1..Newest, <<v, 1>> \notin SchemaAt(n)
  PROVE  v > n
<1> SUFFICES ASSUME v <= n  PROVE FALSE
  BY MigrationAssumption
<1>1. v \in 1..n /\ 1 \in 1..Statements[v]
  BY MigrationAssumption
<1>2. <<v, 1>> \in Migration(v)
  BY Zenon, <1>1 DEF Migration
<1> QED
  BY Zenon, <1>1, <1>2 DEF SchemaAt

\* Schemas are sets of statements.
LEMMA SchemaTyped ==
  ASSUME NEW n \in 0..Newest
  PROVE  SchemaAt(n) \subseteq (1..Newest) \X Nat
<1>1. \A v \in 1..n : v \in 1..Newest /\ Migration(v) \subseteq (1..Newest) \X Nat
  <2> TAKE v \in 1..n
  <2>1. v \in 1..Newest /\ 1..Statements[v] \subseteq Nat
    BY MigrationAssumption
  <2> QED
    BY Zenon, <2>1 DEF Migration
<1> QED
  BY Zenon, <1>1 DEF SchemaAt
-----------------------------------------------------------------------------
\* The version of a schema of the invariant, and what is known at it.
LEMMA VersionKnown ==
  ASSUME OpenInv
  PROVE  Version(schema) \in 0..Newest /\ schema = SchemaAt(Version(schema))
<1>1. PICK n \in 0..Newest : schema = SchemaAt(n)
  BY Zenon DEF OpenInv
<1>2. Version(schema) = n
  BY Zenon, <1>1, VersionOfSchema
<1> QED
  BY Zenon, <1>1, <1>2

\* A step that leaves the file alone keeps the invariant when the process that moves
\* satisfies its part of it and nobody else's lock is taken.
LEMMA OneProcessMoves ==
  ASSUME OpenInv, NEW p \in Openers, NEW o \in [pc : OpenPcs, next : 0..Newest, done : Nat],
         op' = [op EXCEPT ![p] = o], UNCHANGED schema,
         writer' \in Openers \cup {Nobody},
         \A q \in Openers \ {p} : writer = q => writer' = q,
         o.pc \in {"migrate", "exec"} => o.next \in 1..Release[p] /\ Version(schema) >= o.next - 1,
         o.pc = "exec" => /\ writer' = p
                          /\ o.done <= Statements[o.next]
                          /\ o.done > 0 => Version(schema) = o.next - 1,
         o.pc = "open" => Version(schema) >= Release[p]
  PROVE  OpenInv'
<1>1. op' \in [Openers -> [pc : OpenPcs, next : 0..Newest, done : Nat]] /\ op'[p] = o
      /\ \A q \in Openers \ {p} : op'[q] = op[q]
  BY Zenon DEF OpenInv, OpenType
<1>2. OpenType'
  BY Zenon, <1>1 DEF OpenInv, OpenType
<1>3. Version(schema)' = Version(schema)
  BY Zenon DEF Version, HasVersion
<1>4. \E n \in 0..Newest : schema' = SchemaAt(n)
  BY Zenon DEF OpenInv
<1>5. OpenedIsCurrent'
  BY Zenon, <1>1, <1>3 DEF OpenInv, OpenedIsCurrent
<1>6. ASSUME NEW q \in Openers
      PROVE  /\ op'[q].pc \in {"migrate", "exec"} =>
                  op'[q].next \in 1..Release[q] /\ Version(schema)' >= op'[q].next - 1
             /\ op'[q].pc = "exec" =>
                  /\ writer' = q
                  /\ op'[q].done <= Statements[op'[q].next]
                  /\ op'[q].done > 0 => Version(schema)' = op'[q].next - 1
  <2>1. CASE q = p
    BY Zenon, <2>1, <1>1, <1>3
  <2>2. CASE q # p
    BY <2>2, <1>1, <1>3 DEF OpenInv
  <2> QED
    BY Zenon, <2>1, <2>2
<1> QED
  BY Zenon, <1>2, <1>4, <1>5, <1>6 DEF OpenInv

\* Open returns an error (OpenFails).
LEMMA FailureKeepsInv ==
  ASSUME OpenInv, NEW p \in Openers, OpenFails(p)
  PROVE  OpenInv'
<1>1. Closed \in [pc : OpenPcs, next : 0..Newest, done : Nat] /\ Closed.pc = "closed"
  BY MigrationAssumption DEF Closed, At, OpenPcs
<1>2. writer' \in Openers \cup {Nobody} /\ \A q \in Openers \ {p} : writer = q => writer' = q
  BY Zenon DEF OpenFails, OpenInv, OpenType
<1> QED
  BY Zenon, <1>1, <1>2, OneProcessMoves DEF OpenFails

\* A process begins to open the spool.
LEMMA OpenKeepsInv ==
  ASSUME OpenInv, NEW p \in Openers, Open(p)
  PROVE  OpenInv'
<1> DEFINE o == At("version", 0, 0)
<1>1. o \in [pc : OpenPcs, next : 0..Newest, done : Nat] /\ o.pc = "version"
  BY MigrationAssumption DEF At, OpenPcs
<1>2. writer' \in Openers \cup {Nobody} /\ op' = [op EXCEPT ![p] = o]
  BY Zenon DEF Open, OpenInv, OpenType
<1> HIDE DEF o
<1> QED
  BY Zenon, <1>1, <1>2, OneProcessMoves DEF Open

\* It reads the version that some migration has recorded; when that is its own,
\* the spool is open.
LEMMA ReadVersionKeepsInv ==
  ASSUME OpenInv, NEW p \in Openers, ReadVersion(p)
  PROVE  OpenInv'
<1> DEFINE v == Version(schema)
           o == IF v > Release[p] THEN Closed
                ELSE IF v = Release[p] THEN At("open", 0, 0)
                ELSE At("migrate", v + 1, 0)
<1>0. v \in 0..Newest
  BY Zenon, VersionKnown
<1>1. /\ o \in [pc : OpenPcs, next : 0..Newest, done : Nat]
      /\ o.pc \in {"closed", "open", "migrate"}
      /\ o.pc = "migrate" => o.next \in 1..Release[p] /\ v >= o.next - 1
      /\ o.pc = "open" => v >= Release[p]
  BY <1>0, MigrationAssumption DEF Closed, At, OpenPcs
<1>2. op' = [op EXCEPT ![p] = o] /\ UNCHANGED <<schema, writer>>
  BY Zenon DEF ReadVersion
<1>3. writer' \in Openers \cup {Nobody}
  BY Zenon, <1>2 DEF OpenInv, OpenType
<1> HIDE DEF o
<1> QED
  BY Zenon, <1>1, <1>2, <1>3, OneProcessMoves

\* It begins the next migration on the schema as it is by now.
LEMMA BeginMigrationKeepsInv ==
  ASSUME OpenInv, NEW p \in Openers, BeginMigration(p)
  PROVE  OpenInv'
<1> DEFINE o == At("exec", op[p].next, 0)
<1>1. op[p].next \in 1..Release[p] /\ Version(schema) >= op[p].next - 1
  BY Zenon DEF BeginMigration, OpenInv
<1>2. /\ o \in [pc : OpenPcs, next : 0..Newest, done : Nat]
      /\ o.pc = "exec" /\ ~(o.done > 0) /\ o.done <= Statements[o.next]
      /\ o.next \in 1..Release[p] /\ Version(schema) >= o.next - 1
  BY <1>1, MigrationAssumption DEF At, OpenPcs
<1>3. writer' = p /\ op' = [op EXCEPT ![p] = o] /\ writer = Nobody /\ UNCHANGED schema
  BY Zenon DEF BeginMigration
<1>4. \A q \in Openers \ {p} : writer # q
  BY Zenon, <1>3, MigrationAssumption
<1> HIDE DEF o
<1> QED
  BY Zenon, <1>2, <1>3, <1>4, OneProcessMoves

\* A statement is carried out, or fails because it has been before (ExecStatement).
LEMMA ExecStatementKeepsInv ==
  ASSUME OpenInv, NEW p \in Openers, ExecStatement(p)
  PROVE  OpenInv'
<1> DEFINE statement == <<op[p].next, op[p].done + 1>>
           o == At("exec", op[p].next, op[p].done + 1)
<1>1. CASE statement \in schema /\ OpenFails(p)
  BY Zenon, <1>1, FailureKeepsInv
<1>2. CASE /\ statement \notin schema
           /\ op' = [op EXCEPT ![p] = o]
           /\ UNCHANGED <<schema, writer>>
  <2>1. /\ op[p].next \in 1..Release[p] /\ op[p].done \in Nat /\ writer = p
        /\ Version(schema) >= op[p].next - 1 /\ op[p].done < Statements[op[p].next]
        /\ op[p].done > 0 => Version(schema) = op[p].next - 1
    BY Zenon DEF ExecStatement, OpenInv, OpenType
  <2>2. op[p].next \in 1..Newest /\ Statements[op[p].next] \in Nat
    BY <2>1, MigrationAssumption
  <2>3. Version(schema) \in 0..Newest /\ schema = SchemaAt(Version(schema))
    BY Zenon, VersionKnown
  <2>4. Version(schema) = op[p].next - 1
    <3>1. CASE op[p].done > 0
      BY Zenon, <3>1, <2>1
    <3>2. CASE op[p].done = 0
      <4>1. <<op[p].next, 1>> \notin SchemaAt(Version(schema))
        BY <3>2, <1>2, <2>3
      <4>2. op[p].next > Version(schema)
        BY Zenon, <4>1, <2>2, <2>3, FirstStatement
      <4> QED
        BY <4>2, <2>1, <2>2, <2>3
    <3> QED
      BY <3>1, <3>2, <2>1
  <2>5. /\ o \in [pc : OpenPcs, next : 0..Newest, done : Nat]
        /\ o.pc = "exec" /\ o.next = op[p].next /\ o.done <= Statements[o.next]
    BY <2>1, <2>2 DEF At, OpenPcs
  <2> HIDE DEF o
  <2> QED
    BY Zenon, <1>2, <2>1, <2>4, <2>5, OneProcessMoves
<1> QED
  BY Zenon, <1>1, <1>2 DEF ExecStatement

\* The migration is committed: the file is at the next version (applyMigration).
LEMMA MigrationKeepsInv ==
  ASSUME OpenInv, NEW p \in Openers, CommitMigration(p)
  PROVE  OpenInv'
<1> DEFINE n == op[p].next
           o == IF n = Release[p] THEN At("open", 0, 0) ELSE At("migrate", n + 1, 0)
<1>1. /\ n \in 1..Release[p] /\ n \in 1..Newest /\ writer = p
      /\ op[p].done = Statements[n] /\ op[p].done > 0 /\ Version(schema) = n - 1
  BY SMTT(30), MigrationAssumption DEF CommitMigration, OpenInv
<1>2. schema = SchemaAt(n - 1)
  BY Zenon, <1>1, VersionKnown
<1>3. schema' = SchemaAt(n)
  BY Zenon, <1>1, <1>2, NextSchema DEF CommitMigration
<1>4. Version(schema)' = n
  <2>1. Version(schema)' = Version(SchemaAt(n))
    BY Zenon, <1>3
  <2> QED
    BY <1>1, <2>1, VersionOfSchema
<1>5. /\ o \in [pc : OpenPcs, next : 0..Newest, done : Nat]
      /\ o.pc \in {"open", "migrate"}
      /\ o.pc = "migrate" => o.next = n + 1 /\ o.next \in 1..Release[p]
      /\ o.pc = "open" => n = Release[p]
  BY SMTT(30), <1>1, MigrationAssumption DEF At, OpenPcs
<1>6. writer' = Nobody /\ op' = [op EXCEPT ![p] = o]
  BY Zenon DEF CommitMigration
<1> HIDE DEF o
<1>7. op' \in [Openers -> [pc : OpenPcs, next : 0..Newest, done : Nat]] /\ op'[p] = o
      /\ \A q \in Openers \ {p} : op'[q] = op[q]
  BY Zenon, <1>5, <1>6 DEF OpenInv, OpenType
<1>8. OpenType'
  BY <1>1, <1>3, <1>6, <1>7, SchemaTyped DEF OpenType
<1>9. \E m \in 0..Newest : schema' = SchemaAt(m)
  BY <1>1, <1>3
<1>10. ASSUME NEW q \in Openers
       PROVE  /\ op'[q].pc = "open" => n >= Release[q]
              /\ op'[q].pc \in {"migrate", "exec"} =>
                   op'[q].next \in 1..Release[q] /\ n >= op'[q].next - 1
              /\ op'[q].pc # "exec"
  <2>1. CASE q = p
    BY SMTT(30), <2>1, <1>1, <1>5, <1>7, MigrationAssumption
  <2>2. CASE q # p
    <3>1. op'[q] = op[q] /\ op[q].pc # "exec"
      BY Zenon, <2>2, <1>1, <1>7 DEF OpenInv
    <3>2. op[q].pc = "open" => n - 1 >= Release[q]
      BY Zenon, <1>1 DEF OpenInv, OpenedIsCurrent
    <3>3. op[q].pc \in {"migrate", "exec"} =>
            op[q].next \in 1..Release[q] /\ n - 1 >= op[q].next - 1
      BY Zenon, <1>1 DEF OpenInv
    <3>4. Release[q] \in Nat /\ n \in Nat
      BY <1>1, MigrationAssumption
    <3> QED
      BY <3>1, <3>2, <3>3, <3>4
  <2> QED
    BY Zenon, <2>1, <2>2
<1>11. OpenedIsCurrent'
  BY Zenon, <1>4, <1>10 DEF OpenedIsCurrent
<1> QED
  BY Zenon, <1>4, <1>8, <1>9, <1>10, <1>11 DEF OpenInv
-----------------------------------------------------------------------------
\* Opening the spool keeps the inductive invariant: whatever processes of whatever
\* releases open the file at the same time, fail or die (Open, initialize,
\* applyMigration).
THEOREM OpenInvariance == OpenSpec => []OpenInv
<1>1. OpenInit => OpenInv
  <2> SUFFICES ASSUME OpenInit  PROVE OpenInv
    BY Zenon
  <2>1. PICK n \in 0..Newest : schema = SchemaAt(n)
    BY Zenon DEF OpenInit
  <2>2. \A p \in Openers : op[p] = Closed
    BY Zenon DEF OpenInit
  <2>3. Closed \in [pc : OpenPcs, next : 0..Newest, done : Nat] /\ Closed.pc = "closed"
    BY MigrationAssumption DEF Closed, At, OpenPcs
  <2>4. OpenType
    BY Zenon, <2>1, <2>3, SchemaTyped DEF OpenType, OpenInit
  <2> QED
    BY Zenon, <2>1, <2>2, <2>3, <2>4 DEF OpenInv, OpenedIsCurrent
<1>2. OpenInv /\ [OpenNext]_openVars => OpenInv'
  <2> SUFFICES ASSUME OpenInv, [OpenNext]_openVars  PROVE OpenInv'
    BY Zenon
  <2>1. ASSUME NEW p \in Openers, OpenStep(p) \/ Close(p)  PROVE OpenInv'
    BY Zenon, <2>1, OpenKeepsInv, ReadVersionKeepsInv, BeginMigrationKeepsInv, ExecStatementKeepsInv,
       MigrationKeepsInv, FailureKeepsInv DEF OpenStep, Close
  <2>2. CASE UNCHANGED openVars
    BY Zenon, <2>2 DEF openVars, OpenInv, OpenType, OpenedIsCurrent, Version, HasVersion
  <2> QED
    BY Zenon, <2>1, <2>2 DEF OpenNext
<1> QED
  BY <1>1, <1>2, PTL DEF OpenSpec

\* No migration is ever carried out in part, left out or repeated (applyMigration).
THEOREM MigrationsAreWhole == OpenSpec => []SchemaIsVersioned
<1>1. OpenInv => SchemaIsVersioned
  BY Zenon, VersionKnown DEF SchemaIsVersioned
<1> QED
  BY <1>1, OpenInvariance, PTL

\* Whoever has the spool open finds the schema it was built for (initialize).
THEOREM OpenSpoolIsCurrent == OpenSpec => []OpenedIsCurrent
<1>1. OpenInv => OpenedIsCurrent
  BY Zenon DEF OpenInv
<1> QED
  BY <1>1, OpenInvariance, PTL
-----------------------------------------------------------------------------
(* Setup.  For any number of setup commands and daemons, any events and    *)
(* any number of dropped slots: a successful setup satisfies the doctor,   *)
(* and a slot loses nothing while it lives.                                *)

ServerRecord == [emit : BOOLEAN, publication : {"none", "empty", "tables"}]
SlotRecord == [exists : BOOLEAN, foreign : BOOLEAN, confirmed : Nat,
               owner : Daemons \cup {Unowned}]
LifeRecord == [since : Nat, drops : Nat]
SpoolRecord == [items : SUBSET Nat, checkpoint : Nat]
SetupRecord == [pc : SetupPcs, create : BOOLEAN, emit : BOOLEAN,
                publication : BOOLEAN, slot : BOOLEAN, drops : Nat]
DaemonRecord == [pc : DaemonPcs, create : BOOLEAN, start : Nat, cursor : Nat]

\* The types by name.
LEMMA Types ==
  SetupType <=> /\ server \in ServerRecord /\ slot \in SlotRecord /\ life \in LifeRecord
                /\ wal \in Nat /\ spool \in SpoolRecord
                /\ setup \in [Installers -> SetupRecord]
                /\ daemon \in [Daemons -> DaemonRecord]
BY Zenon DEF SetupType, ServerRecord, SlotRecord, LifeRecord, SpoolRecord, SetupRecord, DaemonRecord

\* What CREATE_REPLICATION_SLOT makes of the slot (createReplicationSlot).
LEMMA CreatedSlot ==
  ASSUME wal \in Nat, life \in LifeRecord, CreateReplicationSlot
  PROVE  /\ slot' \in SlotRecord /\ life' \in LifeRecord
         /\ slot'.exists /\ ~slot'.foreign /\ slot'.confirmed = wal + 1
         /\ life'.since = wal + 1 /\ life'.drops = life.drops
<1>1. slot' = [exists |-> TRUE, foreign |-> FALSE, confirmed |-> wal + 1, owner |-> Unowned]
  BY Zenon DEF CreateReplicationSlot, NoSlot
<1>2. slot' \in SlotRecord /\ slot'.exists /\ ~slot'.foreign /\ slot'.confirmed = wal + 1
  BY <1>1 DEF SlotRecord
<1>3. life' \in LifeRecord /\ life'.since = wal + 1 /\ life'.drops = life.drops
  BY DEF CreateReplicationSlot, LifeRecord
<1> QED
  BY Zenon, <1>2, <1>3

\* A new slot, or none, leaves every position where it is.
LEMMA PositionsKept ==
  ASSUME SetupInv, UNCHANGED <<wal, spool, daemon>>,
         UNCHANGED <<slot, life>> \/ CreateReplicationSlot
  PROVE  life'.since <= wal' + 1 /\ NotPassed(wal + 1)' /\ SlotLosesNothing'
<1>0. wal \in Nat /\ life \in LifeRecord
  BY Zenon, Types DEF SetupInv
<1>1. CASE UNCHANGED <<slot, life>>
  BY Zenon, <1>1 DEF SetupInv, NotPassed, SlotLosesNothing, DaemonAt
<1>2. CASE CreateReplicationSlot
  <2>1. slot'.confirmed = wal + 1 /\ life'.since = wal + 1
    BY Zenon, <1>0, <1>2, CreatedSlot
  <2>2. NotPassed(wal + 1)'
    BY <2>1, <1>0 DEF SetupInv, NotPassed, DaemonAt
  <2>3. SlotLosesNothing'
    BY <2>1, <1>0 DEF SlotLosesNothing
  <2> QED
    BY <2>1, <2>2, <2>3, <1>0
<1> QED
  BY Zenon, <1>1, <1>2

\* A setup command moves.
LEMMA SetupMoves ==
  ASSUME SetupInv, NEW p \in Installers, NEW s \in SetupRecord,
         setup' = [setup EXCEPT ![p] = s], UNCHANGED <<wal, spool, daemon>>,
         server' \in ServerRecord, server.emit => server'.emit,
         server.publication = "empty" => server'.publication = "empty",
         UNCHANGED <<slot, life>> \/ CreateReplicationSlot,
         s.emit \/ s.pc \in {"publish", "create", "ok"} => server'.emit,
         s.publication \/ s.pc \in {"create", "ok"} => server'.publication = "empty",
         s.drops <= life.drops,
         (s.slot \/ s.pc = "ok") /\ s.drops = life.drops => slot'.exists /\ ~slot'.foreign
  PROVE  SetupInv'
<1>1. /\ server \in ServerRecord /\ slot \in SlotRecord /\ life \in LifeRecord
      /\ wal \in Nat /\ spool \in SpoolRecord
      /\ setup \in [Installers -> SetupRecord] /\ daemon \in [Daemons -> DaemonRecord]
  BY Zenon, Types DEF SetupInv
<1>2. slot' \in SlotRecord /\ life' \in LifeRecord /\ life'.drops = life.drops
      /\ (slot.exists /\ ~slot.foreign => slot'.exists /\ ~slot'.foreign)
  BY Zenon, <1>1, CreatedSlot
<1>3. setup' \in [Installers -> SetupRecord] /\ setup'[p] = s
      /\ \A q \in Installers \ {p} : setup'[q] = setup[q]
  BY Zenon, <1>1
<1>4. SetupType'
  BY Zenon, <1>1, <1>2, <1>3, Types DEF SetupType, ServerRecord, SlotRecord, LifeRecord, SpoolRecord,
     SetupRecord, DaemonRecord
<1>5. FoundIsThere'
  <2> SUFFICES ASSUME NEW q \in Installers
               PROVE  /\ setup'[q].emit \/ setup'[q].pc \in {"publish", "create", "ok"} => server'.emit
                      /\ setup'[q].publication \/ setup'[q].pc \in {"create", "ok"} =>
                           server'.publication = "empty"
                      /\ setup'[q].drops <= life'.drops
                      /\ (setup'[q].slot \/ setup'[q].pc = "ok") /\ setup'[q].drops = life'.drops =>
                           slot'.exists /\ ~slot'.foreign
    BY Zenon DEF FoundIsThere
  <2>1. CASE q = p
    BY Zenon, <2>1, <1>2, <1>3
  <2>2. CASE q # p
    BY Zenon, <2>2, <1>2, <1>3 DEF SetupInv, FoundIsThere
  <2> QED
    BY Zenon, <2>1, <2>2
<1> QED
  BY Zenon, <1>4, <1>5, PositionsKept DEF SetupInv
-----------------------------------------------------------------------------
\* The steps of a setup command: preflight, function, publication, slot (Setup).
LEMMA SetupStepKeepsInv ==
  ASSUME SetupInv, NEW p \in Installers,
         SetupStep(p) \/ SetupFails(p) \/ \E create \in BOOLEAN : BeginSetup(p, create)
  PROVE  SetupInv'
<1>0. /\ server \in ServerRecord /\ slot \in SlotRecord /\ life \in LifeRecord
      /\ setup[p] \in SetupRecord
  BY Zenon, Types DEF SetupInv
<1>1. /\ setup[p].emit \/ setup[p].pc \in {"publish", "create", "ok"} => server.emit
      /\ setup[p].publication \/ setup[p].pc \in {"create", "ok"} => server.publication = "empty"
      /\ setup[p].drops <= life.drops
      /\ (setup[p].slot \/ setup[p].pc = "ok") /\ setup[p].drops = life.drops =>
           slot.exists /\ ~slot.foreign
  BY Zenon DEF SetupInv, FoundIsThere
<1>2. /\ IdleSetup \in SetupRecord /\ ~IdleSetup.emit /\ ~IdleSetup.publication
      /\ IdleSetup.pc = "idle" /\ ~IdleSetup.slot /\ IdleSetup.drops <= life.drops
  BY <1>0 DEF IdleSetup, SetupRecord, SetupPcs, LifeRecord
<1>3. ASSUME SetupReturns(p), UNCHANGED <<server, slot, life, wal, spool, daemon>>
      PROVE  SetupInv'
  BY Zenon, <1>0, <1>2, <1>3, SetupMoves DEF SetupReturns, SetupGoes
<1>4. CASE InspectPublication(p)
  <2> DEFINE s == [setup[p] EXCEPT !.pc = "slot", !.publication = server.publication = "empty"]
  <2>1. CASE SetupReturns(p)
    BY Zenon, <2>1, <1>3, <1>4 DEF InspectPublication
  <2>2. CASE setup' = [setup EXCEPT ![p] = s]
    <3>1. /\ s \in SetupRecord /\ s.pc = "slot" /\ s.emit = setup[p].emit
          /\ s.drops = setup[p].drops /\ s.slot = setup[p].slot
          /\ s.publication => server.publication = "empty"
      BY Zenon, <1>0 DEF SetupRecord, SetupPcs
    <3> HIDE DEF s
    <3> QED
      BY Zenon, <2>2, <3>1, <1>0, <1>1, <1>4, SetupMoves DEF InspectPublication
  <2> QED
    BY Zenon, <2>1, <2>2, <1>4 DEF InspectPublication, SetupGoes
<1>5. CASE InspectSlot(p)
  <2> DEFINE s == [setup[p] EXCEPT !.pc = "install", !.slot = slot.exists, !.create = FALSE]
  <2>1. CASE SetupReturns(p)
    BY Zenon, <2>1, <1>3, <1>5 DEF InspectSlot
  <2>2. CASE setup' = [setup EXCEPT ![p] = s] /\ (ValidSlot \/ ~slot.exists)
    <3>1. /\ s \in SetupRecord /\ s.pc = "install" /\ s.emit = setup[p].emit
          /\ s.drops = setup[p].drops /\ s.slot = slot.exists
          /\ s.publication = setup[p].publication
      BY Zenon, <1>0 DEF SetupRecord, SetupPcs, SlotRecord
    <3> HIDE DEF s
    <3> QED
      BY Zenon, <2>2, <3>1, <1>0, <1>1, <1>5, SetupMoves DEF InspectSlot, ValidSlot
  <2> QED
    BY Zenon, <2>1, <2>2, <1>5 DEF InspectSlot, SetupGoes
<1>6. CASE InstallFunction(p)
  <2> DEFINE s == [setup[p] EXCEPT !.pc = "publish", !.emit = FALSE]
  <2>1. /\ s \in SetupRecord /\ s.pc = "publish"
        /\ s.drops = setup[p].drops /\ s.slot = setup[p].slot
        /\ s.publication = setup[p].publication
    BY Zenon, <1>0 DEF SetupRecord, SetupPcs
  <2>2. /\ server' \in ServerRecord /\ server'.emit
        /\ server'.publication = server.publication
    BY Zenon, <1>0, <1>1, <1>6 DEF InstallFunction, ServerRecord, SetupRecord
  <2>3. setup' = [setup EXCEPT ![p] = s]
    BY Zenon, <1>6 DEF InstallFunction, SetupInstalled, SetupGoes
  <2> HIDE DEF s
  <2> QED
    BY Zenon, <2>1, <2>2, <2>3, <1>0, <1>1, <1>6, SetupMoves DEF InstallFunction
<1>7. ASSUME SetupPublished(p), server' \in ServerRecord, server'.emit = server.emit,
             server'.publication = "empty", SetupAt(p, "publish"),
             UNCHANGED <<slot, life, wal, spool, daemon>>
      PROVE  SetupInv'
  <2>1. CASE setup[p].slot
    <3> DEFINE s == [IdleSetup EXCEPT !.pc = "ok", !.drops = setup[p].drops]
    <3>1. s \in SetupRecord /\ s.pc = "ok" /\ s.drops = setup[p].drops
      BY Zenon, <1>0, <1>2 DEF SetupRecord, SetupPcs
    <3>2. setup' = [setup EXCEPT ![p] = s]
      BY Zenon, <1>7, <2>1 DEF SetupPublished, SetupSucceeds, SetupGoes
    <3> HIDE DEF s
    <3> QED
      BY Zenon, <2>1, <3>1, <3>2, <1>0, <1>1, <1>7, SetupMoves DEF SetupAt
  <2>2. CASE ~setup[p].slot
    <3> DEFINE s == [setup[p] EXCEPT !.pc = "create", !.publication = FALSE]
    <3>1. s \in SetupRecord /\ s.pc = "create" /\ s.drops = setup[p].drops
          /\ s.slot = setup[p].slot
      BY Zenon, <1>0 DEF SetupRecord, SetupPcs
    <3>2. setup' = [setup EXCEPT ![p] = s]
      BY Zenon, <1>7, <2>2 DEF SetupPublished, SetupGoes
    <3> HIDE DEF s
    <3> QED
      BY Zenon, <2>2, <3>1, <3>2, <1>0, <1>1, <1>7, SetupMoves DEF SetupAt
  <2> QED
    BY Zenon, <2>1, <2>2
<1>8. CASE CreatePublication(p)
  <2>1. CASE /\ ~setup[p].publication /\ server.publication # "none"
             /\ SetupReturns(p) /\ UNCHANGED server
    BY Zenon, <2>1, <1>3, <1>8 DEF CreatePublication
  <2>2. CASE setup[p].publication /\ SetupPublished(p) /\ UNCHANGED server
    BY Zenon, <2>2, <1>0, <1>1, <1>7, <1>8 DEF CreatePublication
  <2>3. CASE /\ server' = [server EXCEPT !.publication = "empty"]
             /\ SetupPublished(p)
    <3>1. server' \in ServerRecord /\ server'.emit = server.emit /\ server'.publication = "empty"
      BY Zenon, <2>3, <1>0 DEF ServerRecord
    <3> QED
      BY Zenon, <2>3, <3>1, <1>7, <1>8 DEF CreatePublication
  <2> QED
    BY Zenon, <2>1, <2>2, <2>3, <1>8 DEF CreatePublication
<1>9. CASE CreateSlot(p)
  <2>1. CASE slot.exists /\ SetupReturns(p) /\ UNCHANGED <<slot, life>>
    BY Zenon, <2>1, <1>3, <1>9 DEF CreateSlot
  <2>2. CASE ~slot.exists /\ CreateReplicationSlot /\ SetupSucceeds(p)
    <3> DEFINE s == [IdleSetup EXCEPT !.pc = "ok", !.drops = setup[p].drops]
    <3>1. s \in SetupRecord /\ s.pc = "ok" /\ s.drops = setup[p].drops
      BY Zenon, <1>0, <1>2 DEF SetupRecord, SetupPcs
    <3>2. setup' = [setup EXCEPT ![p] = s]
      BY Zenon, <2>2 DEF SetupSucceeds, SetupGoes
    <3>3. slot'.exists /\ ~slot'.foreign
      BY Zenon, <2>2, <1>0, Types, CreatedSlot DEF SetupInv
    <3> HIDE DEF s
    <3> QED
      BY Zenon, <2>2, <3>1, <3>2, <3>3, <1>0, <1>1, <1>9, SetupMoves DEF CreateSlot, SetupAt
  <2> QED
    BY Zenon, <2>1, <2>2, <1>9 DEF CreateSlot
<1>10. CASE SetupFails(p)
  BY Zenon, <1>10, <1>3 DEF SetupFails
<1>11. ASSUME NEW create \in BOOLEAN, BeginSetup(p, create)  PROVE SetupInv'
  <2> DEFINE s == [IdleSetup EXCEPT !.pc = "publication", !.create = create,
                                    !.emit = server.emit, !.drops = life.drops]
  <2>1. /\ s \in SetupRecord /\ s.pc = "publication" /\ s.emit = server.emit
        /\ ~s.publication /\ ~s.slot /\ s.drops = life.drops
    BY Zenon, <1>0, <1>2 DEF SetupRecord, SetupPcs, ServerRecord, LifeRecord
  <2>2. setup' = [setup EXCEPT ![p] = s]
    BY Zenon, <1>11 DEF BeginSetup, SetupGoes
  <2>3. s.drops <= life.drops
    BY <2>1, <1>0 DEF LifeRecord
  <2> HIDE DEF s
  <2> QED
    BY Zenon, <2>1, <2>2, <2>3, <1>0, <1>11, SetupMoves DEF BeginSetup
<1> QED
  BY Zenon, <1>4, <1>5, <1>6, <1>8, <1>9, <1>10, <1>11 DEF SetupStep
-----------------------------------------------------------------------------
\* What the setups have found stays there when only a daemon moves.
LEMMA FoundKept ==
  ASSUME SetupInv, UNCHANGED <<server, setup>>, life'.drops = life.drops,
         slot.exists /\ ~slot.foreign => slot'.exists /\ ~slot'.foreign
  PROVE  FoundIsThere'
BY Zenon DEF SetupInv, FoundIsThere

\* A daemon moves; the slot only changes its owner.
LEMMA DaemonMoves ==
  ASSUME SetupInv, NEW d \in Daemons, NEW s \in DaemonRecord,
         daemon' = [daemon EXCEPT ![d] = s], UNCHANGED <<server, life, wal, spool, setup>>,
         slot' \in SlotRecord, slot'.exists = slot.exists, slot'.foreign = slot.foreign,
         slot'.confirmed = slot.confirmed,
         s.pc = "connect" => \A i \in Nat : NotPassed(i) => i >= s.start,
         s.pc = "stream" => \A i \in Nat : NotPassed(i) => i >= s.cursor
  PROVE  SetupInv'
<1>1. /\ server \in ServerRecord /\ life \in LifeRecord /\ wal \in Nat /\ spool \in SpoolRecord
      /\ setup \in [Installers -> SetupRecord] /\ daemon \in [Daemons -> DaemonRecord]
  BY Zenon, Types DEF SetupInv
<1>2. daemon' \in [Daemons -> DaemonRecord] /\ daemon'[d] = s
      /\ \A e \in Daemons \ {d} : daemon'[e] = daemon[e]
  BY Zenon, <1>1
<1>3. SetupType'
  BY Zenon, <1>1, <1>2, Types DEF SetupType, ServerRecord, SlotRecord, LifeRecord, SpoolRecord,
     SetupRecord, DaemonRecord
<1>4. ASSUME NEW i \in Nat, NotPassed(i)  PROVE NotPassed(i)'
  <2>1. i >= spool'.checkpoint /\ (slot'.exists /\ ~slot'.foreign => i >= slot'.confirmed)
    BY Zenon, <1>4 DEF NotPassed
  <2>2. ASSUME NEW e \in Daemons
        PROVE  /\ daemon'[e].pc = "connect" => i >= daemon'[e].start
               /\ daemon'[e].pc = "stream" => i >= daemon'[e].cursor
    <3>1. CASE e = d
      BY Zenon, <3>1, <1>2, <1>4
    <3>2. CASE e # d
      BY Zenon, <3>2, <1>2, <1>4 DEF NotPassed, DaemonAt
    <3> QED
      BY Zenon, <3>1, <3>2
  <2> QED
    BY Zenon, <2>1, <2>2 DEF NotPassed, DaemonAt
<1>5. NotPassed(wal + 1)'
  <2>1. wal + 1 \in Nat /\ NotPassed(wal + 1)
    BY <1>1 DEF SetupInv
  <2> QED
    BY Zenon, <2>1, <1>4
<1>6. SlotLosesNothing'
  <2>1. \A i \in life.since..wal : i \in Nat
    BY <1>1 DEF LifeRecord
  <2> QED
    BY Zenon, <2>1, <1>4 DEF SlotLosesNothing, SetupInv
<1> QED
  BY Zenon, <1>3, <1>5, <1>6, FoundKept DEF SetupInv

\* A daemon creates the missing slot (startLSN with create_slot_if_missing).
LEMMA DaemonCreates ==
  ASSUME SetupInv, NEW d \in Daemons, NEW s \in DaemonRecord,
         daemon' = [daemon EXCEPT ![d] = s], UNCHANGED <<server, wal, spool, setup>>,
         CreateReplicationSlot, s.pc \notin {"connect", "stream"}
  PROVE  SetupInv'
<1>1. /\ server \in ServerRecord /\ life \in LifeRecord /\ wal \in Nat /\ spool \in SpoolRecord
      /\ setup \in [Installers -> SetupRecord] /\ daemon \in [Daemons -> DaemonRecord]
  BY Zenon, Types DEF SetupInv
<1>2. daemon' \in [Daemons -> DaemonRecord] /\ daemon'[d] = s
      /\ \A e \in Daemons \ {d} : daemon'[e] = daemon[e]
  BY Zenon, <1>1
<1>3. /\ slot' \in SlotRecord /\ life' \in LifeRecord
      /\ slot'.exists /\ ~slot'.foreign /\ slot'.confirmed = wal + 1
      /\ life'.since = wal + 1 /\ life'.drops = life.drops
  BY Zenon, <1>1, CreatedSlot
<1>4. SetupType'
  BY Zenon, <1>1, <1>2, <1>3, Types DEF SetupType, ServerRecord, SlotRecord, LifeRecord, SpoolRecord,
     SetupRecord, DaemonRecord
<1>5. NotPassed(wal + 1)'
  <2>1. wal + 1 >= spool'.checkpoint /\ wal + 1 >= slot'.confirmed
    BY <1>1, <1>3 DEF SetupInv, NotPassed
  <2>2. ASSUME NEW e \in Daemons
        PROVE  /\ daemon'[e].pc = "connect" => wal + 1 >= daemon'[e].start
               /\ daemon'[e].pc = "stream" => wal + 1 >= daemon'[e].cursor
    <3>1. CASE e = d
      BY Zenon, <3>1, <1>2
    <3>2. CASE e # d
      BY Zenon, <3>2, <1>2 DEF SetupInv, NotPassed, DaemonAt
    <3> QED
      BY Zenon, <3>1, <3>2
  <2> QED
    BY Zenon, <2>1, <2>2 DEF NotPassed, DaemonAt
<1>6. SlotLosesNothing' /\ life'.since <= wal' + 1
  BY <1>1, <1>3 DEF SlotLosesNothing
<1> QED
  BY Zenon, <1>3, <1>4, <1>5, <1>6, FoundKept DEF SetupInv

\* An event is persisted (PersistCommittedBatch) and perhaps acknowledged.
LEMMA CaptureKeepsInv ==
  ASSUME SetupInv, NEW d \in Daemons, CaptureEvent(d)
  PROVE  SetupInv'
<1> DEFINE c == daemon[d].cursor
           s == [daemon[d] EXCEPT !.cursor = c + 1]
<1>1. /\ server \in ServerRecord /\ slot \in SlotRecord /\ life \in LifeRecord
      /\ wal \in Nat /\ spool \in SpoolRecord
      /\ setup \in [Installers -> SetupRecord] /\ daemon \in [Daemons -> DaemonRecord]
  BY Zenon, Types DEF SetupInv
<1>2. /\ s \in DaemonRecord /\ s.pc = "stream" /\ s.cursor = c + 1 /\ c \in Nat /\ c <= wal
      /\ daemon[d].pc = "stream"
  BY <1>1 DEF CaptureEvent, DaemonAt, DaemonRecord
<1>3. daemon' = [daemon EXCEPT ![d] = s] /\ UNCHANGED <<server, life, wal, setup>>
  BY Zenon DEF CaptureEvent, DaemonGoes
<1>4. /\ spool'.items = spool.items \cup {c} /\ spool' \in SpoolRecord
      /\ spool'.checkpoint \in {spool.checkpoint, c + 1}
      /\ spool'.checkpoint >= spool.checkpoint
  BY <1>1, <1>2 DEF CaptureEvent, SpoolRecord
<1>5. /\ slot' \in SlotRecord /\ slot'.exists = slot.exists /\ slot'.foreign = slot.foreign
      /\ slot'.confirmed \in {slot.confirmed, spool'.checkpoint}
  <2>1. slot' = slot \/ slot' = [slot EXCEPT !.confirmed = spool'.checkpoint]
    BY Zenon DEF CaptureEvent
  <2> QED
    BY Zenon, <2>1, <1>1, <1>4 DEF SlotRecord, SpoolRecord
<1> HIDE DEF s
<1>6. daemon' \in [Daemons -> DaemonRecord] /\ daemon'[d] = s
      /\ \A e \in Daemons \ {d} : daemon'[e] = daemon[e]
  BY Zenon, <1>1, <1>2, <1>3
<1>7. SetupType'
  BY Zenon, <1>1, <1>3, <1>4, <1>5, <1>6, Types DEF SetupType, ServerRecord, SlotRecord, LifeRecord,
     SpoolRecord, SetupRecord, DaemonRecord
<1>8. ASSUME NEW i \in Nat, NotPassed(i), i # c  PROVE NotPassed(i)'
  <2>1. i >= c + 1
    BY <1>2, <1>8 DEF NotPassed, DaemonAt
  <2>2. i >= spool'.checkpoint
    BY Zenon, <2>1, <1>4, <1>8 DEF NotPassed
  <2>3. slot'.exists /\ ~slot'.foreign => i >= slot'.confirmed
    BY Zenon, <2>2, <1>5, <1>8 DEF NotPassed
  <2>4. ASSUME NEW e \in Daemons
        PROVE  /\ daemon'[e].pc = "connect" => i >= daemon'[e].start
               /\ daemon'[e].pc = "stream" => i >= daemon'[e].cursor
    <3>1. CASE e = d
      BY Zenon, <3>1, <2>1, <1>2, <1>6
    <3>2. CASE e # d
      BY Zenon, <3>2, <1>6, <1>8 DEF NotPassed, DaemonAt
    <3> QED
      BY Zenon, <3>1, <3>2
  <2> QED
    BY Zenon, <2>2, <2>3, <2>4 DEF NotPassed, DaemonAt
<1>9. NotPassed(wal + 1)'
  <2>1. wal + 1 \in Nat /\ NotPassed(wal + 1) /\ wal + 1 # c
    BY <1>1, <1>2 DEF SetupInv
  <2> QED
    BY Zenon, <2>1, <1>3, <1>8
<1>10. SlotLosesNothing'
  <2>1. \A i \in life.since..wal : i \in Nat
    BY <1>1 DEF LifeRecord
  <2>2. \A i \in life.since..wal : i \in spool'.items \/ NotPassed(i)'
    BY Zenon, <2>1, <1>4, <1>8 DEF SlotLosesNothing, SetupInv
  <2> QED
    BY Zenon, <2>2, <1>3 DEF SlotLosesNothing
<1> QED
  BY Zenon, <1>3, <1>5, <1>7, <1>9, <1>10, FoundKept DEF SetupInv

\* The steps of a daemon up to the stream, and its end (startLSN, runOnce, Run).
LEMMA DaemonStepKeepsInv ==
  ASSUME SetupInv, NEW d \in Daemons,
         \/ DaemonStep(d) \/ Disconnect(d) \/ EndDaemon(d)
         \/ \E create \in CreateSlotIfMissing : StartDaemon(d, create)
  PROVE  SetupInv'
<1>0. slot \in SlotRecord /\ spool \in SpoolRecord /\ daemon[d] \in DaemonRecord
  BY Zenon, Types DEF SetupInv
<1>1. Down \in DaemonRecord /\ Down.pc = "down"
  BY Zenon DEF Down, DaemonRecord, DaemonPcs
<1>2. ASSUME NEW pc \in {"slot", "create"}, DaemonTurns(d, pc),
             UNCHANGED <<server, slot, life, wal, spool, setup>>
      PROVE  SetupInv'
  <2> DEFINE s == [daemon[d] EXCEPT !.pc = pc]
  <2>1. s \in DaemonRecord /\ s.pc = pc
    BY Zenon, <1>0 DEF DaemonRecord, DaemonPcs
  <2>2. daemon' = [daemon EXCEPT ![d] = s]
    BY Zenon, <1>2 DEF DaemonTurns, DaemonGoes
  <2> HIDE DEF s
  <2> QED
    BY Zenon, <2>1, <2>2, <1>0, <1>2, DaemonMoves
<1>3. ASSUME Validate(d), UNCHANGED <<server, slot, life, wal, spool, setup>>
      PROVE  SetupInv'
  <2>1. CASE ValidSlot
    <3> DEFINE s == [daemon[d] EXCEPT !.pc = "connect", !.start = StartPosition]
    <3>1. StartPosition \in Nat
      BY Zenon, <1>0 DEF StartPosition, SlotRecord, SpoolRecord
    <3>2. s \in DaemonRecord /\ s.pc = "connect" /\ s.start = StartPosition
      BY Zenon, <3>1, <1>0 DEF DaemonRecord, DaemonPcs
    <3>3. daemon' = [daemon EXCEPT ![d] = s]
      BY Zenon, <2>1, <1>3 DEF Validate, DaemonGoes
    <3>4. \A i \in Nat : NotPassed(i) => i >= StartPosition
      BY Zenon, <2>1 DEF NotPassed, StartPosition, ValidSlot
    <3> HIDE DEF s
    <3> QED
      BY Zenon, <3>2, <3>3, <3>4, <1>0, <1>3, DaemonMoves
  <2>2. CASE ~ValidSlot
    <3>1. daemon' = [daemon EXCEPT ![d] = Down]
      BY Zenon, <2>2, <1>3 DEF Validate, DaemonGoes
    <3> QED
      BY Zenon, <3>1, <1>0, <1>1, <1>3, DaemonMoves
  <2> QED
    BY Zenon, <2>1, <2>2
<1>4. CASE ReadSlot(d)
  BY Zenon, <1>2, <1>3, <1>4 DEF ReadSlot
<1>5. CASE CreateMissingSlot(d)
  <2>1. CASE slot.exists /\ DaemonTurns(d, "slot") /\ UNCHANGED <<slot, life>>
    BY Zenon, <2>1, <1>2, <1>5 DEF CreateMissingSlot
  <2>2. CASE ~slot.exists /\ CreateReplicationSlot /\ DaemonTurns(d, "created")
    <3> DEFINE s == [daemon[d] EXCEPT !.pc = "created"]
    <3>1. s \in DaemonRecord /\ s.pc = "created"
      BY Zenon, <1>0 DEF DaemonRecord, DaemonPcs
    <3>2. daemon' = [daemon EXCEPT ![d] = s]
      BY Zenon, <2>2 DEF DaemonTurns, DaemonGoes
    <3> HIDE DEF s
    <3> QED
      BY Zenon, <2>2, <3>1, <3>2, <1>5, DaemonCreates DEF CreateMissingSlot
  <2> QED
    BY Zenon, <2>1, <2>2, <1>5 DEF CreateMissingSlot
<1>6. CASE ReadCreatedSlot(d)
  BY Zenon, <1>3, <1>6 DEF ReadCreatedSlot
<1>7. CASE StartReplication(d)
  <2>1. CASE DaemonTurns(d, "slot") /\ UNCHANGED slot
    BY Zenon, <2>1, <1>2, <1>7 DEF StartReplication
  <2>2. CASE ValidSlot /\ ~(DaemonTurns(d, "slot") /\ UNCHANGED slot)
    <3> DEFINE c == IF daemon[d].start > slot.confirmed THEN daemon[d].start ELSE slot.confirmed
               s == [daemon[d] EXCEPT !.pc = "stream", !.cursor = c]
    <3>1. c \in Nat
      BY Zenon, <1>0 DEF DaemonRecord, SlotRecord
    <3>2. s \in DaemonRecord /\ s.pc = "stream" /\ s.cursor = c
      BY Zenon, <3>1, <1>0 DEF DaemonRecord, DaemonPcs
    <3>3. daemon' = [daemon EXCEPT ![d] = s] /\ slot' = [slot EXCEPT !.owner = d]
      BY Zenon, <2>2, <1>7 DEF StartReplication, DaemonGoes
    <3>4. /\ slot' \in SlotRecord /\ slot'.exists = slot.exists
          /\ slot'.foreign = slot.foreign /\ slot'.confirmed = slot.confirmed
      BY Zenon, <3>3, <1>0 DEF SlotRecord
    <3>5. \A i \in Nat : NotPassed(i) => i >= c
      BY Zenon, <2>2, <1>7 DEF StartReplication, NotPassed, ValidSlot, DaemonAt
    <3> HIDE DEF s, c
    <3> QED
      BY Zenon, <3>2, <3>3, <3>4, <3>5, <1>7, DaemonMoves DEF StartReplication
  <2> QED
    BY Zenon, <2>1, <2>2, <1>7 DEF StartReplication
<1>8. CASE CaptureEvent(d)
  BY Zenon, <1>8, CaptureKeepsInv
<1>9. ASSUME NEW pc \in {"slot", "down"}, LeaveSlot(d, pc)  PROVE SetupInv'
  <2> DEFINE s == IF pc = "down" THEN Down ELSE [Down EXCEPT !.pc = pc, !.create = daemon[d].create]
  <2>1. s \in DaemonRecord /\ s.pc = pc
    BY Zenon, <1>0, <1>1 DEF DaemonRecord, DaemonPcs
  <2>2. daemon' = [daemon EXCEPT ![d] = s]
    BY Zenon, <1>9 DEF LeaveSlot, DaemonGoes
  <2>3. /\ slot' \in SlotRecord /\ slot'.exists = slot.exists
        /\ slot'.foreign = slot.foreign /\ slot'.confirmed = slot.confirmed
    BY Zenon, <1>0, <1>9 DEF LeaveSlot, SlotRecord
  <2> HIDE DEF s
  <2> QED
    BY Zenon, <2>1, <2>2, <2>3, <1>9, DaemonMoves DEF LeaveSlot
<1>10. ASSUME NEW create \in CreateSlotIfMissing, StartDaemon(d, create)  PROVE SetupInv'
  <2> DEFINE s == [Down EXCEPT !.pc = "slot", !.create = create]
  <2>1. s \in DaemonRecord /\ s.pc = "slot"
    BY Zenon, <1>1, SetupAssumption DEF DaemonRecord, DaemonPcs
  <2>2. daemon' = [daemon EXCEPT ![d] = s]
    BY Zenon, <1>10 DEF StartDaemon, DaemonGoes
  <2> HIDE DEF s
  <2> QED
    BY Zenon, <2>1, <2>2, <1>0, <1>10, DaemonMoves DEF StartDaemon
<1> QED
  BY Zenon, <1>4, <1>5, <1>6, <1>7, <1>8, <1>9, <1>10 DEF DaemonStep, Disconnect, EndDaemon

\* An event is emitted: it lies ahead of every position.
LEMMA EmitKeepsInv ==
  ASSUME SetupInv, Emit
  PROVE  SetupInv'
<1>1. wal \in Nat /\ wal' = wal + 1 /\ life \in LifeRecord
      /\ UNCHANGED <<server, slot, life, spool, setup, daemon>>
  BY Zenon, Types DEF SetupInv, Emit
<1>2. SetupType'
  BY <1>1 DEF SetupInv, SetupType
<1>3. /\ slot \in SlotRecord /\ spool \in SpoolRecord /\ daemon \in [Daemons -> DaemonRecord]
  BY Zenon, Types DEF SetupInv
<1>4. NotPassed(wal + 1)'
  BY <1>1, <1>3 DEF SetupInv, NotPassed, DaemonAt, SlotRecord, SpoolRecord, DaemonRecord
<1>5. ASSUME NEW i \in life.since..wal + 1  PROVE i \in spool.items \/ NotPassed(i)
  <2>1. CASE i = wal + 1
    BY Zenon, <2>1 DEF SetupInv
  <2>2. CASE i # wal + 1
    BY <2>2, <1>1 DEF SetupInv, SlotLosesNothing, LifeRecord
  <2> QED
    BY Zenon, <2>1, <2>2
<1>6. SlotLosesNothing'
  BY Zenon, <1>1, <1>5 DEF SlotLosesNothing, NotPassed, DaemonAt
<1>7. life'.since <= wal' + 1
  BY <1>1 DEF SetupInv, LifeRecord
<1> QED
  BY Zenon, <1>1, <1>2, <1>4, <1>6, <1>7, FoundKept DEF SetupInv

\* The slot is dropped: no setup's drops is the number of drops any more.
LEMMA DropKeepsInv ==
  ASSUME SetupInv, DropSlot
  PROVE  SetupInv'
<1>1. /\ server \in ServerRecord /\ life \in LifeRecord /\ wal \in Nat /\ spool \in SpoolRecord
      /\ setup \in [Installers -> SetupRecord] /\ daemon \in [Daemons -> DaemonRecord]
      /\ UNCHANGED <<server, wal, spool, setup, daemon>>
  BY Zenon, Types DEF SetupInv, DropSlot
<1>2. slot' = [exists |-> FALSE, foreign |-> FALSE, confirmed |-> 0, owner |-> Unowned]
  BY Zenon DEF DropSlot, NoSlot
<1>3. slot' \in SlotRecord /\ ~slot'.exists
  BY Zenon, <1>2 DEF SlotRecord
<1>4. life' \in LifeRecord /\ life'.since = life.since /\ life'.drops = life.drops + 1
  BY <1>1 DEF DropSlot, LifeRecord
<1>5. SetupType'
  BY Zenon, <1>1, <1>3, <1>4, Types DEF SetupType, ServerRecord, SlotRecord, LifeRecord, SpoolRecord,
     SetupRecord, DaemonRecord
<1>6. FoundIsThere'
  <2>1. \A p \in Installers : /\ setup[p].drops \in Nat /\ life.drops \in Nat
                              /\ setup[p].drops <= life.drops
    BY Zenon, <1>1 DEF SetupRecord, LifeRecord, SetupInv, FoundIsThere
  <2>2. \A p \in Installers : setup[p].drops <= life'.drops /\ setup[p].drops # life'.drops
    BY <2>1, <1>4
  <2> QED
    BY Zenon, <2>2, <1>1 DEF SetupInv, FoundIsThere
<1>7. \A i \in Nat : NotPassed(i) => NotPassed(i)'
  BY Zenon, <1>1, <1>3 DEF NotPassed, DaemonAt
<1>8. NotPassed(wal + 1)'
  BY <1>1, <1>7 DEF SetupInv
<1>9. SlotLosesNothing'
  <2>1. \A i \in life.since..wal : i \in Nat
    BY <1>1 DEF LifeRecord
  <2>2. \A i \in life.since..wal : i \in spool.items \/ NotPassed(i)'
    BY Zenon, <2>1, <1>7 DEF SlotLosesNothing, SetupInv
  <2> QED
    BY Zenon, <2>2, <1>1, <1>4 DEF SlotLosesNothing
<1> QED
  BY Zenon, <1>1, <1>4, <1>5, <1>6, <1>8, <1>9 DEF SetupInv
-----------------------------------------------------------------------------
\* The inductive invariant of the PostgreSQL objects, for any number of setups and
\* daemons (Setup, startLSN, runOnce).
THEOREM SetupInvariance == SetupSpec => []SetupInv
<1>1. SetupInit => SetupInv
  <2> SUFFICES ASSUME SetupInit  PROVE SetupInv
    BY Zenon
  <2>1. /\ slot \in SlotRecord /\ slot.confirmed = 0
    <3>1. NoSlot \in SlotRecord /\ NoSlot.confirmed = 0
      BY Zenon DEF NoSlot, SlotRecord
    <3> QED
      BY Zenon, <3>1 DEF SetupInit, SlotRecord
  <2>2. IdleSetup \in SetupRecord /\ ~IdleSetup.emit /\ ~IdleSetup.publication
        /\ ~IdleSetup.slot /\ IdleSetup.pc = "idle" /\ IdleSetup.drops = 0
    BY Zenon DEF IdleSetup, SetupRecord, SetupPcs
  <2>3. Down \in DaemonRecord /\ Down.pc = "down"
    BY Zenon DEF Down, DaemonRecord, DaemonPcs
  <2>4. /\ life \in LifeRecord /\ life.since = 0 /\ life.drops = 0
        /\ spool \in SpoolRecord /\ spool.checkpoint = 0
        /\ wal = 0 /\ server \in ServerRecord
        /\ setup \in [Installers -> SetupRecord] /\ daemon \in [Daemons -> DaemonRecord]
        /\ \A p \in Installers : setup[p] = IdleSetup
        /\ \A d \in Daemons : daemon[d] = Down
    BY Zenon, <2>2, <2>3 DEF SetupInit, LifeRecord, SpoolRecord, ServerRecord
  <2>5. SetupType
    BY Zenon, <2>1, <2>4, Types
  <2>6. FoundIsThere
    <3> SUFFICES ASSUME NEW p \in Installers
                 PROVE  /\ ~setup[p].emit /\ ~setup[p].publication /\ ~setup[p].slot
                        /\ setup[p].pc = "idle" /\ setup[p].drops <= life.drops
      BY Zenon DEF FoundIsThere
    <3>1. setup[p] = IdleSetup /\ life.drops = 0
      BY Zenon, <2>4
    <3>2. IdleSetup.drops <= 0
      BY <2>2
    <3> QED
      BY Zenon, <2>2, <3>1, <3>2
  <2>7. \A i \in Nat : NotPassed(i)
    BY <2>1, <2>3, <2>4 DEF NotPassed, DaemonAt
  <2>8. SlotLosesNothing
    BY <2>4, <2>7 DEF SlotLosesNothing
  <2> QED
    BY <2>4, <2>5, <2>6, <2>7, <2>8 DEF SetupInv
<1>2. SetupInv /\ [SetupNext]_setupVars => SetupInv'
  <2> SUFFICES ASSUME SetupInv, [SetupNext]_setupVars  PROVE SetupInv'
    BY Zenon
  <2>1. ASSUME NEW p \in Installers, SetupAct(p) \/ SetupFails(p)  PROVE SetupInv'
    BY Zenon, <2>1, SetupStepKeepsInv DEF SetupAct
  <2>2. ASSUME NEW d \in Daemons, DaemonAct(d) \/ Disconnect(d) \/ EndDaemon(d)  PROVE SetupInv'
    BY Zenon, <2>2, DaemonStepKeepsInv DEF DaemonAct
  <2>3. CASE UNCHANGED setupVars
    BY Zenon, <2>3 DEF setupVars, SetupInv, SetupType, FoundIsThere, NotPassed, SlotLosesNothing, DaemonAt
  <2> QED
    BY Zenon, <2>1, <2>2, <2>3, EmitKeepsInv, DropKeepsInv DEF SetupNext, Trouble
<1> QED
  BY <1>1, <1>2, PTL DEF SetupSpec

\* What setup reports as done the doctor finds, unless the slot was dropped (Setup, Doctor).
THEOREM SetupIsSound == SetupSpec => []SetupSatisfiesDoctor
<1>1. SetupInv => SetupSatisfiesDoctor
  BY Zenon DEF SetupInv, FoundIsThere, SetupSatisfiesDoctor, DoctorPasses, SetupAt
<1> QED
  BY <1>1, SetupInvariance, PTL

\* A slot loses no event while it lives, however often daemons start over and
\* whoever created it (startLSN).
THEOREM SlotIsSafe == SetupSpec => []SlotLosesNothing
<1>1. SetupInv => SlotLosesNothing
  BY Zenon DEF SetupInv
<1> QED
  BY <1>1, SetupInvariance, PTL
-----------------------------------------------------------------------------
(* Inbox.  For any number of overlapping requests, keys, bodies and        *)
(* expiries: a callback's writes are committed once per receipt, and       *)
(* success is only answered for what has been processed.                   *)

\* The invariant of the other requests speaks of this one only through its key
\* and whether it has inserted it.
LEMMA CallMoves ==
  ASSUME InboxInv, NEW h \in Handlers, NEW c \in CallRecord, NEW s \in SessionRecord,
         call' = [call EXCEPT ![h] = c], session' = [session EXCEPT ![h] = s],
         UNCHANGED <<receipts, effects, succeeded, expired>>, sending' \in BOOLEAN,
         c.pc = "idle" <=> s.state # "open",
         s.claim => /\ c.key \notin DOMAIN receipts
                    /\ \A g \in Handlers \ {h} : session[g].claim => call[g].key # c.key,
         s.share => c.key \in DOMAIN receipts /\ receipts[c.key] = c.body,
         c.pc = "handle" => s.claim,
         c.pc \in {"check", "commit"} => s.claim \/ s.share
  PROVE  InboxInv'
<1>1. InboxType /\ \A g \in Handlers : ClaimInv(g)
  BY Zenon DEF InboxInv
<1>2. /\ call'[h] = c /\ session'[h] = s
      /\ \A g \in Handlers \ {h} : call'[g] = call[g] /\ session'[g] = session[g]
  BY Zenon, <1>1 DEF InboxType
<1>3. InboxType'
  <2>1. call' \in [Handlers -> CallRecord] /\ session' \in [Handlers -> SessionRecord]
    BY Zenon, <1>1 DEF InboxType
  <2>2. \A g \in Handlers : call'[g].pc = "idle" <=> session'[g].state # "open"
    BY Zenon, <1>1, <1>2 DEF InboxType
  <2> QED
    BY Zenon, <1>1, <2>1, <2>2 DEF InboxType
<1>4. ProcessedOnce' /\ SuccessIsProcessed'
  BY Zenon DEF InboxInv, ProcessedOnce, SuccessIsProcessed
<1>5. ClaimInv(h)'
  BY Zenon, <1>2 DEF ClaimInv, ClaimedByAnother
<1>6. ASSUME NEW g \in Handlers, g # h PROVE ClaimInv(g)'
  <2>1. session[g].claim => ~ClaimedByAnother(g)'
    <3> SUFFICES ASSUME session[g].claim, NEW f \in Handlers \ {g}, session'[f].claim,
                        call'[f].key = call'[g].key
                 PROVE  FALSE
      BY Zenon DEF ClaimedByAnother
    <3>1. CASE f = h
      BY <1>2, <1>6, <3>1
    <3>2. CASE f # h
      BY <1>1, <1>2, <1>6, <3>2 DEF ClaimInv, ClaimedByAnother
    <3> QED
      BY Zenon, <3>1, <3>2
  <2> QED
    BY Zenon, <1>1, <1>2, <1>6, <2>1 DEF ClaimInv
<1> QED
  BY Zenon, <1>3, <1>4, <1>5, <1>6 DEF InboxInv

\* A request that ends without a COMMIT: whatever the server still holds for it
\* keeps its claim and its row lock.
LEMMA CallEnds ==
  ASSUME InboxInv, NEW h \in Handlers, call' = [call EXCEPT ![h] = Idle(h)],
         \/ session' = [session EXCEPT ![h] = NoSession]
         \/ session' = [session EXCEPT ![h].state = "orphan"]
         \/ session' = [session EXCEPT ![h].state = "committing"],
         UNCHANGED <<receipts, effects, succeeded, expired, sending>>
  PROVE  InboxInv'
<1> DEFINE c == Idle(h)
<1>1. /\ InboxType /\ ClaimInv(h) /\ sending' \in BOOLEAN
      /\ call[h] \in CallRecord /\ session[h] \in SessionRecord
  BY Zenon DEF InboxInv, InboxType
<1>2. c \in CallRecord /\ c.pc = "idle" /\ c.key = call[h].key /\ c.body = call[h].body
  BY Zenon, <1>1 DEF CallRecord, Idle, Pcs
<1>3. PICK s : /\ session' = [session EXCEPT ![h] = s]
               /\ s = NoSession \/ s = [session[h] EXCEPT !.state = "orphan"]
                                \/ s = [session[h] EXCEPT !.state = "committing"]
  BY Zenon
<1>4. /\ s \in SessionRecord /\ s.state # "open"
      /\ s.claim => session[h].claim
      /\ s.share => session[h].share
  <2>1. CASE s = NoSession
    BY Zenon, <2>1 DEF SessionRecord, NoSession, SessionStates
  <2>2. CASE s = [session[h] EXCEPT !.state = "orphan"]
    BY Zenon, <1>1, <2>2 DEF SessionRecord, SessionStates
  <2>3. CASE s = [session[h] EXCEPT !.state = "committing"]
    BY Zenon, <1>1, <2>3 DEF SessionRecord, SessionStates
  <2> QED
    BY Zenon, <1>3, <2>1, <2>2, <2>3
<1>5. s.claim => /\ c.key \notin DOMAIN receipts
                 /\ \A g \in Handlers \ {h} : session[g].claim => call[g].key # c.key
  BY Zenon, <1>1, <1>2, <1>4 DEF ClaimInv, ClaimedByAnother
<1>6. s.share => c.key \in DOMAIN receipts /\ receipts[c.key] = c.body
  BY Zenon, <1>1, <1>2, <1>4 DEF ClaimInv
<1> HIDE DEF c
<1> QED
  BY Zenon, <1>1, <1>2, <1>3, <1>4, <1>5, <1>6, CallMoves DEF c

\* PostgreSQL commits a transaction: only the one that has inserted the key
\* writes, once, and the rest of the invariant speaks of the row it leaves.
LEMMA ApplyKeepsInv ==
  ASSUME InboxInv, NEW h \in Handlers, Apply(h), NEW c \in CallRecord,
         call' = [call EXCEPT ![h] = c], c.pc = "idle", c.key = call[h].key,
         \/ succeeded' = succeeded
         \/ /\ succeeded' = succeeded \cup {<<call[h].key, call[h].body>>}
            /\ session[h].claim \/ session[h].share,
         UNCHANGED <<expired, sending>>
  PROVE  InboxInv'
<1> DEFINE k == call[h].key
           b == call[h].body
<1>1. /\ InboxType /\ \A g \in Handlers : ClaimInv(g)
      /\ ProcessedOnce /\ SuccessIsProcessed
  BY Zenon DEF InboxInv
<1>2. /\ k \in InboxKeys /\ b \in Bodies
  BY Zenon, <1>1 DEF InboxType, CallRecord
<1>3. /\ call'[h] = c /\ session'[h] = NoSession
      /\ \A g \in Handlers \ {h} : call'[g] = call[g] /\ session'[g] = session[g]
  BY Zenon, <1>1 DEF InboxType, Apply
<1>4. /\ session[h].claim =>
           /\ DOMAIN receipts' = DOMAIN receipts \cup {k} /\ k \notin DOMAIN receipts
           /\ receipts'[k] = b
           /\ \A j \in DOMAIN receipts : receipts'[j] = receipts[j]
           /\ effects' = [effects EXCEPT ![k] = @ + 1]
      /\ ~session[h].claim => receipts' = receipts /\ effects' = effects
  BY Zenon, <1>1 DEF Apply, ClaimInv
<1> HIDE DEF k, b
<1>5. InboxType'
  <2>1. DOMAIN receipts' \subseteq InboxKeys /\ receipts' \in [DOMAIN receipts' -> Bodies]
    <3>1. receipts' = [j \in DOMAIN receipts' |-> receipts'[j]]
      BY Zenon, <1>1 DEF Apply, InboxType
    <3>2. \A j \in DOMAIN receipts' : receipts'[j] \in Bodies
      BY Zenon, <1>1, <1>2, <1>4 DEF InboxType
    <3> QED
      BY Zenon, <1>1, <1>2, <1>4, <3>1, <3>2 DEF InboxType
  <2>2. effects' \in [InboxKeys -> Nat]
    BY <1>1, <1>2, <1>4 DEF InboxType
  <2>3. /\ call' \in [Handlers -> CallRecord] /\ session' \in [Handlers -> SessionRecord]
    BY Zenon, <1>1 DEF InboxType, Apply, NoSession, SessionRecord, SessionStates
  <2>4. succeeded' \subseteq InboxKeys \X Bodies
    BY <1>1, <1>2 DEF InboxType, k, b
  <2>5. \A g \in Handlers : call'[g].pc = "idle" <=> session'[g].state # "open"
    BY <1>1, <1>3 DEF InboxType, NoSession
  <2> QED
    BY Zenon, <1>1, <2>1, <2>2, <2>3, <2>4, <2>5 DEF InboxType
<1>6. ProcessedOnce'
  <2> SUFFICES ASSUME NEW j \in InboxKeys
               PROVE  effects'[j] = expired[j] + IF j \in DOMAIN receipts' THEN 1 ELSE 0
    BY Zenon DEF ProcessedOnce
  <2>1. /\ effects[j] = expired[j] + IF j \in DOMAIN receipts THEN 1 ELSE 0
        /\ effects[j] \in Nat /\ expired[j] \in Nat
    BY Zenon, <1>1 DEF ProcessedOnce, InboxType
  <2>2. CASE session[h].claim /\ j = k
    <3>1. effects'[j] = effects[j] + 1
      BY Zenon, <1>1, <1>4, <2>2 DEF InboxType
    <3>2. j \in DOMAIN receipts' /\ j \notin DOMAIN receipts
      BY Zenon, <1>4, <2>2
    <3> QED
      BY <2>1, <3>1, <3>2
  <2>3. CASE session[h].claim /\ j # k
    <3>1. effects'[j] = effects[j]
      BY Zenon, <1>1, <1>4, <2>3 DEF InboxType
    <3>2. (j \in DOMAIN receipts') <=> (j \in DOMAIN receipts)
      BY Zenon, <1>4, <2>3
    <3> QED
      BY Zenon, <2>1, <3>1, <3>2
  <2>4. CASE ~session[h].claim
    BY Zenon, <1>4, <2>1, <2>4
  <2> QED
    BY Zenon, <2>2, <2>3, <2>4
<1>7. SuccessIsProcessed'
  <2>1. ASSUME NEW p \in succeeded
        PROVE  (p[1] \in DOMAIN receipts' /\ receipts'[p[1]] = p[2]) \/ expired[p[1]] > 0
    BY Zenon, <1>1, <1>4 DEF SuccessIsProcessed
  <2>2. session[h].claim \/ session[h].share => k \in DOMAIN receipts' /\ receipts'[k] = b
    BY Zenon, <1>1, <1>4 DEF ClaimInv, k, b
  <2> QED
    BY <2>1, <2>2 DEF SuccessIsProcessed, k, b
<1>0. ~NoSession.claim /\ ~NoSession.share
  BY Zenon DEF NoSession
<1>8. ClaimInv(h)'
  BY Zenon, <1>0, <1>3 DEF ClaimInv
<1>9. ASSUME NEW g \in Handlers, g # h PROVE ClaimInv(g)'
  <2>1. session[g].claim => call[g].key \notin DOMAIN receipts' /\ ~ClaimedByAnother(g)'
    <3>1. session[g].claim /\ session[h].claim => call[g].key # k
      BY Zenon, <1>1, <1>9 DEF ClaimInv, ClaimedByAnother, k
    <3>2. session[g].claim => ~ClaimedByAnother(g)'
      <4>1. \A i \in Handlers \ {g} : session'[i].claim => session[i].claim
        BY Zenon, <1>0, <1>3
      <4>2. session[g].claim => ~ClaimedByAnother(g)
        BY Zenon, <1>1 DEF ClaimInv
      <4>3. \A i \in Handlers : session'[i].claim => call'[i].key = call[i].key
        BY Zenon, <1>0, <1>3
      <4>4. call'[g].key = call[g].key
        BY Zenon, <1>3, <1>9
      <4> QED
        BY Zenon, <4>1, <4>2, <4>3, <4>4 DEF ClaimedByAnother
    <3> QED
      BY Zenon, <1>1, <1>4, <3>1, <3>2 DEF ClaimInv
  <2>2. session[g].share => /\ call[g].key \in DOMAIN receipts'
                            /\ receipts'[call[g].key] = call[g].body
    BY Zenon, <1>1, <1>4 DEF ClaimInv
  <2> QED
    BY Zenon, <1>1, <1>3, <1>9, <2>1, <2>2 DEF ClaimInv
<1> QED
  BY Zenon, <1>5, <1>6, <1>7, <1>8, <1>9 DEF InboxInv

\* A request arrives on an idle handler, whose transaction has ended.
LEMMA ArriveKeepsInv ==
  ASSUME InboxInv, NEW h \in Handlers, NEW k \in InboxKeys, NEW b \in Bodies,
         NEW sdk \in Sdks, Arrive(h, k, b, sdk)
  PROVE  InboxInv'
<1> DEFINE c == [pc |-> "insert", key |-> k, body |-> b, sdk |-> sdk]
           s == [NoSession EXCEPT !.state = "open"]
<1>1. /\ c \in CallRecord /\ c.pc = "insert" /\ s \in SessionRecord
      /\ s.state = "open" /\ ~s.claim /\ ~s.share
  BY Zenon DEF CallRecord, Pcs, SessionRecord, SessionStates, NoSession
<1>2. /\ call' = [call EXCEPT ![h] = c] /\ session' = [session EXCEPT ![h] = s]
      /\ UNCHANGED <<receipts, effects, succeeded, expired>> /\ sending' \in BOOLEAN
  BY Zenon DEF Arrive, InboxInv, InboxType
<1> HIDE DEF c, s
<1> QED
  BY Zenon, <1>1, <1>2, CallMoves

\* The INSERT claims a key that is free, or finds its receipt.
LEMMA InsertKeepsInv ==
  ASSUME InboxInv, NEW h \in Handlers, Insert(h)
  PROVE  InboxInv'
<1>1. /\ InboxType /\ ClaimInv(h) /\ sending' \in BOOLEAN
      /\ call[h] \in CallRecord /\ session[h] \in SessionRecord
      /\ call[h].pc = "insert" /\ session[h].state = "open"
      /\ UNCHANGED <<receipts, effects, succeeded, expired>>
  BY Zenon DEF InboxInv, InboxType, Insert
<1>2. CASE call[h].key \in DOMAIN receipts
  <2> DEFINE c == [call[h] EXCEPT !.pc = "read"]
             s == session[h]
  <2>1. c \in CallRecord /\ c.pc = "read" /\ c.key = call[h].key /\ c.body = call[h].body
    BY Zenon, <1>1 DEF CallRecord, Pcs
  <2>2. call' = [call EXCEPT ![h] = c] /\ session' = [session EXCEPT ![h] = s]
    BY Zenon, <1>1, <1>2 DEF Insert, InboxType
  <2>3. ~s.claim /\ s \in SessionRecord /\ s.state = "open"
        /\ (s.share => c.key \in DOMAIN receipts /\ receipts[c.key] = c.body)
    BY Zenon, <1>1, <1>2, <2>1 DEF ClaimInv
  <2> HIDE DEF c, s
  <2> QED
    BY Zenon, <1>1, <2>1, <2>2, <2>3, CallMoves
<1>3. CASE call[h].key \notin DOMAIN receipts
  <2> DEFINE c == [call[h] EXCEPT !.pc = "handle"]
             s == [session[h] EXCEPT !.claim = TRUE]
  <2>1. c \in CallRecord /\ c.pc = "handle" /\ c.key = call[h].key /\ c.body = call[h].body
    BY Zenon, <1>1 DEF CallRecord, Pcs
  <2>2. call' = [call EXCEPT ![h] = c] /\ session' = [session EXCEPT ![h] = s]
    BY Zenon, <1>3 DEF Insert
  <2>3. /\ s.claim /\ s \in SessionRecord /\ s.state = "open" /\ s.share = session[h].share
    BY Zenon, <1>1 DEF SessionRecord
  <2>4. ~s.share /\ \A g \in Handlers \ {h} : session[g].claim => call[g].key # c.key
    BY Zenon, <1>1, <1>3, <2>1, <2>3 DEF ClaimInv, Insert, ClaimedByAnother
  <2> HIDE DEF c, s
  <2> QED
    BY Zenon, <1>1, <1>3, <2>1, <2>2, <2>3, <2>4, CallMoves
<1> QED
  BY Zenon, <1>2, <1>3

\* The callback has run, in the transaction that holds the claim.
LEMMA HandleKeepsInv ==
  ASSUME InboxInv, NEW h \in Handlers, Handle(h)
  PROVE  InboxInv'
<1>1. /\ ClaimInv(h) /\ sending' \in BOOLEAN
      /\ call[h] \in CallRecord /\ session[h] \in SessionRecord
      /\ call[h].pc = "handle" /\ session[h].state = "open"
      /\ UNCHANGED <<receipts, effects, succeeded, expired>>
  BY Zenon DEF InboxInv, InboxType, Handle
<1>2. PICK swallowed \in BOOLEAN : session' = [session EXCEPT ![h].aborted = swallowed]
  BY Zenon DEF Handle
<1> DEFINE c == [call[h] EXCEPT !.pc = "check"]
           s == [session[h] EXCEPT !.aborted = swallowed]
<1>3. c \in CallRecord /\ c.pc = "check" /\ c.key = call[h].key /\ c.body = call[h].body
  BY Zenon, <1>1 DEF CallRecord, Pcs
<1>4. /\ s \in SessionRecord /\ s.state = "open"
      /\ s.claim = session[h].claim /\ s.share = session[h].share
  BY Zenon, <1>1 DEF SessionRecord
<1>5. call' = [call EXCEPT ![h] = c] /\ session' = [session EXCEPT ![h] = s]
  BY Zenon, <1>2 DEF Handle
<1> HIDE DEF c, s
<1>6. /\ s.claim /\ c.key \notin DOMAIN receipts
      /\ \A g \in Handlers \ {h} : session[g].claim => call[g].key # c.key
      /\ s.share => c.key \in DOMAIN receipts /\ receipts[c.key] = c.body
  BY Zenon, <1>1, <1>3, <1>4 DEF ClaimInv, ClaimedByAnother
<1> QED
  BY Zenon, <1>1, <1>3, <1>4, <1>5, <1>6, CallMoves

\* The SELECT locks a receipt of the same bytes, or the call fails.
LEMMA ReadKeepsInv ==
  ASSUME InboxInv, NEW h \in Handlers, Read(h)
  PROVE  InboxInv'
<1>1. /\ ClaimInv(h) /\ sending' \in BOOLEAN
      /\ call[h] \in CallRecord /\ session[h] \in SessionRecord
      /\ call[h].pc = "read" /\ session[h].state = "open"
      /\ UNCHANGED <<receipts, effects, succeeded, expired, sending>>
  BY Zenon DEF InboxInv, InboxType, Read
<1>2. CASE call[h].key \in DOMAIN receipts /\ receipts[call[h].key] = call[h].body
  <2> DEFINE c == [call[h] EXCEPT !.pc = "check"]
             s == [session[h] EXCEPT !.share = TRUE]
  <2>1. c \in CallRecord /\ c.pc = "check" /\ c.key = call[h].key /\ c.body = call[h].body
    BY Zenon, <1>1 DEF CallRecord, Pcs
  <2>2. /\ s \in SessionRecord /\ s.state = "open" /\ s.share /\ s.claim = session[h].claim
    BY Zenon, <1>1 DEF SessionRecord
  <2>3. call' = [call EXCEPT ![h] = c] /\ session' = [session EXCEPT ![h] = s]
    BY Zenon, <1>2 DEF Read
  <2>4. ~s.claim
    BY Zenon, <1>1, <1>2, <2>2 DEF ClaimInv
  <2> HIDE DEF c, s
  <2> QED
    BY Zenon, <1>1, <1>2, <2>1, <2>2, <2>3, <2>4, CallMoves
<1>3. CASE ~(call[h].key \in DOMAIN receipts /\ receipts[call[h].key] = call[h].body)
  BY Zenon, <1>1, <1>3, CallEnds DEF Read
<1> QED
  BY Zenon, <1>2, <1>3

\* The check of the transaction's health lets the call go on, or ends it.
LEMMA CheckKeepsInv ==
  ASSUME InboxInv, NEW h \in Handlers, Check(h)
  PROVE  InboxInv'
<1>1. /\ InboxType /\ ClaimInv(h) /\ sending' \in BOOLEAN
      /\ call[h] \in CallRecord /\ session[h] \in SessionRecord
      /\ call[h].pc = "check" /\ session[h].state = "open"
      /\ UNCHANGED <<receipts, effects, succeeded, expired, sending>>
  BY Zenon DEF InboxInv, InboxType, Check
<1>2. CASE call[h].sdk = "go" /\ session[h].aborted
  BY Zenon, <1>1, <1>2, CallEnds DEF Check
<1>3. CASE ~(call[h].sdk = "go" /\ session[h].aborted)
  <2> DEFINE c == [call[h] EXCEPT !.pc = "commit"]
             s == session[h]
  <2>1. c \in CallRecord /\ c.pc = "commit" /\ c.key = call[h].key /\ c.body = call[h].body
    BY Zenon, <1>1 DEF CallRecord, Pcs
  <2>2. call' = [call EXCEPT ![h] = c] /\ session' = [session EXCEPT ![h] = s]
    BY Zenon, <1>1, <1>3 DEF Check, InboxType
  <2> HIDE DEF c
  <2>3. /\ s.claim => /\ c.key \notin DOMAIN receipts
                      /\ \A g \in Handlers \ {h} : session[g].claim => call[g].key # c.key
        /\ s.share => c.key \in DOMAIN receipts /\ receipts[c.key] = c.body
        /\ s.claim \/ s.share
    BY Zenon, <1>1, <2>1 DEF ClaimInv, ClaimedByAnother
  <2> HIDE DEF s
  <2> QED
    BY Zenon, <1>1, <2>1, <2>2, <2>3, CallMoves DEF s
<1> QED
  BY Zenon, <1>2, <1>3

\* COMMIT: the server's answer is checked before success is reported.
LEMMA CommitKeepsInv ==
  ASSUME InboxInv, NEW h \in Handlers, Commit(h)
  PROVE  InboxInv'
<1>1. /\ ClaimInv(h) /\ call[h] \in CallRecord /\ call[h].pc = "commit"
      /\ call' = [call EXCEPT ![h] = Idle(h)] /\ UNCHANGED <<expired, sending>>
  BY Zenon DEF InboxInv, InboxType, Commit
<1>2. CASE session[h].aborted
  BY Zenon, <1>1, <1>2, CallEnds DEF Commit
<1>3. CASE ~session[h].aborted
  <2> DEFINE c == Idle(h)
  <2>1. c \in CallRecord /\ c.pc = "idle" /\ c.key = call[h].key
    BY Zenon, <1>1 DEF CallRecord, Idle, Pcs
  <2>2. /\ Apply(h) /\ succeeded' = succeeded \cup {<<call[h].key, call[h].body>>}
        /\ session[h].claim \/ session[h].share
    BY Zenon, <1>1, <1>3 DEF Commit, ClaimInv
  <2> HIDE DEF c
  <2> QED
    BY Zenon, <1>1, <2>1, <2>2, ApplyKeepsInv DEF c
<1> QED
  BY Zenon, <1>2, <1>3

\* The server decides a transaction whose client is gone.
LEMMA ResolveKeepsInv ==
  ASSUME InboxInv, NEW h \in Handlers, Resolve(h)
  PROVE  InboxInv'
<1>1. /\ InboxType /\ ClaimInv(h) /\ call[h] \in CallRecord
      /\ session[h].state # "open" /\ call[h].pc = "idle"
      /\ UNCHANGED <<call, succeeded, expired, sending>> /\ sending' \in BOOLEAN
  BY Zenon DEF InboxInv, InboxType, Resolve
<1>2. call' = [call EXCEPT ![h] = call[h]]
  BY Zenon, <1>1 DEF InboxType
<1>3. CASE session' = [session EXCEPT ![h] = NoSession] /\ UNCHANGED <<receipts, effects>>
  <2> DEFINE s == NoSession
  <2>1. s \in SessionRecord /\ s.state # "open" /\ ~s.claim /\ ~s.share
    BY Zenon DEF NoSession, SessionRecord, SessionStates
  <2> HIDE DEF s
  <2> QED
    BY Zenon, <1>1, <1>2, <1>3, <2>1, CallMoves DEF s
<1>4. CASE Apply(h)
  BY Zenon, <1>1, <1>2, <1>4, ApplyKeepsInv
<1> QED
  BY Zenon, <1>3, <1>4 DEF Resolve

\* A receipt is removed when no request has locked it.
LEMMA ExpireKeepsInv ==
  ASSUME InboxInv, NEW k \in InboxKeys, Expire(k)
  PROVE  InboxInv'
<1>1. /\ InboxType /\ \A g \in Handlers : ClaimInv(g)
      /\ ProcessedOnce /\ SuccessIsProcessed
  BY Zenon DEF InboxInv
<1>2. /\ k \in DOMAIN receipts /\ \A g \in Handlers : session[g].share => call[g].key # k
      /\ receipts' = [j \in DOMAIN receipts \ {k} |-> receipts[j]]
      /\ expired' = [expired EXCEPT ![k] = @ + 1]
      /\ UNCHANGED <<effects, call, session, succeeded, sending>>
  BY Zenon DEF Expire, Restrict
<1>3. /\ DOMAIN receipts' = DOMAIN receipts \ {k}
      /\ \A j \in DOMAIN receipts \ {k} : receipts'[j] = receipts[j]
  BY Zenon, <1>2
<1>4. InboxType'
  <2>1. DOMAIN receipts' \subseteq InboxKeys /\ receipts' \in [DOMAIN receipts' -> Bodies]
    BY Zenon, <1>1, <1>2 DEF InboxType
  <2>2. expired' \in [InboxKeys -> Nat]
    BY <1>1, <1>2 DEF InboxType
  <2> QED
    BY Zenon, <1>1, <1>2, <2>1, <2>2 DEF InboxType
<1>5. /\ expired'[k] = expired[k] + 1 /\ \A j \in InboxKeys \ {k} : expired'[j] = expired[j]
      /\ \A j \in InboxKeys : expired[j] \in Nat /\ effects[j] \in Nat
  BY Zenon, <1>1, <1>2 DEF InboxType
<1>6. ProcessedOnce'
  <2> SUFFICES ASSUME NEW j \in InboxKeys
               PROVE  effects[j] = expired'[j] + IF j \in DOMAIN receipts' THEN 1 ELSE 0
    BY Zenon, <1>2 DEF ProcessedOnce
  <2>1. effects[j] = expired[j] + IF j \in DOMAIN receipts THEN 1 ELSE 0
    BY Zenon, <1>1 DEF ProcessedOnce
  <2>2. CASE j = k
    BY <1>2, <1>3, <1>5, <2>1, <2>2
  <2>3. CASE j # k
    BY Zenon, <1>3, <1>5, <2>1, <2>3
  <2> QED
    BY Zenon, <2>2, <2>3
<1>7. SuccessIsProcessed'
  <2> SUFFICES ASSUME NEW p \in succeeded
               PROVE  \/ p[1] \in DOMAIN receipts' /\ receipts'[p[1]] = p[2]
                      \/ expired'[p[1]] > 0
    BY Zenon, <1>2 DEF SuccessIsProcessed
  <2>1. p[1] \in InboxKeys
    BY Zenon, <1>1 DEF InboxType
  <2>2. CASE p[1] = k
    BY <1>5, <2>1, <2>2
  <2>3. CASE p[1] # k
    BY Zenon, <1>1, <1>3, <1>5, <2>1, <2>3 DEF SuccessIsProcessed
  <2> QED
    BY Zenon, <2>2, <2>3
<1>8. ASSUME NEW g \in Handlers PROVE ClaimInv(g)'
  BY Zenon, <1>1, <1>2, <1>3 DEF ClaimInv, ClaimedByAnother
<1> QED
  BY Zenon, <1>4, <1>6, <1>7, <1>8 DEF InboxInv

\* The inbox is safe for every number of overlapping requests, keys, bodies and
\* expiries: claims, locks and receipts agree, at every step of runInbox and
\* withInbox, of the server and of the retention job.
THEOREM InboxInvariance == InboxSpec => []InboxInv
<1>1. InboxInit => InboxInv
  <2> SUFFICES ASSUME InboxInit PROVE InboxInv
    BY Zenon
  <2>1. /\ DOMAIN receipts = {} /\ receipts = [k \in {} |-> 0]
    BY Zenon DEF InboxInit
  <2>2. /\ \A h \in Handlers : /\ call[h] \in CallRecord /\ call[h].pc = "idle"
                               /\ session[h] = NoSession
        /\ call \in [Handlers -> CallRecord] /\ session \in [Handlers -> SessionRecord]
    BY Zenon DEF InboxInit, CallRecord, Pcs, SessionRecord, SessionStates, NoSession
  <2>3. InboxType
    BY Zenon, <2>1, <2>2 DEF InboxInit, InboxType, NoSession
  <2>4. ProcessedOnce /\ SuccessIsProcessed
    BY <2>1 DEF InboxInit, ProcessedOnce, SuccessIsProcessed
  <2>5. \A h \in Handlers : ClaimInv(h)
    BY <2>2 DEF ClaimInv, NoSession
  <2> QED
    BY Zenon, <2>3, <2>4, <2>5 DEF InboxInv
<1>2. InboxInv /\ [InboxNext]_inboxVars => InboxInv'
  <2> SUFFICES ASSUME InboxInv, [InboxNext]_inboxVars PROVE InboxInv'
    BY Zenon
  <2>1. ASSUME NEW h \in Handlers, NEW k \in InboxKeys, NEW b \in Bodies, NEW s \in Sdks,
               Arrive(h, k, b, s)
        PROVE  InboxInv'
    BY Zenon, <2>1, ArriveKeepsInv
  <2>2. ASSUME NEW h \in Handlers, CallStep(h) PROVE InboxInv'
    BY Zenon, <2>2, InsertKeepsInv, HandleKeepsInv, ReadKeepsInv, CheckKeepsInv, CommitKeepsInv
       DEF CallStep
  <2>3. ASSUME NEW h \in Handlers, Fail(h) \/ CommitFails(h) PROVE InboxInv'
    BY Zenon, <2>3, CallEnds DEF Fail, CommitFails
  <2>4. ASSUME NEW h \in Handlers, Resolve(h) PROVE InboxInv'
    BY Zenon, <2>4, ResolveKeepsInv
  <2>5. ASSUME NEW k \in InboxKeys, Expire(k) PROVE InboxInv'
    BY Zenon, <2>5, ExpireKeepsInv
  <2>6. CASE SenderStops
    BY Zenon, <2>6 DEF SenderStops, InboxInv, InboxType, ProcessedOnce, SuccessIsProcessed,
                ClaimInv, ClaimedByAnother
  <2>7. CASE UNCHANGED inboxVars
    BY Zenon, <2>7 DEF inboxVars, InboxInv, InboxType, ProcessedOnce, SuccessIsProcessed,
                ClaimInv, ClaimedByAnother
  <2> QED
    BY Zenon, <2>1, <2>2, <2>3, <2>4, <2>5, <2>6, <2>7 DEF InboxNext
<1> QED
  BY <1>1, <1>2, PTL DEF InboxSpec

\* The callback's writes are committed once per receipt, never without it and
\* never twice under it (runInbox, withInbox).
THEOREM CallbackRunsOnce == InboxSpec => []ProcessedOnce
<1>1. InboxInv => ProcessedOnce
  BY Zenon DEF InboxInv
<1> QED
  BY <1>1, InboxInvariance, PTL

\* Success is answered only for what has been processed with exactly those bytes.
THEOREM SuccessIsTrue == InboxSpec => []SuccessIsProcessed
<1>1. InboxInv => SuccessIsProcessed
  BY Zenon DEF InboxInv
<1> QED
  BY <1>1, InboxInvariance, PTL

\* A receipt that is retained is never overwritten: only the transaction that has
\* inserted the key writes it, and it inserts no key that has a receipt.
THEOREM ReceiptsNeverChange == InboxSpec => ReceiptsAreFinal
<1> DEFINE Final == \A k \in DOMAIN receipts :
                      k \in DOMAIN receipts' => receipts'[k] = receipts[k]
<1>1. InboxInv /\ [InboxNext]_inboxVars => Final
  <2> SUFFICES ASSUME InboxInv, [InboxNext]_inboxVars PROVE Final
    BY Zenon
  <2>1. ASSUME NEW h \in Handlers, Apply(h) PROVE Final
    BY Zenon, <2>1 DEF InboxInv, ClaimInv, Apply
  <2>2. ASSUME NEW k \in InboxKeys, Expire(k) PROVE Final
    BY Zenon, <2>2 DEF Expire, Restrict
  <2>3. CASE UNCHANGED receipts
    BY Zenon, <2>3
  <2>4. ASSUME NEW h \in Handlers,
               \/ \E k \in InboxKeys, b \in Bodies, s \in Sdks : Arrive(h, k, b, s)
               \/ CallStep(h) \/ Fail(h) \/ CommitFails(h) \/ Resolve(h)
        PROVE  UNCHANGED receipts \/ Apply(h)
    BY Zenon, <2>4 DEF Arrive, CallStep, Insert, Handle, Read, Check, Commit, Fail, CommitFails,
                Resolve
  <2>5. SenderStops \/ UNCHANGED inboxVars => UNCHANGED receipts
    BY Zenon DEF SenderStops, inboxVars
  <2> HIDE DEF Final
  <2> QED
    BY Zenon, <2>1, <2>2, <2>3, <2>4, <2>5 DEF InboxNext
<1>2. InboxInv /\ [InboxNext]_inboxVars => [Final]_receipts
  BY Zenon, <1>1
<1> HIDE DEF Final
<1>3. InboxSpec => [][Final]_receipts
  BY <1>2, InboxInvariance, PTL DEF InboxSpec
<1> QED
  BY Zenon, <1>3 DEF Final, ReceiptsAreFinal
=============================================================================
