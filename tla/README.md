# WriteRelay in TLA+

WriteRelay moves events that applications write inside their PostgreSQL
transactions to webhooks. An application calls `writerelay.emit` in its
transaction; the daemon `writerelayd` reads the committed message from a logical
replication slot, stores it in a SQLite file (the spool), acknowledges the
position to PostgreSQL, and delivers the event to every configured sink with
retries. The receiver removes duplicates with the inbox of the SDK.

This directory holds TLA+ modules of those parts, the configurations with which
TLC checks them on small instances, and proofs that TLAPS checks.

## Inventory

| Part | Code | State | Operations |
|---|---|---|---|
| Replication state machine | `internal/postgres/state.go` | open transaction, buffered events and bytes | Begin, Commit, logical message |
| Replicator | `internal/postgres/replicator.go` | connection, stream position, durable LSN, disk pause | connect, receive, status, persist then acknowledge, reconnect |
| Spool | `internal/spool/sqlite` | schema, events, sinks, deliveries, checkpoint | open and migrate, persist a batch, configure sinks, select, mark, redrive, prune |
| Delivery worker | `internal/delivery` | the row being sent | select, send, record, give up |
| Disk guard | `internal/diskspace` | paused or not | probe |
| Daemon | `internal/app` | its tasks, why it stops | start, cancel, exit |
| Commands | `internal/cli` | none | redrive, prune; setup, doctor, list, stats |
| PostgreSQL objects | `internal/postgres/setup.go`, `doctor.go` | SQL function, publication, slot | setup, create a missing slot |
| Monitoring | `internal/monitoring`, `stats.go` | last sample | sample, export, shut down |
| Emitters | `sdk/go/writerelay.go`, `sdk/typescript/src/index.ts`, `sql/postgres` | none | validate and emit |
| Inbox | `sdk/go/inbox.go`, `sdk/typescript/src/inbox.ts` | receipts, one transaction per request | insert, callback, compare, commit |

What makes them hard: the acknowledgement may be lost after the SQLite commit and
the stream is replayed; a crash may fall between any two statements; two daemons
may overlap during a takeover; maintenance commands write to the same file; a
request may be accepted although the sender sees a timeout; a commit may have an
unknown outcome. `PROJECT.json` lists each such hazard with its line and the
properties that would catch it going wrong.

## Modules

| Module | Models | Notes |
|---|---|---|
| `Events` | event identity and content | shared constants |
| `StateMachine` | `state.go` | `ConsumeError` is the verdict, `Consume` the next state |
| `DiskGuard` | `guard.go` | `PausedAfter` is one probe with hysteresis |
| `Spool` | `sqlite.go`, `prune.go`, migrations | each statement is a function from a database to a database |
| `Daemon` | SQLite locking, `runTogether` | `db`, `lock`, `tx`, `mode`, `exit` |
| `Capture` | `replicator.go`, PostgreSQL's slot | one action per step of `runOnce`, one per statement of `PersistCommittedBatch` |
| `Delivery` | `delivery.go`, `webhook.go`, redrive, prune | `Accept` is the destination's own step |
| `Relay` | capture and delivery together | `Spec` |
| `Refinement` | `Relay` implements `Outbox` | the mapping |
| `Progress` | scheduling | `LiveSpec`: `Relay` with fairness, what must eventually happen |
| `Outbox` | what capture promises | abstract: transactions are taken over whole, once and in order |
| `Stream` | `state.go` alone | arbitrary streams against a reference over the whole stream |
| `Backoff` | `retryDelay`, `parseRetryAfter` | signed durations of a fixed width |
| `Inbox` | the SDKs' inbox | Go and TypeScript requests over one table |
| `Migrations` | `Open`, `initialize`, `applyMigration`, the migration files | processes of different releases opening one file |
| `Setup` | `setup.go`, `doctor.go`, `startLSN` | the slot may be missing, foreign, dropped, created again |
| `Monitoring` | `server.go`, `stats.go`, `Guard.Snapshot` | discrete time |
| `RelayTypes`, `CaptureProofs`, `OutboxProofs`, `DeliveryProofs`, `RelayProofs`, `ComponentProofs`, `AlgorithmProofs`, `MonitoringProofs` | the proofs | see below |
| `MCRelay`, `MCAlgorithms`, `MCMigrations` | instances | constants for TLC |

Positions are simplified: the i-th item of the decoded log lies at LSN i and ends at
i + 1; LSN 0 is "none", as in the code. Times are relative: a row knows how long it
still waits and how long ago it was delivered. An event is its identity and the
digest of its payload. Operators whose comment begins with "Mutant" are faulty
variants of the definition that follows them; no specification uses them.

### How the code maps

* **Capture.** `rep[d].pc` is where `Run` stands: `start` (head of `runOnce`),
  `connect` (after `startLSN`), `stream` (the receive loop), `persist` (inside
  `PersistCommittedBatch`), `ack` (after its commit), `backoff` and `paused`. Leaving
  `runOnce` closes the connection and drops the buffer. The server side is `slot`
  and the `statuses` in flight; the server keeps the slot busy until it notices that
  a client is gone.
* **SQLite.** A batch with events takes the write lock with its first insert. A batch
  without events only reads at first, so another commit can make its snapshot stale
  (`tx[d].stale`), and its write fails at once. A daemon has one connection: while its
  capture transaction is open its worker waits.
* **Delivery.** A request is accepted by the destination at some point while it is
  being sent, or never; the worker sees success only if it was accepted. Results are
  recorded by a conditional update (`StillOwned`).
* **Lifecycle.** The first error cancels the daemon's context; `Exit` needs all tasks
  to have returned. `exit[d]` keeps the reason.
* **Inbox.** `session[h]` is the transaction as the server sees it; it outlives the call
  when the client is gone. `INSERT` waits while another undecided transaction has
  inserted the key.
* **Opening.** `op[p]` is where a process stands in `Open`. The version is read outside of
  the migration's transaction, as in the code; a migration that another process has applied
  meanwhile fails at its first statement, and the process ends.
* **PostgreSQL objects.** `setup[p]` remembers what the preflight has found, which may be
  out of date when the objects are created. Capture is reduced to a cursor here, and every
  transaction to one event; `Capture` has both in full on a slot that stays.
* **Monitoring.** A statistic is the number of the commit it was read from; time stamps are
  kept as ages. The capture loop appears as far as it renews the disk measurement;
  `loop.own` and `loop.work` are history: whether the measurement is the loop's own, and how
  long the loop has been busy with something other than waiting for a message.

## Runs

| Run | Question | Bounds |
|---|---|---|
| `Capture` | Is nothing lost, duplicated, reordered or acknowledged early, with every fault, and everything spooled and acknowledged once faults stop? | 1 daemon, 2 log items out of 8 kinds, 3 disk levels |
| `Takeover` | The same with two overlapping daemons: does capture implement `Outbox`? | 2 daemons, 2 items out of 3 kinds |
| `Sinks` | Is every retained event owed to every active sink over changing configurations, redrive and prune? | 2 sinks, 4 configurations, 1 event |
| `Delivery` | Do attempts, results, in-flight rows and order survive redrives and crashes, and does every row become terminal? | 1 sink, 2 events, 2 attempts |
| `Rivals` | Two daemons with different sinks delivering the same rows: does a result overwrite another? | 2 daemons, 2 sinks, 1 event, 2 attempts, signals |
| `Algorithms` | Do the state machine and the retry delay agree with their references? | streams of 7 kinds of messages; 6-bit durations, every header |
| `Inbox` | Is a callback's effect committed once? | 2 requests in progress, 1 key, 2 bodies, both SDKs |
| `Migrations` | Is no migration half done, left out or repeated, and does everybody get in? | 3 processes of 2 releases, 3 versions of 2 statements |
| `Setup` | Does a success of setup mean what the doctor checks, and does a slot lose nothing while it lives? | 2 setups, 1 daemon, 1 event, 1 drop |
| `Monitoring` | Is what is exported one snapshot and recent, is a daemon ready while its work fits in what the limits leave, does `Run` return? | 1 commit, intervals of 1 and 2 ticks, a read timeout of 2, a receive timeout of 1, no delay of the timer |

The bounds keep what the properties tell apart: two events of one transaction for
atomicity and order, two transactions for replay across a boundary, two daemons for
interference, one status in flight and two in `Capture` so that they can be read late and in
order, limits of two so that they are exceeded, two attempts so that a row is retried while
another daemon is sending it, a read timeout longer than the sampling interval so that reads of every
length fall on both sides of the limits. One daemon per run suffices where a property is
about what one process does to itself over restarts. `Rivals` sends no status: no row depends on
an acknowledgement. `Delivery` has one sink and no prune; that rows in flight stay owned
when payloads are pruned is a theorem only. Symmetry is used over daemons only, and not in
runs that check liveness.

Two runs show where a document and the code disagree (`findings` in `PROJECT.json`):

* `SlotSkip`: a missing slot is retried, not fatal; when it is created again the daemon
  goes on from it and passes over what was emitted in between, against
  `docs/architecture.md` on slot failures. `SlotLosesNothing` says what does hold: only
  the drop itself loses events.
* `PruneBusy`: a prune that commits inside the read-then-write of a transaction
  without events ends the daemon at once, against `docs/retention.md` on writers that
  serialize or time out. Nothing is lost (`Capture`, `Sinks`).

Three narrower points are stated in the properties instead. Invariant 16 of
`docs/correctness.md` (a later event is not delivered before an earlier one that waits) has
one exception, a redrive while the later event is in flight; `OnlyRedrivenIsOvertaken`
says it is the only one. And a daemon that reconnects before the server has dropped its old
connection finds the slot in use and ends; `EventuallyCaptured` relies on the supervisor for
that case. Last, a daemon without any fault may answer 503 at `/readyz`: the guard publishes a
measurement only when the probe returns, so the one before it goes on ageing during the
probe, as it does while a status is sent or a timeout is noticed late. `HealthyStaysReady`
says how much of this work the limit of twice `check_interval` covers: what the receive
timeout leaves of one interval, or of two after a measurement that the loop has taken itself.
With the defaults the receive timeout is `check_interval`, and nothing is left of the first.

### Fairness

`LiveSpec` of `Progress` adds a step `CalmDown` after which no fault happens and the disk has room.
Weak fairness is assumed of: each goroutine's next step (Go schedules them; sends have
a timeout), the status timer, the end of a stopping process and its restart by a
supervisor, the server reading its connection and dropping a dead one, the end of a
maintenance command, and time. Nothing is assumed of destinations: they may fail for
ever. In `Inbox`, fairness holds for the steps of a call and for the server's resolution
of lost sessions, not for failures, so no call ends only because it may fail; a call
that waits for a key is promised its end only after the sender has stopped, since
PostgreSQL does not queue the waiters of a key. In `Migrations` and `Setup` the properties
are conditional on failures from outside ending (I/O errors, deaths, drops). Errors that the
code returns of itself may go on for ever: a release refused by a newer schema, a migration
or an object that somebody else was faster to create, a slot in use. A process that has ended
is started again, and in `Setup` an operator comes to repeat `setup --create-slot` as long as
the doctor complains (strong fairness, since other setups may run in between). In
`Monitoring` a read of the spool returns in the end (SQLite's busy timeout bounds its wait),
and `sampleLoop`'s select takes the cancelled context in the end although its timer may fire
again and again: Go's select chooses at random among the ready cases, hence strong fairness.

## Proofs

The assumptions are the named ASSUMEs of the modules: limits are naturals, sinks are
finitely many and named once (`SinkNamesAssumption`), the resume threshold exceeds the pause
threshold, process names differ, versions are consecutive, intervals are positive, the receive
timeout is at most the guard's interval, and the sampler runs within some bound, `Slack`,
after its timer has fired. TLC evaluates them in the runs. Each
inductive invariant was checked with TLC before it was proved.

The proofs about `Relay` hold for every set of daemons, identities, sinks, configurations,
log items, disk thresholds and faults. They are split by what a step can disturb:

| Module | Contents |
|---|---|
| `RelayTypes` | the statements of the spool keep `DbType`; every action keeps `TypeOK`; what a commit covers |
| `CaptureProofs` | frame lemmas (when a step that leaves certain variables alone keeps a conjunct of `CaptureInv`), what one message does to the machine (`ConsumedInv`, `CompletedInv`), each step of capture, the disk guard, and their theorems |
| `OutboxProofs` | positions, the log of events, and each step as a step of `Outbox` |
| `DeliveryProofs` | every statement and every action keeps the invariants of delivery |
| `RelayProofs` | the theorems that need capture and delivery together |

### Capture loses nothing

* `CaptureInvariance`: `Spec => [](TypeOK /\ CaptureInv)`;
* `TypeCorrectness`: `Spec => []TypeOK`;
* `AcknowledgedIsDurable`: `Spec => []AckedIsDurable`;
* `NothingIsLost`: `Spec => []ReleasedIsSpooled`.

`ReleasedIsSpooled` is not inductive: a status in flight may carry a position, and the
position is right only because the batch it belongs to was committed. `CaptureInv` says
at each point of the protocol where the events between the durable position and the
stream's cursor are: already passed and without protected messages (`ConnectionInv`), in
the buffer (`BufferInv`), in the batch (`BatchInv`), or in the open transaction
(`TransactionInv`), and that a transaction not yet stale contains the committed
database (`LogGrows`), so that its commit takes nothing away. `PositionInv` bounds the
slot, the statuses and the checkpoint.

### The disk guard

`PausedDaemonsAreDisconnected` (`PausedIsDisconnected`) and the action property
`DiskIsAdmitted` (`DiskAdmission`), from `PauseInv`: a daemon that is down has forgotten the
pause, so the next start begins from an unpaused guard, as `guard.go` does.

### Positions never move back

`PositionsRise` (`PositionsNeverRegress`). The server takes every status at its word, so
that `confirmed_flush_lsn` only rises is a property of the senders. `StatusInv` orders the
statuses in flight and says of the daemon that owns the slot that nothing sent so far exceeds
its durable position (`SessionInv`). That survives a takeover because the slot is released,
and its statuses are gone, before another daemon can own it; the new daemon's position
comes from the checkpoint or the slot, which `CaptureInv` bounds.

### The log, and capture as a whole

* `SpooledEventsAreCommitted`: `Spec => []SpooledIsCommitted`;
* `SpoolFollowsCommits`: `Spec => []SpoolOrder`;
* `CaptureImplementsOutbox`: `Spec => ImplementsOutbox`.

`LogInv` follows a message from the stream to the spool: what the state machine has buffered
is a part of the transaction at the cursor, up to the position read, in its order
(`FromBody`); so is a batch; and a transaction that can still commit has inserted messages of
its batch, in order, of identities it did not have (`Inserts`). The steps of delivery and of
the commands leave the log alone because of `HistoryIsPermanent`: rows keep identity, digest
and position. The order across transactions comes from `CaptureInv`: an insert that survives
its commit belongs to a transaction at or above the checkpoint, and what is stored lies
below it.

For the refinement, `committed` is the log of PostgreSQL restricted to protected messages,
`log` the events of the spool, `taken` and `released` the checkpoint and the slot's position.
Only three actions do anything of this: `AppCommit` commits, `HandleStatus` releases,
`CommitBatch` takes over, and every other action is a stutter (`NextOutbox`). That a commit
takes over the *next* transaction with events, whole, is `TransactionInv` and `LogInv` at the
moment of the commit (`CommitOutbox`, `CommitExtends`); a stale transaction cannot commit.

### Delivery

From `DeliveryInvariance` (`Spec => []DeliveryInv`): `EventsAreOwed`
(`EveryEventIsOwed`), `RemovedSinksAreIdle` (`RemovedSinkIsIdle`), `PruningIsSafe`
(`PrunedIsDelivered`), `DeliveriesAreAccepted` (`DeliveredIsAccepted`), `AttemptsAreBounded`
(`AttemptsRemain`) and the action properties `HistoryIsPermanent` (`HistoryIsKept`) and
`AttemptsAreCounted` (`ResultsAreCounted`): whatever two daemons make of one row, it changes
by one recorded result at a time, and each raises its attempt count by one. The
invariants say something of the committed database; what makes them inductive is that they
hold also of the database that an open capture transaction would commit, and that this one
only adds to what is committed (`TxInv`, `Adds`), unless it can no longer commit. A worker
about to record a success has seen the destination accept (`RequestInv`).

With one daemon (`SingleDaemon`) also `FlightInvariance`, `RowsInFlightAreOwned`
(`InFlightIsOwned`) and the action property `SinksReceiveInOrder`
(`OnlyRedrivenIsOvertaken`): the row in flight stays as it was selected, and whatever waits
before it was redriven since. The assumption is needed: two daemons over one spool may select
the same row, and the first result takes it from the other, which is why `MarkDelivered` and
`MarkFailed` are conditional updates. The other theorems hold for any number of daemons.

### Opening the spool (`ComponentProofs`)

For any number of processes of any releases and any migrations: `OpenInvariance`
(`OpenInv`), `MigrationsAreWhole` (`SchemaIsVersioned`) and `OpenSpoolIsCurrent`
(`OpenedIsCurrent`). The version is read before the transaction, so what a process knows
may be out of date; `OpenInv` says that the committed schema is always the one of some
version, and that a process inside a migration has done a prefix of its statements on a
schema that the lock keeps from changing.

### Setup and the slot (`ComponentProofs`)

For any number of setups, daemons and events: `SetupInvariance` (`SetupInv`),
`SetupIsSound` (`SetupSatisfiesDoctor`) and `SlotIsSafe` (`SlotLosesNothing`). What keeps
an event is that neither the slot's position, nor the cursor of a daemon that streams, nor
the position that a connecting daemon has chosen has passed it (`NotPassed`); an object
that a process has found is there unless the slot was dropped since (`FoundIsThere`).

### Inbox (`ComponentProofs`)

For any number of overlapping requests, keys, bodies and expiries: `InboxInvariance`
(`InboxInv`), `CallbackRunsOnce` (`ProcessedOnce`), `SuccessIsTrue` (`SuccessIsProcessed`)
and the action property `ReceiptsNeverChange` (`ReceiptsAreFinal`). The strengthening is
`ClaimInv`: a key is claimed by one undecided transaction at a time and by none while it
has a receipt, a receipt that was read is locked, and a call that goes on to its COMMIT
has done one or the other.

### The state machine alone (`AlgorithmProofs`)

`BatchesAreTransactions` (`BatchIsTransaction`), for every set of messages, also streams that
no correct server sends. `MachineInv` says that inside a transaction the buffer enumerates the
positions of the protected messages since its Begin, increasing and without a gap; that this
is the order which `InOrder` defines by counting is a fact about finite sets
(`BuffersEnumerates`, from `FS_CountingElements`).

`VerdictsAreRight` (`RefusedIsIllFormed`), for every limit and every size of a payload. The
machine counts as it goes, the reference counts over the whole transaction, so `VerdictInv`
adds to `MachineInv` that the machine knows whether a transaction is open and that
`bufferedBytes` is the sum over its messages so far. That a sum over a set grows by one
payload with each message (`BytesInsert`) is proved from the definition of `MapThenSumSet`:
weights on a finite set add up to one measure, whatever the order (`MeasureExists`), and the
fold computes it (`BytesIsMeasure`). A message changes no verdict on the ones before it
(`EarlierVerdicts`), and the verdict on the new one is the reference's (`VerdictOnNext`).

### Retry delays (`AlgorithmProofs`)

`DelaysAreCapped` (`DelayIsCappedMaximum`), for every width of a duration, every unit that
fits it, every configuration with `initial_delay <= max_delay`, every header and any number of
failures. The loop of `retryDelay` is shown to compute `initial * 2^n` capped at `max_delay`
(`RetryDelayValue`): it doubles only what is at most half of the maximum, so the product
fits (`DoubledValue`). The bound that `parseRetryAfter` checks is the largest number of
seconds that fits (`SecondsFit`), and a header beyond it is cut to something that is capped
in any case (`ParsedHeader`).

### Induction

Both need induction over data. The induction theorems of the proof library take an operator
as a parameter, which the provers do not instantiate; `AlgorithmProofs` therefore derives
its own with the property as a set: a set of naturals that is not empty has a least element
(`LeastNatural`, from the library's `WFMin` and `NatLessThanWellFounded`), hence `Induction`,
hence that recursive functions exist (`Recursion`). Powers of two are a recursive function,
`Pow2`, because the provers know nothing of `^`.

### Monitoring (`MonitoringProofs`)

For every interval, timeout, delay of the timer and number of commits:
`MonitoringInvariance` (`MonitoringInv`), `ExportIsSnapshot` (`SampleIsSnapshot`),
`FreshMeansRecent` (`FreshIsRecent`) and `ReadinessIsStable` (`HealthyStaysReady`). The ages
are bounded by the clocks they run with: the sample's by the timer and then by the next read
(`AgeInv`), the measurement's by the loop's waiting and its work (`DiskInv`), also while the
next measurement is going on. From these bounds follow the conditions of
`HealthyStaysReady`: `Interval + 2 * SampleTimeout` covers a read that succeeds, the timer and
the next read with its delay; twice the guard's interval covers a measurement used again just
before it expires, one receive timeout, and work within `Room`.

### Only model-checked

* Liveness: `EventuallyCaptured`, `EventuallyTerminal`, `EveryCallReturns`, `EventuallyOpen`,
  `EventuallyStreaming`, `ShutdownReturns`. Fairness and ENABLED are outside the prover's
  reach.

Every safety property of the passing runs is also a theorem.

## Not modelled

* Byte formats, signatures, logging, the text of `/metrics` and configuration parsing have
  no property here; the relations that the configuration enforces are the ASSUMEs.
* Listing and statistics on the command line, and the other checks of the doctor, only read.
* What the statements of a migration do to rows that exist: two of the migrations create
  tables, the third adds columns with constant defaults.
* The rules of `event.Validate`, of `writerelay.emit` in SQL and of the SDKs' emitters are
  about the characters and numbers of JSON text. Abstracted to their verdict (the field
  `valid` of a message) nothing is left to compare; spelled out they would be a second
  implementation of JSON.
* `examples/` and `scripts/` use the SDKs and the binary and are not part of the relay.
