----------------------------- MODULE Monitoring -----------------------------
(***************************************************************************)
(* The observations a daemon exports (internal/monitoring/server.go): the  *)
(* goroutine that samples the spool (ReadStats of                          *)
(* internal/spool/sqlite/stats.go), the disk guard's latest measurement    *)
(* (internal/diskspace/guard.go) as the capture loop renews it, what       *)
(* /readyz and /metrics make of the two, and the life of Server.Run.       *)
(*                                                                         *)
(* The database is the number of commits that made it; a statistic is the  *)
(* commit it was read from.  Time passes in ticks; a time stamp is kept    *)
(* as its age.                                                             *)
(***************************************************************************)
EXTENDS Integers

CONSTANTS
  Interval,        \* monitoring interval
  SampleTimeout,   \* sampleTimeout
  DiskInterval,    \* the disk guard's check_interval
  Receive,         \* receiveInterval of the capture loop
  Slack,           \* how late a goroutine runs whose timer has fired
  MaxCommits       \* bound: commits to the database

\* receiveInterval is at most the guard's interval (runOnce).
ASSUME MonitoringAssumption ==
  /\ Interval \in Nat \ {0} /\ SampleTimeout \in Nat \ {0}
  /\ DiskInterval \in Nat \ {0}
  /\ Receive \in 1..DiskInterval
  /\ Slack \in Nat
  /\ MaxCommits \in Nat

VARIABLES
  db,        \* the commits made so far
  sampler,   \* [pc, spent, since, stamped, snap, events, lsn, sinks]: the read
             \* that is going on: the time it has spent, the age of its
             \* snapshot and of its SampledAt, and what it has read
  timer,     \* the time until the next read
  sample,    \* [ok, taken, age, since, events, lsn, sinks]: the server's stats
             \* and sampleOK, with the age of SampledAt and of the snapshot
  loop,      \* [pc, spent, forced, own, work]: the capture loop: the time that it
             \* waits or measures for, whether the guard's measurement was taken
             \* since the loop last used one again, and how long the loop has been
             \* busy since that measurement began or was used again
  guard,     \* [open, age]: the disk guard's status: whether its latest measurement
             \* succeeded and lets capture go on, and its age
  run        \* [pc, ctx]: Server.Run and the daemon's context

samplingVars == <<sampler, timer, sample>>
vars == <<db, sampler, timer, sample, loop, guard, run>>

FreshFor == Interval + 2 * SampleTimeout

\* Bounds: beyond them ages and durations are not told apart.
SampleHorizon == FreshFor + SampleTimeout + 1
ReadHorizon == SampleTimeout + 1
DiskHorizon == 2 * DiskInterval + 1

Idle == [pc |-> "timer", spent |-> 0, since |-> 0, stamped |-> 0, snap |-> 0,
         events |-> 0, lsn |-> 0, sinks |-> 0]
Away == [pc |-> "away", spent |-> 0, forced |-> FALSE, own |-> FALSE, work |-> 0]
\* No measurement, one that failed, or one that pauses capture: its age does not
\* matter.
Shut == [open |-> FALSE, age |-> 0]
ReadPcs == {"version", "stamp", "events", "lsn", "sinks", "return"}
Reading == sampler.pc \in ReadPcs

SamplerRecord ==
  [pc : ReadPcs \cup {"timer", "off"}, spent : 0..ReadHorizon, since : 0..ReadHorizon,
   stamped : 0..ReadHorizon, snap : 0..MaxCommits, events : 0..MaxCommits,
   lsn : 0..MaxCommits, sinks : 0..MaxCommits]
SampleRecord ==
  [ok : BOOLEAN, taken : BOOLEAN, age : 0..SampleHorizon, since : 0..SampleHorizon,
   events : 0..MaxCommits, lsn : 0..MaxCommits, sinks : 0..MaxCommits]
LoopRecord ==
  [pc : {"away", "measure", "connect", "receive", "status", "probe", "persist"},
   spent : 0..DiskHorizon, forced : BOOLEAN, own : BOOLEAN, work : 0..DiskHorizon]
GuardRecord == [open : BOOLEAN, age : 0..DiskHorizon]
RunRecord == [pc : {"serving", "shutdown", "join", "returned"}, ctx : BOOLEAN]

MonitoringType ==
  /\ db \in 0..MaxCommits /\ timer \in -Slack..Interval
  /\ sampler \in SamplerRecord /\ sample \in SampleRecord
  /\ loop \in LoopRecord /\ guard \in GuardRecord /\ run \in RunRecord

MonitoringInit ==
  /\ db = 0
  /\ sampler = Idle /\ timer = 0
  /\ sample = [ok |-> FALSE, taken |-> FALSE, age |-> 0, since |-> 0,
               events |-> 0, lsn |-> 0, sinks |-> 0]
  /\ loop = Away /\ guard = Shut
  /\ run = [pc |-> "serving", ctx |-> TRUE]
-----------------------------------------------------------------------------
(* The sampler.                                                            *)

\* Mutant: Run waits for the sampler without cancelling runCtx.
RunCtxKept == run.ctx

\* runCtx: the daemon's context, cancelled also once Run stops serving.
RunCtx == run.ctx /\ run.pc \in {"serving", "shutdown"}

\* The timer has fired: a read begins.
BeginSample ==
  /\ sampler.pc = "timer" /\ timer <= 0
  /\ sampler' = [Idle EXCEPT !.pc = "version"]
  /\ UNCHANGED <<db, timer, sample, loop, guard, run>>

\* The first SELECT of the read transaction fixes its snapshot.
ReadVersion ==
  /\ sampler.pc = "version"
  /\ sampler' = [sampler EXCEPT !.pc = "stamp", !.snap = db]
  /\ UNCHANGED <<db, timer, sample, loop, guard, run>>

Stamp ==
  /\ sampler.pc = "stamp"
  /\ sampler' = [sampler EXCEPT !.pc = "events"]
  /\ UNCHANGED <<db, timer, sample, loop, guard, run>>

\* Mutant: the statements are not in one transaction.
SeenLatest == db

\* What a statement of the read transaction sees.
Seen == sampler.snap

CountEvents ==
  /\ sampler.pc = "events"
  /\ sampler' = [sampler EXCEPT !.pc = "lsn", !.events = Seen]
  /\ UNCHANGED <<db, timer, sample, loop, guard, run>>

ReadLSN ==
  /\ sampler.pc = "lsn"
  /\ sampler' = [sampler EXCEPT !.pc = "sinks", !.lsn = Seen]
  /\ UNCHANGED <<db, timer, sample, loop, guard, run>>

ReadSinks ==
  /\ sampler.pc = "sinks"
  /\ sampler' = [sampler EXCEPT !.pc = "return", !.sinks = Seen]
  /\ UNCHANGED <<db, timer, sample, loop, guard, run>>

\* Mutant: a read that returns after its deadline counts.
InTimeAnyhow == TRUE

\* readCtx.Err() == nil
InTime == RunCtx /\ sampler.spent < SampleTimeout

\* The stats of the last read are kept; their age does not matter any more.
Failed == [sample EXCEPT !.ok = FALSE, !.age = 0, !.since = 0]

\* The read has succeeded; it is kept when it was in time.
StoreSample ==
  /\ sampler.pc = "return"
  /\ sample' = IF InTime
               THEN [ok |-> TRUE, taken |-> TRUE, age |-> sampler.stamped,
                     since |-> sampler.since, events |-> sampler.events,
                     lsn |-> sampler.lsn, sinks |-> sampler.sinks]
               ELSE Failed
  /\ sampler' = Idle /\ timer' = Interval
  /\ UNCHANGED <<db, loop, guard, run>>

\* The read fails: no spool, another schema, an I/O error, the deadline.
SampleFails ==
  /\ Reading
  /\ sample' = Failed
  /\ sampler' = Idle /\ timer' = Interval
  /\ UNCHANGED <<db, loop, guard, run>>

\* sampleLoop returns at its select.
StopSampler ==
  /\ sampler.pc = "timer" /\ ~RunCtx
  /\ sampler' = [Idle EXCEPT !.pc = "off"]
  /\ UNCHANGED <<db, timer, sample, loop, guard, run>>

Commit ==
  /\ db < MaxCommits
  /\ db' = db + 1
  /\ UNCHANGED <<sampler, timer, sample, loop, guard, run>>
-----------------------------------------------------------------------------
(* The capture loop and the disk guard.                                    *)

LoopAt(pc, forced) == loop' = [loop EXCEPT !.pc = pc, !.spent = 0, !.forced = forced]

\* The loop goes on with a measurement that began a while ago, or with one that
\* it uses again.
LoopWith(pc, own, work) ==
  loop' = [pc |-> pc, spent |-> 0, forced |-> FALSE, own |-> own, work |-> work]

\* Mutant: a measurement is used again as long as it is fresh.
RoutineCheckFresh ==
  IF guard.open /\ guard.age <= 2 * DiskInterval THEN LoopWith("receive", FALSE, 0)
  ELSE LoopAt("probe", FALSE)

\* Check(false): a measurement younger than the interval is used again.
RoutineCheck ==
  IF guard.open /\ guard.age < DiskInterval THEN LoopWith("receive", FALSE, 0)
  ELSE LoopAt("probe", FALSE)

\* runOnce, and waitForDisk, begin with a measurement.
Measure ==
  /\ loop.pc = "away" /\ run.ctx /\ run.pc = "serving"
  /\ LoopAt("measure", FALSE)
  /\ UNCHANGED <<db, samplingVars, guard, run>>

\* The stream is open: the loop begins.
Connect ==
  /\ loop.pc = "connect"
  /\ RoutineCheck
  /\ UNCHANGED <<db, samplingVars, guard, run>>

\* ReceiveMessage returns: its timeout, or a keepalive that wants an answer, before
\* which nothing is checked; a message with nothing to persist; or the end of a
\* transaction, which is persisted after a measurement of its own.
Received ==
  /\ loop.pc = "receive"
  /\ LoopAt("status", FALSE) \/ RoutineCheck \/ LoopAt("probe", TRUE)
  /\ UNCHANGED <<db, samplingVars, guard, run>>

\* sendStandbyStatus returns.
StatusSent ==
  /\ loop.pc = "status"
  /\ RoutineCheck
  /\ UNCHANGED <<db, samplingVars, guard, run>>

\* The measurement returns and is published; its time is the time at which it
\* began.  A disk that is low, or cannot be measured, pauses capture: the
\* connection is closed.
ProbeReturns ==
  /\ loop.pc \in {"measure", "probe"}
  /\ \/ guard' = Shut /\ loop' = Away
     \/ /\ guard' = [open |-> TRUE, age |-> loop.spent]
        /\ LoopWith(IF loop.pc = "measure" THEN "connect"
                    ELSE IF loop.forced THEN "persist" ELSE "receive", TRUE, loop.spent)
  /\ UNCHANGED <<db, samplingVars, run>>

Persisted ==
  /\ loop.pc = "persist"
  /\ RoutineCheck
  /\ UNCHANGED <<db, samplingVars, guard, run>>

\* An error ends runOnce.
Disconnect ==
  /\ loop.pc # "away"
  /\ loop' = Away
  /\ UNCHANGED <<db, samplingVars, guard, run>>
-----------------------------------------------------------------------------
(* Server.Run.                                                             *)

RunGoes(pc) == run' = [run EXCEPT !.pc = pc]

\* Another task of the daemon fails, or a signal arrives: capture ends too.
CancelContext ==
  /\ run.ctx
  /\ run' = [run EXCEPT !.ctx = FALSE]
  /\ loop' = Away
  /\ UNCHANGED <<db, samplingVars, guard>>

\* Serve returns an error: runCtx is cancelled.  Nobody observes capture any more.
ServeFails ==
  /\ run.pc = "serving"
  /\ RunGoes("join")
  /\ loop' = Away
  /\ UNCHANGED <<db, samplingVars, guard>>

BeginShutdown ==
  /\ run.pc = "serving" /\ ~run.ctx
  /\ RunGoes("shutdown")
  /\ UNCHANGED <<db, samplingVars, loop, guard>>

\* The last request is answered, or five seconds pass and Close drops it.
EndShutdown ==
  /\ run.pc = "shutdown"
  /\ RunGoes("join")
  /\ UNCHANGED <<db, samplingVars, loop, guard>>

Return ==
  /\ run.pc = "join" /\ sampler.pc = "off"
  /\ RunGoes("returned")
  /\ UNCHANGED <<db, samplingVars, loop, guard>>
-----------------------------------------------------------------------------
\* Time passes.  The sampler waits at most Slack once its timer has fired; a read,
\* a measurement, a transaction, the sending of a status and the delay with which
\* ReceiveMessage notices its timeout may take any time.
Later(n, horizon) == IF n < horizon THEN n + 1 ELSE n
Waiting == loop.pc = "receive" /\ loop.spent < Receive
Measuring == loop.pc \in {"measure", "probe"}
Busy == loop.pc \in {"connect", "receive", "status", "probe", "persist"} /\ ~Waiting
Tick ==
  /\ sampler.pc = "timer" => timer > -Slack
  /\ timer' = IF sampler.pc = "timer" THEN timer - 1 ELSE timer
  /\ sampler' = [sampler EXCEPT
       !.spent = IF Reading THEN Later(@, ReadHorizon) ELSE @,
       !.since = IF Reading /\ sampler.pc # "version" THEN Later(@, ReadHorizon) ELSE @,
       !.stamped = IF Reading /\ sampler.pc \notin {"version", "stamp"}
                   THEN Later(@, ReadHorizon) ELSE @]
  /\ sample' = [sample EXCEPT !.age = IF sample.ok THEN Later(@, SampleHorizon) ELSE @,
                              !.since = IF sample.ok THEN Later(@, SampleHorizon) ELSE @]
  /\ loop' = [loop EXCEPT
       !.spent = IF Waiting \/ Measuring THEN Later(@, DiskHorizon) ELSE @,
       !.work = IF Busy THEN Later(@, DiskHorizon) ELSE @]
  /\ guard' = [guard EXCEPT !.age = IF guard.open THEN Later(@, DiskHorizon) ELSE @]
  /\ UNCHANGED <<db, run>>

SamplerStep ==
  \/ BeginSample \/ ReadVersion \/ Stamp \/ CountEvents \/ ReadLSN \/ ReadSinks
  \/ StoreSample \/ SampleFails \/ StopSampler

RunStep == BeginShutdown \/ EndShutdown \/ Return

MonitoringNext ==
  \/ SamplerStep \/ Commit
  \/ Measure \/ Connect \/ Received \/ StatusSent \/ ProbeReturns \/ Persisted
  \/ Disconnect
  \/ CancelContext \/ ServeFails \/ RunStep
  \/ Tick

MonitoringSpec == MonitoringInit /\ [][MonitoringNext]_vars

\* Goroutines run, and a read of the spool returns in the end.
MonitoringFairness ==
  /\ WF_vars(ReadVersion \/ Stamp \/ CountEvents \/ ReadLSN \/ ReadSinks \/ StoreSample)
  /\ SF_vars(StopSampler)
  /\ WF_vars(RunStep)

MonitoringLiveSpec == MonitoringSpec /\ MonitoringFairness
-----------------------------------------------------------------------------
\* snapshot: the second result.
Fresh == sample.ok /\ sample.taken /\ sample.age <= FreshFor

\* Guard.Snapshot: SampleFresh and not Paused.
DiskFresh == guard.open /\ guard.age <= 2 * DiskInterval

Connected == loop.pc \in {"receive", "status", "probe", "persist"}

\* /readyz
Ready == run.ctx /\ Connected /\ Fresh /\ DiskFresh

\* The statistics that are exported are those of one state of the database,
\* however many transactions commit while they are read (readStatsSnapshot).
SampleIsSnapshot == sample.lsn = sample.events /\ sample.sinks = sample.events

\* What /readyz and /metrics call fresh describes the spool as it was no longer
\* ago than the limit and one read, however long a read is stuck and however late
\* it returns (sample, snapshot).
FreshIsRecent == Fresh => sample.since <= FreshFor + SampleTimeout

\* How long the loop may be busy: what the timeout of ReceiveMessage leaves of the
\* guard's interval, or of two when the measurement is the loop's own.
Room == (IF loop.own THEN 2 * DiskInterval ELSE DiskInterval) - Receive

\* A connected daemon that is well is ready, in every state of the capture loop,
\* one that measures the disk included: as long as reads of the spool succeed and
\* the one that is going on, with the delay of its timer, takes no longer than its
\* timeout, and the loop's other work since its last check (a late timeout, the
\* sending of a status, measurements, transactions) fits in Room, both samples are
\* fresh (snapshot, Guard.Snapshot, receiveInterval of runOnce).
HealthyStaysReady ==
  /\ run.ctx /\ run.pc = "serving" /\ Connected
  /\ sample.ok /\ sampler.spent + Slack <= SampleTimeout
  /\ loop.work <= Room
  => Ready

\* Why: a read that is going on has seen its snapshot only, and is as old as the
\* time it has spent at most.
ReadInv ==
  /\ sampler.pc \in {"lsn", "sinks", "return"} => sampler.events = sampler.snap
  /\ sampler.pc \in {"sinks", "return"} => sampler.lsn = sampler.snap
  /\ sampler.pc = "return" => sampler.sinks = sampler.snap
  /\ Reading => sampler.since <= sampler.spent /\ sampler.stamped <= sampler.spent
  /\ sampler.pc = "off" => ~RunCtx

\* The sample's age is paid for by the time since the timer was set and the time
\* that the next read has spent.
AgeInv ==
  /\ sample.since <= sample.age + SampleTimeout
  /\ sample.ok => sample.taken
  /\ sample.ok /\ sampler.pc = "timer" => sample.age + timer < Interval + SampleTimeout
  /\ sample.ok /\ Reading /\ sampler.spent <= SampleTimeout
       => sample.age < Interval + SampleTimeout + Slack + sampler.spent

\* The guard is open from the first measurement of a connection on.  The measurement
\* was younger than the interval when it was used again, or has just begun when it is
\* the loop's own; since then the loop has waited and been busy.
DiskInv ==
  /\ loop.pc = "connect" \/ Connected =>
       /\ guard.open
       /\ guard.age <= (IF loop.own THEN 0 ELSE DiskInterval) + loop.work
                       + (IF loop.pc = "receive" THEN loop.spent ELSE Receive)
  /\ loop.pc = "receive" => loop.spent <= Receive

MonitoringInv == MonitoringType /\ SampleIsSnapshot /\ ReadInv /\ AgeInv /\ DiskInv

\* When the context is cancelled, or the listener fails, Run returns: a read
\* that is going on only delays it (Run, sampleLoop).
ShutdownReturns == (~run.ctx \/ run.pc # "serving") ~> run.pc = "returned"
=============================================================================
