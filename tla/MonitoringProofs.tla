-------------------------- MODULE MonitoringProofs --------------------------
(***************************************************************************)
(* Proofs about Monitoring: for every interval, timeout and number of      *)
(* commits, what the daemon exports is one snapshot, is recent when it is  *)
(* called fresh, and fresh while the daemon is well.                       *)
(***************************************************************************)
EXTENDS Monitoring, TLAPS

USE DEF ReadPcs, Reading

\* The constants and the horizons are integers, the time-outs positive.
LEMMA Durations ==
  /\ Interval \in Nat /\ Interval >= 1 /\ SampleTimeout \in Nat /\ SampleTimeout >= 1
  /\ DiskInterval \in Nat /\ DiskInterval >= 1
  /\ Receive \in Nat /\ Receive <= DiskInterval /\ Slack \in Nat /\ MaxCommits \in Nat
  /\ FreshFor = Interval + 2 * SampleTimeout /\ ReadHorizon = SampleTimeout + 1
  /\ SampleHorizon = Interval + 3 * SampleTimeout + 1
  /\ DiskHorizon = 2 * DiskInterval + 1
BY MonitoringAssumption DEF FreshFor, ReadHorizon, SampleHorizon, DiskHorizon

\* Between two reads nothing is claimed of the sampler's fields.
LEMMA IdleType ==
  /\ Idle \in SamplerRecord /\ Idle.pc = "timer"
  /\ [Idle EXCEPT !.pc = "version"] \in SamplerRecord
  /\ [Idle EXCEPT !.pc = "version"].pc = "version"
  /\ [Idle EXCEPT !.pc = "version"].spent = 0
  /\ [Idle EXCEPT !.pc = "version"].since = 0
  /\ [Idle EXCEPT !.pc = "version"].stamped = 0
  /\ [Idle EXCEPT !.pc = "off"] \in SamplerRecord
  /\ [Idle EXCEPT !.pc = "off"].pc = "off"
BY Durations DEF Idle, SamplerRecord

\* The steps of a read: each statement sees the snapshot, and the clocks that
\* stand still keep the bounds on the ages.
LEMMA ReadGoesOn ==
  ASSUME MonitoringInv, ReadVersion \/ Stamp \/ CountEvents \/ ReadLSN \/ ReadSinks
  PROVE  MonitoringInv'
<1>1. /\ MonitoringType /\ SampleIsSnapshot /\ ReadInv /\ AgeInv /\ DiskInv
      /\ sampler \in SamplerRecord /\ db \in 0..MaxCommits
  BY Zenon DEF MonitoringInv, MonitoringType
<1>2. /\ UNCHANGED <<db, timer, sample, loop, guard, run>>
      /\ sampler'.spent = sampler.spent /\ sampler'.since = sampler.since
      /\ sampler'.stamped = sampler.stamped
      /\ sampler.pc \in ReadPcs /\ sampler'.pc \in ReadPcs
  BY Zenon, <1>1 DEF ReadVersion, Stamp, CountEvents, ReadLSN, ReadSinks, SamplerRecord
<1>3. sampler' \in SamplerRecord
  BY Zenon, <1>1 DEF ReadVersion, Stamp, CountEvents, ReadLSN, ReadSinks, SamplerRecord, Seen
<1>4. ReadInv'
  <2>1. CASE ReadVersion
    BY Zenon, <1>1, <1>2, <2>1 DEF ReadInv, ReadVersion, SamplerRecord
  <2>2. CASE Stamp
    BY Zenon, <1>1, <1>2, <2>2 DEF ReadInv, Stamp, SamplerRecord
  <2>3. CASE CountEvents
    BY Zenon, <1>1, <1>2, <2>3 DEF ReadInv, CountEvents, Seen, SamplerRecord
  <2>4. CASE ReadLSN
    BY Zenon, <1>1, <1>2, <2>4 DEF ReadInv, ReadLSN, Seen, SamplerRecord
  <2>5. CASE ReadSinks
    BY Zenon, <1>1, <1>2, <2>5 DEF ReadInv, ReadSinks, Seen, SamplerRecord
  <2> QED
    BY Zenon, <2>1, <2>2, <2>3, <2>4, <2>5
<1>5. AgeInv'
  BY Zenon, <1>1, <1>2 DEF AgeInv
<1>6. SampleIsSnapshot' /\ DiskInv' /\ MonitoringType'
  BY Zenon, <1>1, <1>2, <1>3 DEF SampleIsSnapshot, DiskInv, Connected, MonitoringType
<1> QED
  BY Zenon, <1>4, <1>5, <1>6 DEF MonitoringInv

\* The timer has fired: the sample is no older than the interval, one read and
\* the delay of the goroutine.
LEMMA BeginSampleKeepsInv ==
  ASSUME MonitoringInv, BeginSample
  PROVE  MonitoringInv'
<1>1. /\ MonitoringType /\ SampleIsSnapshot /\ AgeInv /\ DiskInv
      /\ timer \in -Slack..Interval /\ sample \in SampleRecord
  BY Zenon DEF MonitoringInv, MonitoringType
<1>2. /\ sampler.pc = "timer" /\ UNCHANGED <<db, timer, sample, loop, guard, run>>
      /\ sampler' \in SamplerRecord /\ sampler'.pc = "version" /\ sampler'.spent = 0
      /\ sampler'.since = 0 /\ sampler'.stamped = 0
  BY Zenon, IdleType DEF BeginSample
<1>3. ReadInv'
  BY <1>2 DEF ReadInv
<1>4. AgeInv'
  <2>1. sample.ok => sample.age < Interval + SampleTimeout + Slack + 0
    <3>1. sample.age \in Nat /\ timer \in Int /\ timer >= -Slack /\ Slack \in Nat
      BY <1>1, Durations DEF SampleRecord
    <3>2. sample.ok => sample.age + timer < Interval + SampleTimeout
      BY Zenon, <1>1, <1>2 DEF AgeInv
    <3> QED
      BY <3>1, <3>2, Durations
  <2> QED
    BY Zenon, <1>1, <1>2, <2>1 DEF AgeInv
<1>5. SampleIsSnapshot' /\ DiskInv' /\ MonitoringType'
  BY Zenon, <1>1, <1>2 DEF SampleIsSnapshot, DiskInv, Connected, MonitoringType
<1> QED
  BY Zenon, <1>3, <1>4, <1>5 DEF MonitoringInv

\* A sample that is stored is younger than its deadline.
LEMMA StoreSampleKeepsInv ==
  ASSUME MonitoringInv, StoreSample \/ SampleFails
  PROVE  MonitoringInv'
<1>1. /\ MonitoringType /\ SampleIsSnapshot /\ ReadInv /\ AgeInv /\ DiskInv
      /\ sampler \in SamplerRecord /\ sample \in SampleRecord
  BY Zenon DEF MonitoringInv, MonitoringType
<1>2. /\ UNCHANGED <<db, loop, guard, run>> /\ sampler' = Idle /\ timer' = Interval
      /\ sample' = Failed \/ (StoreSample /\ InTime)
  BY Zenon DEF StoreSample, SampleFails
<1>3. /\ sampler' \in SamplerRecord /\ sampler'.pc = "timer"
      /\ timer' \in -Slack..Interval /\ timer' = Interval
  BY <1>2, IdleType, Durations
<1>4. ReadInv'
  BY Zenon, <1>3 DEF ReadInv
<1>5. SampleIsSnapshot' /\ AgeInv' /\ sample' \in SampleRecord
  <2>1. CASE sample' = Failed
    <3>1. /\ sample' \in SampleRecord /\ ~sample'.ok /\ sample'.age = 0 /\ sample'.since = 0
          /\ sample'.events = sample.events /\ sample'.lsn = sample.lsn
          /\ sample'.sinks = sample.sinks
      <4>1. 0 \in 0..SampleHorizon
        BY Durations
      <4>2. sample' \in SampleRecord
        BY Zenon, <1>1, <2>1, <4>1 DEF Failed, SampleRecord
      <4>3. ~sample'.ok
        BY Zenon, <1>1, <2>1 DEF Failed, SampleRecord
      <4>4. /\ sample'.age = 0 /\ sample'.since = 0
            /\ sample'.events = sample.events /\ sample'.lsn = sample.lsn
            /\ sample'.sinks = sample.sinks
        BY Zenon, <1>1, <2>1 DEF Failed, SampleRecord
      <4> QED
        BY Zenon, <4>2, <4>3, <4>4
    <3> QED
      BY <1>1, <3>1, Durations DEF SampleIsSnapshot, AgeInv
  <2>2. CASE StoreSample /\ InTime
    <3>1. /\ sample'.ok /\ sample'.taken /\ sample'.age = sampler.stamped
          /\ sample'.since = sampler.since /\ sample'.events = sampler.events
          /\ sample'.lsn = sampler.lsn /\ sample'.sinks = sampler.sinks
          /\ sampler.pc = "return"
      BY Zenon, <2>2 DEF StoreSample
    <3>2. /\ sampler.stamped \in 0..ReadHorizon /\ sampler.since \in 0..ReadHorizon
          /\ sampler.spent \in 0..ReadHorizon /\ sampler.spent < SampleTimeout
          /\ sampler.since <= sampler.spent /\ sampler.stamped <= sampler.spent
      BY Zenon, <1>1, <2>2, <3>1 DEF SamplerRecord, ReadInv, InTime
    <3>3. sample' \in SampleRecord
      <4>1. sampler.stamped \in 0..SampleHorizon /\ sampler.since \in 0..SampleHorizon
        BY <3>2, Durations
      <4>2. sample' = [ok |-> TRUE, taken |-> TRUE, age |-> sampler.stamped,
                       since |-> sampler.since, events |-> sampler.events,
                       lsn |-> sampler.lsn, sinks |-> sampler.sinks]
        BY Zenon, <2>2 DEF StoreSample
      <4> QED
        BY Zenon, <1>1, <4>1, <4>2 DEF SamplerRecord, SampleRecord
    <3>4. /\ sample'.since <= sample'.age + SampleTimeout
          /\ sample'.age + timer' < Interval + SampleTimeout
      BY <1>3, <3>1, <3>2, Durations
    <3>5. SampleIsSnapshot'
      BY Zenon, <1>1, <3>1 DEF SampleIsSnapshot, ReadInv
    <3> QED
      BY Zenon, <1>3, <3>1, <3>3, <3>4, <3>5 DEF AgeInv
  <2> QED
    BY Zenon, <1>2, <2>1, <2>2
<1>6. DiskInv' /\ MonitoringType'
  BY Zenon, <1>1, <1>2, <1>3, <1>5 DEF DiskInv, Connected, MonitoringType
<1> QED
  BY Zenon, <1>4, <1>5, <1>6 DEF MonitoringInv

\* The sampler ends only when its context is cancelled.
LEMMA StopSamplerKeepsInv ==
  ASSUME MonitoringInv, StopSampler
  PROVE  MonitoringInv'
<1>1. /\ UNCHANGED <<db, timer, sample, loop, guard, run>> /\ ~RunCtx
      /\ sampler' \in SamplerRecord /\ sampler'.pc = "off"
  BY Zenon, IdleType DEF StopSampler
<1>2. ReadInv' /\ AgeInv'
  BY Zenon, <1>1 DEF MonitoringInv, ReadInv, AgeInv, RunCtx
<1> QED
  BY Zenon, <1>1, <1>2 DEF MonitoringInv, SampleIsSnapshot, DiskInv, Connected, MonitoringType

\* The age of the measurement that the loop goes on with: the part it had when the
\* loop used it again, the time the loop has been busy, and the time it has waited.
LEMMA MeasurementAge ==
  ASSUME MonitoringInv, loop.pc = "connect" \/ Connected
  PROVE  /\ guard.open /\ guard.age \in Nat /\ loop.work \in Nat
         /\ guard.age <= (IF loop.own THEN 0 ELSE DiskInterval) + loop.work + Receive
<1>1. /\ DiskInv /\ guard.age \in 0..DiskHorizon /\ loop.work \in 0..DiskHorizon
      /\ loop.spent \in 0..DiskHorizon
  BY Zenon DEF MonitoringInv, MonitoringType, GuardRecord, LoopRecord
<1>2. /\ guard.open
      /\ guard.age <= (IF loop.own THEN 0 ELSE DiskInterval) + loop.work
                      + (IF loop.pc = "receive" THEN loop.spent ELSE Receive)
      /\ loop.pc = "receive" => loop.spent <= Receive
  BY Zenon, <1>1 DEF DiskInv
<1> QED
  BY <1>1, <1>2, Durations

\* The loop goes on to a status or a measurement with the measurement it has.
LEMMA LoopGoesOn ==
  ASSUME MonitoringInv, loop.pc = "connect" \/ Connected, UNCHANGED guard,
         NEW pc \in {"status", "probe"}, NEW forced \in BOOLEAN, LoopAt(pc, forced)
  PROVE  DiskInv' /\ loop' \in LoopRecord
<1>1. loop \in LoopRecord /\ 0 \in 0..DiskHorizon
  BY Durations DEF MonitoringInv, MonitoringType
<1>2. /\ loop' \in LoopRecord /\ loop'.pc = pc /\ loop'.own = loop.own
      /\ loop'.work = loop.work
  BY Zenon, <1>1 DEF LoopAt, LoopRecord
<1> QED
  BY Zenon, <1>2, MeasurementAge DEF DiskInv

\* The loop waits on a measurement that is younger than the interval, or takes one.
LEMMA RoutineCheckKeeps ==
  ASSUME MonitoringInv, loop.pc = "connect" \/ Connected, UNCHANGED guard, RoutineCheck
  PROVE  DiskInv' /\ loop' \in LoopRecord
<1>1. CASE guard.open /\ guard.age < DiskInterval
  <2>1. loop' = [pc |-> "receive", spent |-> 0, forced |-> FALSE, own |-> FALSE, work |-> 0]
    BY Zenon, <1>1 DEF RoutineCheck, LoopWith
  <2>2. guard.age <= DiskInterval + 0 + 0 /\ 0 <= Receive /\ 0 \in 0..DiskHorizon
    BY <1>1, MeasurementAge, Durations
  <2> QED
    BY Zenon, <1>1, <2>1, <2>2 DEF DiskInv, LoopRecord
<1>2. CASE ~(guard.open /\ guard.age < DiskInterval)
  BY Zenon, <1>2, LoopGoesOn DEF RoutineCheck
<1> QED
  BY Zenon, <1>1, <1>2

\* Nothing is claimed of the guard while capture is away or measures for the first
\* time.
LEMMA LoopLeaves ==
  ASSUME MonitoringInv, loop' = Away \/ LoopAt("measure", FALSE)
  PROVE  DiskInv' /\ loop' \in LoopRecord
<1>1. loop \in LoopRecord /\ 0 \in 0..DiskHorizon
  BY Durations DEF MonitoringInv, MonitoringType
<1>2. loop' \in LoopRecord /\ loop'.pc \in {"away", "measure"}
  <2>1. CASE loop' = Away
    BY Zenon, <1>1, <2>1 DEF Away, LoopRecord
  <2>2. CASE LoopAt("measure", FALSE)
    BY Zenon, <1>1, <2>2 DEF LoopAt, LoopRecord
  <2> QED
    BY Zenon, <2>1, <2>2
<1> QED
  BY Zenon, <1>2 DEF DiskInv, Connected

\* A measurement returns: it is as old as the time it took.
LEMMA ProbeReturnsKeeps ==
  ASSUME MonitoringInv, ProbeReturns
  PROVE  DiskInv' /\ loop' \in LoopRecord /\ guard' \in GuardRecord
<1>1. /\ loop.spent \in 0..DiskHorizon /\ 0 \in 0..DiskHorizon /\ 0 <= Receive
      /\ loop.spent <= 0 + loop.spent + 0 /\ loop.spent <= 0 + loop.spent + Receive
  BY Durations DEF MonitoringInv, MonitoringType, LoopRecord
<1>2. CASE guard' = Shut /\ loop' = Away
  BY Zenon, <1>1, <1>2, LoopLeaves DEF Shut, GuardRecord
<1>3. ASSUME NEW pc \in {"connect", "persist", "receive"},
             guard' = [open |-> TRUE, age |-> loop.spent], LoopWith(pc, TRUE, loop.spent)
      PROVE  DiskInv' /\ loop' \in LoopRecord /\ guard' \in GuardRecord
  <2>1. guard' \in GuardRecord /\ guard'.open /\ guard'.age = loop.spent
    BY Zenon, <1>1, <1>3 DEF GuardRecord
  <2>2. /\ loop' \in LoopRecord /\ loop'.spent = 0 /\ loop'.own /\ loop'.work = loop.spent
        /\ loop'.pc = pc
    BY Zenon, <1>1, <1>3 DEF LoopWith, LoopRecord
  <2> QED
    BY Zenon, <1>1, <2>1, <2>2 DEF DiskInv
<1> QED
  BY Zenon, <1>2, <1>3 DEF ProbeReturns

\* The capture loop and the disk guard leave the sampler alone.
LEMMA LoopKeepsInv ==
  ASSUME MonitoringInv,
         \/ Measure \/ Connect \/ Received \/ StatusSent \/ ProbeReturns \/ Persisted
         \/ Disconnect
  PROVE  MonitoringInv'
<1>1. UNCHANGED <<db, sampler, timer, sample, run>>
  BY Zenon DEF Measure, Connect, Received, StatusSent, ProbeReturns, Persisted, Disconnect,
               samplingVars
<1>2. DiskInv' /\ loop' \in LoopRecord /\ guard' \in GuardRecord
  <2>1. CASE ProbeReturns
    BY Zenon, <2>1, ProbeReturnsKeeps
  <2>2. CASE ~ProbeReturns
    <3>1. UNCHANGED guard /\ guard \in GuardRecord
      BY Zenon, <2>2 DEF Measure, Connect, Received, StatusSent, Persisted, Disconnect,
                         MonitoringInv, MonitoringType
    <3>2. \/ loop' = Away \/ LoopAt("measure", FALSE)
          \/ /\ loop.pc = "connect" \/ Connected
             /\ RoutineCheck \/ LoopAt("status", FALSE) \/ LoopAt("probe", TRUE)
      BY Zenon, <2>2 DEF Measure, Connect, Received, StatusSent, Persisted, Disconnect, Connected
    <3> QED
      BY Zenon, <3>1, <3>2, RoutineCheckKeeps, LoopGoesOn, LoopLeaves
  <2> QED
    BY Zenon, <2>1, <2>2
<1> QED
  BY Zenon, <1>1, <1>2 DEF MonitoringInv, MonitoringType, SampleIsSnapshot, ReadInv, AgeInv, RunCtx

\* A cancelled context stays cancelled, and Run never serves again.
LEMMA RunKeepsInv ==
  ASSUME MonitoringInv, CancelContext \/ ServeFails \/ RunStep
  PROVE  MonitoringInv'
<1>1. run \in RunRecord /\ DiskInv
  BY Zenon DEF MonitoringInv, MonitoringType
<1>2. UNCHANGED <<db, sampler, timer, sample, guard>> /\ (loop' = loop \/ loop' = Away)
  BY Zenon DEF CancelContext, ServeFails, RunStep, BeginShutdown, EndShutdown, Return,
         samplingVars
<1>3. run' \in RunRecord /\ (RunCtx' => RunCtx)
  BY Zenon, <1>1 DEF CancelContext, ServeFails, RunStep, BeginShutdown, EndShutdown, Return,
              RunGoes, RunRecord, RunCtx
<1>4. DiskInv' /\ loop' \in LoopRecord
  <2>1. CASE loop' = loop
    BY Zenon, <1>1, <1>2, <2>1 DEF DiskInv, Connected, MonitoringInv, MonitoringType
  <2>2. CASE loop' = Away
    BY Zenon, <2>2, LoopLeaves
  <2> QED
    BY Zenon, <1>2, <2>1, <2>2
<1>5. ReadInv'
  BY Zenon, <1>2, <1>3 DEF MonitoringInv, ReadInv
<1> QED
  BY Zenon, <1>2, <1>3, <1>4, <1>5 DEF MonitoringInv, MonitoringType, SampleIsSnapshot, AgeInv

\* A tick ages the sample and, by as much, the timer or the read that follows.
LEMMA TickKeepsSamples ==
  ASSUME MonitoringInv, Tick
  PROVE  /\ sampler' \in SamplerRecord /\ sample' \in SampleRecord
         /\ timer' \in -Slack..Interval
         /\ SampleIsSnapshot' /\ ReadInv' /\ AgeInv'
<1>1. /\ SampleIsSnapshot /\ ReadInv /\ AgeInv /\ timer \in -Slack..Interval
      /\ sampler \in SamplerRecord /\ sample \in SampleRecord
      /\ UNCHANGED <<db, run>>
  BY Zenon DEF MonitoringInv, MonitoringType, Tick
<1>2. /\ ReadHorizon \in Nat /\ SampleHorizon \in Nat
      /\ sampler.spent \in 0..ReadHorizon /\ sampler.since \in 0..ReadHorizon
      /\ sampler.stamped \in 0..ReadHorizon
      /\ sample.age \in 0..SampleHorizon /\ sample.since \in 0..SampleHorizon
      /\ sample.ok \in BOOLEAN
  BY <1>1, Durations DEF SamplerRecord, SampleRecord
<1> DEFINE spent == IF Reading THEN Later(sampler.spent, ReadHorizon) ELSE sampler.spent
           since == IF Reading /\ sampler.pc # "version"
                    THEN Later(sampler.since, ReadHorizon) ELSE sampler.since
           stamped == IF Reading /\ sampler.pc \notin {"version", "stamp"}
                      THEN Later(sampler.stamped, ReadHorizon) ELSE sampler.stamped
           age == IF sample.ok THEN Later(sample.age, SampleHorizon) ELSE sample.age
           old == IF sample.ok THEN Later(sample.since, SampleHorizon) ELSE sample.since
<1>3. /\ sampler' = [sampler EXCEPT !.spent = spent, !.since = since, !.stamped = stamped]
      /\ sample' = [sample EXCEPT !.age = age, !.since = old]
      /\ timer' = IF sampler.pc = "timer" THEN timer - 1 ELSE timer
      /\ sampler.pc = "timer" => timer > -Slack
  BY Zenon DEF Tick
\* The clocks.
<1>4. /\ spent \in 0..ReadHorizon /\ since \in 0..ReadHorizon /\ stamped \in 0..ReadHorizon
      /\ Reading => /\ sampler.spent < ReadHorizon => spent = sampler.spent + 1
                    /\ sampler.spent = ReadHorizon => spent = ReadHorizon
      /\ since <= sampler.since + 1 /\ stamped <= sampler.stamped + 1
  <2>1. /\ spent \in 0..ReadHorizon
        /\ Reading => /\ sampler.spent < ReadHorizon => spent = sampler.spent + 1
                      /\ sampler.spent = ReadHorizon => spent = ReadHorizon
    BY <1>2 DEF Later
  <2>2. since \in 0..ReadHorizon /\ since <= sampler.since + 1
    BY <1>2 DEF Later
  <2>3. stamped \in 0..ReadHorizon /\ stamped <= sampler.stamped + 1
    BY <1>2 DEF Later
  <2> HIDE DEF spent, since, stamped
  <2> QED
    BY Zenon, <2>1, <2>2, <2>3
<1>5. /\ age \in 0..SampleHorizon /\ old \in 0..SampleHorizon
      /\ age <= sample.age + 1
      /\ old <= age + SampleTimeout
  <2>1. sample.since <= sample.age + SampleTimeout
    BY Zenon, <1>1 DEF AgeInv
  <2>2. CASE sample.ok
    BY <1>2, <2>1, <2>2, Durations DEF Later
  <2>3. CASE ~sample.ok
    BY <1>2, <2>1, <2>3, Durations
  <2> QED
    BY Zenon, <1>2, <2>2, <2>3
<1> HIDE DEF spent, since, stamped, age, old
<1>6. /\ sampler' \in SamplerRecord /\ sampler'.pc = sampler.pc
      /\ sampler'.spent = spent /\ sampler'.since = since /\ sampler'.stamped = stamped
      /\ sampler'.snap = sampler.snap /\ sampler'.events = sampler.events
      /\ sampler'.lsn = sampler.lsn /\ sampler'.sinks = sampler.sinks
  BY Zenon, <1>1, <1>3, <1>4 DEF SamplerRecord
<1>7. /\ sample' \in SampleRecord /\ sample'.ok = sample.ok /\ sample'.taken = sample.taken
      /\ sample'.age = age /\ sample'.since = old /\ sample'.events = sample.events
      /\ sample'.lsn = sample.lsn /\ sample'.sinks = sample.sinks
  BY Zenon, <1>1, <1>3, <1>5 DEF SampleRecord
<1>8. timer' \in -Slack..Interval
  BY <1>1, <1>3, Durations
<1>9. ReadInv'
  <2>1. Reading => since <= spent /\ stamped <= spent
    <3> SUFFICES ASSUME Reading PROVE since <= spent /\ stamped <= spent
      BY Zenon
    <3>1. sampler.since <= sampler.spent /\ sampler.stamped <= sampler.spent
      BY Zenon, <1>1 DEF ReadInv
    <3> QED
      BY <1>2, <1>4, <3>1
  <2>2. sampler.pc = "off" => ~RunCtx'
    BY Zenon, <1>1 DEF ReadInv, RunCtx
  <2> QED
    BY Zenon, <1>1, <1>6, <2>1, <2>2 DEF ReadInv
<1>10. AgeInv'
  <2>1. sample.ok /\ sampler.pc = "timer" => age + timer' < Interval + SampleTimeout
    <3>1. sample.ok /\ sampler.pc = "timer" =>
            sample.age + timer < Interval + SampleTimeout /\ timer' = timer - 1
      BY Zenon, <1>1, <1>3 DEF AgeInv
    <3> QED
      BY <1>1, <1>2, <1>5, <3>1, Durations
  <2>2. sample.ok /\ Reading /\ spent <= SampleTimeout
          => age < Interval + SampleTimeout + Slack + spent
    <3> SUFFICES ASSUME sample.ok, Reading, spent <= SampleTimeout
                 PROVE  age < Interval + SampleTimeout + Slack + spent
      BY Zenon
    <3>1. spent = sampler.spent + 1 /\ sampler.spent <= SampleTimeout
      BY <1>2, <1>4, Durations
    <3>2. sample.age < Interval + SampleTimeout + Slack + sampler.spent
      BY Zenon, <1>1, <3>1 DEF AgeInv
    <3> QED
      BY <1>2, <1>5, <3>1, <3>2, Durations
  <2>3. sample.ok => sample.taken
    BY Zenon, <1>1 DEF AgeInv
  <2> QED
    BY Zenon, <1>5, <1>6, <1>7, <2>1, <2>2, <2>3 DEF AgeInv
<1>11. SampleIsSnapshot'
  BY Zenon, <1>1, <1>7 DEF SampleIsSnapshot
<1> QED
  BY Zenon, <1>6, <1>7, <1>8, <1>9, <1>10, <1>11

\* A tick ages the measurement and, by as much, the time that the loop has waited or
\* has been busy.
LEMMA TickKeepsDisk ==
  ASSUME MonitoringInv, Tick
  PROVE  DiskInv' /\ loop' \in LoopRecord /\ guard' \in GuardRecord
<1>1. DiskInv /\ loop \in LoopRecord /\ guard \in GuardRecord
  BY Zenon DEF MonitoringInv, MonitoringType
<1>2. /\ DiskHorizon \in Nat /\ loop.spent \in 0..DiskHorizon
      /\ loop.work \in 0..DiskHorizon
      /\ guard.age \in 0..DiskHorizon /\ guard.open \in BOOLEAN
  BY <1>1, Durations DEF LoopRecord, GuardRecord
<1> DEFINE spent == IF Waiting \/ Measuring THEN Later(loop.spent, DiskHorizon) ELSE loop.spent
           work == IF Busy THEN Later(loop.work, DiskHorizon) ELSE loop.work
           age == IF guard.open THEN Later(guard.age, DiskHorizon) ELSE guard.age
           base == IF loop.own THEN 0 ELSE DiskInterval
<1>3. /\ loop' = [loop EXCEPT !.spent = spent, !.work = work]
      /\ guard' = [guard EXCEPT !.age = age]
  BY Zenon DEF Tick
<1>4. /\ spent \in 0..DiskHorizon /\ work \in 0..DiskHorizon /\ age \in 0..DiskHorizon
      /\ base \in Nat
  <2>1. spent \in 0..DiskHorizon
    BY <1>2 DEF Later
  <2>2. work \in 0..DiskHorizon
    BY <1>2 DEF Later
  <2>3. age \in 0..DiskHorizon /\ base \in Nat
    BY <1>2, Durations DEF Later
  <2> QED
    BY Zenon, <2>1, <2>2, <2>3
<1>5. loop.pc = "receive" => spent <= Receive
  <2>1. loop.pc = "receive" => loop.spent <= Receive /\ ~Measuring
    BY Zenon, <1>1 DEF DiskInv, Measuring
  <2> QED
    BY <1>2, <2>1, Durations DEF Waiting, Later
<1>6. ASSUME loop.pc = "connect" \/ Connected
      PROVE  /\ guard.open
             /\ age <= base + work + (IF loop.pc = "receive" THEN spent ELSE Receive)
  <2>1. /\ guard.open
        /\ guard.age <= base + loop.work
                        + (IF loop.pc = "receive" THEN loop.spent ELSE Receive)
    BY Zenon, <1>1, <1>6 DEF DiskInv
  <2>2. CASE Waiting
    <3>1. loop.pc = "receive" /\ work = loop.work /\ spent = Later(loop.spent, DiskHorizon)
      BY Zenon, <2>2 DEF Waiting, Busy
    <3>2. age = Later(guard.age, DiskHorizon)
      BY Zenon, <2>1
    <3> HIDE DEF spent, work, age, base
    <3> QED
      BY <1>2, <1>4, <2>1, <3>1, <3>2 DEF Later
  <2>3. CASE ~Waiting
    <3>1. Busy /\ work = Later(loop.work, DiskHorizon)
      BY Zenon, <1>6, <2>3 DEF Connected, Busy
    <3>2. loop.pc = "receive" => spent = loop.spent
      BY Zenon, <2>3 DEF Measuring
    <3>3. age = Later(guard.age, DiskHorizon)
      BY Zenon, <2>1
    <3> HIDE DEF spent, work, age, base
    <3> QED
      BY <1>2, <1>4, <2>1, <3>1, <3>2, <3>3, Durations DEF Later
  <2> QED
    BY Zenon, <2>1, <2>2, <2>3
<1>7. /\ loop' \in LoopRecord /\ loop'.pc = loop.pc /\ loop'.own = loop.own
      /\ loop'.spent = spent /\ loop'.work = work
  <2> HIDE DEF spent, work
  <2> QED
    BY Zenon, <1>1, <1>3, <1>4 DEF LoopRecord
<1>8. guard' \in GuardRecord /\ guard'.open = guard.open /\ guard'.age = age
  <2> HIDE DEF age
  <2> QED
    BY Zenon, <1>1, <1>3, <1>4 DEF GuardRecord
<1> HIDE DEF spent, work, age
<1> QED
  BY Zenon, <1>5, <1>6, <1>7, <1>8 DEF DiskInv, Connected

\* The ages, the clocks and what has been read stay in step for every interval,
\* timeout and number of commits (sampleLoop, sample, ReadStats, Guard.Check).
THEOREM MonitoringInvariance == MonitoringSpec => []MonitoringInv
<1>1. MonitoringInit => MonitoringInv
  <2> SUFFICES ASSUME MonitoringInit PROVE MonitoringInv
    BY Zenon
  <2>1. /\ 0 \in 0..MaxCommits /\ 0 \in -Slack..Interval /\ 0 \in 0..SampleHorizon
        /\ 0 \in 0..DiskHorizon /\ 0 <= 0 + SampleTimeout
    BY Durations
  <2>2. MonitoringType
    BY Zenon, <2>1, IdleType DEF MonitoringInit, MonitoringType, SampleRecord, LoopRecord,
                          GuardRecord, RunRecord, Away, Shut
  <2>3. SampleIsSnapshot /\ ReadInv /\ AgeInv /\ DiskInv
    BY Zenon, <2>1, IdleType DEF MonitoringInit, SampleIsSnapshot, ReadInv, AgeInv, DiskInv, Away,
                          Connected
  <2> QED
    BY Zenon, <2>2, <2>3 DEF MonitoringInv
<1>2. MonitoringInv /\ [MonitoringNext]_vars => MonitoringInv'
  <2> SUFFICES ASSUME MonitoringInv, [MonitoringNext]_vars PROVE MonitoringInv'
    BY Zenon
  <2>1. CASE SamplerStep
    BY Zenon, <2>1, ReadGoesOn, BeginSampleKeepsInv, StoreSampleKeepsInv, StopSamplerKeepsInv
       DEF SamplerStep
  <2>2. CASE Commit
    <3>1. db' \in 0..MaxCommits
      BY <2>2, Durations DEF Commit, MonitoringInv, MonitoringType
    <3> QED
      BY Zenon, <2>2, <3>1 DEF Commit, MonitoringInv, MonitoringType, SampleIsSnapshot, ReadInv,
                        AgeInv, DiskInv, Connected, RunCtx
  <2>3. CASE \/ Measure \/ Connect \/ Received \/ StatusSent \/ ProbeReturns \/ Persisted
             \/ Disconnect
    BY Zenon, <2>3, LoopKeepsInv
  <2>4. CASE CancelContext \/ ServeFails \/ RunStep
    BY Zenon, <2>4, RunKeepsInv
  <2>5. CASE Tick
    <3>1. UNCHANGED <<db, run>>
      BY Zenon, <2>5 DEF Tick
    <3> QED
      BY Zenon, <2>5, <3>1, TickKeepsSamples, TickKeepsDisk DEF MonitoringInv, MonitoringType
  <2>6. CASE UNCHANGED vars
    BY Zenon, <2>6 DEF vars, MonitoringInv, MonitoringType, SampleIsSnapshot, ReadInv, AgeInv,
                DiskInv, Connected, RunCtx
  <2> QED
    BY Zenon, <2>1, <2>2, <2>3, <2>4, <2>5, <2>6 DEF MonitoringNext
<1> QED
  BY <1>1, <1>2, PTL DEF MonitoringSpec

\* What is exported is one state of the database (readStatsSnapshot).
THEOREM ExportIsSnapshot == MonitoringSpec => []SampleIsSnapshot
<1>1. MonitoringInv => SampleIsSnapshot
  BY Zenon DEF MonitoringInv
<1> QED
  BY <1>1, MonitoringInvariance, PTL

\* What is called fresh is recent, for every interval and timeout (sample,
\* snapshot).
THEOREM FreshMeansRecent == MonitoringSpec => []FreshIsRecent
<1>1. MonitoringInv => FreshIsRecent
  <2> SUFFICES ASSUME MonitoringInv, Fresh PROVE sample.since <= FreshFor + SampleTimeout
    BY Zenon DEF FreshIsRecent
  <2>1. sample.age \in Nat /\ sample.since \in Nat
    BY Durations DEF MonitoringInv, MonitoringType, SampleRecord
  <2>2. sample.age <= FreshFor /\ sample.since <= sample.age + SampleTimeout
    BY Zenon DEF Fresh, MonitoringInv, AgeInv
  <2> QED
    BY <2>1, <2>2, Durations
<1> QED
  BY <1>1, MonitoringInvariance, PTL

\* The limits of freshness are long enough for every schedule of sampler and capture
\* loop whose work fits in what they leave (snapshot, Guard.Snapshot, receiveInterval
\* of runOnce).
THEOREM ReadinessIsStable == MonitoringSpec => []HealthyStaysReady
<1>1. MonitoringInv => HealthyStaysReady
  <2> SUFFICES ASSUME MonitoringInv, run.ctx, run.pc = "serving", Connected, sample.ok,
                      sampler.spent + Slack <= SampleTimeout, loop.work <= Room
               PROVE  Ready
    BY Zenon DEF HealthyStaysReady
  <2>1. /\ ReadInv /\ AgeInv /\ DiskInv /\ sampler \in SamplerRecord
        /\ sample \in SampleRecord /\ loop \in LoopRecord /\ guard \in GuardRecord
        /\ timer \in -Slack..Interval
    BY Zenon DEF MonitoringInv, MonitoringType
  <2>2. sample.age \in Nat /\ sampler.spent \in Nat /\ timer \in Int /\ timer >= -Slack
    BY <2>1, Durations DEF SampleRecord, SamplerRecord
  <2>3. sample.age <= FreshFor
    <3>1. CASE sampler.pc = "timer"
      <4>1. sample.age + timer < Interval + SampleTimeout
        BY Zenon, <2>1, <3>1 DEF AgeInv
      <4> QED
        BY <2>2, <4>1, Durations
    <3>2. CASE Reading
      <4>1. sampler.spent <= SampleTimeout
        BY <2>2, Durations
      <4>2. sample.age < Interval + SampleTimeout + Slack + sampler.spent
        BY Zenon, <2>1, <3>2, <4>1 DEF AgeInv
      <4> QED
        BY <2>2, <4>2, Durations
    <3>3. sampler.pc # "off"
      BY Zenon, <2>1 DEF ReadInv, RunCtx
    <3> QED
      BY Zenon, <2>1, <3>1, <3>2, <3>3 DEF SamplerRecord
  <2>4. guard.open /\ guard.age <= 2 * DiskInterval
    BY MeasurementAge, Durations DEF Room
  <2>5. sample.taken
    BY Zenon, <2>1 DEF AgeInv
  <2> QED
    BY Zenon, <2>3, <2>4, <2>5 DEF Ready, Fresh, DiskFresh
<1> QED
  BY <1>1, MonitoringInvariance, PTL
=============================================================================
