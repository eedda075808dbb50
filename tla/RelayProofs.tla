----------------------------- MODULE RelayProofs -----------------------------
(***************************************************************************)
(* What Relay guarantees, for any number of daemons over one spool, any    *)
(* transactions, sinks, limits and faults.                                 *)
(***************************************************************************)
EXTENDS CaptureProofs, OutboxProofs, DeliveryProofs

-----------------------------------------------------------------------------
(* Delivery.                                                               *)

\* The invariant of delivery, which rests on that of capture: the worker, the
\* commands, the start of a daemon and PersistCommittedBatch keep it.
THEOREM DeliveryInvariance == Spec => []DeliveryInv
<1>1. Init => DeliveryInv
  BY Zenon, InitDelivers
<1>2. TypeOK /\ CaptureInv /\ DeliveryInv /\ [Next]_vars => DeliveryInv'
  BY Zenon, NextDelivers DEF CaptureInv, Delivers
<1> QED
  BY <1>1, <1>2, CaptureInvariance, PTL DEF Spec

\* Every retained event has a row for every active sink (ConfigureSinks,
\* ensureDeliveriesForEvent).
THEOREM EventsAreOwed == Spec => []EveryEventIsOwed
<1>1. DeliveryInv => EveryEventIsOwed
  BY Zenon DEF DeliveryInv, DatabaseInv, EveryEventIsOwed
<1> QED
  BY <1>1, DeliveryInvariance, PTL

\* Nothing waits for a removed sink (ConfigureSinks, RedriveDelivery).
THEOREM RemovedSinksAreIdle == Spec => []RemovedSinkIsIdle
<1>1. DeliveryInv => RemovedSinkIsIdle
  BY Zenon DEF DeliveryInv, DatabaseInv, RemovedSinkIsIdle
<1> QED
  BY <1>1, DeliveryInvariance, PTL

\* Only the payloads of events that every sink has received are pruned.
THEOREM PruningIsSafe == Spec => []PrunedIsDelivered
<1>1. DeliveryInv => PrunedIsDelivered
  BY Zenon DEF DeliveryInv, DatabaseInv, PrunedIsDelivered
<1> QED
  BY <1>1, DeliveryInvariance, PTL

\* What is recorded as delivered was accepted (ProcessOne, MarkDelivered).
THEOREM DeliveriesAreAccepted == Spec => []DeliveredIsAccepted
<1>1. DeliveryInv => DeliveredIsAccepted
  BY Zenon DEF DeliveryInv, DatabaseInv, DeliveredIsAccepted
<1> QED
  BY <1>1, DeliveryInvariance, PTL

\* A waiting row has an attempt left and is due within max_delay (MarkFailed).
THEOREM AttemptsAreBounded == Spec => []AttemptsRemain
<1>1. DeliveryInv => AttemptsRemain
  BY Zenon DEF DeliveryInv, DatabaseInv, AttemptsRemain
<1> QED
  BY <1>1, DeliveryInvariance, PTL

\* No step forgets an event, a delivery or a pruning; a dead letter comes back
\* only by redrive.
THEOREM HistoryIsPermanent == Spec => HistoryIsKept
<1>1. TypeOK /\ CaptureInv /\ DeliveryInv /\ [Next]_vars => [Keeps(db, db')]_db
  BY Zenon, NextDelivers DEF CaptureInv, Delivers, Records
<1> QED
  BY <1>1, CaptureInvariance, DeliveryInvariance, PTL DEF Spec, HistoryIsKept

\* Every result counts one attempt, for any number of daemons that send the same
\* rows (MarkDelivered, MarkFailed).
THEOREM AttemptsAreCounted == Spec => ResultsAreCounted
<1>1. TypeOK /\ CaptureInv /\ DeliveryInv /\ [Next]_vars => [Counts(db, db')]_db
  BY Zenon, NextDelivers DEF CaptureInv, Delivers, Records
<1> QED
  BY <1>1, CaptureInvariance, DeliveryInvariance, PTL DEF Spec, ResultsAreCounted

\* With one daemon, the row in flight stays as it was selected.
THEOREM FlightInvariance ==
  ASSUME SingleDaemon
  PROVE  Spec => []FlightInv
<1>1. Init => FlightInv
  BY Zenon, InitDelivers
<1>2. TypeOK /\ CaptureInv /\ DeliveryInv /\ FlightInv /\ [Next]_vars => FlightInv'
  BY Zenon, NextDelivers DEF CaptureInv, Delivers
<1> QED
  BY <1>1, <1>2, CaptureInvariance, DeliveryInvariance, PTL DEF Spec

\* With one daemon the worker is never told "modified concurrently".
THEOREM RowsInFlightAreOwned ==
  ASSUME SingleDaemon
  PROVE  Spec => []InFlightIsOwned
<1>1. FlightInv => InFlightIsOwned
  BY Zenon DEF FlightInv, InFlight, InFlightIsOwned
<1>2. Spec => []FlightInv
  BY Zenon, FlightInvariance
<1> QED
  BY <1>1, <1>2, PTL

\* With one daemon a sink receives its events in order, up to redrives.
THEOREM SinksReceiveInOrder ==
  ASSUME SingleDaemon
  PROVE  Spec => OnlyRedrivenIsOvertaken
<1>1. TypeOK /\ CaptureInv /\ DeliveryInv /\ FlightInv /\ [Next]_vars
        => [\A k \in NewlyDelivered(db, db') : OnlyRedrivenBefore(db, k)]_db
  BY Zenon, NextDelivers DEF CaptureInv, Delivers
<1>2. Spec => []FlightInv
  BY Zenon, FlightInvariance
<1> QED
  BY <1>1, <1>2, CaptureInvariance, DeliveryInvariance, PTL DEF Spec, OnlyRedrivenIsOvertaken
-----------------------------------------------------------------------------
(* Positions.                                                              *)

\* Status updates rise on their way to the server.
THEOREM StatusInvariance == Spec => []StatusInv
<1>1. Init => StatusInv
  BY Zenon, InitStatus
<1>2. TypeOK /\ CaptureInv /\ CaptureInv' /\ StatusInv /\ [Next]_vars => StatusInv'
  BY Zenon, NextSession
<1> QED
  BY <1>1, <1>2, CaptureInvariance, PTL DEF Spec

\* Neither the checkpoint of the spool nor confirmed_flush_lsn ever moves back,
\* although the server takes every status update at its word.
THEOREM PositionsRise == Spec => PositionsNeverRegress
<1>1. TypeOK /\ CaptureInv /\ CaptureInv' /\ StatusInv /\ [Next]_vars
        => [db'.checkpoint >= db.checkpoint /\ slot'.confirmed >= slot.confirmed]_<<db, slot>>
  BY Zenon, NextSession
<1> QED
  BY <1>1, CaptureInvariance, StatusInvariance, PTL DEF Spec, PositionsNeverRegress

-----------------------------------------------------------------------------
(* The log of events, and what capture promises.                           *)

\* An XLogData message: what is buffered comes from the transaction.
LEMMA ReceiveLog ==
  ASSUME TypeOK, CaptureInv, LogInv, NEW d \in Daemons, Receive(d),
         rep'[d].pc \in {"stream", "persist"}
  PROVE  LogInv'
<1> DEFINE r == rep[d]
           w == wal[r.cursor]
           m == MessageAt(w, r.pos)
           last == r.pos = LastPos(w)
           cursor == IF last THEN r.cursor + 1 ELSE r.cursor
           pos == IF last THEN 0 ELSE r.pos + 1
           sm == Consume(r.sm, m)
           next == [r EXCEPT !.sm = sm, !.cursor = cursor, !.pos = pos]
           batch == [events |-> r.sm.events, lsn |-> r.cursor, end |-> EndLSN(r.cursor)]
           full == [next EXCEPT !.pc = "persist", !.batch = batch]
<1>0. /\ rep \in [Daemons -> ReplicatorType] /\ r \in ReplicatorType
      /\ wal \in Seq(WalItems) /\ r.pos \in Nat
  <2>1. rep \in [Daemons -> ReplicatorType] /\ wal \in Seq(WalItems)
    BY Zenon DEF TypeOK, CaptureType
  <2> QED
    BY Zenon, <2>1 DEF ReplicatorType
<1>1. /\ r.pc = "stream" /\ r.cursor <= Len(wal) /\ UNCHANGED <<wal, db, lock, tx>>
  BY Zenon DEF Receive
<1>2. ~tx[d].open
  <2>1. r.pc # "persist"
    BY Zenon, <1>1
  <2> QED
    BY Zenon, <2>1, NoTransaction
<1>3. StreamInv(d) /\ ReceivedInv(d)
  BY Zenon DEF CaptureInv, LogInv
<1>4. ~Goto(d, "off") /\ ~Goto(d, "paused")
  <2>1. "off" \notin {"stream", "persist"} /\ "paused" \notin {"stream", "persist"}
    BY Zenon
  <2> QED
    BY Zenon, <2>1, GotoPc
<1>5. /\ ConsumeError(r.sm, m) = "none"
      /\ \/ ~CompletesBatch(r.sm, m) /\ rep' = [rep EXCEPT ![d] = next]
         \/ CompletesBatch(r.sm, m) /\ rep' = [rep EXCEPT ![d] = full]
  BY Zenon, <1>4 DEF Receive, Fatal
<1>6. CASE ~CompletesBatch(r.sm, m) /\ rep' = [rep EXCEPT ![d] = next]
  <2>1. /\ last => ~sm.inTx
        /\ sm.inTx => FromBody(sm.events, w.body, r.pos)
    <3>1. last => ~sm.inTx
      BY Zenon, <1>1, <1>3, <1>5, <1>6, ConsumedInv
    <3>2. sm.inTx => FromBody(sm.events, w.body, r.pos)
      BY Zenon, <1>1, <1>3, <1>5, <1>6, ConsumedLog
    <3> QED
      BY Zenon, <3>1, <3>2
  <2>2. ~last => cursor = r.cursor /\ pos = r.pos + 1
    BY Zenon
  <2> HIDE DEF sm, cursor, pos
  <2>4. next.pc = "stream" /\ next.cursor = cursor /\ next.pos = pos /\ next.sm = sm
    BY Zenon, <1>0, <1>1 DEF ReplicatorType
  <2> HIDE DEF next, last
  <2>5. rep'[d] = next /\ \A q \in Daemons : q # d => rep'[q] = rep[q]
    BY Zenon, <1>0, <1>6
  <2>6. "stream" # "persist"
    BY Zenon
  <2>7. sm.inTx => FromBody(sm.events, wal[cursor].body, pos - 1)
    <3> HIDE DEF r
    <3>1. ~last => wal[cursor] = w /\ pos - 1 = r.pos
      BY <1>0, <2>2
    <3> HIDE DEF w
    <3> QED
      BY Zenon, <2>1, <3>1
  <2>8. ReceivedInv(d)'
    BY Zenon, <1>1, <2>4, <2>5, <2>6, <2>7 DEF ReceivedInv
  <2> QED
    BY Zenon, <1>1, <1>2, <2>5, <2>8, ReplicatorLog
<1>7. CASE CompletesBatch(r.sm, m) /\ rep' = [rep EXCEPT ![d] = full]
  <2>1. last /\ r.sm.inTx
    BY Zenon, <1>1, <1>3, <1>7, CompletedInv DEF CompletesBatch
  <2>2. w.transactional /\ FromBody(r.sm.events, w.body, r.pos - 1)
    BY Zenon, <1>1, <1>3, <2>1 DEF StreamInv, BufferInv, ReceivedInv
  <2>3. r.pos - 1 = Len(w.body)
    <3>1. w \in WalItems
      <4>1. r.pc \in Connected
        BY Zenon, <1>1 DEF Connected
      <4>2. FirstLSN <= r.cursor
        BY Zenon, <1>3, <4>1 DEF StreamInv, ConnectionInv
      <4>3. r.cursor \in Nat
        BY Zenon, <1>0 DEF ReplicatorType
      <4> HIDE DEF r
      <4> QED
        BY <1>0, <1>1, <4>2, <4>3 DEF FirstLSN
    <3>2. r.pos = Len(w.body) + 1 /\ Len(w.body) \in Nat
      BY Zenon, <2>1, <2>2, <3>1, LastPosType
    <3> HIDE DEF r, w
    <3> QED
      BY <3>2
  <2> HIDE DEF sm, cursor, pos, last
  <2>4. full.pc = "persist" /\ full.batch.events = r.sm.events /\ full.batch.lsn = r.cursor
    BY Zenon, <1>0 DEF ReplicatorType
  <2> HIDE DEF full
  <2>5. rep'[d] = full /\ \A q \in Daemons : q # d => rep'[q] = rep[q]
    BY Zenon, <1>0, <1>7
  <2>6. "stream" # "persist"
    BY Zenon
  <2>7. ReceivedInv(d)'
    BY Zenon, <1>1, <2>2, <2>3, <2>4, <2>5, <2>6 DEF ReceivedInv
  <2> QED
    BY Zenon, <1>1, <1>2, <2>5, <2>7, ReplicatorLog
<1> QED
  BY Zenon, <1>5, <1>6, <1>7

\* Every step.
LEMMA NextLog ==
  ASSUME TypeOK, TypeOK', CaptureInv, LogInv, [Next]_vars, SameRows(db, db')
  PROVE  LogInv'
<1>1. CASE QuietStep
  BY Zenon, <1>1, QuietLog
<1>2. CASE HandleStatus \/ ReleaseSlot \/ \E w \in WalItems : AppCommit(w)
  BY Zenon, <1>2, ServerLog
<1>3. ASSUME NEW d \in Daemons, CaptureMoves(d) PROVE LogInv'
  BY Zenon, <1>3, ConnectionLog, ReceiveLog, TransactionLog, CommitLog DEF CaptureMoves
<1> QED
  BY Zenon, <1>1, <1>2, <1>3, NextQuiet

\* Events that keep everything but their payload keep identity, digest and
\* position.
LEMMA KeepsRows ==
  ASSUME NEW b, NEW c, DbType(b), DbType(c), Keeps(b, c)
  PROVE  SameRows(b, c)
<1> SUFFICES ASSUME NEW n \in DOMAIN b.events
             PROVE  /\ n \in DOMAIN c.events
                    /\ c.events[n].id = b.events[n].id /\ c.events[n].digest = b.events[n].digest
                    /\ c.events[n].lsn = b.events[n].lsn /\ c.events[n].at = b.events[n].at
  BY Zenon DEF SameRows
<1>1. b.events \in Seq(EventRow) /\ c.events \in Seq(EventRow)
  BY Zenon DEF DbType
<1>2. /\ n \in DOMAIN c.events
      /\ [b.events[n] EXCEPT !.pruned = TRUE] = [c.events[n] EXCEPT !.pruned = TRUE]
  BY Zenon DEF Keeps
<1>3. b.events[n] \in EventRow /\ c.events[n] \in EventRow
  BY <1>1, <1>2
<1>4. \A e, f \in EventRow :
        [e EXCEPT !.pruned = TRUE] = [f EXCEPT !.pruned = TRUE]
          => f.id = e.id /\ f.digest = e.digest /\ f.lsn = e.lsn /\ f.at = e.at
  <2> SUFFICES ASSUME NEW e \in EventRow, NEW f \in EventRow,
                      [e EXCEPT !.pruned = TRUE] = [f EXCEPT !.pruned = TRUE]
               PROVE  f.id = e.id /\ f.digest = e.digest /\ f.lsn = e.lsn /\ f.at = e.at
    BY Zenon
  <2>1. /\ [e EXCEPT !.pruned = TRUE].id = e.id /\ [f EXCEPT !.pruned = TRUE].id = f.id
        /\ [e EXCEPT !.pruned = TRUE].digest = e.digest
        /\ [f EXCEPT !.pruned = TRUE].digest = f.digest
        /\ [e EXCEPT !.pruned = TRUE].lsn = e.lsn /\ [f EXCEPT !.pruned = TRUE].lsn = f.lsn
        /\ [e EXCEPT !.pruned = TRUE].at = e.at /\ [f EXCEPT !.pruned = TRUE].at = f.at
    BY Zenon DEF EventRow
  <2> QED
    BY Zenon, <2>1
<1> QED
  BY Zenon, <1>2, <1>3, <1>4

\* No step changes what is recorded of an event.
LEMMA StepKeepsRows ==
  ASSUME TypeOK, TypeOK', CaptureInv, DeliveryInv, [Next]_vars
  PROVE  SameRows(db, db')
<1>1. Keeps(db, db')
  BY Zenon, NextDelivers DEF CaptureInv, Delivers, Records
<1>2. DbType(db) /\ DbType(db')
  BY Zenon DEF TypeOK, DaemonType
<1> QED
  BY Zenon, <1>1, <1>2, KeepsRows

\* The invariant of the log: what runOnce has received, what an open
\* transaction has inserted and what the spool holds are the messages of
\* committed transactions, in order.
THEOREM LogInvariance == Spec => []LogInv
<1>1. Init => LogInv
  BY Zenon, InitLog
<1>2. TypeOK /\ TypeOK' /\ CaptureInv /\ DeliveryInv /\ LogInv /\ [Next]_vars => LogInv'
  BY Zenon, StepKeepsRows, NextLog
<1> QED
  BY <1>1, <1>2, CaptureInvariance, DeliveryInvariance, PTL DEF Spec

\* Every event of the spool is a protected message of a transaction that
\* PostgreSQL committed and that the checkpoint covers: nothing is invented,
\* and a crash between two inserts leaves nothing (PersistCommittedBatch).
THEOREM SpooledEventsAreCommitted == Spec => []SpooledIsCommitted
<1>1. LogInv => SpooledIsCommitted
  BY Zenon DEF LogInv
<1> QED
  BY <1>1, LogInvariance, PTL

\* The sequence numbers of the spool follow commit order, and an identity is
\* stored once, whatever is received again (insertEvent, PersistCommittedBatch).
THEOREM SpoolFollowsCommits == Spec => []SpoolOrder
<1>1. LogInv => SpoolOrder
  BY Zenon DEF LogInv
<1> QED
  BY <1>1, LogInvariance, PTL

\* Capture implements Outbox: every step of the daemons, of PostgreSQL and of
\* the environment is a commit, a takeover of the next transaction with events,
\* a release of what is taken over, or changes nothing of these.
THEOREM CaptureImplementsOutbox == Spec => ImplementsOutbox
<1>1. Init => Promise!OutboxInit
  BY Zenon, InitOutbox
<1>2. TypeOK /\ TypeOK' /\ CaptureInv /\ CaptureInv' /\ DeliveryInv /\ StatusInv /\ LogInv
        /\ [Next]_vars => [Promise!OutboxNext]_(Promise!outboxVars)
  BY Zenon, StepKeepsRows, NextOutbox
<1> QED
  BY <1>1, <1>2, CaptureInvariance, DeliveryInvariance, StatusInvariance, LogInvariance, PTL
     DEF Spec, ImplementsOutbox, Promise!OutboxSpec
=============================================================================
