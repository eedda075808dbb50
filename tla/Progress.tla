------------------------------ MODULE Progress ------------------------------
(***************************************************************************)
(* Progress of WriteRelay: the fairness that the Go scheduler, the timers, *)
(* a supervisor and PostgreSQL give, and what must eventually happen once  *)
(* faults stop.                                                            *)
(***************************************************************************)
EXTENDS Refinement, FiniteSetsExt

LiveNext == Next \/ CalmDown

\* A goroutine that can go on does: the replicator's, the worker's (requests
\* time out).
CaptureProgress(d) ==
  /\ \/ RunOnce(d) \/ StartReplication(d) \/ NoticeClosed(d) \/ Reconnect(d)
     \/ WaitForDisk(d) \/ Receive(d) \/ BeginBatch(d) \/ PersistEvent(d)
     \/ CommitBatch(d) \/ SnapshotConflict(d) \/ Acknowledge(d) \/ StopCapture(d)
  /\ UNCHANGED <<deliveryVars, calm>>
WorkerProgress(d) ==
  /\ \/ SelectNext(d) \/ RecordSuccess(d) \/ RecordFails(d) \/ StopWorker(d)
     \/ \E result \in Results \ {"none"} : SendReturns(d, result)
     \/ \E delay \in InitialDelay..MaxDelay : RecordFailure(d, delay)
  /\ UNCHANGED <<captureVars, calm>>

\* The status timer fires; a process ends after its tasks and a supervisor
\* starts it again; the server reads its connection and gives up a dead one;
\* time passes; a maintenance command ends.
Fairness ==
  /\ \A d \in Daemons :
       /\ WF_vars(CaptureProgress(d))
       /\ WF_vars(SendStatus(d) /\ UNCHANGED <<deliveryVars, calm>>)
       /\ WF_vars(WorkerProgress(d))
       /\ WF_vars(Exit(d))
       /\ WF_vars(\E regs \in Configs : Start(d, regs))
  /\ WF_vars(ServerStep)
  /\ WF_vars(PruneEnds)
  /\ WF_vars(Time)

LiveSpec == Init /\ [][LiveNext]_vars /\ Fairness

\* What capture refuses whenever it meets it: Consume (a protected message that
\* is not transactional or not valid, a transaction above a limit) and
\* insertOrVerify (an identity that comes again with other content).
Refused(i) ==
  LET w == wal[i]
      marked == {j \in DOMAIN w.body : w.body[j].protected}
  IN \/ marked # {} /\ ~w.transactional
     \/ \E j \in marked : ~w.body[j].valid
     \/ Cardinality(marked) > MaxTransactionEvents
     \/ MapThenSumSet(LAMBDA j : PayloadSize[w.body[j].digest], marked)
           > MaxTransactionBytes
     \/ \E j \in marked, h \in 1..i : \E k \in DOMAIN wal[h].body :
          /\ wal[h].body[k].protected
          /\ wal[h].body[k].id = w.body[j].id /\ wal[h].body[k].digest # w.body[j].digest

\* Once faults stop, every transaction that has nothing refused at or before it
\* is spooled, whatever is committed behind it; and PostgreSQL learns of it even
\* if the acknowledgement was lost at first, unless a refused item behind it
\* ends every connection too soon (Run, runOnce, persistThenAcknowledge).
EventuallyCaptured ==
  \A i \in 1..MaxWal :
    (/\ calm /\ i \in DOMAIN wal /\ wal[i].transactional
     /\ \A j \in 1..i : ~Refused(j))
    ~> /\ DurableLSN > i
       /\ slot.confirmed > i \/ \E j \in DOMAIN wal : Refused(j)

\* Once faults stop, every delivery is delivered or dead-lettered, however
\* often its destination fails: no row waits for ever, not even behind another
\* one of its sink (Worker.Run, ProcessOne).
EventuallyTerminal ==
  \A n \in 1..Cardinality(Identities), s \in SinkNames :
    LET Owed == <<n, s>> \in DOMAIN db.deliveries
    IN  (calm /\ Owed) ~> (Owed /\ db.deliveries[<<n, s>>].state \in Terminal)
=============================================================================
