------------------------------- MODULE Relay -------------------------------
(***************************************************************************)
(* WriteRelay: capture and delivery of one or more daemons over one spool, *)
(* with the life of the daemons (internal/app/app.go, cmd/writerelayd).    *)
(***************************************************************************)
EXTENDS Capture, Delivery

CONSTANT
  Faults      \* which of the faults and commands below the environment uses

FaultKinds == {"crash", "signal", "connection", "server", "disk", "io", "redrive",
               "prune"}
ASSUME FaultsAssumption == Faults \subseteq FaultKinds

VARIABLE
  calm      \* no fault happens any more

vars == <<wal, slot, statuses, rep, disk, paused, db, lock, tx, mode, exit,
          wrk, config, accepted, pruning, calm>>

TypeOK == DaemonType /\ CaptureType /\ DeliveryType /\ calm \in BOOLEAN

Init == DaemonInit /\ CaptureInit /\ DeliveryInit /\ calm = FALSE
-----------------------------------------------------------------------------
(* The life of a daemon.                                                   *)

\* Run opens the spool and configures its sinks; with an error it returns
\* before anything has changed.  Then the tasks start.  Without sinks to
\* register or to remove nothing is written.
Start(d, regs) ==
  /\ mode[d] = "down"
  /\ SinksAccepted(db, regs)
  /\ IF regs = << >> /\ ActiveSinks(db) = {}
     THEN UNCHANGED <<db, tx>>
     ELSE Write(ConfigureSinks(db, regs))
  /\ mode' = [mode EXCEPT ![d] = "running"]
  /\ exit' = [exit EXCEPT ![d] = "none"]
  /\ rep' = [rep EXCEPT ![d] = Replicator("start")]
  /\ config' = [config EXCEPT ![d] = NamesOf(regs)]
  /\ wrk' = [wrk EXCEPT ![d] = Worker(IF regs = << >> THEN "off" ELSE "idle")]
  /\ UNCHANGED <<lock, wal, slot, statuses, disk, paused, accepted, pruning, calm>>

\* SIGINT or SIGTERM cancels the context.
Signal(d) ==
  /\ mode[d] = "running"
  /\ Cancel(d, "signal")
  /\ UNCHANGED <<db, lock, tx, captureVars, deliveryVars, calm>>

\* runTogether returns once every task has; the process ends.
Exit(d) ==
  /\ mode[d] = "stopping" /\ rep[d].pc = "off" /\ wrk[d].pc = "off"
  /\ mode' = [mode EXCEPT ![d] = "down"]
  /\ exit' = [exit EXCEPT ![d] = "none"]
  /\ paused' = [paused EXCEPT ![d] = FALSE]
  /\ config' = [config EXCEPT ![d] = {}]
  /\ UNCHANGED <<db, lock, tx, wal, slot, statuses, rep, disk, wrk, accepted,
                 pruning, calm>>

\* The process dies: its memory and its open transaction are gone.
Crash(d) ==
  /\ mode[d] # "down"
  /\ mode' = [mode EXCEPT ![d] = "down"]
  /\ exit' = [exit EXCEPT ![d] = "none"]
  /\ Rollback(d)
  /\ rep' = [rep EXCEPT ![d] = Replicator("off")]
  /\ paused' = [paused EXCEPT ![d] = FALSE]
  /\ wrk' = [wrk EXCEPT ![d] = Worker("off")]
  /\ config' = [config EXCEPT ![d] = {}]
  /\ UNCHANGED <<db, wal, slot, statuses, disk, accepted, pruning, calm>>
-----------------------------------------------------------------------------
CaptureStep(d) == ReplicatorStep(d) /\ UNCHANGED <<deliveryVars, calm>>

DeliveryStep(d) == WorkerStep(d) /\ UNCHANGED <<captureVars, calm>>

ServerStep ==
  /\ \/ HandleStatus
     \/ ReleaseSlot /\ rep[slot.owner].pc \notin Connected
  /\ UNCHANGED <<deliveryVars, calm>>

PruneEnds == (PruneCommit \/ PruneAbort) /\ UNCHANGED <<captureVars, calm>>

Time == Tick /\ UNCHANGED <<captureVars, calm>>

Fault ==
  /\ ~calm
  /\ \/ \E d \in Daemons :
          \/ "crash" \in Faults /\ Crash(d)
          \/ "signal" \in Faults /\ Signal(d)
          \/ /\ "connection" \in Faults
             /\ LoseConnection(d) /\ UNCHANGED <<deliveryVars, calm>>
          \/ "io" \in Faults /\ PersistFails(d) /\ UNCHANGED <<deliveryVars, calm>>
          \/ "io" \in Faults /\ StoreFails(d) /\ UNCHANGED <<captureVars, calm>>
     \/ "server" \in Faults /\ ReleaseSlot /\ UNCHANGED <<deliveryVars, calm>>
     \/ "disk" \in Faults /\ DiskChange /\ UNCHANGED <<deliveryVars, calm>>
     \/ /\ "redrive" \in Faults
        /\ \E k \in DOMAIN db.deliveries : Redrive(k)
        /\ UNCHANGED <<captureVars, calm>>
     \/ /\ "prune" \in Faults
        /\ \E c \in Cutoffs, l \in Limits : PruneBegin(c, l)
        /\ UNCHANGED <<captureVars, calm>>

\* From here on no fault happens, and there is room on the disk.
CalmDown ==
  /\ ~calm
  /\ disk \in {l \in DiskLevels : ~PausedAfter(TRUE, l)}
  /\ calm' = TRUE
  /\ UNCHANGED <<daemonVars, captureVars, deliveryVars>>

Next ==
  \/ \E w \in WalItems : AppCommit(w) /\ UNCHANGED <<deliveryVars, calm>>
  \/ \E d \in Daemons, regs \in Configs : Start(d, regs)
  \/ \E d \in Daemons : CaptureStep(d) \/ DeliveryStep(d) \/ Exit(d)
  \/ ServerStep
  \/ PruneEnds
  \/ Time
  \/ Fault

Spec == Init /\ [][Next]_vars
-----------------------------------------------------------------------------
\* docs/retention.md: prune "can run alongside the updated daemon; concurrent
\* writers serialize, or report a lock error if the five-second timeout
\* expires."  No daemon ends because a prune committed under its transaction.
PruneSerializes == \A d \in Daemons : exit[d] # "busy_snapshot"
=============================================================================
