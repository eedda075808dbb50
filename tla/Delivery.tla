------------------------------ MODULE Delivery ------------------------------
(***************************************************************************)
(* Delivery: each daemon's worker (internal/delivery/delivery.go), the     *)
(* maintenance commands "spool redrive" and "spool prune", and the start   *)
(* of a daemon, which registers its sinks.                                 *)
(*                                                                         *)
(* Destinations are external.  A request that is being sent may be         *)
(* accepted at any moment before its answer is known, or not at all; the   *)
(* answer is a success only if the request was accepted.                   *)
(***************************************************************************)
EXTENDS Daemon

CONSTANTS
  Configs,        \* sink configurations: sequences of [name, target]
  MaxAttempts,    \* retry.max_attempts
  InitialDelay,   \* retry.initial_delay, in units of time
  MaxDelay,       \* retry.max_delay
  Cutoffs,        \* ages that "spool prune --before" may ask for
  Limits          \* values of "spool prune --limit"

ASSUME ConfigsAssumption ==
  \A regs \in Configs :
    /\ regs \in Seq([name : SinkNames, target : Targets])
    /\ \A i, j \in DOMAIN regs : regs[i].name = regs[j].name => i = j
ASSUME RetryAssumption ==
  /\ MaxAttempts \in Nat \ {0}
  /\ InitialDelay \in Nat \ {0} /\ MaxDelay \in Nat /\ InitialDelay <= MaxDelay
ASSUME PruneAssumption == Cutoffs \subseteq 0..MaxAge - 1 /\ Limits \subseteq Nat \ {0}

VARIABLES
  wrk,      \* wrk[d]: the worker of daemon d
  config,   \* config[d]: the sinks the worker of d can send to
  accepted, \* the <<sequence, sink>> that the destination has accepted
  pruning   \* the command line of the prune that holds the write lock

deliveryVars == <<wrk, config, accepted, pruning>>

NoItem == [key |-> <<0, Nobody>>, attempts |-> 0]
Results == {"none", "success", "retryable", "permanent"}
Worker(pc) == [pc |-> pc, item |-> NoItem, accepted |-> FALSE, result |-> "none"]
NoPrune == [cutoff |-> 0, limit |-> 0]

Keys == (Nat \X SinkNames) \cup {NoItem.key}
WorkerType ==
  [pc : {"off", "idle", "send", "record"},
   item : [key : Keys, attempts : Nat],
   accepted : BOOLEAN, result : Results]

DeliveryType ==
  /\ wrk \in [Daemons -> WorkerType]
  /\ config \in [Daemons -> SUBSET SinkNames]
  /\ accepted \subseteq Keys
  /\ pruning \in [cutoff : Nat, limit : Nat]

DeliveryInit ==
  /\ wrk = [d \in Daemons |-> Worker("off")]
  /\ config = [d \in Daemons |-> {}]
  /\ accepted = {}
  /\ pruning = NoPrune
-----------------------------------------------------------------------------
(* Worker.Run and ProcessOne.                                              *)

\* NextDueDelivery finds a row; its sink must be one this daemon can reach.
SelectNext(d) ==
  /\ mode[d] = "running" /\ wrk[d].pc = "idle" /\ ~tx[d].open
  /\ \E k \in NextDueDelivery(db) :
       \/ /\ k[2] \in config[d]
          /\ wrk' = [wrk EXCEPT ![d] =
               [Worker("send") EXCEPT
                  !.item = [key |-> k, attempts |-> db.deliveries[k].attempts]]]
          /\ UNCHANGED <<mode, exit>>
       \/ /\ k[2] \notin config[d]
          /\ wrk' = [wrk EXCEPT ![d] = Worker("off")]
          /\ Cancel(d, "worker")
  /\ UNCHANGED <<config, accepted, pruning, db, lock, tx>>

\* The destination accepts the request of d.
Accept(d) ==
  /\ wrk[d].pc = "send" /\ ~wrk[d].accepted
  /\ wrk' = [wrk EXCEPT ![d].accepted = TRUE]
  /\ accepted' = accepted \cup {wrk[d].item.key}
  /\ UNCHANGED <<config, pruning, db, lock, tx, mode, exit>>

\* Send returns: a 2xx answer, a retryable failure (network, timeout, 408,
\* 425, 429, 5xx) or a permanent one.  Cancellation of the context drops a
\* failure without recording it.
SendReturns(d, result) ==
  /\ wrk[d].pc = "send"
  /\ result = "success" => wrk[d].accepted
  /\ wrk' = [wrk EXCEPT ![d] =
       IF mode[d] = "stopping" /\ result # "success" THEN Worker("off")
       ELSE [@ EXCEPT !.pc = "record", !.result = result]]
  /\ UNCHANGED <<config, accepted, pruning, db, lock, tx, mode, exit>>

\* Mutant: every answer counts as a success.
RecordSuccessOfAny(d) ==
  /\ wrk[d].pc = "record" /\ CanWrite(d)
  /\ StillOwned(db, wrk[d].item)
  /\ Write(MarkDelivered(db, wrk[d].item))
  /\ wrk' = [wrk EXCEPT ![d] = Worker("idle")]
  /\ UNCHANGED <<config, accepted, pruning, lock, mode, exit>>

\* MarkDelivered, in a context that shutdown does not cancel.
RecordSuccess(d) ==
  /\ wrk[d].pc = "record" /\ wrk[d].result = "success" /\ CanWrite(d)
  /\ StillOwned(db, wrk[d].item)
  /\ Write(MarkDelivered(db, wrk[d].item))
  /\ wrk' = [wrk EXCEPT ![d] = Worker("idle")]
  /\ UNCHANGED <<config, accepted, pruning, lock, mode, exit>>

\* Mutant: off by one in the attempt limit.
RecordFailureLate(d, delay) ==
  /\ wrk[d].pc = "record" /\ wrk[d].result # "success" /\ CanWrite(d)
  /\ StillOwned(db, wrk[d].item)
  /\ LET permanent == \/ wrk[d].result = "permanent"
                      \/ wrk[d].item.attempts >= MaxAttempts
     IN  Write(MarkFailed(db, wrk[d].item, permanent, delay))
  /\ wrk' = [wrk EXCEPT ![d] = Worker("idle")]
  /\ UNCHANGED <<config, accepted, pruning, lock, mode, exit>>

\* MarkFailed.  The delay is retryDelay or a longer Retry-After capped at
\* max_delay, so it lies between the configured delays.
RecordFailure(d, delay) ==
  /\ wrk[d].pc = "record" /\ wrk[d].result # "success" /\ CanWrite(d)
  /\ StillOwned(db, wrk[d].item)
  /\ LET permanent == \/ wrk[d].result = "permanent"
                      \/ wrk[d].item.attempts + 1 >= MaxAttempts
     IN  Write(MarkFailed(db, wrk[d].item, permanent, delay))
  /\ wrk' = [wrk EXCEPT ![d] = Worker("idle")]
  /\ UNCHANGED <<config, accepted, pruning, lock, mode, exit>>

\* The update changes no row: the worker returns the error.
RecordFails(d) ==
  /\ wrk[d].pc = "record" /\ CanWrite(d)
  /\ ~StillOwned(db, wrk[d].item)
  /\ Cancel(d, "worker")
  /\ wrk' = [wrk EXCEPT ![d] = Worker("off")]
  /\ UNCHANGED <<config, accepted, pruning, db, lock, tx>>

\* A query or an update fails (an I/O error; or the daemon's connection or the
\* write lock does not become free within five seconds): the worker returns the
\* error, and what it was about to record is lost.
StoreFails(d) ==
  /\ \/ wrk[d].pc = "record"
     \/ wrk[d].pc = "idle" /\ mode[d] = "running"
  /\ Cancel(d, "durability")
  /\ wrk' = [wrk EXCEPT ![d] = Worker("off")]
  /\ UNCHANGED <<config, accepted, pruning, db, lock, tx>>

StopWorker(d) ==
  /\ mode[d] = "stopping" /\ wrk[d].pc = "idle"
  /\ wrk' = [wrk EXCEPT ![d] = Worker("off")]
  /\ UNCHANGED <<config, accepted, pruning, db, lock, tx, mode, exit>>

WorkerStep(d) ==
  \/ SelectNext(d)
  \/ Accept(d)
  \/ \E result \in Results \ {"none"} : SendReturns(d, result)
  \/ RecordSuccess(d)
  \/ \E delay \in InitialDelay..MaxDelay : RecordFailure(d, delay)
  \/ RecordFails(d)
  \/ StopWorker(d)
-----------------------------------------------------------------------------
(* Maintenance commands and time.                                          *)

Redrive(k) ==
  /\ lock = Nobody
  /\ Redrivable(db, k)
  /\ Write(RedriveDelivery(db, k))
  /\ UNCHANGED <<deliveryVars, lock, mode, exit>>

\* BEGIN IMMEDIATE: from here to the commit no other process writes.
PruneBegin(cutoff, limit) ==
  /\ lock = Nobody
  /\ lock' = Operator
  /\ pruning' = [cutoff |-> cutoff, limit |-> limit]
  /\ UNCHANGED <<wrk, config, accepted, db, tx, mode, exit>>

PruneCommit ==
  /\ lock = Operator
  /\ LET b == Prune(db, PruneSelection(db, pruning.cutoff, pruning.limit))
     IN  db' = b /\ tx' = SnapshotsAfter(b)
  /\ lock' = Nobody
  /\ pruning' = NoPrune
  /\ UNCHANGED <<wrk, config, accepted, mode, exit>>

\* The command is cancelled or dies before its COMMIT.
PruneAbort ==
  /\ lock = Operator
  /\ lock' = Nobody
  /\ pruning' = NoPrune
  /\ UNCHANGED <<wrk, config, accepted, db, tx, mode, exit>>

\* Time passes between the transactions, not inside them.
Tick ==
  /\ lock = Nobody /\ \A d \in Daemons : ~tx[d].open
  /\ db' = Elapse(db)
  /\ db' # db
  /\ UNCHANGED <<deliveryVars, lock, tx, mode, exit>>
-----------------------------------------------------------------------------
(* What delivery promises, of the committed database and of the one that a *)
(* capture transaction is about to commit.                                 *)

EveryEventIsOwedIn(b) ==
  \A n \in Retained(b), s \in ActiveSinks(b) : <<n, s>> \in DOMAIN b.deliveries
RemovedSinkIsIdleIn(b) ==
  \A k \in DOMAIN b.deliveries :
    b.deliveries[k].state \in Waiting => k[2] \in ActiveSinks(b)
PrunedIsDeliveredIn(b) ==
  \A n \in DOMAIN b.events : b.events[n].pruned =>
    /\ RowsOf(b, n) # {}
    /\ \A k \in RowsOf(b, n) : b.deliveries[k].state = "delivered"
DeliveredIsAcceptedIn(b, acc) ==
  \A k \in DOMAIN b.deliveries : b.deliveries[k].state = "delivered" => k \in acc
AttemptRemains(r) ==
  r.state \in Waiting =>
    r.attempts < MaxAttempts /\ r.wait <= MaxDelay /\ (r.state = "pending" => r.attempts = 0)

\* Every event whose payload is retained has a delivery row for every active
\* sink, whenever the sink was registered, removed or enabled again and
\* whatever was replayed or pruned (ensureDeliveriesForEvent, ConfigureSinks).
EveryEventIsOwed == EveryEventIsOwedIn(db)

\* A removed sink has nothing left to deliver, so no row waits for a sink that
\* the worker does not select (ConfigureSinks, RedriveDelivery).
RemovedSinkIsIdle == RemovedSinkIsIdleIn(db)

\* A payload is gone only once every delivery of the event has succeeded; in
\* particular no waiting or redrivable row refers to it (prune.go and the
\* triggers of migration 003).
PrunedIsDelivered == PrunedIsDeliveredIn(db)

\* A delivery is recorded as delivered only when the destination accepted a
\* request for it (ProcessOne, MarkDelivered).
DeliveredIsAccepted == DeliveredIsAcceptedIn(db, accepted)

\* A waiting row always has an attempt left, and is overdue or due within
\* max_delay (ProcessOne, MarkFailed, RedriveDelivery).
AttemptsRemain == \A k \in DOMAIN db.deliveries : AttemptRemains(db.deliveries[k])

\* With one daemon the row a worker is sending stays as it was selected until
\* the worker records the result: neither redrive, prune, capture nor backfill
\* touches it, so the worker is never told "modified concurrently".
InFlightIsOwned ==
  \A d \in Daemons : wrk[d].pc \in {"send", "record"} => StillOwned(db, wrk[d].item)

\* A row may become the row s: the recorded end of a delivery stays.
RowKept(r, s) ==
  /\ r.state = "delivered" => s.state = "delivered"
  /\ r.state = "dead_letter" => \/ s.state = "dead_letter"
                                \/ s.state = "retry_wait" /\ s.attempts = 0

\* c keeps what is recorded in b.
Keeps(b, c) ==
  /\ \A n \in DOMAIN b.events :
       /\ n \in DOMAIN c.events
       /\ [b.events[n] EXCEPT !.pruned = TRUE] = [c.events[n] EXCEPT !.pruned = TRUE]
       /\ b.events[n].pruned => c.events[n].pruned
  /\ \A k \in DOMAIN b.deliveries :
       k \in DOMAIN c.deliveries /\ RowKept(b.deliveries[k], c.deliveries[k])

\* What is recorded is kept: events keep identity, content and position, a
\* pruned payload does not come back, a delivered row stays delivered, and a
\* dead letter leaves that state only by a redrive, with its attempts reset.
HistoryIsKept == [][Keeps(db, db')]_db

\* A waiting row r may become the row s: nothing happens to it, it comes nearer to
\* its next attempt, or the result of one attempt is recorded.
RowCounted(r, s) ==
  r.state \in Waiting =>
    \/ s = r
    \/ s.state = r.state /\ s.attempts = r.attempts /\ s.wait < r.wait
    \/ s.attempts = r.attempts + 1

Counts(b, c) ==
  \A k \in DOMAIN b.deliveries : RowCounted(b.deliveries[k], c.deliveries[k])

\* Every result that is recorded counts one attempt, and none is recorded for an
\* attempt that another daemon's result has already closed, however two daemons
\* overlap in sending a row and retrying it: the update names the attempts that
\* its worker has read (MarkDelivered, MarkFailed, expectOneDeliveryUpdate).
ResultsAreCounted == [][Counts(db, db')]_db

\* Whatever waits for the sink of k with an earlier event was redriven.
OnlyRedrivenBefore(b, k) ==
  \A j \in DOMAIN b.deliveries :
    j[2] = k[2] /\ j[1] < k[1] /\ b.deliveries[j].state \in Waiting =>
      b.deliveries[j].state = "retry_wait" /\ b.deliveries[j].attempts = 0

NewlyDelivered(b, c) ==
  {k \in DOMAIN b.deliveries : /\ b.deliveries[k].state # "delivered"
                               /\ c.deliveries[k].state = "delivered"}

\* With one daemon only a redrive lets a later event overtake an earlier one: an
\* earlier row that still waits when a delivery is recorded was redriven while
\* that request was in flight (NextDueDelivery, RedriveDelivery, MarkDelivered).
OnlyRedrivenIsOvertaken ==
  [][\A k \in NewlyDelivered(db, db') : OnlyRedrivenBefore(db, k)]_db
-----------------------------------------------------------------------------
(* Why it holds: the invariant of delivery.                                *)

DatabaseInv(b, acc) ==
  /\ EveryEventIsOwedIn(b) /\ RemovedSinkIsIdleIn(b)
  /\ PrunedIsDeliveredIn(b) /\ DeliveredIsAcceptedIn(b, acc)
  /\ \A k \in DOMAIN b.deliveries : AttemptRemains(b.deliveries[k])

\* c holds what b holds, with further events and their rows.
Adds(b, c) ==
  /\ c.sinks = b.sinks
  /\ DOMAIN b.events \subseteq DOMAIN c.events
  /\ \A n \in DOMAIN b.events : c.events[n] = b.events[n]
  /\ DOMAIN b.deliveries \subseteq DOMAIN c.deliveries
  /\ \A k \in DOMAIN b.deliveries : c.deliveries[k] = b.deliveries[k]
  /\ \A k \in DOMAIN c.deliveries \ DOMAIN b.deliveries : k[1] \notin DOMAIN b.events

\* An open capture transaction, on a database b that holds what is accepted.
TxInv(t, b, acc, locked) ==
  t.open => DatabaseInv(t.db, acc) /\ (locked \/ ~t.stale => Adds(b, t.db))

RequestInv(w, acc) ==
  /\ w.accepted => w.item.key \in acc
  /\ w.pc = "record" /\ w.result = "success" => w.accepted

\* Inductive, and stronger than the invariants above: what a capture transaction
\* would commit satisfies them too and changes no row that is there, and a
\* worker about to record a success has seen it accepted.
DeliveryInv ==
  /\ DatabaseInv(db, accepted)
  /\ \A d \in Daemons : /\ TxInv(tx[d], db, accepted, lock = d)
                        /\ RequestInv(wrk[d], accepted)

\* Inductive with DeliveryInv when there is one daemon: the row in flight is
\* the one that was selected, and whatever waits before it was redriven since.
SingleDaemon == \A d, e \in Daemons : d = e
InFlight(b, item) == StillOwned(b, item) /\ OnlyRedrivenBefore(b, item.key)
FlightInv ==
  \A d \in Daemons : wrk[d].pc \in {"send", "record"} => InFlight(db, wrk[d].item)
=============================================================================
