------------------------------- MODULE Spool -------------------------------
(***************************************************************************)
(* The SQLite spool of internal/spool/sqlite: the durable database, its    *)
(* statements as functions from a database to a database, and the write    *)
(* transactions that the processes using the file hold open.               *)
(*                                                                         *)
(* A database is a record [events, sinks, deliveries, checkpoint]:         *)
(*   events      the rows of "events"; the AUTOINCREMENT sequence number   *)
(*               of a row is its index, since rows are never deleted and   *)
(*               a rolled-back insert gives its number back                *)
(*   sinks       delivery_sinks, by sink name                              *)
(*   deliveries  the rows of "deliveries", by <<sequence, sink name>>      *)
(*   checkpoint  spool_metadata.last_durable_lsn, 0 while there is none    *)
(*                                                                         *)
(* Times are relative: "wait" is the time until next_attempt_at, "age" the *)
(* time since delivered_at, counted up to MaxAge.                          *)
(***************************************************************************)
EXTENDS Events, Integers, Sequences, FiniteSets

CONSTANTS
  SinkNames, Targets,        \* sink names, (type, config_sha256) fingerprints
  MaxAge                     \* ages above the oldest prune cutoff are alike

\* Sinks can be counted.
ASSUME SinkNamesAssumption == \A names \in SUBSET SinkNames : Cardinality(names) \in Nat
ASSUME MaxAgeAssumption == MaxAge \in Nat

EventRow == [id : Identities, digest : Digests, lsn : Nat, at : Nat,
             pruned : BOOLEAN]
SinkRow == [id : Nat, target : Targets, active : BOOLEAN]
Waiting == {"pending", "retry_wait"}
Terminal == {"delivered", "dead_letter"}
DeliveryRow == [state : Waiting \cup Terminal, attempts : Nat, wait : Nat,
                age : 0..MaxAge]

EmptyDb == [events |-> << >>, sinks |-> [s \in {} |-> 0],
            deliveries |-> [k \in {} |-> 0], checkpoint |-> 0]

DbType(b) ==
  /\ b = [events |-> b.events, sinks |-> b.sinks,
          deliveries |-> b.deliveries, checkpoint |-> b.checkpoint]
  /\ b.events \in Seq(EventRow)
  /\ DOMAIN b.sinks \subseteq SinkNames
  /\ b.sinks \in [DOMAIN b.sinks -> SinkRow]
  /\ DOMAIN b.deliveries \subseteq (DOMAIN b.events) \X (DOMAIN b.sinks)
  /\ b.deliveries \in [DOMAIN b.deliveries -> DeliveryRow]
  /\ b.checkpoint \in Nat

\* The event m is stored, with its content.
SpooledIn(b, m) ==
  \E n \in DOMAIN b.events : b.events[n].id = m.id /\ b.events[n].digest = m.digest

\* c holds what b holds and has the same checkpoint.
LogGrows(b, c) ==
  /\ DOMAIN b.events \subseteq DOMAIN c.events
  /\ \A n \in DOMAIN b.events :
       /\ c.events[n].id = b.events[n].id
       /\ c.events[n].digest = b.events[n].digest
  /\ c.checkpoint = b.checkpoint
-----------------------------------------------------------------------------
(* Capture: the statements of PersistCommittedBatch.                       *)

ActiveSinks(b) == {s \in DOMAIN b.sinks : b.sinks[s].active}

PendingRow == [state |-> "pending", attempts |-> 0, wait |-> 0, age |-> 0]

\* Mutant: ON CONFLICT DO UPDATE.
InsertPendingOverwrites(rows, keys) ==
  [k \in DOMAIN rows \cup keys |-> IF k \in keys THEN PendingRow ELSE rows[k]]

\* INSERT INTO deliveries ... 'pending', 0, now ... ON CONFLICT DO NOTHING.
InsertPending(rows, keys) ==
  [k \in DOMAIN rows \cup keys |->
     IF k \in DOMAIN rows THEN rows[k] ELSE PendingRow]

SequencesOf(b, id) == {n \in DOMAIN b.events : b.events[n].id = id}

\* insertOrVerify finds the identity stored with another digest.
IdentityConflict(b, e) ==
  \E n \in SequencesOf(b, e.id) : b.events[n].digest # e.digest

\* Mutant: without the unique identity.
InsertAlways(b, e, lsn) ==
  [b EXCEPT !.events = Append(@, [id |-> e.id, digest |-> e.digest, lsn |-> lsn,
                                  at |-> e.at, pruned |-> FALSE])]

InsertOrVerify(b, e, lsn) ==
  IF SequencesOf(b, e.id) # {} THEN b
  ELSE [b EXCEPT !.events = Append(@, [id |-> e.id, digest |-> e.digest,
                                       lsn |-> lsn, at |-> e.at,
                                       pruned |-> FALSE])]

EnsureDeliveriesForEvent(b, n) ==
  IF b.events[n].pruned THEN b
  ELSE [b EXCEPT !.deliveries = InsertPending(@, {n} \X ActiveSinks(b))]

\* One iteration of the loop over batch.Events, e not in conflict.
SpoolEvent(b, e, lsn) ==
  LET i == InsertOrVerify(b, e, lsn)
  IN  EnsureDeliveriesForEvent(i, CHOOSE n \in SequencesOf(i, e.id) : TRUE)

RaiseCheckpoint(b, end) ==
  [b EXCEPT !.checkpoint = IF end > @ THEN end ELSE @]
-----------------------------------------------------------------------------
(* Startup: ConfigureSinks.  regs is the sequence of registrations, each a *)
(* record [name, target]; names are distinct (config.go rejects others).   *)

NamesOf(regs) == {regs[i].name : i \in DOMAIN regs}

\* Mutant: a sink may be removed whatever it has left to deliver.
SinksAcceptedAnyRemoval(b, regs) ==
  \A i \in DOMAIN regs :
    regs[i].name \in DOMAIN b.sinks => b.sinks[regs[i].name].target = regs[i].target

\* Every registered name keeps its fingerprint, and an active sink that is
\* no longer configured has nothing left to deliver.
SinksAccepted(b, regs) ==
  /\ \A i \in DOMAIN regs :
        regs[i].name \in DOMAIN b.sinks => b.sinks[regs[i].name].target = regs[i].target
  /\ \A k \in DOMAIN b.deliveries :
        k[2] \in ActiveSinks(b) \ NamesOf(regs) => b.deliveries[k].state \notin Waiting

\* sink_id is AUTOINCREMENT: new sinks are numbered in registration order.
NewSink(b, regs, name) ==
  LET i == CHOOSE j \in DOMAIN regs : regs[j].name = name
  IN  [id |-> Cardinality(DOMAIN b.sinks \cup {regs[j].name : j \in 1..i}),
       target |-> regs[i].target, active |-> TRUE]

Retained(b) == {n \in DOMAIN b.events : ~b.events[n].pruned}

\* Mutant: no backfill.
ConfigureSinksNoBackfill(b, regs) ==
  [b EXCEPT
     !.sinks = [s \in DOMAIN b.sinks \cup NamesOf(regs) |->
                  IF s \in DOMAIN b.sinks
                  THEN [b.sinks[s] EXCEPT !.active = s \in NamesOf(regs)]
                  ELSE NewSink(b, regs, s)]]

ConfigureSinks(b, regs) ==
  [b EXCEPT
     !.sinks = [s \in DOMAIN b.sinks \cup NamesOf(regs) |->
                  IF s \in DOMAIN b.sinks
                  THEN [b.sinks[s] EXCEPT !.active = s \in NamesOf(regs)]
                  ELSE NewSink(b, regs, s)],
     !.deliveries = InsertPending(@, Retained(b) \X NamesOf(regs))]
-----------------------------------------------------------------------------
(* Delivery: the worker's queries and updates.                             *)

\* Mutant: the oldest due row instead of the oldest row.
HeadsAmongDue(b) ==
  {k \in DOMAIN b.deliveries :
     /\ k[2] \in ActiveSinks(b)
     /\ b.deliveries[k].state \in Waiting
     /\ \A j \in DOMAIN b.deliveries :
          j[2] = k[2] /\ b.deliveries[j].state \in Waiting /\ b.deliveries[j].wait = 0
            => k[1] <= j[1]}

\* The oldest non-terminal row of each active sink, due or not.
Heads(b) ==
  {k \in DOMAIN b.deliveries :
     /\ k[2] \in ActiveSinks(b)
     /\ b.deliveries[k].state \in Waiting
     /\ \A j \in DOMAIN b.deliveries :
          j[2] = k[2] /\ b.deliveries[j].state \in Waiting => k[1] <= j[1]}

DueHeads(b) == {k \in Heads(b) : b.deliveries[k].wait = 0}

\* ORDER BY e.sequence, s.sink_id LIMIT 1
Before(b, k, j) ==
  k[1] < j[1] \/ (k[1] = j[1] /\ b.sinks[k[2]].id <= b.sinks[j[2]].id)
NextDueDelivery(b) ==
  {k \in DueHeads(b) : \A j \in DueHeads(b) : Before(b, k, j)}

\* Mutants: the row is updated whatever has become of it; whatever its attempts.
StillOwnedAnyhow(b, item) == item.key \in DOMAIN b.deliveries
StillOwnedByState(b, item) ==
  item.key \in DOMAIN b.deliveries /\ b.deliveries[item.key].state \in Waiting

\* The WHERE clause of MarkDelivered and MarkFailed.
StillOwned(b, item) ==
  /\ item.key \in DOMAIN b.deliveries
  /\ b.deliveries[item.key].attempts = item.attempts
  /\ b.deliveries[item.key].state \in Waiting

MarkDelivered(b, item) ==
  [b EXCEPT !.deliveries[item.key] =
     [@ EXCEPT !.state = "delivered", !.attempts = item.attempts + 1, !.age = 0]]

\* Mutant: the failed attempt is not counted.
MarkFailedUncounted(b, item, permanent, delay) ==
  [b EXCEPT !.deliveries[item.key] =
     [@ EXCEPT !.state = IF permanent THEN "dead_letter" ELSE "retry_wait",
               !.wait = IF permanent THEN 0 ELSE delay]]

MarkFailed(b, item, permanent, delay) ==
  [b EXCEPT !.deliveries[item.key] =
     [@ EXCEPT !.state = IF permanent THEN "dead_letter" ELSE "retry_wait",
               !.attempts = item.attempts + 1,
               !.wait = IF permanent THEN 0 ELSE delay]]

\* Mutant: a row that is waiting can be redriven too.
RedrivableWaiting(b, k) ==
  /\ k \in DOMAIN b.deliveries
  /\ b.deliveries[k].state # "delivered"
  /\ k[2] \in ActiveSinks(b)

Redrivable(b, k) ==
  /\ k \in DOMAIN b.deliveries
  /\ b.deliveries[k].state = "dead_letter"
  /\ k[2] \in ActiveSinks(b)
RedriveDelivery(b, k) ==
  [b EXCEPT !.deliveries[k] =
     [state |-> "retry_wait", attempts |-> 0, wait |-> 0, age |-> 0]]
-----------------------------------------------------------------------------
(* Retention: prune.go.  The cutoff lies "cutoff" before now.              *)

RowsOf(b, n) == {k \in DOMAIN b.deliveries : k[1] = n}

\* Mutant: terminal counts as delivered.
PrunableTerminal(b, cutoff) ==
  {n \in Retained(b) :
     /\ RowsOf(b, n) # {}
     /\ \A k \in RowsOf(b, n) :
          \/ b.deliveries[k].state = "dead_letter"
          \/ b.deliveries[k].state = "delivered" /\ b.deliveries[k].age > cutoff}

Prunable(b, cutoff) ==
  {n \in Retained(b) :
     /\ RowsOf(b, n) # {}
     /\ \A k \in RowsOf(b, n) :
          b.deliveries[k].state = "delivered" /\ b.deliveries[k].age > cutoff}

\* ORDER BY sequence LIMIT limit
PruneSelection(b, cutoff, limit) ==
  {n \in Prunable(b, cutoff) :
     Cardinality({m \in Prunable(b, cutoff) : m <= n}) <= limit}

Prune(b, selection) ==
  [b EXCEPT !.events = [n \in DOMAIN b.events |->
     [b.events[n] EXCEPT !.pruned = @ \/ n \in selection]]]
-----------------------------------------------------------------------------
(* One unit of time passes for every row.                                  *)

Elapse(b) ==
  [b EXCEPT !.deliveries = [k \in DOMAIN b.deliveries |->
     [b.deliveries[k] EXCEPT
        !.wait = IF @ > 0 THEN @ - 1 ELSE 0,
        !.age = IF b.deliveries[k].state = "delivered" /\ @ < MaxAge
                THEN @ + 1 ELSE @]]]
=============================================================================
