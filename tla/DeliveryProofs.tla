--------------------------- MODULE DeliveryProofs ---------------------------
(***************************************************************************)
(* Every step of Relay keeps the invariant of delivery: first the          *)
(* statements of the spool, then the actions.                              *)
(***************************************************************************)
EXTENDS RelayTypes

(* The statements of the spool.                                            *)

\* What was accepted stays accepted.
LEMMA AcceptedGrows ==
  ASSUME NEW b, NEW acc, NEW more, DatabaseInv(b, acc), acc \subseteq more
  PROVE  DatabaseInv(b, more)
  BY Zenon DEF DatabaseInv, DeliveredIsAcceptedIn

\* DatabaseInv and Adds do not speak of the checkpoint.
LEMMA SameTables ==
  ASSUME NEW b, NEW c, NEW acc,
         c.events = b.events, c.sinks = b.sinks, c.deliveries = b.deliveries
  PROVE  /\ DatabaseInv(b, acc) => DatabaseInv(c, acc)
         /\ Adds(b, c)
<1>1. ActiveSinks(c) = ActiveSinks(b) /\ Retained(c) = Retained(b)
  BY Zenon DEF ActiveSinks, Retained
<1>2. \A n : RowsOf(c, n) = RowsOf(b, n)
  BY Zenon DEF RowsOf
<1>3. DatabaseInv(b, acc) => DatabaseInv(c, acc)
  BY Zenon, <1>1, <1>2
  DEF DatabaseInv, EveryEventIsOwedIn, RemovedSinkIsIdleIn, PrunedIsDeliveredIn,
      DeliveredIsAcceptedIn
<1>4. Adds(b, c)
  BY Zenon DEF Adds
<1> QED
  BY Zenon, <1>3, <1>4

\* Rows that leave delivered rows delivered and wait only for active sinks.
MayReplace(rows, b, acc) ==
  /\ DOMAIN rows = DOMAIN b.deliveries
  /\ \A k \in DOMAIN rows :
       /\ AttemptRemains(rows[k])
       /\ rows[k].state = "delivered" => k \in acc
       /\ rows[k].state \in Waiting =>
            b.deliveries[k].state \in Waiting \/ k[2] \in ActiveSinks(b)
       /\ b.deliveries[k].state = "delivered" => rows[k].state = "delivered"

\* An update of rows: MarkDelivered, MarkFailed, RedriveDelivery, time.
LEMMA UpdateInv ==
  ASSUME NEW b, DbType(b), NEW acc, DatabaseInv(b, acc),
         NEW rows, MayReplace(rows, b, acc)
  PROVE  DatabaseInv([b EXCEPT !.deliveries = rows], acc)
<1> DEFINE c == [b EXCEPT !.deliveries = rows]
<1>1. c.events = b.events /\ c.sinks = b.sinks /\ c.deliveries = rows
  BY Zenon DEF DbType
<1> HIDE DEF c
<1>2. ActiveSinks(c) = ActiveSinks(b) /\ Retained(c) = Retained(b)
  BY Zenon, <1>1 DEF ActiveSinks, Retained
<1>3. \A n : RowsOf(c, n) = RowsOf(b, n)
  BY Zenon, <1>1 DEF RowsOf, MayReplace
<1>4. EveryEventIsOwedIn(c)
  BY Zenon, <1>1, <1>2 DEF DatabaseInv, EveryEventIsOwedIn, MayReplace
<1>5. RemovedSinkIsIdleIn(c)
  BY Zenon, <1>1, <1>2 DEF DatabaseInv, RemovedSinkIsIdleIn, MayReplace
<1>6. PrunedIsDeliveredIn(c)
  <2> SUFFICES ASSUME NEW n \in DOMAIN b.events, b.events[n].pruned
               PROVE  /\ RowsOf(b, n) # {}
                      /\ \A k \in RowsOf(b, n) : rows[k].state = "delivered"
    BY Zenon, <1>1, <1>3 DEF PrunedIsDeliveredIn
  <2>1. /\ RowsOf(b, n) # {}
        /\ \A k \in RowsOf(b, n) : b.deliveries[k].state = "delivered"
    BY Zenon DEF DatabaseInv, PrunedIsDeliveredIn
  <2>2. \A k \in RowsOf(b, n) : k \in DOMAIN rows
    BY Zenon DEF RowsOf, MayReplace
  <2> QED
    BY Zenon, <2>1, <2>2 DEF MayReplace
<1>7. DeliveredIsAcceptedIn(c, acc)
  BY Zenon, <1>1 DEF DeliveredIsAcceptedIn, MayReplace
<1>8. \A k \in DOMAIN c.deliveries : AttemptRemains(c.deliveries[k])
  BY Zenon, <1>1 DEF MayReplace
<1> QED
  BY Zenon, <1>4, <1>5, <1>6, <1>7, <1>8 DEF DatabaseInv, c

\* The same when one row changes that is not delivered yet.
LEMMA UpdateRowInv ==
  ASSUME NEW b, DbType(b), NEW acc, DatabaseInv(b, acc),
         NEW key \in DOMAIN b.deliveries, b.deliveries[key].state # "delivered",
         NEW row, AttemptRemains(row),
         row.state = "delivered" => key \in acc,
         row.state \in Waiting =>
           b.deliveries[key].state \in Waiting \/ key[2] \in ActiveSinks(b)
  PROVE  DatabaseInv([b EXCEPT !.deliveries = [b.deliveries EXCEPT ![key] = row]], acc)
<1> DEFINE rows == [b.deliveries EXCEPT ![key] = row]
<1>1. /\ DOMAIN rows = DOMAIN b.deliveries /\ rows[key] = row
      /\ \A k \in DOMAIN rows : k # key => rows[k] = b.deliveries[k]
  BY Zenon DEF DbType
<1> HIDE DEF rows
<1>2. MayReplace(rows, b, acc)
  <2> SUFFICES ASSUME NEW k \in DOMAIN rows
               PROVE  /\ AttemptRemains(rows[k])
                      /\ rows[k].state = "delivered" => k \in acc
                      /\ rows[k].state \in Waiting =>
                           b.deliveries[k].state \in Waiting \/ k[2] \in ActiveSinks(b)
                      /\ b.deliveries[k].state = "delivered" => rows[k].state = "delivered"
    BY Zenon, <1>1 DEF MayReplace
  <2>1. CASE k = key
    BY Zenon, <1>1, <2>1
  <2>2. CASE k # key
    BY Zenon, <1>1, <2>2 DEF DatabaseInv, DeliveredIsAcceptedIn
  <2> QED
    BY Zenon, <2>1, <2>2
<1>3. DatabaseInv([b EXCEPT !.deliveries = rows], acc)
  BY Zenon, <1>2, UpdateInv
<1> QED
  BY Zenon, <1>3 DEF rows

\* The row of a request that is being recorded.
LEMMA OwnedRow ==
  ASSUME NEW b, DbType(b), NEW item, StillOwned(b, item)
  PROVE  /\ item.key \in DOMAIN b.deliveries /\ b.deliveries[item.key] \in DeliveryRow
         /\ b.deliveries[item.key].state \in Waiting /\ item.attempts \in Nat
         /\ b.deliveries[item.key].state # "delivered"
  BY Zenon DEF DbType, StillOwned, DeliveryRow, Waiting

\* MarkDelivered records what was accepted.
LEMMA MarkDeliveredInv ==
  ASSUME NEW b, DbType(b), NEW acc, DatabaseInv(b, acc), NEW item, StillOwned(b, item),
         item.key \in acc
  PROVE  DatabaseInv(MarkDelivered(b, item), acc)
<1> DEFINE row == [b.deliveries[item.key] EXCEPT !.state = "delivered",
                     !.attempts = item.attempts + 1, !.age = 0]
<1>1. MarkDelivered(b, item) =
        [b EXCEPT !.deliveries = [b.deliveries EXCEPT ![item.key] = row]]
  BY Zenon DEF MarkDelivered
<1>2. row.state = "delivered"
  BY Zenon, OwnedRow DEF DeliveryRow
<1> HIDE DEF row
<1>3. row.state \notin Waiting
  BY Zenon, <1>2 DEF Waiting
<1>4. AttemptRemains(row)
  BY Zenon, <1>3 DEF AttemptRemains
<1>5. item.key \in DOMAIN b.deliveries /\ b.deliveries[item.key].state # "delivered"
  BY Zenon, OwnedRow
<1>6. DatabaseInv([b EXCEPT !.deliveries = [b.deliveries EXCEPT ![item.key] = row]], acc)
  BY Zenon, <1>3, <1>4, <1>5, UpdateRowInv
<1> QED
  BY Zenon, <1>1, <1>6

\* MarkFailed gives up in time, and a retry is due within max_delay.
LEMMA MarkFailedInv ==
  ASSUME NEW b, DbType(b), NEW acc, DatabaseInv(b, acc), NEW item, StillOwned(b, item),
         NEW permanent \in BOOLEAN, ~permanent => item.attempts + 1 < MaxAttempts,
         NEW delay \in Nat, delay <= MaxDelay
  PROVE  DatabaseInv(MarkFailed(b, item, permanent, delay), acc)
<1> DEFINE state == IF permanent THEN "dead_letter" ELSE "retry_wait"
           wait == IF permanent THEN 0 ELSE delay
           row == [b.deliveries[item.key] EXCEPT !.state = state,
                     !.attempts = item.attempts + 1, !.wait = wait]
<1>1. MarkFailed(b, item, permanent, delay) =
        [b EXCEPT !.deliveries = [b.deliveries EXCEPT ![item.key] = row]]
  BY Zenon DEF MarkFailed
<1> HIDE DEF state, wait
<1>2. row.state = state /\ row.attempts = item.attempts + 1 /\ row.wait = wait
  BY Zenon, OwnedRow DEF DeliveryRow
<1> HIDE DEF row
<1>3. /\ state # "delivered" /\ state # "pending"
      /\ state \in Waiting => ~permanent
  BY Zenon DEF state, Waiting
<1>4. ~permanent => wait <= MaxDelay
  BY Zenon DEF wait
<1>5. AttemptRemains(row)
  BY Zenon, <1>2, <1>3, <1>4 DEF AttemptRemains
<1>6. row.state # "delivered"
  BY Zenon, <1>2, <1>3
<1>7. /\ item.key \in DOMAIN b.deliveries /\ b.deliveries[item.key].state # "delivered"
      /\ b.deliveries[item.key].state \in Waiting
  BY Zenon, OwnedRow
<1>8. DatabaseInv([b EXCEPT !.deliveries = [b.deliveries EXCEPT ![item.key] = row]], acc)
  BY Zenon, <1>5, <1>6, <1>7, UpdateRowInv
<1> QED
  BY Zenon, <1>1, <1>8

\* RedriveDelivery gives a dead letter of an active sink all its attempts back.
LEMMA RedriveDeliveryInv ==
  ASSUME NEW b, DbType(b), NEW acc, DatabaseInv(b, acc), NEW key, Redrivable(b, key)
  PROVE  DatabaseInv(RedriveDelivery(b, key), acc)
<1> DEFINE row == [state |-> "retry_wait", attempts |-> 0, wait |-> 0, age |-> 0]
<1>1. RedriveDelivery(b, key) =
        [b EXCEPT !.deliveries = [b.deliveries EXCEPT ![key] = row]]
  BY Zenon DEF RedriveDelivery
<1>2. /\ key \in DOMAIN b.deliveries /\ key[2] \in ActiveSinks(b)
      /\ b.deliveries[key].state # "delivered"
  BY Zenon DEF Redrivable
<1>3. AttemptRemains(row) /\ row.state # "delivered"
  BY RetryAssumption DEF AttemptRemains
<1> HIDE DEF row
<1>4. DatabaseInv([b EXCEPT !.deliveries = [b.deliveries EXCEPT ![key] = row]], acc)
  BY Zenon, <1>2, <1>3, UpdateRowInv
<1> QED
  BY Zenon, <1>1, <1>4

\* Time brings retries nearer.
LEMMA ElapseInv ==
  ASSUME NEW b, DbType(b), NEW acc, DatabaseInv(b, acc)
  PROVE  DatabaseInv(Elapse(b), acc)
<1> DEFINE wait(r) == IF r.wait > 0 THEN r.wait - 1 ELSE 0
           age(r) == IF r.state = "delivered" /\ r.age < MaxAge THEN r.age + 1 ELSE r.age
           row(r) == [r EXCEPT !.wait = wait(r), !.age = age(r)]
           rows == [k \in DOMAIN b.deliveries |-> row(b.deliveries[k])]
<1>1. Elapse(b) = [b EXCEPT !.deliveries = rows]
  BY Zenon DEF Elapse
<1>2. ASSUME NEW r \in DeliveryRow
      PROVE  /\ row(r).state = r.state /\ row(r).attempts = r.attempts
             /\ row(r).wait = wait(r)
  <2> HIDE DEF wait, age
  <2> QED
    BY Zenon DEF DeliveryRow
<1>3. ASSUME NEW r \in DeliveryRow, r.wait <= MaxDelay
      PROVE  wait(r) <= MaxDelay
  BY <1>3, RetryAssumption DEF DeliveryRow
<1> HIDE DEF row, wait
<1>4. \A k \in DOMAIN b.deliveries : b.deliveries[k] \in DeliveryRow
  BY Zenon DEF DbType
<1>5. \A k \in DOMAIN b.deliveries : AttemptRemains(row(b.deliveries[k]))
  BY Zenon, <1>2, <1>3, <1>4 DEF DatabaseInv, AttemptRemains
<1>6. \A k \in DOMAIN b.deliveries : row(b.deliveries[k]).state = b.deliveries[k].state
  BY Zenon, <1>2, <1>4
<1>7. /\ DOMAIN rows = DOMAIN b.deliveries
      /\ \A k \in DOMAIN rows : rows[k] = row(b.deliveries[k])
  BY Zenon
<1> HIDE DEF rows
<1>8. MayReplace(rows, b, acc)
  BY Zenon, <1>5, <1>6, <1>7 DEF DatabaseInv, DeliveredIsAcceptedIn, MayReplace
<1> QED
  BY Zenon, <1>1, <1>8, UpdateInv

\* Prune clears payloads that nobody waits for.
LEMMA PruneInv ==
  ASSUME NEW b, DbType(b), NEW acc, DatabaseInv(b, acc),
         NEW cutoff, NEW selection, selection \subseteq Prunable(b, cutoff)
  PROVE  DatabaseInv(Prune(b, selection), acc)
<1> DEFINE c == Prune(b, selection)
<1>1. /\ c.sinks = b.sinks /\ c.deliveries = b.deliveries
      /\ c.events = [n \in DOMAIN b.events |->
                       [b.events[n] EXCEPT !.pruned = @ \/ n \in selection]]
  BY Zenon DEF Prune, DbType
<1>2. /\ DOMAIN c.events = DOMAIN b.events
      /\ \A n \in DOMAIN b.events :
           c.events[n].pruned <=> b.events[n].pruned \/ n \in selection
  <2>1. DOMAIN c.events = DOMAIN b.events
    BY Zenon, <1>1
  <2>2. ASSUME NEW n \in DOMAIN b.events
        PROVE  c.events[n].pruned <=> b.events[n].pruned \/ n \in selection
    <3>1. b.events[n] \in EventRow
      BY DEF DbType
    <3>2. c.events[n] = [b.events[n] EXCEPT !.pruned = @ \/ n \in selection]
      BY Zenon, <1>1
    <3> HIDE DEF c
    <3> QED
      BY Zenon, <3>1, <3>2 DEF EventRow
  <2> QED
    BY Zenon, <2>1, <2>2
<1> HIDE DEF c
<1>3. ActiveSinks(c) = ActiveSinks(b)
  BY Zenon, <1>1 DEF ActiveSinks
<1>4. \A n : RowsOf(c, n) = RowsOf(b, n)
  BY Zenon, <1>1 DEF RowsOf
<1>5. EveryEventIsOwedIn(c)
  <2>1. Retained(c) \subseteq Retained(b)
    BY Zenon, <1>2 DEF Retained
  <2> QED
    BY Zenon, <1>1, <1>3, <2>1 DEF DatabaseInv, EveryEventIsOwedIn
<1>6. RemovedSinkIsIdleIn(c)
  BY Zenon, <1>1, <1>3 DEF DatabaseInv, RemovedSinkIsIdleIn
<1>7. PrunedIsDeliveredIn(c)
  <2>1. \A n \in selection :
          /\ RowsOf(b, n) # {}
          /\ \A k \in RowsOf(b, n) : b.deliveries[k].state = "delivered"
    BY Zenon DEF Prunable
  <2>2. \A n \in DOMAIN b.events : b.events[n].pruned =>
          /\ RowsOf(b, n) # {}
          /\ \A k \in RowsOf(b, n) : b.deliveries[k].state = "delivered"
    BY Zenon DEF DatabaseInv, PrunedIsDeliveredIn
  <2>3. ASSUME NEW n \in DOMAIN c.events, c.events[n].pruned
        PROVE  /\ RowsOf(c, n) # {}
               /\ \A k \in RowsOf(c, n) : c.deliveries[k].state = "delivered"
    <3>1. /\ RowsOf(b, n) # {}
          /\ \A k \in RowsOf(b, n) : b.deliveries[k].state = "delivered"
      BY Zenon, <1>2, <2>1, <2>2, <2>3
    <3>2. RowsOf(c, n) = RowsOf(b, n) /\ c.deliveries = b.deliveries
      BY Zenon, <1>1, <1>4
    <3> QED
      BY Zenon, <3>1, <3>2
  <2> QED
    BY Zenon, <2>3 DEF PrunedIsDeliveredIn
<1>8. DeliveredIsAcceptedIn(c, acc) /\ \A k \in DOMAIN c.deliveries : AttemptRemains(c.deliveries[k])
  BY Zenon, <1>1 DEF DatabaseInv, DeliveredIsAcceptedIn
<1> QED
  BY Zenon, <1>5, <1>6, <1>7, <1>8 DEF DatabaseInv, c

\* INSERT ... ON CONFLICT DO NOTHING.
LEMMA InsertPendingRows ==
  ASSUME NEW rows, NEW keys
  PROVE  /\ DOMAIN InsertPending(rows, keys) = DOMAIN rows \cup keys
         /\ \A k \in DOMAIN rows : InsertPending(rows, keys)[k] = rows[k]
         /\ \A k \in keys \ DOMAIN rows : InsertPending(rows, keys)[k] = PendingRow
         /\ AttemptRemains(PendingRow) /\ PendingRow.state # "delivered"
<1>1. AttemptRemains(PendingRow) /\ PendingRow.state # "delivered"
  BY RetryAssumption DEF AttemptRemains, PendingRow
<1> QED
  BY Zenon, <1>1 DEF InsertPending

\* The sinks that ConfigureSinks leaves active are the configured ones.
LEMMA ConfiguredSinks ==
  ASSUME NEW b, DbType(b), NEW regs
  PROVE  /\ ActiveSinks(ConfigureSinks(b, regs)) = NamesOf(regs)
         /\ ConfigureSinks(b, regs).events = b.events
         /\ ConfigureSinks(b, regs).deliveries =
              InsertPending(b.deliveries, Retained(b) \X NamesOf(regs))
<1> DEFINE names == DOMAIN b.sinks \cup NamesOf(regs)
           row(s) == IF s \in DOMAIN b.sinks
                     THEN [b.sinks[s] EXCEPT !.active = s \in NamesOf(regs)]
                     ELSE NewSink(b, regs, s)
           sinks == [s \in names |-> row(s)]
           rows == InsertPending(b.deliveries, Retained(b) \X NamesOf(regs))
           c == ConfigureSinks(b, regs)
<1>1. c = [b EXCEPT !.sinks = sinks, !.deliveries = rows]
  BY Zenon DEF ConfigureSinks
<1>2. ASSUME NEW s \in names
      PROVE  row(s).active <=> s \in NamesOf(regs)
  <2>1. CASE s \in DOMAIN b.sinks
    <3>1. b.sinks[s] \in SinkRow
      BY Zenon, <2>1 DEF DbType
    <3>2. row(s) = [b.sinks[s] EXCEPT !.active = s \in NamesOf(regs)]
      BY Zenon, <2>1
    <3> HIDE DEF row
    <3> QED
      BY Zenon, <3>1, <3>2 DEF SinkRow
  <2>2. CASE s \notin DOMAIN b.sinks
    <3>1. row(s) = NewSink(b, regs, s)
      BY Zenon, <2>2
    <3>2. NewSink(b, regs, s).active
      BY Zenon DEF NewSink
    <3> HIDE DEF row
    <3> QED
      BY Zenon, <2>2, <3>1, <3>2
  <2> QED
    BY Zenon, <2>1, <2>2
<1> HIDE DEF row
<1>3. DOMAIN sinks = names /\ \A s \in names : sinks[s] = row(s)
  BY Zenon
<1> HIDE DEF sinks, rows, c
<1>4. c.events = b.events /\ c.sinks = sinks /\ c.deliveries = rows
  BY Zenon, <1>1 DEF DbType
<1>5. ActiveSinks(c) = NamesOf(regs)
  BY Zenon, <1>2, <1>3, <1>4 DEF ActiveSinks
<1> QED
  BY Zenon, <1>4, <1>5 DEF c, rows

\* ConfigureSinks owes every retained event to every configured sink and
\* removes only sinks that have nothing left.
LEMMA ConfigureSinksInv ==
  ASSUME NEW b, DbType(b), NEW acc, DatabaseInv(b, acc), NEW regs, SinksAccepted(b, regs)
  PROVE  DatabaseInv(ConfigureSinks(b, regs), acc)
<1> DEFINE names == NamesOf(regs)
           keys == Retained(b) \X names
           c == ConfigureSinks(b, regs)
<1>1. /\ ActiveSinks(c) = names /\ c.events = b.events
      /\ c.deliveries = InsertPending(b.deliveries, keys)
  BY Zenon, ConfiguredSinks
<1>5. /\ \A n \in Retained(b), s \in names : <<n, s>> \in keys
      /\ \A k \in keys : k[1] \in Retained(b) /\ k[2] \in names
  BY Zenon
<1> HIDE DEF keys, names
<1> DEFINE rows == InsertPending(b.deliveries, keys)
<1>0. /\ DOMAIN rows = DOMAIN b.deliveries \cup keys
      /\ \A k \in DOMAIN b.deliveries : rows[k] = b.deliveries[k]
      /\ \A k \in keys \ DOMAIN b.deliveries : rows[k] = PendingRow
      /\ AttemptRemains(PendingRow) /\ PendingRow.state # "delivered"
  BY Zenon, InsertPendingRows
<1> HIDE DEF c, rows
<1>2. /\ DOMAIN c.deliveries = DOMAIN b.deliveries \cup keys
      /\ \A k \in DOMAIN b.deliveries : c.deliveries[k] = b.deliveries[k]
      /\ \A k \in keys \ DOMAIN b.deliveries : c.deliveries[k] = PendingRow
      /\ AttemptRemains(PendingRow) /\ PendingRow.state # "delivered"
  <2>1. c.deliveries = rows
    BY Zenon, <1>1 DEF rows
  <2> QED
    BY Zenon, <1>0, <2>1
<1>3. Retained(c) = Retained(b)
  BY Zenon, <1>1 DEF Retained
<1>4. EveryEventIsOwedIn(c)
  BY Zenon, <1>1, <1>2, <1>3, <1>5 DEF EveryEventIsOwedIn
<1>6. RemovedSinkIsIdleIn(c)
  <2> SUFFICES ASSUME NEW k \in DOMAIN c.deliveries, c.deliveries[k].state \in Waiting
               PROVE  k[2] \in names
    BY Zenon, <1>1 DEF RemovedSinkIsIdleIn
  <2>1. CASE k \in DOMAIN b.deliveries
    BY Zenon, <1>2, <2>1 DEF DatabaseInv, RemovedSinkIsIdleIn, SinksAccepted, names
  <2>2. CASE k \notin DOMAIN b.deliveries
    BY Zenon, <1>2, <1>5, <2>2
  <2> QED
    BY Zenon, <2>1, <2>2
<1>7. PrunedIsDeliveredIn(c)
  <2> SUFFICES ASSUME NEW n \in DOMAIN b.events, b.events[n].pruned
               PROVE  /\ RowsOf(c, n) # {}
                      /\ \A k \in RowsOf(c, n) : c.deliveries[k].state = "delivered"
    BY Zenon, <1>1 DEF PrunedIsDeliveredIn
  <2>1. /\ RowsOf(b, n) # {}
        /\ \A k \in RowsOf(b, n) : b.deliveries[k].state = "delivered"
    BY Zenon DEF DatabaseInv, PrunedIsDeliveredIn
  <2>2. n \notin Retained(b)
    BY Zenon DEF Retained
  <2>3. RowsOf(c, n) = RowsOf(b, n)
    BY Zenon, <1>2, <1>5, <2>2 DEF RowsOf
  <2>4. \A k \in RowsOf(b, n) : k \in DOMAIN b.deliveries
    BY Zenon DEF RowsOf
  <2> QED
    BY Zenon, <1>2, <2>1, <2>3, <2>4
<1>8. DeliveredIsAcceptedIn(c, acc)
  BY Zenon, <1>2 DEF DatabaseInv, DeliveredIsAcceptedIn
<1>9. \A k \in DOMAIN c.deliveries : AttemptRemains(c.deliveries[k])
  BY Zenon, <1>2 DEF DatabaseInv
<1> QED
  BY Zenon, <1>4, <1>6, <1>7, <1>8, <1>9 DEF DatabaseInv, c

\* Adds composes.
LEMMA AddsTransitive ==
  ASSUME NEW b, NEW c, NEW e, Adds(b, c), Adds(c, e)
  PROVE  Adds(b, e)
  BY Zenon DEF Adds

\* The rows of an event that is not there yet.
LEMMA NewSequence ==
  ASSUME NEW b, DbType(b)
  PROVE  /\ Len(b.events) \in Nat /\ Len(b.events) + 1 \notin DOMAIN b.events
         /\ \A k \in DOMAIN b.deliveries : k[1] \in DOMAIN b.events
<1>1. b.events \in Seq(EventRow) /\ DOMAIN b.deliveries \subseteq (DOMAIN b.events) \X (DOMAIN b.sinks)
  BY Zenon DEF DbType
<1>2. Len(b.events) \in Nat /\ Len(b.events) + 1 \notin DOMAIN b.events
  BY <1>1
<1>3. \A k \in DOMAIN b.deliveries : k[1] \in DOMAIN b.events
  BY Zenon, <1>1
<1> QED
  BY Zenon, <1>2, <1>3

\* An event that is stored already changes nothing: its rows are there.
LEMMA SpoolStored ==
  ASSUME NEW b, DbType(b), NEW acc, DatabaseInv(b, acc), NEW e, NEW lsn,
         SequencesOf(b, e.id) # {}
  PROVE  SpoolEvent(b, e, lsn) = b
<1> DEFINE n == CHOOSE m \in SequencesOf(b, e.id) : TRUE
           keys == {n} \X ActiveSinks(b)
<1>1. SpoolEvent(b, e, lsn) = EnsureDeliveriesForEvent(b, n)
  BY Zenon DEF SpoolEvent, InsertOrVerify
<1>2. n \in DOMAIN b.events
  BY Zenon DEF SequencesOf
<1> HIDE DEF n
<1>3. CASE b.events[n].pruned
  BY Zenon, <1>1, <1>3 DEF EnsureDeliveriesForEvent
<1>4. CASE ~b.events[n].pruned
  <2>1. n \in Retained(b)
    BY Zenon, <1>2, <1>4 DEF Retained
  <2>2. \A s \in ActiveSinks(b) : <<n, s>> \in DOMAIN b.deliveries
    BY Zenon, <2>1 DEF DatabaseInv, EveryEventIsOwedIn
  <2>3. keys \subseteq DOMAIN b.deliveries
    BY <2>2
  <2>4. EnsureDeliveriesForEvent(b, n) =
          [b EXCEPT !.deliveries = InsertPending(b.deliveries, keys)]
    BY Zenon, <1>4 DEF EnsureDeliveriesForEvent
  <2> HIDE DEF keys
  <2>5. InsertPending(b.deliveries, keys) = [k \in DOMAIN b.deliveries |-> b.deliveries[k]]
    <3>1. DOMAIN b.deliveries \cup keys = DOMAIN b.deliveries
      BY Zenon, <2>3
    <3> QED
      BY Zenon, <3>1 DEF InsertPending
  <2>6. InsertPending(b.deliveries, keys) = b.deliveries
    BY Zenon, <2>5 DEF DbType
  <2>7. [b EXCEPT !.deliveries = b.deliveries] = b
    BY Zenon DEF DbType
  <2> QED
    BY Zenon, <1>1, <2>4, <2>6, <2>7
<1> QED
  BY Zenon, <1>3, <1>4

\* c is b with the event e as its n-th and the rows the event needs.
SpooledAs(b, e, lsn, n, c) ==
  /\ c.sinks = b.sinks /\ c.checkpoint = b.checkpoint
  /\ DOMAIN c.events = DOMAIN b.events \cup {n}
  /\ \A m \in DOMAIN b.events : c.events[m] = b.events[m]
  /\ c.events[n] = [id |-> e.id, digest |-> e.digest, lsn |-> lsn, at |-> e.at,
                    pruned |-> FALSE]
  /\ c.deliveries = InsertPending(b.deliveries, {n} \X ActiveSinks(b))

\* What SpoolEvent makes of a database that lacks the event.
LEMMA SpoolNew ==
  ASSUME NEW b, DbType(b), NEW lsn \in Nat,
         NEW e, e.id \in Identities, e.digest \in Digests, e.at \in Nat,
         SequencesOf(b, e.id) = {}
  PROVE  SpooledAs(b, e, lsn, Len(b.events) + 1, SpoolEvent(b, e, lsn))
<1> DEFINE c == SpoolEvent(b, e, lsn)
           n == Len(b.events) + 1
           row == [id |-> e.id, digest |-> e.digest, lsn |-> lsn, at |-> e.at,
                   pruned |-> FALSE]
           i == InsertOrVerify(b, e, lsn)
           seq == CHOOSE m \in SequencesOf(i, e.id) : TRUE
           rows == InsertPending(b.deliveries, {n} \X ActiveSinks(b))
<1>1. i = [b EXCEPT !.events = Append(b.events, row)]
  BY Zenon DEF InsertOrVerify
<1>2. row \in EventRow /\ row.id = e.id /\ ~row.pruned
  BY Zenon DEF EventRow
<1>3. c = EnsureDeliveriesForEvent(i, seq)
  BY Zenon DEF SpoolEvent
<1> HIDE DEF row, c
<1>4. /\ DOMAIN Append(b.events, row) = DOMAIN b.events \cup {n}
      /\ \A m \in DOMAIN b.events : Append(b.events, row)[m] = b.events[m]
      /\ Append(b.events, row)[n] = row
  <2>1. b.events \in Seq(EventRow)
    BY Zenon DEF DbType
  <2> QED
    BY <1>2, <2>1
<1> HIDE DEF i, seq
<1>5. i = [events |-> Append(b.events, row), sinks |-> b.sinks,
           deliveries |-> b.deliveries, checkpoint |-> b.checkpoint]
  BY Zenon, <1>1 DEF DbType
<1>6. /\ i.events = Append(b.events, row) /\ i.sinks = b.sinks
      /\ i.deliveries = b.deliveries /\ i.checkpoint = b.checkpoint
  BY Zenon, <1>5
<1>7. seq = n
  <2>1. SequencesOf(i, e.id) = {n}
    BY Zenon, <1>2, <1>4, <1>6 DEF SequencesOf
  <2> QED
    BY Zenon, <2>1 DEF seq
<1>8. ActiveSinks(i) = ActiveSinks(b)
  BY Zenon, <1>6 DEF ActiveSinks
<1>9. c = [i EXCEPT !.deliveries = rows]
  <2>1. ~i.events[n].pruned
    BY Zenon, <1>2, <1>4, <1>6
  <2> QED
    BY Zenon, <1>3, <1>6, <1>7, <1>8, <2>1 DEF EnsureDeliveriesForEvent
<1> HIDE DEF rows
<1>10. /\ c.events = i.events /\ c.sinks = i.sinks /\ c.checkpoint = i.checkpoint
       /\ c.deliveries = rows
  BY Zenon, <1>5, <1>9
<1> QED
  BY Zenon, <1>4, <1>6, <1>10 DEF SpooledAs, row, rows, c

\* Spooling one event adds it with its rows and keeps the rest.
LEMMA SpoolEventInv ==
  ASSUME NEW b, DbType(b), NEW acc, DatabaseInv(b, acc), NEW lsn \in Nat,
         NEW e, e.id \in Identities, e.digest \in Digests, e.at \in Nat
  PROVE  /\ DatabaseInv(SpoolEvent(b, e, lsn), acc)
         /\ Adds(b, SpoolEvent(b, e, lsn))
<1> DEFINE c == SpoolEvent(b, e, lsn)
           n == Len(b.events) + 1
           keys == {n} \X ActiveSinks(b)
           rows == InsertPending(b.deliveries, keys)
<1>1. CASE SequencesOf(b, e.id) # {}
  <2>1. c = b
    BY Zenon, <1>1, SpoolStored
  <2>2. Adds(b, b)
    BY Zenon DEF Adds
  <2> QED
    BY Zenon, <2>1, <2>2
<1>2. CASE SequencesOf(b, e.id) = {}
  <2>0. SpooledAs(b, e, lsn, n, c)
    BY Zenon, <1>2, SpoolNew
  <2>1. /\ c.sinks = b.sinks
        /\ DOMAIN c.events = DOMAIN b.events \cup {n}
        /\ \A m \in DOMAIN b.events : c.events[m] = b.events[m]
        /\ ~c.events[n].pruned
        /\ c.deliveries = rows
    <3> HIDE DEF c, n
    <3>1. c.events[n] = [id |-> e.id, digest |-> e.digest, lsn |-> lsn, at |-> e.at,
                         pruned |-> FALSE]
      BY Zenon, <2>0 DEF SpooledAs
    <3>2. ~c.events[n].pruned
      BY <3>1
    <3> QED
      BY Zenon, <2>0, <3>2 DEF SpooledAs
  <2>2. n \notin DOMAIN b.events /\ \A k \in DOMAIN b.deliveries : k[1] \in DOMAIN b.events
    BY Zenon, NewSequence
  <2>3. /\ \A s \in ActiveSinks(b) : <<n, s>> \in keys
        /\ \A k \in keys : k[1] = n /\ k[2] \in ActiveSinks(b)
    BY Zenon
  <2> HIDE DEF c, n, keys
  <2>4. /\ DOMAIN rows = DOMAIN b.deliveries \cup keys
        /\ \A k \in DOMAIN b.deliveries : rows[k] = b.deliveries[k]
        /\ \A k \in keys \ DOMAIN b.deliveries : rows[k] = PendingRow
        /\ AttemptRemains(PendingRow) /\ PendingRow.state # "delivered"
    BY Zenon, InsertPendingRows
  <2> HIDE DEF rows
  <2>5. /\ DOMAIN c.deliveries = DOMAIN b.deliveries \cup keys
        /\ \A k \in DOMAIN b.deliveries : c.deliveries[k] = b.deliveries[k]
        /\ \A k \in keys \ DOMAIN b.deliveries : c.deliveries[k] = PendingRow
    BY Zenon, <2>1, <2>4
  <2>6. ActiveSinks(c) = ActiveSinks(b)
    BY Zenon, <2>1 DEF ActiveSinks
  <2>7. Adds(b, c)
    BY Zenon, <2>1, <2>2, <2>3, <2>5 DEF Adds
  <2>8. EveryEventIsOwedIn(c)
    <3> SUFFICES ASSUME NEW m \in Retained(c), NEW s \in ActiveSinks(b)
                 PROVE  <<m, s>> \in DOMAIN c.deliveries
      BY Zenon, <2>6 DEF EveryEventIsOwedIn
    <3>1. CASE m = n
      BY Zenon, <2>3, <2>5, <3>1
    <3>2. CASE m # n
      <4>1. m \in Retained(b)
        BY Zenon, <2>1, <3>2 DEF Retained
      <4> QED
        BY Zenon, <2>5, <4>1 DEF DatabaseInv, EveryEventIsOwedIn
    <3> QED
      BY Zenon, <3>1, <3>2
  <2>9. RemovedSinkIsIdleIn(c)
    BY Zenon, <2>3, <2>5, <2>6 DEF DatabaseInv, RemovedSinkIsIdleIn
  <2>10. PrunedIsDeliveredIn(c)
    <3> SUFFICES ASSUME NEW m \in DOMAIN c.events, c.events[m].pruned
                 PROVE  /\ RowsOf(c, m) # {}
                        /\ \A k \in RowsOf(c, m) : c.deliveries[k].state = "delivered"
      BY Zenon DEF PrunedIsDeliveredIn
    <3>1. m \in DOMAIN b.events /\ b.events[m].pruned
      BY Zenon, <2>1
    <3>2. /\ RowsOf(b, m) # {}
          /\ \A k \in RowsOf(b, m) : b.deliveries[k].state = "delivered"
      BY Zenon, <3>1 DEF DatabaseInv, PrunedIsDeliveredIn
    <3>3. RowsOf(c, m) = RowsOf(b, m)
      BY Zenon, <2>2, <2>3, <2>5, <3>1 DEF RowsOf
    <3>4. \A k \in RowsOf(b, m) : k \in DOMAIN b.deliveries
      BY Zenon DEF RowsOf
    <3> QED
      BY Zenon, <2>5, <3>2, <3>3, <3>4
  <2>11. DeliveredIsAcceptedIn(c, acc)
    BY Zenon, <2>4, <2>5 DEF DatabaseInv, DeliveredIsAcceptedIn
  <2>12. \A k \in DOMAIN c.deliveries : AttemptRemains(c.deliveries[k])
    BY Zenon, <2>4, <2>5 DEF DatabaseInv
  <2> QED
    BY Zenon, <2>7, <2>8, <2>9, <2>10, <2>11, <2>12 DEF DatabaseInv, c
<1> QED
  BY Zenon, <1>1, <1>2
-----------------------------------------------------------------------------
(* What the statements keep.                                               *)

\* What is recorded is kept, and every result counts an attempt.
RowRecorded(r, s) == RowKept(r, s) /\ RowCounted(r, s)
Records(b, c) == Keeps(b, c) /\ Counts(b, c)

\* A row that is left alone.
LEMMA RowStays == \A r : RowRecorded(r, r)
  BY Zenon DEF RowRecorded, RowKept, RowCounted

\* What the spool records is kept, nothing is newly delivered, and a request in
\* flight stays in flight.
Preserves(b, c) ==
  /\ Records(b, c) /\ NewlyDelivered(b, c) = {}
  /\ \A item : InFlight(b, item) => InFlight(c, item)

\* A database keeps what it records.
LEMMA PreservesItself ==
  ASSUME NEW b
  PROVE  Preserves(b, b)
<1>1. Records(b, b)
  BY Zenon, RowStays DEF Records, Keeps, Counts, RowRecorded
<1>2. NewlyDelivered(b, b) = {}
  BY Zenon DEF NewlyDelivered
<1> QED
  BY Zenon, <1>1, <1>2 DEF Preserves

\* An update of rows that leaves finished deliveries alone.
LEMMA UpdateKeeps ==
  ASSUME NEW b, DbType(b), NEW rows, DOMAIN rows = DOMAIN b.deliveries,
         \A k \in DOMAIN rows : RowRecorded(b.deliveries[k], rows[k])
  PROVE  Records(b, [b EXCEPT !.deliveries = rows])
<1> DEFINE c == [b EXCEPT !.deliveries = rows]
<1>1. c.events = b.events /\ c.deliveries = rows
  BY Zenon DEF DbType
<1> HIDE DEF c
<1>2. Records(b, c)
  BY Zenon, <1>1 DEF Records, Keeps, Counts, RowRecorded
<1> QED
  BY Zenon, <1>2 DEF c

\* The same for one row.
LEMMA UpdateRowKeeps ==
  ASSUME NEW b, DbType(b), NEW key \in DOMAIN b.deliveries, NEW row,
         RowRecorded(b.deliveries[key], row)
  PROVE  Records(b, [b EXCEPT !.deliveries = [b.deliveries EXCEPT ![key] = row]])
<1> DEFINE rows == [b.deliveries EXCEPT ![key] = row]
<1>1. /\ DOMAIN rows = DOMAIN b.deliveries /\ rows[key] = row
      /\ \A k \in DOMAIN rows : k # key => rows[k] = b.deliveries[k]
  BY Zenon DEF DbType
<1> HIDE DEF rows
<1>2. \A k \in DOMAIN rows : RowRecorded(b.deliveries[k], rows[k])
  BY Zenon, <1>1, RowStays
<1>3. Records(b, [b EXCEPT !.deliveries = rows])
  BY Zenon, <1>1, <1>2, UpdateKeeps
<1> QED
  BY Zenon, <1>3 DEF rows

\* A waiting row is neither delivered nor a dead letter: the worker may record
\* the result of an attempt.
LEMMA WaitingIsOpen ==
  ASSUME NEW r, r.state \in Waiting, NEW s, s.attempts = r.attempts + 1
  PROVE  RowRecorded(r, s)
  BY Zenon DEF Waiting, RowRecorded, RowKept, RowCounted

\* MarkDelivered keeps what is recorded and delivers one row.
LEMMA MarkDeliveredKeeps ==
  ASSUME NEW b, DbType(b), NEW item, StillOwned(b, item)
  PROVE  /\ Records(b, MarkDelivered(b, item))
         /\ NewlyDelivered(b, MarkDelivered(b, item)) \subseteq {item.key}
<1> DEFINE row == [b.deliveries[item.key] EXCEPT !.state = "delivered",
                     !.attempts = item.attempts + 1, !.age = 0]
           rows == [b.deliveries EXCEPT ![item.key] = row]
<1>1. MarkDelivered(b, item) = [b EXCEPT !.deliveries = rows]
  BY Zenon DEF MarkDelivered
<1>2. /\ item.key \in DOMAIN b.deliveries /\ b.deliveries[item.key].state \in Waiting
      /\ row.attempts = b.deliveries[item.key].attempts + 1
  BY Zenon, OwnedRow DEF DeliveryRow, StillOwned
<1> HIDE DEF row
<1>3. Records(b, [b EXCEPT !.deliveries = rows])
  BY Zenon, <1>2, WaitingIsOpen, UpdateRowKeeps
<1>4. [b EXCEPT !.deliveries = rows].deliveries = rows
  BY Zenon DEF DbType
<1>5. \A k \in DOMAIN b.deliveries : k # item.key => rows[k] = b.deliveries[k]
  BY Zenon DEF DbType
<1> HIDE DEF rows
<1>6. MarkDelivered(b, item).deliveries = rows
  BY Zenon, <1>1, <1>4
<1> QED
  BY Zenon, <1>1, <1>3, <1>5, <1>6 DEF NewlyDelivered

\* MarkFailed keeps what is recorded and delivers nothing.
LEMMA MarkFailedKeeps ==
  ASSUME NEW b, DbType(b), NEW item, StillOwned(b, item), NEW permanent \in BOOLEAN,
         NEW delay
  PROVE  /\ Records(b, MarkFailed(b, item, permanent, delay))
         /\ NewlyDelivered(b, MarkFailed(b, item, permanent, delay)) = {}
<1> DEFINE state == IF permanent THEN "dead_letter" ELSE "retry_wait"
           wait == IF permanent THEN 0 ELSE delay
           row == [b.deliveries[item.key] EXCEPT !.state = state,
                     !.attempts = item.attempts + 1, !.wait = wait]
           rows == [b.deliveries EXCEPT ![item.key] = row]
<1>1. MarkFailed(b, item, permanent, delay) = [b EXCEPT !.deliveries = rows]
  BY Zenon DEF MarkFailed
<1>2. item.key \in DOMAIN b.deliveries /\ b.deliveries[item.key].state \in Waiting
  BY Zenon, OwnedRow
<1>3. state # "delivered"
  BY Zenon
<1> HIDE DEF state, wait
<1>4. row.state = state /\ row.attempts = b.deliveries[item.key].attempts + 1
  BY Zenon, OwnedRow DEF DeliveryRow, StillOwned
<1> HIDE DEF row
<1>5. Records(b, [b EXCEPT !.deliveries = rows])
  BY Zenon, <1>2, <1>4, WaitingIsOpen, UpdateRowKeeps
<1>6. [b EXCEPT !.deliveries = rows].deliveries = rows
  BY Zenon DEF DbType
<1>7. /\ rows[item.key] = row
      /\ \A k \in DOMAIN b.deliveries : k # item.key => rows[k] = b.deliveries[k]
  BY Zenon, <1>2 DEF DbType
<1> HIDE DEF rows
<1>8. MarkFailed(b, item, permanent, delay).deliveries = rows
  BY Zenon, <1>1, <1>6
<1> QED
  BY Zenon, <1>1, <1>3, <1>4, <1>5, <1>7, <1>8 DEF NewlyDelivered

\* A row is left as it is but for the time, or a dead letter is redriven.
Undisturbed(r, s) ==
  \/ s.state = r.state /\ s.attempts = r.attempts /\ RowCounted(r, s)
  \/ r.state = "dead_letter" /\ s.state = "retry_wait" /\ s.attempts = 0

\* What an undisturbed row keeps.
LEMMA UndisturbedKeeps ==
  ASSUME NEW r, NEW s, Undisturbed(r, s)
  PROVE  /\ RowRecorded(r, s)
         /\ s.state = "delivered" => r.state = "delivered"
         /\ r.state \in Waiting => s.state \in Waiting /\ s.attempts = r.attempts
         /\ s.state \in Waiting =>
              \/ r.state \in Waiting /\ s.state = r.state /\ s.attempts = r.attempts
              \/ s.state = "retry_wait" /\ s.attempts = 0
  BY Zenon DEF Undisturbed, RowRecorded, RowKept, RowCounted, Waiting

\* Neither redrive nor time disturbs a request in flight.
LEMMA UndisturbedPreserves ==
  ASSUME NEW b, DbType(b), NEW rows, DOMAIN rows = DOMAIN b.deliveries,
         \A k \in DOMAIN rows : Undisturbed(b.deliveries[k], rows[k])
  PROVE  Preserves(b, [b EXCEPT !.deliveries = rows])
<1> DEFINE c == [b EXCEPT !.deliveries = rows]
<1>1. c.deliveries = rows
  BY Zenon DEF DbType
<1>2. \A k \in DOMAIN rows :
        /\ RowRecorded(b.deliveries[k], rows[k])
        /\ rows[k].state = "delivered" => b.deliveries[k].state = "delivered"
        /\ b.deliveries[k].state \in Waiting =>
             rows[k].state \in Waiting /\ rows[k].attempts = b.deliveries[k].attempts
        /\ rows[k].state \in Waiting =>
             \/ /\ b.deliveries[k].state \in Waiting
                /\ rows[k].state = b.deliveries[k].state
                /\ rows[k].attempts = b.deliveries[k].attempts
             \/ rows[k].state = "retry_wait" /\ rows[k].attempts = 0
  BY Zenon, UndisturbedKeeps
<1>3. Records(b, c)
  BY Zenon, <1>2, UpdateKeeps
<1> HIDE DEF c
<1>4. NewlyDelivered(b, c) = {}
  BY Zenon, <1>1, <1>2 DEF NewlyDelivered
<1>5. ASSUME NEW item, InFlight(b, item) PROVE InFlight(c, item)
  <2>1. StillOwned(c, item)
    BY Zenon, <1>1, <1>2, <1>5 DEF InFlight, StillOwned
  <2>2. OnlyRedrivenBefore(c, item.key)
    <3> SUFFICES ASSUME NEW j \in DOMAIN rows, j[2] = item.key[2], j[1] < item.key[1],
                        rows[j].state \in Waiting
                 PROVE  rows[j].state = "retry_wait" /\ rows[j].attempts = 0
      BY Zenon, <1>1 DEF OnlyRedrivenBefore
    <3> QED
      BY Zenon, <1>2, <1>5 DEF InFlight, OnlyRedrivenBefore
  <2> QED
    BY Zenon, <2>1, <2>2 DEF InFlight
<1>6. Preserves(b, c)
  BY Zenon, <1>3, <1>4, <1>5 DEF Preserves
<1> QED
  BY Zenon, <1>6 DEF c

\* RedriveDelivery changes a dead letter, which nobody has in flight.
LEMMA RedrivePreserves ==
  ASSUME NEW b, DbType(b), NEW key, Redrivable(b, key)
  PROVE  Preserves(b, RedriveDelivery(b, key))
<1> DEFINE row == [state |-> "retry_wait", attempts |-> 0, wait |-> 0, age |-> 0]
           rows == [b.deliveries EXCEPT ![key] = row]
<1>1. RedriveDelivery(b, key) = [b EXCEPT !.deliveries = rows]
  BY Zenon DEF RedriveDelivery
<1>2. /\ key \in DOMAIN b.deliveries /\ b.deliveries[key].state = "dead_letter"
      /\ row.state = "retry_wait" /\ row.attempts = 0
  BY Zenon DEF Redrivable
<1> HIDE DEF row
<1>3. /\ DOMAIN rows = DOMAIN b.deliveries /\ rows[key] = row
      /\ \A k \in DOMAIN rows : k # key => rows[k] = b.deliveries[k]
  BY Zenon, <1>2 DEF DbType
<1> HIDE DEF rows
<1>4. \A k \in DOMAIN rows : Undisturbed(b.deliveries[k], rows[k])
  BY Zenon, <1>2, <1>3 DEF Undisturbed, RowCounted
<1>5. Preserves(b, [b EXCEPT !.deliveries = rows])
  BY Zenon, <1>3, <1>4, UndisturbedPreserves
<1> QED
  BY Zenon, <1>1, <1>5

\* Time changes neither states nor attempts.
LEMMA ElapsePreserves ==
  ASSUME NEW b, DbType(b)
  PROVE  Preserves(b, Elapse(b))
<1> DEFINE wait(r) == IF r.wait > 0 THEN r.wait - 1 ELSE 0
           age(r) == IF r.state = "delivered" /\ r.age < MaxAge THEN r.age + 1 ELSE r.age
           row(r) == [r EXCEPT !.wait = wait(r), !.age = age(r)]
           rows == [k \in DOMAIN b.deliveries |-> row(b.deliveries[k])]
<1>1. Elapse(b) = [b EXCEPT !.deliveries = rows]
  BY Zenon DEF Elapse
<1>2. ASSUME NEW r \in DeliveryRow
      PROVE  row(r).state = r.state /\ row(r).attempts = r.attempts /\ RowCounted(r, row(r))
  <2>1. (r.wait = 0 /\ wait(r) = 0) \/ wait(r) < r.wait
    BY DEF DeliveryRow
  <2>2. r.state \in Waiting => age(r) = r.age
    BY Zenon DEF Waiting
  <2> HIDE DEF wait, age
  <2>3. /\ row(r).state = r.state /\ row(r).attempts = r.attempts
        /\ row(r).wait = wait(r) /\ row(r).age = age(r)
    BY Zenon DEF DeliveryRow
  <2>4. r.state \in Waiting /\ r.wait = wait(r) => row(r) = r
    BY Zenon, <2>2 DEF DeliveryRow
  <2> HIDE DEF row
  <2> QED
    BY Zenon, <2>1, <2>3, <2>4 DEF RowCounted
<1> HIDE DEF row
<1>3. \A k \in DOMAIN b.deliveries : b.deliveries[k] \in DeliveryRow
  BY Zenon DEF DbType
<1>4. /\ DOMAIN rows = DOMAIN b.deliveries
      /\ \A k \in DOMAIN rows : rows[k] = row(b.deliveries[k])
  BY Zenon
<1> HIDE DEF rows
<1>5. \A k \in DOMAIN rows : Undisturbed(b.deliveries[k], rows[k])
  BY Zenon, <1>2, <1>3, <1>4 DEF Undisturbed
<1>6. Preserves(b, [b EXCEPT !.deliveries = rows])
  BY Zenon, <1>4, <1>5, UndisturbedPreserves
<1> QED
  BY Zenon, <1>1, <1>6

\* Prune removes payloads and nothing else.
LEMMA PrunePreserves ==
  ASSUME NEW b, DbType(b), NEW selection
  PROVE  Preserves(b, Prune(b, selection))
<1> DEFINE c == Prune(b, selection)
<1>1. /\ c.deliveries = b.deliveries
      /\ c.events = [n \in DOMAIN b.events |->
                       [b.events[n] EXCEPT !.pruned = @ \/ n \in selection]]
  BY Zenon DEF Prune, DbType
<1> HIDE DEF c
<1>2. ASSUME NEW n \in DOMAIN b.events
      PROVE  /\ n \in DOMAIN c.events
             /\ [b.events[n] EXCEPT !.pruned = TRUE] = [c.events[n] EXCEPT !.pruned = TRUE]
             /\ b.events[n].pruned => c.events[n].pruned
  <2>1. b.events[n] \in EventRow
    BY DEF DbType
  <2>2. n \in DOMAIN c.events
    BY Zenon, <1>1
  <2>3. c.events[n] = [b.events[n] EXCEPT !.pruned = @ \/ n \in selection]
    BY Zenon, <1>1
  <2>4. [b.events[n] EXCEPT !.pruned = TRUE] = [c.events[n] EXCEPT !.pruned = TRUE]
    BY Zenon, <2>1, <2>3 DEF EventRow
  <2>5. b.events[n].pruned => c.events[n].pruned
    BY Zenon, <2>1, <2>3 DEF EventRow
  <2> QED
    BY Zenon, <2>2, <2>4, <2>5
<1>3. \A r : RowKept(r, r) /\ RowCounted(r, r)
  BY Zenon, RowStays DEF RowRecorded
<1>4. Records(b, c)
  BY Zenon, <1>1, <1>2, <1>3 DEF Records, Keeps, Counts
<1>5. NewlyDelivered(b, c) = {}
  BY Zenon, <1>1 DEF NewlyDelivered
<1>6. \A item : InFlight(b, item) => InFlight(c, item)
  BY Zenon, <1>1 DEF InFlight, StillOwned, OnlyRedrivenBefore
<1> QED
  BY Zenon, <1>4, <1>5, <1>6 DEF Preserves, c

\* New events follow every row that is in flight.
LEMMA AddsPreserves ==
  ASSUME NEW b, DbType(b), NEW c, DbType(c), Adds(b, c)
  PROVE  Preserves(b, c)
<1>1. \A r : RowKept(r, r) /\ RowCounted(r, r)
  BY Zenon, RowStays DEF RowRecorded
<1>2. Records(b, c)
  BY Zenon, <1>1 DEF Adds, Records, Keeps, Counts
<1>3. NewlyDelivered(b, c) = {}
  BY Zenon DEF Adds, NewlyDelivered
<1>4. ASSUME NEW item, InFlight(b, item) PROVE InFlight(c, item)
  <2>1. StillOwned(c, item)
    BY Zenon, <1>4 DEF InFlight, StillOwned, Adds
  <2>2. ASSUME NEW j \in DOMAIN c.deliveries, j[1] < item.key[1]
        PROVE  j \in DOMAIN b.deliveries
    <3>1. item.key \in DOMAIN b.deliveries
      BY Zenon, <1>4 DEF InFlight, StillOwned
    <3>2. item.key[1] \in DOMAIN b.events
      BY Zenon, <3>1, NewSequence
    <3>3. j[1] \in DOMAIN c.events
      BY Zenon, <2>2, NewSequence
    <3>4. b.events \in Seq(EventRow) /\ c.events \in Seq(EventRow)
      BY Zenon DEF DbType
    <3>5. j[1] \in DOMAIN b.events
      BY <2>2, <3>2, <3>3, <3>4
    <3> QED
      BY Zenon, <2>2, <3>5 DEF Adds
  <2>3. OnlyRedrivenBefore(c, item.key)
    <3> SUFFICES ASSUME NEW j \in DOMAIN c.deliveries, j[2] = item.key[2],
                        j[1] < item.key[1], c.deliveries[j].state \in Waiting
                 PROVE  c.deliveries[j].state = "retry_wait" /\ c.deliveries[j].attempts = 0
      BY Zenon DEF OnlyRedrivenBefore
    <3>1. j \in DOMAIN b.deliveries /\ c.deliveries[j] = b.deliveries[j]
      BY Zenon, <2>2 DEF Adds
    <3> QED
      BY Zenon, <1>4, <3>1 DEF InFlight, OnlyRedrivenBefore
  <2> QED
    BY Zenon, <2>1, <2>3 DEF InFlight
<1> QED
  BY Zenon, <1>2, <1>3, <1>4 DEF Preserves

\* ConfigureSinks adds rows and keeps those that are there.
LEMMA ConfigureSinksKeeps ==
  ASSUME NEW b, DbType(b), NEW regs
  PROVE  /\ Records(b, ConfigureSinks(b, regs))
         /\ NewlyDelivered(b, ConfigureSinks(b, regs)) = {}
<1> DEFINE c == ConfigureSinks(b, regs)
           keys == Retained(b) \X NamesOf(regs)
<1>1. c.events = b.events /\ c.deliveries = InsertPending(b.deliveries, keys)
  BY Zenon, ConfiguredSinks
<1> HIDE DEF c, keys
<1>2. /\ DOMAIN b.deliveries \subseteq DOMAIN c.deliveries
      /\ \A k \in DOMAIN b.deliveries : c.deliveries[k] = b.deliveries[k]
  <2> DEFINE rows == InsertPending(b.deliveries, keys)
  <2>1. /\ DOMAIN rows = DOMAIN b.deliveries \cup keys
        /\ \A k \in DOMAIN b.deliveries : rows[k] = b.deliveries[k]
    BY Zenon, InsertPendingRows
  <2>2. c.deliveries = rows
    BY Zenon, <1>1
  <2> HIDE DEF rows
  <2> QED
    BY Zenon, <2>1, <2>2
<1>3. \A r : RowKept(r, r) /\ RowCounted(r, r)
  BY Zenon, RowStays DEF RowRecorded
<1>4. Records(b, c)
  BY Zenon, <1>1, <1>2, <1>3 DEF Records, Keeps, Counts
<1>5. NewlyDelivered(b, c) = {}
  BY Zenon, <1>2 DEF NewlyDelivered
<1> QED
  BY Zenon, <1>4, <1>5 DEF c
-----------------------------------------------------------------------------
(* The actions.                                                            *)

\* What every step does: the invariant is kept and so is what is recorded, and
\* with one daemon the row in flight stays, and is not overtaken.
Delivers ==
  /\ DeliveryInv' /\ Records(db, db')
  /\ SingleDaemon /\ FlightInv =>
       FlightInv' /\ \A k \in NewlyDelivered(db, db') : OnlyRedrivenBefore(db, k)

\* The worker starts no request.
StartsNothing(w, v) ==
  v.pc \in {"send", "record"} => w.pc \in {"send", "record"} /\ v.item = w.item

\* A step that starts no request and leaves those in flight alone.
LEMMA PreservingStep ==
  ASSUME DeliveryInv', Preserves(db, db'),
         \A d \in Daemons : StartsNothing(wrk[d], wrk'[d])
  PROVE  Delivers
<1>1. FlightInv => FlightInv'
  BY Zenon DEF FlightInv, Preserves, StartsNothing
<1> QED
  BY Zenon, <1>1 DEF Delivers, Preserves

\* A worker that sends nothing.
LEMMA RestingWorker ==
  ASSUME NEW pc \in {"off", "idle"}, NEW acc, NEW w
  PROVE  /\ RequestInv(Worker(pc), acc) /\ StartsNothing(w, Worker(pc))
         /\ Worker(pc).pc \notin {"send", "record"}
<1>1. Worker(pc).pc \notin {"send", "record"} /\ ~Worker(pc).accepted
  BY Zenon DEF Worker
<1> QED
  BY Zenon, <1>1 DEF RequestInv, StartsNothing

\* The workers of a step that puts at most one of them to rest.
LEMMA RestingWorkers ==
  ASSUME TypeOK, DeliveryInv, accepted' = accepted, NEW d \in Daemons,
         NEW pc \in {"off", "idle"},
         wrk' = wrk \/ wrk' = [wrk EXCEPT ![d] = Worker(pc)]
  PROVE  \A q \in Daemons : /\ RequestInv(wrk'[q], accepted')
                            /\ StartsNothing(wrk[q], wrk'[q])
<1> SUFFICES ASSUME NEW q \in Daemons
             PROVE  RequestInv(wrk'[q], accepted) /\ StartsNothing(wrk[q], wrk'[q])
  BY Zenon
<1>1. wrk'[q] = wrk[q] \/ wrk'[q] = Worker(pc)
  BY Zenon DEF TypeOK, DeliveryType
<1>2. RequestInv(wrk[q], accepted) /\ StartsNothing(wrk[q], wrk[q])
  BY Zenon DEF DeliveryInv, StartsNothing
<1>3. RequestInv(Worker(pc), accepted) /\ StartsNothing(wrk[q], Worker(pc))
  BY Zenon, RestingWorker
<1> QED
  BY Zenon, <1>1, <1>2, <1>3

\* The database stays, and a transaction stays or is lost.
LeavesDatabase ==
  /\ db' = db /\ accepted' = accepted
  /\ \/ UNCHANGED <<tx, lock>>
     \/ UNCHANGED tx /\ lock' \notin Daemons
     \/ UNCHANGED lock /\ \A d \in Daemons : tx'[d] = tx[d] \/ tx'[d] = NoTx
     \/ \E d \in Daemons : Rollback(d)

\* Such a step keeps the invariant.
LEMMA LeavesDatabaseInv ==
  ASSUME TypeOK, DeliveryInv, LeavesDatabase,
         \A q \in Daemons : RequestInv(wrk'[q], accepted')
  PROVE  DeliveryInv'
<1>1. DatabaseInv(db', accepted')
  BY Zenon DEF DeliveryInv, LeavesDatabase
<1>2. ASSUME NEW q \in Daemons
      PROVE  TxInv(tx'[q], db', accepted', lock' = q)
  <2>1. \/ tx'[q] = tx[q] /\ (lock' = q => lock = q)
        \/ tx'[q] = NoTx
    <3>1. CASE \/ UNCHANGED <<tx, lock>>
               \/ UNCHANGED tx /\ lock' \notin Daemons
               \/ UNCHANGED lock /\ \A d \in Daemons : tx'[d] = tx[d] \/ tx'[d] = NoTx
      BY Zenon, <3>1
    <3>2. ASSUME NEW d \in Daemons, Rollback(d)
          PROVE  (tx'[q] = tx[q] /\ (lock' = q => lock = q)) \/ tx'[q] = NoTx
      <4>1. tx' = [tx EXCEPT ![d] = NoTx] /\ (lock' = Nobody \/ lock' = lock)
        BY Zenon, <3>2 DEF Rollback
      <4>2. q # Nobody
        BY Zenon, ProcessAssumption
      <4> QED
        BY Zenon, <4>1, <4>2 DEF TypeOK, DaemonType
    <3> QED
      BY Zenon, <3>1, <3>2 DEF LeavesDatabase
  <2>2. TxInv(tx[q], db, accepted, lock = q)
    BY Zenon DEF DeliveryInv
  <2>3. ~NoTx.open
    BY Zenon DEF NoTx
  <2> QED
    BY Zenon, <2>1, <2>2, <2>3 DEF TxInv, LeavesDatabase
<1> QED
  BY Zenon, <1>1, <1>2 DEF DeliveryInv

\* The steps of PostgreSQL, the replicator and the processes that neither write
\* nor open a transaction.
LEMMA QuietSteps ==
  ASSUME TypeOK, DeliveryInv, LeavesDatabase, NEW d \in Daemons, NEW pc \in {"off", "idle"},
         wrk' = wrk \/ wrk' = [wrk EXCEPT ![d] = Worker(pc)]
  PROVE  Delivers
<1>1. \A q \in Daemons : /\ RequestInv(wrk'[q], accepted')
                         /\ StartsNothing(wrk[q], wrk'[q])
  BY Zenon, RestingWorkers DEF LeavesDatabase
<1>2. DeliveryInv'
  BY Zenon, <1>1, LeavesDatabaseInv
<1>3. Preserves(db, db')
  BY Zenon, PreservesItself DEF LeavesDatabase
<1> QED
  BY Zenon, <1>1, <1>2, <1>3, PreservingStep

\* SELECT, the request and its answer.
LEMMA SendDelivers ==
  ASSUME TypeOK, DeliveryInv, NEW d \in Daemons,
         \/ SelectNext(d) \/ Accept(d) \/ StopWorker(d) \/ RecordFails(d) \/ StoreFails(d)
         \/ \E result \in Results \ {"none"} : SendReturns(d, result)
  PROVE  Delivers
<1>0. wrk \in [Daemons -> WorkerType] /\ wrk[d] \in WorkerType
  BY Zenon DEF TypeOK, DeliveryType
<1>1. CASE SelectNext(d)
  <2>1. PICK k \in NextDueDelivery(db) :
          \/ wrk' = [wrk EXCEPT ![d] =
               [Worker("send") EXCEPT
                  !.item = [key |-> k, attempts |-> db.deliveries[k].attempts]]]
          \/ wrk' = [wrk EXCEPT ![d] = Worker("off")]
    BY Zenon, <1>1 DEF SelectNext
  <2>2. LeavesDatabase
    BY Zenon, <1>1 DEF SelectNext, LeavesDatabase
  <2>3. CASE wrk' = [wrk EXCEPT ![d] = Worker("off")]
    BY Zenon, <2>2, <2>3, QuietSteps
  <2> DEFINE item == [key |-> k, attempts |-> db.deliveries[k].attempts]
             w == [Worker("send") EXCEPT !.item = item]
  <2>4. CASE wrk' = [wrk EXCEPT ![d] = w]
    <3>1. item.key = k /\ item.attempts = db.deliveries[k].attempts
      BY Zenon
    <3> HIDE DEF item
    <3>2. w.item = item /\ w.pc = "send" /\ ~w.accepted
      BY Zenon DEF Worker
    <3>3. RequestInv(w, accepted)
      BY Zenon, <3>2 DEF RequestInv
    <3>4. InFlight(db, item)
      <4>1. k \in Heads(db)
        BY Zenon DEF NextDueDelivery, DueHeads
      <4>2. StillOwned(db, item)
        BY Zenon, <3>1, <4>1 DEF StillOwned, Heads
      <4>3. ASSUME NEW j \in DOMAIN db.deliveries, j[2] = k[2], j[1] < k[1],
                   db.deliveries[j].state \in Waiting
            PROVE  FALSE
        <5>1. k[1] <= j[1] /\ k \in DOMAIN db.deliveries
          BY Zenon, <4>1, <4>3 DEF Heads
        <5>2. k[1] \in DOMAIN db.events /\ j[1] \in DOMAIN db.events
          BY Zenon, <4>3, <5>1, NewSequence DEF TypeOK, DaemonType
        <5>3. db.events \in Seq(EventRow)
          BY Zenon DEF TypeOK, DaemonType, DbType
        <5> QED
          BY <4>3, <5>1, <5>2, <5>3
      <4>4. OnlyRedrivenBefore(db, k)
        BY Zenon, <4>3 DEF OnlyRedrivenBefore
      <4> QED
        BY Zenon, <3>1, <4>2, <4>4 DEF InFlight
    <3> HIDE DEF w
    <3>5. \A q \in Daemons : wrk'[q] = w \/ wrk'[q] = wrk[q]
      BY Zenon, <1>0, <2>4
    <3>6. accepted' = accepted /\ db' = db
      BY Zenon, <2>2 DEF LeavesDatabase
    <3>7. \A q \in Daemons : RequestInv(wrk'[q], accepted')
      BY Zenon, <3>3, <3>5, <3>6 DEF DeliveryInv
    <3>8. DeliveryInv'
      BY Zenon, <2>2, <3>7, LeavesDatabaseInv
    <3>9. Preserves(db, db')
      BY Zenon, <3>6, PreservesItself
    <3>10. FlightInv => FlightInv'
      BY Zenon, <3>2, <3>4, <3>5, <3>6 DEF FlightInv
    <3> QED
      BY Zenon, <3>8, <3>9, <3>10 DEF Delivers, Preserves
  <2> QED
    BY Zenon, <2>1, <2>3, <2>4
<1>2. CASE Accept(d)
  <2> DEFINE w == [wrk[d] EXCEPT !.accepted = TRUE]
             key == wrk[d].item.key
  <2>1. w.item.key = key /\ w.item = wrk[d].item /\ w.pc = wrk[d].pc /\ w.accepted
    BY Zenon, <1>0 DEF WorkerType
  <2>2. wrk' = [wrk EXCEPT ![d] = w]
    BY Zenon, <1>2 DEF Accept
  <2>3. wrk[d].pc = "send" /\ accepted' = accepted \cup {key} /\ UNCHANGED <<db, tx, lock>>
    BY Zenon, <1>2 DEF Accept
  <2> HIDE DEF w, key
  <2>4. accepted \subseteq accepted' /\ key \in accepted'
    BY Zenon, <2>3
  <2>5. \A q \in Daemons : wrk'[q] = w \/ wrk'[q] = wrk[q]
    BY Zenon, <1>0, <2>2
  <2>6. wrk'[d] = w /\ \A q \in Daemons : q # d => wrk'[q] = wrk[q]
    BY Zenon, <1>0, <2>2
  <2>7. RequestInv(w, accepted')
    BY Zenon, <2>1, <2>4 DEF RequestInv
  <2>8. \A q \in Daemons : RequestInv(wrk[q], accepted')
    BY Zenon, <2>4 DEF DeliveryInv, RequestInv
  <2>9. DatabaseInv(db', accepted')
    BY Zenon, <2>3, <2>4, AcceptedGrows DEF DeliveryInv
  <2>10. \A q \in Daemons : TxInv(tx'[q], db', accepted', lock' = q)
    <3>1. \A q \in Daemons : TxInv(tx[q], db, accepted, lock = q)
      BY Zenon DEF DeliveryInv
    <3>2. \A b : DatabaseInv(b, accepted) => DatabaseInv(b, accepted')
      BY Zenon, <2>4, AcceptedGrows
    <3>3. \A q \in Daemons : TxInv(tx[q], db, accepted', lock = q)
      BY Zenon, <3>1, <3>2 DEF TxInv
    <3> QED
      BY Zenon, <2>3, <3>3
  <2>11. DeliveryInv'
    BY Zenon, <2>5, <2>7, <2>8, <2>9, <2>10 DEF DeliveryInv
  <2>12. Preserves(db, db')
    BY Zenon, <2>3, PreservesItself
  <2>13. \A q \in Daemons : StartsNothing(wrk[q], wrk'[q])
    BY Zenon, <2>1, <2>3, <2>6 DEF StartsNothing
  <2> QED
    BY Zenon, <2>11, <2>12, <2>13, PreservingStep
<1>3. CASE StopWorker(d) \/ RecordFails(d) \/ StoreFails(d)
  <2>1. wrk' = [wrk EXCEPT ![d] = Worker("off")] /\ LeavesDatabase
    BY Zenon, <1>3 DEF StopWorker, RecordFails, StoreFails, LeavesDatabase
  <2> QED
    BY Zenon, <2>1, QuietSteps
<1>4. ASSUME NEW result \in Results \ {"none"}, SendReturns(d, result) PROVE Delivers
  <2> DEFINE w == [wrk[d] EXCEPT !.pc = "record", !.result = result]
  <2>1. /\ wrk' = [wrk EXCEPT ![d] = w] \/ wrk' = [wrk EXCEPT ![d] = Worker("off")]
        /\ wrk[d].pc = "send" /\ (result = "success" => wrk[d].accepted)
        /\ LeavesDatabase
    BY Zenon, <1>4 DEF SendReturns, LeavesDatabase
  <2>2. CASE wrk' = [wrk EXCEPT ![d] = Worker("off")]
    BY Zenon, <2>1, <2>2, QuietSteps
  <2>3. CASE wrk' = [wrk EXCEPT ![d] = w]
    <3>1. w.item = wrk[d].item /\ w.accepted = wrk[d].accepted /\ w.result = result
      BY Zenon, <1>0 DEF WorkerType
    <3> HIDE DEF w
    <3>2. wrk'[d] = w /\ \A q \in Daemons : q # d => wrk'[q] = wrk[q]
      BY Zenon, <1>0, <2>3
    <3>3. accepted' = accepted /\ db' = db
      BY Zenon, <2>1 DEF LeavesDatabase
    <3>4. \A q \in Daemons : RequestInv(wrk[q], accepted)
      BY Zenon DEF DeliveryInv
    <3>5. RequestInv(w, accepted)
      BY Zenon, <2>1, <3>1, <3>4 DEF RequestInv
    <3>6. \A q \in Daemons : RequestInv(wrk'[q], accepted')
      BY Zenon, <3>2, <3>3, <3>4, <3>5
    <3>7. DeliveryInv'
      BY Zenon, <2>1, <3>6, LeavesDatabaseInv
    <3>8. Preserves(db, db')
      BY Zenon, <3>3, PreservesItself
    <3>9. \A q \in Daemons : StartsNothing(wrk[q], wrk'[q])
      BY Zenon, <2>1, <3>1, <3>2 DEF StartsNothing
    <3> QED
      BY Zenon, <3>7, <3>8, <3>9, PreservingStep
  <2> QED
    BY Zenon, <2>1, <2>2, <2>3
<1> QED
  BY Zenon, <1>1, <1>2, <1>3, <1>4

\* A commit leaves an open transaction's snapshot current only if it changed
\* nothing.
LEMMA SnapshotsAfterInv ==
  ASSUME TypeOK, DeliveryInv, NEW b, NEW q \in Daemons, lock # q
  PROVE  TxInv(SnapshotsAfter(b)[q], b, accepted, FALSE)
<1> DEFINE t == SnapshotsAfter(b)[q]
<1>1. t = [tx[q] EXCEPT !.stale = tx[q].stale \/ (tx[q].open /\ b # db)]
  BY Zenon DEF SnapshotsAfter
<1>2. /\ t.open = tx[q].open /\ t.db = tx[q].db
      /\ t.stale <=> tx[q].stale \/ (tx[q].open /\ b # db)
  <2>1. TxType(tx[q])
    BY Zenon DEF TypeOK, DaemonType
  <2> HIDE DEF t
  <2> QED
    BY Zenon, <1>1, <2>1 DEF TxType
<1> HIDE DEF t
<1>3. TxInv(tx[q], db, accepted, FALSE)
  BY Zenon DEF DeliveryInv, TxInv
<1>4. TxInv(t, b, accepted, FALSE)
  BY Zenon, <1>2, <1>3 DEF TxInv
<1> QED
  BY Zenon, <1>4 DEF t

\* A transaction of its own: a statement of the worker, a command, a start.
LEMMA WriteInv ==
  ASSUME TypeOK, DeliveryInv, NEW b, DatabaseInv(b, accepted),
         db' = b, tx' = SnapshotsAfter(b), accepted' = accepted,
         lock \notin Daemons, lock' \notin Daemons,
         \A q \in Daemons : RequestInv(wrk'[q], accepted')
  PROVE  DeliveryInv'
<1>1. ASSUME NEW q \in Daemons
      PROVE  TxInv(tx'[q], db', accepted', lock' = q)
  <2>1. TxInv(SnapshotsAfter(b)[q], b, accepted, FALSE)
    BY Zenon, SnapshotsAfterInv
  <2>2. TxInv(tx'[q], db', accepted', FALSE)
    BY Zenon, <2>1
  <2> QED
    BY Zenon, <2>2 DEF TxInv
<1> QED
  BY Zenon, <1>1 DEF DeliveryInv

\* The only worker has come to rest.
LEMMA SingleWorker ==
  ASSUME TypeOK, NEW d \in Daemons, NEW pc \in {"off", "idle"},
         wrk' = [wrk EXCEPT ![d] = Worker(pc)], SingleDaemon
  PROVE  FlightInv'
<1>1. wrk'[d] = Worker(pc)
  BY Zenon DEF TypeOK, DeliveryType
<1>2. wrk'[d].pc \notin {"send", "record"}
  BY Zenon, <1>1, RestingWorker
<1> QED
  BY Zenon, <1>2 DEF FlightInv, SingleDaemon

\* MarkDelivered and MarkFailed.
LEMMA RecordDelivers ==
  ASSUME TypeOK, DeliveryInv, NEW d \in Daemons,
         \/ RecordSuccess(d)
         \/ \E delay \in InitialDelay..MaxDelay : RecordFailure(d, delay)
  PROVE  Delivers
<1> DEFINE item == wrk[d].item
<1>0. DbType(db) /\ DatabaseInv(db, accepted)
  BY Zenon DEF TypeOK, DaemonType, DeliveryInv
<1>1. /\ wrk[d].pc = "record" /\ lock = Nobody /\ StillOwned(db, item)
      /\ wrk' = [wrk EXCEPT ![d] = Worker("idle")]
      /\ UNCHANGED <<accepted, lock>>
  BY Zenon DEF RecordSuccess, RecordFailure, CanWrite
<1>2. lock \notin Daemons /\ lock' \notin Daemons
  BY Zenon, <1>1, ProcessAssumption
<1>3. \A q \in Daemons : RequestInv(wrk'[q], accepted')
  BY Zenon, <1>1, RestingWorkers
<1>4. SingleDaemon => FlightInv'
  BY Zenon, <1>1, SingleWorker
<1>5. CASE RecordSuccess(d)
  <2> DEFINE b == MarkDelivered(db, item)
  <2>1. db' = b /\ tx' = SnapshotsAfter(b)
    BY Zenon, <1>5 DEF RecordSuccess, Write
  <2>2. item.key \in accepted
    BY Zenon, <1>5 DEF RecordSuccess, DeliveryInv, RequestInv
  <2>3. DatabaseInv(b, accepted)
    BY Zenon, <1>0, <1>1, <2>2, MarkDeliveredInv
  <2>4. Records(db, b) /\ NewlyDelivered(db, b) \subseteq {item.key}
    BY Zenon, <1>0, <1>1, MarkDeliveredKeeps
  <2> HIDE DEF b
  <2>5. DeliveryInv'
    BY Zenon, <1>1, <1>2, <1>3, <2>1, <2>3, WriteInv
  <2>6. FlightInv => OnlyRedrivenBefore(db, item.key)
    BY Zenon, <1>1 DEF FlightInv, InFlight
  <2> HIDE DEF item
  <2> QED
    BY Zenon, <1>4, <2>1, <2>4, <2>5, <2>6 DEF Delivers
<1>6. ASSUME NEW delay \in InitialDelay..MaxDelay, RecordFailure(d, delay) PROVE Delivers
  <2> DEFINE permanent == \/ wrk[d].result = "permanent"
                          \/ wrk[d].item.attempts + 1 >= MaxAttempts
             b == MarkFailed(db, item, permanent, delay)
  <2>1. db' = b /\ tx' = SnapshotsAfter(b)
    BY Zenon, <1>6 DEF RecordFailure, Write
  <2>2. permanent \in BOOLEAN /\ delay \in Nat /\ delay <= MaxDelay
    BY RetryAssumption
  <2>3. ~permanent => item.attempts + 1 < MaxAttempts
    <3>1. item.attempts \in Nat
      BY Zenon, <1>0, <1>1, OwnedRow
    <3> QED
      BY <3>1, RetryAssumption
  <2> HIDE DEF permanent
  <2>4. DatabaseInv(b, accepted)
    BY Zenon, <1>0, <1>1, <2>2, <2>3, MarkFailedInv
  <2>5. Records(db, b) /\ NewlyDelivered(db, b) = {}
    BY Zenon, <1>0, <1>1, <2>2, MarkFailedKeeps
  <2> HIDE DEF b
  <2>6. DeliveryInv'
    BY Zenon, <1>1, <1>2, <1>3, <2>1, <2>4, WriteInv
  <2> QED
    BY Zenon, <1>4, <2>1, <2>5, <2>6 DEF Delivers
<1> QED
  BY Zenon, <1>5, <1>6

\* redrive, prune and time.
LEMMA MaintenanceDelivers ==
  ASSUME TypeOK, DeliveryInv,
         \/ \E k \in DOMAIN db.deliveries : Redrive(k)
         \/ \E c \in Cutoffs, l \in Limits : PruneBegin(c, l)
         \/ PruneCommit \/ PruneAbort \/ Tick
  PROVE  Delivers
<1>0. /\ DbType(db) /\ DatabaseInv(db, accepted)
      /\ Nobody \notin Daemons /\ Operator \notin Daemons
  BY Zenon, ProcessAssumption DEF TypeOK, DaemonType, DeliveryInv
<1>1. wrk' = wrk /\ accepted' = accepted
  BY Zenon DEF Redrive, PruneBegin, PruneCommit, PruneAbort, Tick, deliveryVars
<1>2. \A q \in Daemons : RequestInv(wrk'[q], accepted') /\ StartsNothing(wrk[q], wrk'[q])
  BY Zenon, <1>1 DEF DeliveryInv, StartsNothing
<1>3. ASSUME NEW k \in DOMAIN db.deliveries, Redrive(k) PROVE Delivers
  <2> DEFINE b == RedriveDelivery(db, k)
  <2>1. Redrivable(db, k) /\ db' = b /\ tx' = SnapshotsAfter(b) /\ lock = Nobody /\ lock' = lock
    BY Zenon, <1>3 DEF Redrive, Write
  <2>2. DatabaseInv(b, accepted)
    BY Zenon, <1>0, <2>1, RedriveDeliveryInv
  <2>3. Preserves(db, b)
    BY Zenon, <1>0, <2>1, RedrivePreserves
  <2> HIDE DEF b
  <2>4. DeliveryInv'
    BY Zenon, <1>0, <1>1, <1>2, <2>1, <2>2, WriteInv
  <2> QED
    BY Zenon, <1>2, <2>1, <2>3, <2>4, PreservingStep
<1>4. CASE PruneAbort \/ \E c \in Cutoffs, l \in Limits : PruneBegin(c, l)
  <2>1. LeavesDatabase
    BY Zenon, <1>0, <1>4 DEF PruneAbort, PruneBegin, LeavesDatabase
  <2>2. DeliveryInv'
    BY Zenon, <1>2, <2>1, LeavesDatabaseInv
  <2>3. Preserves(db, db')
    BY Zenon, <2>1, PreservesItself DEF LeavesDatabase
  <2> QED
    BY Zenon, <1>2, <2>2, <2>3, PreservingStep
<1>5. CASE PruneCommit
  <2> DEFINE selection == PruneSelection(db, pruning.cutoff, pruning.limit)
             b == Prune(db, selection)
  <2>1. db' = b /\ tx' = SnapshotsAfter(b) /\ lock = Operator /\ lock' = Nobody
    BY Zenon, <1>5 DEF PruneCommit
  <2>2. selection \subseteq Prunable(db, pruning.cutoff)
    BY Zenon DEF PruneSelection
  <2> HIDE DEF selection
  <2>3. DatabaseInv(b, accepted)
    BY Zenon, <1>0, <2>2, PruneInv
  <2>4. Preserves(db, b)
    BY Zenon, <1>0, PrunePreserves
  <2> HIDE DEF b
  <2>5. DeliveryInv'
    BY Zenon, <1>0, <1>1, <1>2, <2>1, <2>3, WriteInv
  <2> QED
    BY Zenon, <1>2, <2>1, <2>4, <2>5, PreservingStep
<1>6. CASE Tick
  <2>1. db' = Elapse(db) /\ tx' = tx /\ \A q \in Daemons : ~tx[q].open
    BY Zenon, <1>6 DEF Tick
  <2>2. DatabaseInv(db', accepted')
    BY Zenon, <1>0, <1>1, <2>1, ElapseInv
  <2>3. Preserves(db, db')
    BY Zenon, <1>0, <2>1, ElapsePreserves
  <2>4. DeliveryInv'
    BY Zenon, <1>2, <2>1, <2>2 DEF DeliveryInv, TxInv
  <2> QED
    BY Zenon, <1>2, <2>3, <2>4, PreservingStep
<1> QED
  BY Zenon, <1>3, <1>4, <1>5, <1>6

\* A daemon starts, is told to stop, ends or dies.
LEMMA LifeDelivers ==
  ASSUME TypeOK, DeliveryInv, NEW d \in Daemons,
         \/ \E regs \in Configs : Start(d, regs)
         \/ Signal(d) \/ Exit(d) \/ Crash(d)
  PROVE  Delivers
<1>0. DbType(db) /\ DatabaseInv(db, accepted)
  BY Zenon DEF TypeOK, DaemonType, DeliveryInv
<1>1. ASSUME NEW regs \in Configs, Start(d, regs) PROVE Delivers
  <2>1. PICK pc \in {"off", "idle"} : wrk' = [wrk EXCEPT ![d] = Worker(pc)]
    BY Zenon, <1>1 DEF Start
  <2>2. SinksAccepted(db, regs) /\ UNCHANGED <<accepted, lock>>
    BY Zenon, <1>1 DEF Start
  <2>3. CASE UNCHANGED <<db, tx>>
    <3>1. LeavesDatabase
      BY Zenon, <2>2, <2>3 DEF LeavesDatabase
    <3> QED
      BY Zenon, <2>1, <3>1, QuietSteps
  <2>4. CASE Write(ConfigureSinks(db, regs))
    <3> DEFINE b == ConfigureSinks(db, regs)
    <3>1. db' = b /\ tx' = SnapshotsAfter(b) /\ lock = Nobody
      BY Zenon, <2>4 DEF Write
    <3>2. lock \notin Daemons /\ lock' \notin Daemons
      BY Zenon, <2>2, <3>1, ProcessAssumption
    <3>3. DatabaseInv(b, accepted)
      BY Zenon, <1>0, <2>2, ConfigureSinksInv
    <3>4. Records(db, b) /\ NewlyDelivered(db, b) = {}
      BY Zenon, <1>0, ConfigureSinksKeeps
    <3> HIDE DEF b
    <3>5. \A q \in Daemons : RequestInv(wrk'[q], accepted')
      BY Zenon, <2>1, <2>2, RestingWorkers
    <3>6. DeliveryInv'
      BY Zenon, <2>2, <3>1, <3>2, <3>3, <3>5, WriteInv
    <3>7. SingleDaemon => FlightInv'
      BY Zenon, <2>1, SingleWorker
    <3> QED
      BY Zenon, <3>1, <3>4, <3>6, <3>7 DEF Delivers
  <2> QED
    BY Zenon, <1>1, <2>3, <2>4 DEF Start
<1>2. CASE Signal(d) \/ Exit(d)
  <2>1. LeavesDatabase /\ wrk' = wrk
    BY Zenon, <1>2 DEF Signal, Exit, LeavesDatabase, deliveryVars
  <2> QED
    BY Zenon, <2>1, QuietSteps
<1>3. CASE Crash(d)
  <2>1. LeavesDatabase /\ wrk' = [wrk EXCEPT ![d] = Worker("off")]
    BY Zenon, <1>3 DEF Crash, LeavesDatabase
  <2> QED
    BY Zenon, <2>1, QuietSteps
<1> QED
  BY Zenon, <1>1, <1>2, <1>3

\* The capture steps that write nothing.
LEMMA QuietCaptureDelivers ==
  ASSUME TypeOK, DeliveryInv, UNCHANGED deliveryVars, NEW d \in Daemons,
         \/ RunOnce(d) \/ StartReplication(d) \/ LoseConnection(d) \/ NoticeClosed(d)
         \/ Reconnect(d) \/ WaitForDisk(d) \/ RoutineDiskCheck(d) \/ SendStatus(d)
         \/ StopCapture(d) \/ Receive(d) \/ Acknowledge(d)
         \/ SnapshotConflict(d) \/ PersistBusy(d) \/ PersistFails(d)
  PROVE  Delivers
<1>1. wrk' = wrk /\ accepted' = accepted
  BY Zenon DEF deliveryVars
<1>2. db' = db /\ (UNCHANGED <<tx, lock>> \/ Rollback(d))
  <2>1. CASE RunOnce(d) \/ StartReplication(d) \/ LoseConnection(d) \/ NoticeClosed(d)
             \/ Reconnect(d) \/ WaitForDisk(d)
    BY Zenon, <2>1 DEF RunOnce, StartReplication, LoseConnection, NoticeClosed, Reconnect,
                       WaitForDisk, daemonVars
  <2>2. CASE RoutineDiskCheck(d) \/ SendStatus(d) \/ Acknowledge(d) \/ Receive(d)
    BY Zenon, <2>2 DEF RoutineDiskCheck, SendStatus, Acknowledge, Receive, daemonVars
  <2>3. CASE StopCapture(d) \/ SnapshotConflict(d) \/ PersistBusy(d) \/ PersistFails(d)
    BY Zenon, <2>3 DEF StopCapture, SnapshotConflict, PersistBusy, PersistFails
  <2> QED
    BY Zenon, <2>1, <2>2, <2>3
<1>3. LeavesDatabase
  BY Zenon, <1>1, <1>2 DEF LeavesDatabase
<1> QED
  BY Zenon, <1>1, <1>3, QuietSteps

\* The steps of PostgreSQL and of the disk.
LEMMA EnvironmentDelivers ==
  ASSUME TypeOK, DeliveryInv, UNCHANGED deliveryVars,
         \/ \E w \in WalItems : AppCommit(w)
         \/ HandleStatus \/ ReleaseSlot \/ DiskChange
  PROVE  Delivers
<1>1. wrk' = wrk /\ accepted' = accepted
  BY Zenon DEF deliveryVars
<1>2. LeavesDatabase
  BY Zenon, <1>1
  DEF LeavesDatabase, AppCommit, HandleStatus, ReleaseSlot, DiskChange, daemonVars
<1>3. \A q \in Daemons : RequestInv(wrk'[q], accepted') /\ StartsNothing(wrk[q], wrk'[q])
  BY Zenon, <1>1 DEF DeliveryInv, StartsNothing
<1>4. DeliveryInv'
  BY Zenon, <1>2, <1>3, LeavesDatabaseInv
<1>5. Preserves(db, db')
  BY Zenon, <1>2, PreservesItself DEF LeavesDatabase
<1> QED
  BY Zenon, <1>3, <1>4, <1>5, PreservingStep

\* The transaction of d changes, on the same database.
LEMMA TransactionDelivers ==
  ASSUME TypeOK, DeliveryInv, UNCHANGED deliveryVars, NEW d \in Daemons, NEW t,
         db' = db, tx' = [tx EXCEPT ![d] = t], lock' = d \/ lock' = lock,
         TxInv(t, db, accepted, TRUE)
  PROVE  Delivers
<1>1. wrk' = wrk /\ accepted' = accepted
  BY Zenon DEF deliveryVars
<1>2. \A q \in Daemons : RequestInv(wrk'[q], accepted') /\ StartsNothing(wrk[q], wrk'[q])
  BY Zenon, <1>1 DEF DeliveryInv, StartsNothing
<1>3. ASSUME NEW q \in Daemons PROVE TxInv(tx'[q], db', accepted', lock' = q)
  <2>1. CASE q = d
    <3>1. tx'[q] = t
      BY Zenon, <2>1 DEF TypeOK, DaemonType
    <3>2. TxInv(tx'[q], db', accepted', TRUE)
      BY Zenon, <1>1, <3>1
    <3> QED
      BY Zenon, <3>2 DEF TxInv
  <2>2. CASE q # d
    <3>1. tx'[q] = tx[q] /\ (lock' = q => lock = q)
      BY Zenon, <2>2 DEF TypeOK, DaemonType
    <3>2. TxInv(tx[q], db, accepted, lock = q)
      BY Zenon DEF DeliveryInv
    <3>3. TxInv(tx[q], db, accepted, lock' = q)
      BY Zenon, <3>1, <3>2 DEF TxInv
    <3> QED
      BY Zenon, <1>1, <3>1, <3>3
  <2> QED
    BY Zenon, <2>1, <2>2
<1>4. DeliveryInv'
  BY Zenon, <1>1, <1>2, <1>3 DEF DeliveryInv
<1>5. Preserves(db, db')
  BY Zenon, PreservesItself
<1> QED
  BY Zenon, <1>2, <1>4, <1>5, PreservingStep

\* BEGIN, and one event of the batch.
LEMMA PersistDelivers ==
  ASSUME TypeOK, DeliveryInv, UNCHANGED deliveryVars, NEW d \in Daemons, TransactionInv(d),
         BeginBatch(d) \/ PersistEvent(d)
  PROVE  Delivers
<1>1. CASE BeginBatch(d)
  <2> DEFINE t == OpenTx(db, 1, FALSE)
  <2>1. db' = db /\ tx' = [tx EXCEPT ![d] = t] /\ (lock' = d \/ lock' = lock)
    BY Zenon, <1>1 DEF BeginBatch
  <2>2. t.db = db
    BY Zenon DEF OpenTx
  <2> HIDE DEF t
  <2>3. Adds(db, db)
    BY Zenon DEF Adds
  <2>4. TxInv(t, db, accepted, TRUE)
    BY Zenon, <2>2, <2>3 DEF TxInv, DeliveryInv
  <2> QED
    BY Zenon, <2>1, <2>4, TransactionDelivers
<1>2. CASE PersistEvent(d)
  <2> DEFINE e == rep[d].batch.events[tx[d].next]
             b == SpoolEvent(tx[d].db, e, rep[d].batch.lsn)
             t == OpenTx(b, tx[d].next + 1, tx[d].stale)
  <2>1. CASE IdentityConflict(tx[d].db, e)
    <3>1. db' = db /\ Rollback(d) /\ wrk' = wrk /\ accepted' = accepted
      BY Zenon, <1>2, <2>1 DEF PersistEvent, deliveryVars
    <3>2. LeavesDatabase
      BY Zenon, <3>1 DEF LeavesDatabase
    <3> QED
      BY Zenon, <3>1, <3>2, QuietSteps
  <2>2. CASE ~IdentityConflict(tx[d].db, e)
    <3>1. rep[d] \in ReplicatorType /\ TxType(tx[d])
      BY Zenon DEF TypeOK, DaemonType, CaptureType
    <3>2. /\ rep[d].batch.events \in Seq(BufferedEvent) /\ rep[d].batch.lsn \in Nat
          /\ tx[d].next \in Nat /\ tx[d].next <= Len(rep[d].batch.events)
          /\ DbType(tx[d].db) /\ tx[d].open
      BY Zenon, <1>2, <3>1 DEF ReplicatorType, TxType, PersistEvent
    <3>3. e \in BufferedEvent
      <4>1. tx[d].next > 0
        BY Zenon, <3>2 DEF TransactionInv
      <4> QED
        BY <3>2, <4>1
    <3>4. e.id \in Identities /\ e.digest \in Digests /\ e.at \in Nat
      <4> HIDE DEF e
      <4> QED
        BY Zenon, <3>3 DEF BufferedEvent
    <3>5. db' = db /\ tx' = [tx EXCEPT ![d] = t] /\ lock' = lock
      BY Zenon, <1>2, <2>2 DEF PersistEvent
    <3>6. t.open /\ t.db = b /\ t.stale = tx[d].stale
      BY Zenon DEF OpenTx
    <3> HIDE DEF e, t
    <3>7. /\ DatabaseInv(tx[d].db, accepted)
          /\ lock = d \/ ~tx[d].stale => Adds(db, tx[d].db)
      BY Zenon, <3>2 DEF DeliveryInv, TxInv
    <3>8. DatabaseInv(b, accepted) /\ Adds(tx[d].db, b)
      BY Zenon, <3>2, <3>4, <3>7, SpoolEventInv
    <3> HIDE DEF b
    <3>9. TxInv(t, db, accepted, lock = d)
      BY Zenon, <3>6, <3>7, <3>8, AddsTransitive DEF TxInv
    <3>10. wrk' = wrk /\ accepted' = accepted
      BY Zenon DEF deliveryVars
    <3>11. \A q \in Daemons : RequestInv(wrk'[q], accepted') /\ StartsNothing(wrk[q], wrk'[q])
      BY Zenon, <3>10 DEF DeliveryInv, StartsNothing
    <3>12. \A q \in Daemons : tx'[q] = IF q = d THEN t ELSE tx[q]
      BY Zenon, <3>5 DEF TypeOK, DaemonType
    <3>13. ASSUME NEW q \in Daemons PROVE TxInv(tx'[q], db', accepted', lock' = q)
      <4>1. CASE q = d
        <5>1. tx'[q] = t
          BY Zenon, <3>12, <4>1
        <5> QED
          BY Zenon, <3>5, <3>9, <3>10, <4>1, <5>1 DEF TxInv
      <4>2. CASE q # d
        <5>1. tx'[q] = tx[q] /\ TxInv(tx[q], db, accepted, lock = q)
          BY Zenon, <3>12, <4>2 DEF DeliveryInv
        <5> QED
          BY Zenon, <3>5, <3>10, <5>1 DEF TxInv
      <4> QED
        BY Zenon, <4>1, <4>2
    <3>14. DeliveryInv'
      BY Zenon, <3>5, <3>10, <3>11, <3>13 DEF DeliveryInv
    <3>15. Preserves(db, db')
      BY Zenon, <3>5, PreservesItself
    <3> QED
      BY Zenon, <3>11, <3>14, <3>15, PreservingStep
  <2> QED
    BY Zenon, <2>1, <2>2
<1> QED
  BY Zenon, <1>1, <1>2

\* COMMIT: what becomes the database adds to the one before.
LEMMA CommitDelivers ==
  ASSUME TypeOK, DeliveryInv, UNCHANGED deliveryVars, NEW d \in Daemons, CommitBatch(d)
  PROVE  Delivers
<1> DEFINE b == RaiseCheckpoint(tx[d].db, rep[d].batch.end)
           new == IF lock = d \/ MovesCheckpoint(d) THEN b ELSE db
<1>1. db' = new /\ tx' = [SnapshotsAfter(new) EXCEPT ![d] = NoTx]
  BY Zenon DEF CommitBatch
<1>2. /\ tx[d].open
      /\ lock = d \/ MovesCheckpoint(d) => lock = d \/ (lock = Nobody /\ ~tx[d].stale)
      /\ lock' = IF lock = d THEN Nobody ELSE lock
  BY Zenon DEF CommitBatch, AllInserted
<1>3. wrk' = wrk /\ accepted' = accepted /\ Nobody \notin Daemons
  BY Zenon, ProcessAssumption DEF deliveryVars
<1>4. DbType(db) /\ DbType(tx[d].db) /\ rep[d].batch.end \in Nat
  <2>1. rep[d] \in ReplicatorType /\ TxType(tx[d]) /\ DbType(db)
    BY Zenon DEF TypeOK, DaemonType, CaptureType
  <2> QED
    BY Zenon, <2>1 DEF ReplicatorType, TxType
<1>5. /\ DatabaseInv(tx[d].db, accepted)
      /\ lock = d \/ ~tx[d].stale => Adds(db, tx[d].db)
  BY Zenon, <1>2 DEF DeliveryInv, TxInv
<1>6. /\ DbType(b) /\ b.events = tx[d].db.events /\ b.deliveries = tx[d].db.deliveries
      /\ b.sinks = tx[d].db.sinks
  <2>1. b.sinks = tx[d].db.sinks
    <3> DEFINE c == tx[d].db
    <3>1. DbType(c)
      BY Zenon, <1>4
    <3> HIDE DEF c
    <3> QED
      BY Zenon, <3>1 DEF RaiseCheckpoint, DbType, c
  <2> QED
    BY Zenon, <1>4, <2>1, RaiseCheckpointType
<1> HIDE DEF b
<1>7. DatabaseInv(b, accepted) /\ Adds(tx[d].db, b)
  BY Zenon, <1>5, <1>6, SameTables
<1>8. CASE lock = d \/ MovesCheckpoint(d)
  <2>1. new = b
    BY Zenon, <1>8
  <2>2. Adds(db, b)
    BY Zenon, <1>2, <1>5, <1>7, <1>8, AddsTransitive
  <2>3. DatabaseInv(db', accepted') /\ Preserves(db, db')
    <3>1. Preserves(db, b)
      BY Zenon, <1>4, <1>6, <2>2, AddsPreserves
    <3> QED
      BY Zenon, <1>1, <1>3, <1>7, <2>1, <3>1
  <2>4. \A q \in Daemons : q # d => lock # q
    BY Zenon, <1>2, <1>3, <1>8
  <2> HIDE DEF new
  <2>5. ASSUME NEW q \in Daemons PROVE TxInv(tx'[q], db', accepted', lock' = q)
    <3>0. ~NoTx.open /\ DOMAIN SnapshotsAfter(new) = Daemons
      BY Zenon DEF NoTx, SnapshotsAfter
    <3>1. CASE q = d
      BY Zenon, <1>1, <3>0, <3>1 DEF TxInv
    <3>2. CASE q # d
      <4>1. TxInv(SnapshotsAfter(new)[q], new, accepted, FALSE)
        BY Zenon, <2>4, <3>2, SnapshotsAfterInv
      <4>2. tx'[q] = SnapshotsAfter(new)[q] /\ lock' # q
        BY Zenon, <1>1, <1>2, <1>3, <1>8, <3>0, <3>2
      <4>3. TxInv(tx'[q], db', accepted', FALSE)
        BY Zenon, <1>1, <1>3, <4>1, <4>2
      <4> QED
        BY Zenon, <4>2, <4>3 DEF TxInv
    <3> QED
      BY Zenon, <3>1, <3>2
  <2>6. \A q \in Daemons : RequestInv(wrk'[q], accepted') /\ StartsNothing(wrk[q], wrk'[q])
    BY Zenon, <1>3 DEF DeliveryInv, StartsNothing
  <2>7. DeliveryInv'
    BY Zenon, <2>3, <2>5, <2>6 DEF DeliveryInv
  <2> QED
    BY Zenon, <2>3, <2>6, <2>7, PreservingStep
<1>9. CASE ~(lock = d \/ MovesCheckpoint(d))
  <2>1. db' = db /\ tx' = [SnapshotsAfter(db) EXCEPT ![d] = NoTx] /\ lock' = lock
    BY Zenon, <1>1, <1>2, <1>9
  <2>2. ASSUME NEW q \in Daemons PROVE SnapshotsAfter(db)[q] = tx[q]
    <3> DEFINE t == tx[q]
    <3>1. TxType(t)
      BY Zenon DEF TypeOK, DaemonType
    <3>2. SnapshotsAfter(db)[q] = [t EXCEPT !.stale = t.stale \/ (t.open /\ db # db)]
      BY Zenon DEF SnapshotsAfter
    <3> HIDE DEF t
    <3>3. [t EXCEPT !.stale = t.stale \/ (t.open /\ db # db)] = t
      BY Zenon, <3>1 DEF TxType
    <3> QED
      BY Zenon, <3>2, <3>3 DEF t
  <2>3. ASSUME NEW q \in Daemons PROVE tx'[q] = tx[q] \/ tx'[q] = NoTx
    <3>1. DOMAIN SnapshotsAfter(db) = Daemons
      BY Zenon DEF SnapshotsAfter
    <3>2. tx'[q] = SnapshotsAfter(db)[q] \/ tx'[q] = NoTx
      BY Zenon, <2>1, <3>1
    <3> QED
      BY Zenon, <2>2, <3>2
  <2>4. LeavesDatabase
    BY Zenon, <1>3, <2>1, <2>3 DEF LeavesDatabase
  <2> QED
    BY Zenon, <1>3, <2>4, QuietSteps
<1> QED
  BY Zenon, <1>8, <1>9

\* Every step.
LEMMA NextDelivers ==
  ASSUME TypeOK, \A d \in Daemons : TransactionInv(d), DeliveryInv, [Next]_vars
  PROVE  Delivers
<1>1. ASSUME NEW w \in WalItems, AppCommit(w), UNCHANGED <<deliveryVars, calm>> PROVE Delivers
  BY Zenon, <1>1, EnvironmentDelivers
<1>2. ASSUME NEW d \in Daemons, NEW regs \in Configs, Start(d, regs) PROVE Delivers
  BY Zenon, <1>2, LifeDelivers
<1>3. ASSUME NEW d \in Daemons, CaptureStep(d) PROVE Delivers
  <2>1. UNCHANGED deliveryVars
    BY Zenon, <1>3 DEF CaptureStep
  <2>2. CASE BeginBatch(d) \/ PersistEvent(d)
    BY Zenon, <2>1, <2>2, PersistDelivers
  <2>3. CASE CommitBatch(d)
    BY Zenon, <2>1, <2>3, CommitDelivers
  <2>4. CASE ~(BeginBatch(d) \/ PersistEvent(d) \/ CommitBatch(d))
    BY Zenon, <1>3, <2>1, <2>4, QuietCaptureDelivers DEF CaptureStep, ReplicatorStep
  <2> QED
    BY Zenon, <2>2, <2>3, <2>4
<1>4. ASSUME NEW d \in Daemons, DeliveryStep(d) PROVE Delivers
  BY Zenon, <1>4, SendDelivers, RecordDelivers DEF DeliveryStep, WorkerStep
<1>5. ASSUME NEW d \in Daemons, Exit(d) PROVE Delivers
  BY Zenon, <1>5, LifeDelivers
<1>6. CASE ServerStep
  BY Zenon, <1>6, EnvironmentDelivers DEF ServerStep
<1>7. CASE PruneEnds \/ Time
  BY Zenon, <1>7, MaintenanceDelivers DEF PruneEnds, Time
<1>8. CASE Fault
  <2>1. ASSUME NEW d \in Daemons, Crash(d) \/ Signal(d) PROVE Delivers
    BY Zenon, <2>1, LifeDelivers
  <2>2. ASSUME NEW d \in Daemons, LoseConnection(d) \/ PersistFails(d),
               UNCHANGED <<deliveryVars, calm>>
        PROVE  Delivers
    BY Zenon, <2>2, QuietCaptureDelivers
  <2>3. ASSUME NEW d \in Daemons, StoreFails(d) PROVE Delivers
    BY Zenon, <2>3, SendDelivers
  <2>4. CASE (ReleaseSlot \/ DiskChange) /\ UNCHANGED <<deliveryVars, calm>>
    BY Zenon, <2>4, EnvironmentDelivers
  <2>5. CASE \/ \E k \in DOMAIN db.deliveries : Redrive(k)
             \/ \E c \in Cutoffs, l \in Limits : PruneBegin(c, l)
    BY Zenon, <2>5, MaintenanceDelivers
  <2> QED
    BY Zenon, <1>8, <2>1, <2>2, <2>3, <2>4, <2>5 DEF Fault
<1>9. CASE UNCHANGED vars
  <2>1. /\ wrk' = wrk /\ LeavesDatabase
        /\ \A q \in Daemons : RequestInv(wrk'[q], accepted') /\ StartsNothing(wrk[q], wrk'[q])
    BY Zenon, <1>9 DEF vars, LeavesDatabase, DeliveryInv, StartsNothing
  <2>2. DeliveryInv' /\ Preserves(db, db')
    BY Zenon, <2>1, LeavesDatabaseInv, PreservesItself DEF LeavesDatabase
  <2> QED
    BY Zenon, <2>1, <2>2, PreservingStep
<1> QED
  BY Zenon, <1>1, <1>2, <1>3, <1>4, <1>5, <1>6, <1>7, <1>8, <1>9 DEF Next

\* The empty spool.
LEMMA InitDelivers == Init => DeliveryInv /\ FlightInv
<1> SUFFICES ASSUME Init PROVE DeliveryInv /\ FlightInv
  BY Zenon
<1>1. db = EmptyDb /\ tx = [d \in Daemons |-> NoTx] /\ wrk = [d \in Daemons |-> Worker("off")]
  BY Zenon DEF Init, DaemonInit, DeliveryInit
<1>2. DOMAIN EmptyDb.events = {} /\ DOMAIN EmptyDb.deliveries = {}
  BY DEF EmptyDb
<1>3. DatabaseInv(EmptyDb, accepted)
  BY Zenon, <1>2
  DEF DatabaseInv, EveryEventIsOwedIn, RemovedSinkIsIdleIn, PrunedIsDeliveredIn,
      DeliveredIsAcceptedIn, Retained
<1>4. ~NoTx.open
  BY Zenon DEF NoTx
<1>5. /\ \A q \in Daemons : TxInv(tx[q], db, accepted, lock = q)
      /\ \A q \in Daemons : RequestInv(wrk[q], accepted) /\ wrk[q].pc \notin {"send", "record"}
  BY Zenon, <1>1, <1>4, RestingWorker DEF TxInv
<1> QED
  BY Zenon, <1>1, <1>3, <1>5 DEF DeliveryInv, FlightInv
=============================================================================
