----------------------------- MODULE RelayTypes -----------------------------
(***************************************************************************)
(* Type correctness: every statement of the spool keeps the shape of the   *)
(* database, and every step of Relay the types of the variables.  The last *)
(* section has facts about capture that several modules need.              *)
(***************************************************************************)
EXTENDS Relay, TLAPS

-----------------------------------------------------------------------------
(* The statements of the spool.                                            *)

\* The empty database of a new spool file is well formed.
LEMMA EmptyDbType == DbType(EmptyDb)
  BY DEF DbType, EmptyDb

\* A pending row is a row.
LEMMA PendingRowType == PendingRow \in DeliveryRow
  BY MaxAgeAssumption DEF PendingRow, DeliveryRow, Waiting, Terminal

\* Adding pending rows keeps the rows that are there.
LEMMA InsertPendingType ==
  ASSUME NEW rows, rows \in [DOMAIN rows -> DeliveryRow], NEW keys
  PROVE  /\ DOMAIN InsertPending(rows, keys) = DOMAIN rows \cup keys
         /\ InsertPending(rows, keys) \in [DOMAIN rows \cup keys -> DeliveryRow]
  BY Zenon, PendingRowType DEF InsertPending

\* insertOrVerify keeps the shape, and finds or creates the event.
LEMMA InsertOrVerifyType ==
  ASSUME NEW b, DbType(b), NEW lsn \in Nat,
         NEW e, e.id \in Identities, e.digest \in Digests, e.at \in Nat
  PROVE  /\ DbType(InsertOrVerify(b, e, lsn))
         /\ SequencesOf(InsertOrVerify(b, e, lsn), e.id) # {}
<1> DEFINE row == [id |-> e.id, digest |-> e.digest, lsn |-> lsn, at |-> e.at,
                   pruned |-> FALSE]
           c == InsertOrVerify(b, e, lsn)
<1>1. CASE SequencesOf(b, e.id) # {}
  BY Zenon, <1>1 DEF InsertOrVerify
<1>2. CASE SequencesOf(b, e.id) = {}
  <2>1. c = [b EXCEPT !.events = Append(@, row)]
    BY Zenon, <1>2 DEF InsertOrVerify
  <2>2. row \in EventRow
    BY Zenon DEF EventRow
  <2>3. b.events \in Seq(EventRow)
    BY Zenon DEF DbType
  <2>4. Append(b.events, row) \in Seq(EventRow)
    BY <2>2, <2>3
  <2>5. /\ DOMAIN Append(b.events, row) = 1..Len(b.events) + 1
        /\ DOMAIN b.events \subseteq DOMAIN Append(b.events, row)
        /\ Append(b.events, row)[Len(b.events) + 1] = row
        /\ Len(b.events) + 1 \in DOMAIN Append(b.events, row)
    BY <2>2, <2>3
  <2>6. c = [events |-> Append(b.events, row), sinks |-> b.sinks,
             deliveries |-> b.deliveries, checkpoint |-> b.checkpoint]
    BY Zenon, <2>1 DEF DbType
  <2>7. DbType(c)
    BY <2>4, <2>5, <2>6 DEF DbType
  <2>8. Len(b.events) + 1 \in SequencesOf(c, e.id)
    BY <2>5, <2>6 DEF SequencesOf
  <2> QED
    BY Zenon, <2>7, <2>8
<1> QED
  BY Zenon, <1>1, <1>2

\* Spooling one event keeps the shape.
LEMMA SpoolEventType ==
  ASSUME NEW b, DbType(b), NEW lsn \in Nat,
         NEW e, e.id \in Identities, e.digest \in Digests, e.at \in Nat
  PROVE  DbType(SpoolEvent(b, e, lsn))
<1> DEFINE i == InsertOrVerify(b, e, lsn)
           n == CHOOSE m \in SequencesOf(i, e.id) : TRUE
<1>1. DbType(i) /\ n \in DOMAIN i.events
  BY InsertOrVerifyType DEF SequencesOf
<1>2. SpoolEvent(b, e, lsn) = EnsureDeliveriesForEvent(i, n)
  BY Zenon DEF SpoolEvent
<1> HIDE DEF i, n
<1>3. DbType(EnsureDeliveriesForEvent(i, n))
  <2>1. CASE i.events[n].pruned
    BY Zenon, <1>1, <2>1 DEF EnsureDeliveriesForEvent
  <2>2. CASE ~i.events[n].pruned
    <3> DEFINE rows == InsertPending(i.deliveries, {n} \X ActiveSinks(i))
    <3>1. /\ DOMAIN rows = DOMAIN i.deliveries \cup ({n} \X ActiveSinks(i))
          /\ rows \in [DOMAIN i.deliveries \cup ({n} \X ActiveSinks(i)) -> DeliveryRow]
      BY Zenon, <1>1, InsertPendingType DEF DbType
    <3>2. {n} \X ActiveSinks(i) \subseteq (DOMAIN i.events) \X (DOMAIN i.sinks)
      BY Zenon, <1>1 DEF ActiveSinks
    <3>3. EnsureDeliveriesForEvent(i, n) =
            [events |-> i.events, sinks |-> i.sinks, deliveries |-> rows,
             checkpoint |-> i.checkpoint]
      BY Zenon, <1>1, <2>2 DEF EnsureDeliveriesForEvent, DbType
    <3> HIDE DEF rows
    <3> QED
      BY <1>1, <3>1, <3>2, <3>3 DEF DbType
  <2> QED
    BY Zenon, <2>1, <2>2
<1> QED
  BY Zenon, <1>2, <1>3

\* Spooling an event that does not conflict keeps what is stored, and stores
\* the event with its content.
LEMMA SpoolEventGrows ==
  ASSUME NEW b, DbType(b), NEW lsn \in Nat,
         NEW e, e.id \in Identities, e.digest \in Digests, e.at \in Nat,
         ~IdentityConflict(b, e)
  PROVE  /\ LogGrows(b, SpoolEvent(b, e, lsn))
         /\ SpooledIn(SpoolEvent(b, e, lsn), e)
         /\ DOMAIN b.deliveries \subseteq DOMAIN SpoolEvent(b, e, lsn).deliveries
<1> DEFINE row == [id |-> e.id, digest |-> e.digest, lsn |-> lsn, at |-> e.at,
                   pruned |-> FALSE]
           i == InsertOrVerify(b, e, lsn)
           n == CHOOSE m \in SequencesOf(i, e.id) : TRUE
           c == EnsureDeliveriesForEvent(i, n)
<1>1. SpoolEvent(b, e, lsn) = c
  BY Zenon DEF SpoolEvent
<1>2. DbType(i)
  BY Zenon, InsertOrVerifyType
<1>3. /\ LogGrows(b, i) /\ i.deliveries = b.deliveries
      /\ SpooledIn(i, e)
  <2>1. CASE SequencesOf(b, e.id) # {}
    <3>1. i = b
      BY Zenon, <2>1 DEF InsertOrVerify
    <3> QED
      BY Zenon, <2>1, <3>1 DEF LogGrows, SpooledIn, SequencesOf, IdentityConflict
  <2>2. CASE SequencesOf(b, e.id) = {}
    <3>1. i = [events |-> Append(b.events, row), sinks |-> b.sinks,
               deliveries |-> b.deliveries, checkpoint |-> b.checkpoint]
      <4>1. i = [b EXCEPT !.events = Append(@, row)]
        BY Zenon, <2>2 DEF InsertOrVerify
      <4> QED
        BY Zenon, <4>1 DEF DbType
    <3>2. b.events \in Seq(EventRow) /\ row \in EventRow
      BY Zenon DEF DbType, EventRow
    <3> HIDE DEF row
    <3>3. /\ DOMAIN b.events \subseteq DOMAIN Append(b.events, row)
          /\ \A m \in DOMAIN b.events : Append(b.events, row)[m] = b.events[m]
          /\ Len(b.events) + 1 \in DOMAIN Append(b.events, row)
          /\ Append(b.events, row)[Len(b.events) + 1] = row
      BY <3>2
    <3> HIDE DEF i
    <3>4. LogGrows(b, i) /\ i.deliveries = b.deliveries
      BY Zenon, <3>1, <3>3 DEF LogGrows
    <3>5. SpooledIn(i, e)
      BY <3>1, <3>3 DEF SpooledIn, row
    <3> QED
      BY Zenon, <3>4, <3>5
  <2> QED
    BY Zenon, <2>1, <2>2
<1> HIDE DEF i, n
<1>4. /\ c.events = i.events /\ c.checkpoint = i.checkpoint
      /\ DOMAIN i.deliveries \subseteq DOMAIN c.deliveries
  <2>1. CASE i.events[n].pruned
    BY Zenon, <2>1 DEF EnsureDeliveriesForEvent
  <2>2. CASE ~i.events[n].pruned
    <3> DEFINE rows == InsertPending(i.deliveries, {n} \X ActiveSinks(i))
    <3>1. DOMAIN i.deliveries \subseteq DOMAIN rows
      BY Zenon DEF InsertPending
    <3>2. c = [i EXCEPT !.deliveries = rows]
      BY Zenon, <2>2 DEF EnsureDeliveriesForEvent
    <3> HIDE DEF rows
    <3>3. c = [events |-> i.events, sinks |-> i.sinks, deliveries |-> rows,
               checkpoint |-> i.checkpoint]
      BY Zenon, <1>2, <3>2 DEF DbType
    <3> HIDE DEF c
    <3> QED
      BY Zenon, <3>1, <3>3
  <2> QED
    BY Zenon, <2>1, <2>2
<1> HIDE DEF c
<1>5. LogGrows(b, c) /\ SpooledIn(c, e)
  BY Zenon, <1>3, <1>4 DEF LogGrows, SpooledIn
<1> QED
  BY Zenon, <1>1, <1>3, <1>4, <1>5
-----------------------------------------------------------------------------
(* The statements that do not add events.                                  *)

\* The two databases record the same events and the same checkpoint.
SameLog(b, c) ==
  /\ DOMAIN c.events = DOMAIN b.events
  /\ \A n \in DOMAIN b.events :
       /\ c.events[n].id = b.events[n].id
       /\ c.events[n].digest = b.events[n].digest
  /\ c.checkpoint = b.checkpoint

\* A database whose rows change and whose other tables do not.
LEMMA RowsType ==
  ASSUME NEW b, DbType(b), NEW rows,
         rows \in [DOMAIN b.deliveries -> DeliveryRow]
  PROVE  /\ DbType([b EXCEPT !.deliveries = rows])
         /\ SameLog(b, [b EXCEPT !.deliveries = rows])
         /\ [b EXCEPT !.deliveries = rows].events = b.events
         /\ DOMAIN [b EXCEPT !.deliveries = rows].deliveries = DOMAIN b.deliveries
<1> DEFINE c == [b EXCEPT !.deliveries = rows]
<1>1. c = [events |-> b.events, sinks |-> b.sinks, deliveries |-> rows,
           checkpoint |-> b.checkpoint]
  BY DEF DbType
<1> HIDE DEF c
<1>2. DOMAIN rows = DOMAIN b.deliveries
  BY Zenon
<1>3. DbType(c)
  BY Zenon, <1>1, <1>2 DEF DbType
<1>4. SameLog(b, c)
  BY Zenon, <1>1 DEF SameLog
<1> QED
  BY Zenon, <1>1, <1>2, <1>3, <1>4 DEF c

\* What the two updates of the worker make of a row is a row.
LEMMA UpdatedRowType ==
  ASSUME NEW r \in DeliveryRow, NEW attempts \in Nat, NEW wait \in Nat,
         NEW state \in Waiting \cup Terminal
  PROVE  /\ [r EXCEPT !.state = state, !.attempts = attempts, !.age = 0] \in DeliveryRow
         /\ [r EXCEPT !.state = state, !.attempts = attempts, !.wait = wait] \in DeliveryRow
<1> DEFINE States == Waiting \cup Terminal
<1>1. DeliveryRow = [state : States, attempts : Nat, wait : Nat, age : 0..MaxAge]
  BY Zenon DEF DeliveryRow
<1>2. 0 \in 0..MaxAge
  BY MaxAgeAssumption
<1> HIDE DEF States
<1> QED
  BY Zenon, <1>1, <1>2 DEF States

\* MarkDelivered on a row that is still owned.
LEMMA MarkDeliveredType ==
  ASSUME NEW b, DbType(b), NEW item, StillOwned(b, item)
  PROVE  /\ DbType(MarkDelivered(b, item)) /\ SameLog(b, MarkDelivered(b, item))
         /\ DOMAIN MarkDelivered(b, item).deliveries = DOMAIN b.deliveries
<1> DEFINE row == [b.deliveries[item.key] EXCEPT !.state = "delivered",
                     !.attempts = item.attempts + 1, !.age = 0]
           rows == [b.deliveries EXCEPT ![item.key] = row]
<1>1. MarkDelivered(b, item) = [b EXCEPT !.deliveries = rows]
  BY Zenon DEF MarkDelivered
<1>2. b.deliveries[item.key] \in DeliveryRow /\ item.attempts \in Nat
  BY Zenon DEF DbType, StillOwned, DeliveryRow
<1>3. item.attempts + 1 \in Nat /\ "delivered" \in Waiting \cup Terminal
  BY <1>2 DEF Terminal
<1>4. row \in DeliveryRow
  BY Zenon, <1>2, <1>3, UpdatedRowType
<1> HIDE DEF row
<1>5. rows \in [DOMAIN b.deliveries -> DeliveryRow]
  BY Zenon, <1>4 DEF DbType
<1> HIDE DEF rows
<1> QED
  BY <1>1, <1>5, RowsType

\* MarkFailed on a row that is still owned.
LEMMA MarkFailedType ==
  ASSUME NEW b, DbType(b), NEW item, StillOwned(b, item),
         NEW permanent \in BOOLEAN, NEW delay \in Nat
  PROVE  /\ DbType(MarkFailed(b, item, permanent, delay))
         /\ SameLog(b, MarkFailed(b, item, permanent, delay))
         /\ DOMAIN MarkFailed(b, item, permanent, delay).deliveries = DOMAIN b.deliveries
<1> DEFINE state == IF permanent THEN "dead_letter" ELSE "retry_wait"
           wait == IF permanent THEN 0 ELSE delay
           row == [b.deliveries[item.key] EXCEPT !.state = state,
                     !.attempts = item.attempts + 1, !.wait = wait]
           rows == [b.deliveries EXCEPT ![item.key] = row]
<1>1. MarkFailed(b, item, permanent, delay) = [b EXCEPT !.deliveries = rows]
  BY Zenon DEF MarkFailed
<1>2. b.deliveries[item.key] \in DeliveryRow /\ item.attempts \in Nat
  BY Zenon DEF DbType, StillOwned, DeliveryRow
<1>3. item.attempts + 1 \in Nat /\ state \in Waiting \cup Terminal /\ wait \in Nat
  BY <1>2 DEF Terminal, Waiting
<1> HIDE DEF state, wait
<1>4. row \in DeliveryRow
  BY Zenon, <1>2, <1>3, UpdatedRowType
<1> HIDE DEF row
<1>5. rows \in [DOMAIN b.deliveries -> DeliveryRow]
  BY Zenon, <1>4 DEF DbType
<1> HIDE DEF rows
<1> QED
  BY <1>1, <1>5, RowsType

\* RedriveDelivery on a dead letter.
LEMMA RedriveDeliveryType ==
  ASSUME NEW b, DbType(b), NEW k, Redrivable(b, k)
  PROVE  /\ DbType(RedriveDelivery(b, k)) /\ SameLog(b, RedriveDelivery(b, k))
         /\ DOMAIN RedriveDelivery(b, k).deliveries = DOMAIN b.deliveries
<1> DEFINE row == [state |-> "retry_wait", attempts |-> 0, wait |-> 0, age |-> 0]
           rows == [b.deliveries EXCEPT ![k] = row]
<1>1. RedriveDelivery(b, k) = [b EXCEPT !.deliveries = rows]
  BY Zenon DEF RedriveDelivery
<1>2. row \in DeliveryRow
  BY MaxAgeAssumption DEF DeliveryRow, Waiting
<1>3. rows \in [DOMAIN b.deliveries -> DeliveryRow]
  BY Zenon, <1>2 DEF DbType
<1> HIDE DEF rows
<1> QED
  BY <1>1, <1>3, RowsType

\* The passing of time.
LEMMA ElapseType ==
  ASSUME NEW b, DbType(b)
  PROVE  /\ DbType(Elapse(b)) /\ SameLog(b, Elapse(b))
         /\ DOMAIN Elapse(b).deliveries = DOMAIN b.deliveries
<1> DEFINE wait(r) == IF r.wait > 0 THEN r.wait - 1 ELSE 0
           age(r) == IF r.state = "delivered" /\ r.age < MaxAge THEN r.age + 1 ELSE r.age
           row(r) == [r EXCEPT !.wait = wait(r), !.age = age(r)]
           rows == [k \in DOMAIN b.deliveries |-> row(b.deliveries[k])]
<1>1. Elapse(b) = [b EXCEPT !.deliveries = rows]
  BY Zenon DEF Elapse
<1>2. ASSUME NEW r \in DeliveryRow
      PROVE  row(r) \in DeliveryRow
  <2> DEFINE States == Waiting \cup Terminal
  <2>1. DeliveryRow = [state : States, attempts : Nat, wait : Nat, age : 0..MaxAge]
    BY Zenon DEF DeliveryRow
  <2> HIDE DEF States
  <2>2. wait(r) \in Nat /\ age(r) \in 0..MaxAge
    BY <2>1, MaxAgeAssumption
  <2> HIDE DEF wait, age
  <2> QED
    BY Zenon, <2>1, <2>2
<1> HIDE DEF row
<1>3. rows \in [DOMAIN b.deliveries -> DeliveryRow]
  BY Zenon, <1>2 DEF DbType
<1> HIDE DEF rows
<1> QED
  BY <1>1, <1>3, RowsType

\* Pruning clears payloads and nothing else.
LEMMA PruneType ==
  ASSUME NEW b, DbType(b), NEW selection
  PROVE  /\ DbType(Prune(b, selection)) /\ SameLog(b, Prune(b, selection))
         /\ DOMAIN Prune(b, selection).deliveries = DOMAIN b.deliveries
<1> DEFINE ev == [n \in DOMAIN b.events |->
                    [b.events[n] EXCEPT !.pruned = @ \/ n \in selection]]
           c == Prune(b, selection)
<1>1. c = [events |-> ev, sinks |-> b.sinks, deliveries |-> b.deliveries,
           checkpoint |-> b.checkpoint]
  <2>1. c = [b EXCEPT !.events = ev]
    BY Zenon DEF Prune
  <2> HIDE DEF ev, c
  <2> QED
    BY Zenon, <2>1 DEF DbType
<1>2. \A n \in DOMAIN b.events :
        /\ b.events[n] \in EventRow
        /\ ev[n] \in EventRow
        /\ ev[n].id = b.events[n].id /\ ev[n].digest = b.events[n].digest
  <2> TAKE n \in DOMAIN b.events
  <2>1. b.events[n] \in EventRow
    BY DEF DbType
  <2> QED
    BY Zenon, <2>1 DEF EventRow
<1>3. DOMAIN ev = DOMAIN b.events /\ DOMAIN b.events = 1..Len(b.events)
  BY DEF DbType
<1>4. ev \in Seq(EventRow)
  <2>1. Len(b.events) \in Nat
    BY DEF DbType
  <2>2. ev \in [1..Len(b.events) -> EventRow]
    BY Zenon, <1>2, <1>3
  <2> HIDE DEF ev, c
  <2> QED
    BY <2>1, <2>2
<1> HIDE DEF ev, c
<1>5. DbType(c)
  BY Zenon, <1>1, <1>3, <1>4 DEF DbType
<1>6. SameLog(b, c)
  BY Zenon, <1>1, <1>2, <1>3 DEF SameLog
<1> QED
  BY <1>1, <1>5, <1>6 DEF c

\* Moving the checkpoint.
LEMMA RaiseCheckpointType ==
  ASSUME NEW b, DbType(b), NEW end \in Nat
  PROVE  /\ DbType(RaiseCheckpoint(b, end))
         /\ RaiseCheckpoint(b, end).events = b.events
         /\ RaiseCheckpoint(b, end).deliveries = b.deliveries
         /\ RaiseCheckpoint(b, end).checkpoint = IF end > b.checkpoint THEN end
                                                 ELSE b.checkpoint
<1> DEFINE lsn == IF end > b.checkpoint THEN end ELSE b.checkpoint
           c == RaiseCheckpoint(b, end)
<1>1. c = [events |-> b.events, sinks |-> b.sinks, deliveries |-> b.deliveries,
           checkpoint |-> lsn]
  BY DEF RaiseCheckpoint, DbType
<1>2. lsn \in Nat
  BY Zenon DEF DbType
<1> HIDE DEF c, lsn
<1>3. DbType(c)
  BY Zenon, <1>1, <1>2 DEF DbType
<1> QED
  BY <1>1, <1>3 DEF c, lsn

\* Registering sinks adds rows for events that are there.
LEMMA ConfigureSinksType ==
  ASSUME NEW b, DbType(b),
         NEW regs \in Seq([name : SinkNames, target : Targets])
  PROVE  /\ DbType(ConfigureSinks(b, regs)) /\ SameLog(b, ConfigureSinks(b, regs))
         /\ DOMAIN b.deliveries \subseteq DOMAIN ConfigureSinks(b, regs).deliveries
<1> DEFINE names == DOMAIN b.sinks \cup NamesOf(regs)
           row(s) == IF s \in DOMAIN b.sinks
                     THEN [b.sinks[s] EXCEPT !.active = s \in NamesOf(regs)]
                     ELSE NewSink(b, regs, s)
           sinks == [s \in names |-> row(s)]
           rows == InsertPending(b.deliveries, Retained(b) \X NamesOf(regs))
           c == ConfigureSinks(b, regs)
<1>1. c = [b EXCEPT !.sinks = sinks, !.deliveries = rows]
  BY Zenon DEF ConfigureSinks
<1>0. \A i \in DOMAIN regs : regs[i].name \in SinkNames /\ regs[i].target \in Targets
  <2> DEFINE Reg == [name : SinkNames, target : Targets]
  <2>1. regs \in Seq(Reg)
    BY Zenon
  <2> HIDE DEF Reg
  <2>2. \A i \in DOMAIN regs : regs[i] \in Reg
    BY <2>1
  <2> QED
    BY Zenon, <2>2 DEF Reg
<1>2. names \subseteq SinkNames
  BY Zenon, <1>0 DEF DbType, NamesOf
<1>3. ASSUME NEW s \in names
      PROVE  row(s) \in SinkRow
  <2>1. CASE s \in DOMAIN b.sinks
    <3>1. b.sinks[s] \in SinkRow
      BY Zenon, <2>1 DEF DbType
    <3> DEFINE a == s \in NamesOf(regs)
    <3>2. row(s) = [b.sinks[s] EXCEPT !.active = a] /\ a \in BOOLEAN
      BY <2>1
    <3> HIDE DEF a, row
    <3> QED
      BY Zenon, <3>1, <3>2 DEF SinkRow
  <2>2. CASE s \notin DOMAIN b.sinks
    <3> DEFINE i == CHOOSE j \in DOMAIN regs : regs[j].name = s
               numbered == DOMAIN b.sinks \cup {regs[j].name : j \in 1..i}
    <3>1. i \in DOMAIN regs /\ i \in Nat
      BY <2>2 DEF NamesOf
    <3>2. regs[i].target \in Targets
      BY Zenon, <1>0, <3>1
    <3>3. NewSink(b, regs, s) =
            [id |-> Cardinality(numbered), target |-> regs[i].target, active |-> TRUE]
      BY Zenon DEF NewSink
    <3> HIDE DEF i
    <3>4. Cardinality(numbered) \in Nat
      <4>1. \A j \in 1..i : regs[j].name \in SinkNames
        BY <1>0, <3>1
      <4>2. numbered \in SUBSET SinkNames
        BY Zenon, <4>1 DEF DbType
      <4> HIDE DEF numbered
      <4> QED
        BY Zenon, <4>2, SinkNamesAssumption
    <3> HIDE DEF numbered
    <3> QED
      BY <2>2, <3>2, <3>3, <3>4 DEF SinkRow
  <2> QED
    BY Zenon, <2>1, <2>2
<1> HIDE DEF row
<1>4. sinks \in [names -> SinkRow] /\ DOMAIN sinks = names
  BY Zenon, <1>3
<1>5. /\ DOMAIN rows = DOMAIN b.deliveries \cup (Retained(b) \X NamesOf(regs))
      /\ rows \in [DOMAIN rows -> DeliveryRow]
  BY Zenon, InsertPendingType DEF DbType
<1>6. DOMAIN rows \subseteq (DOMAIN b.events) \X names
  BY Zenon, <1>5 DEF DbType, Retained
<1> HIDE DEF sinks, rows
<1>7. c = [events |-> b.events, sinks |-> sinks, deliveries |-> rows,
           checkpoint |-> b.checkpoint]
  BY Zenon, <1>1 DEF DbType
<1> HIDE DEF c, names
<1>8. DbType(c)
  BY Zenon, <1>2, <1>4, <1>5, <1>6, <1>7 DEF DbType
<1>9. SameLog(b, c)
  BY Zenon, <1>7 DEF SameLog
<1> QED
  BY <1>5, <1>7, <1>8, <1>9 DEF c
-----------------------------------------------------------------------------
(* The steps of Relay.                                                     *)

\* The state without a transaction, a replicator and a worker at rest.
LEMMA RestingTypes ==
  /\ TxType(NoTx)
  /\ \A pc \in Pcs : Replicator(pc) \in ReplicatorType
  /\ \A pc \in {"off", "idle", "send", "record"} : Worker(pc) \in WorkerType
<1>1. TxType(NoTx)
  BY Zenon, EmptyDbType DEF TxType, NoTx
<1>2. << >> \in Seq(BufferedEvent)
  OBVIOUS
<1>3. NewStateMachine \in MachineState
  BY Zenon, <1>2 DEF NewStateMachine, MachineState
<1>4. NoBatch \in [events : Seq(BufferedEvent), lsn : Nat, end : Nat]
  BY Zenon, <1>2 DEF NoBatch
<1>5. \A pc \in Pcs : Replicator(pc) \in ReplicatorType
  BY Zenon, <1>3, <1>4 DEF Replicator, ReplicatorType
<1>6. NoItem \in [key : Keys, attempts : Nat]
  BY Zenon DEF NoItem, Keys
<1>7. \A pc \in {"off", "idle", "send", "record"} : Worker(pc) \in WorkerType
  BY Zenon, <1>6 DEF Worker, WorkerType, Results
<1> QED
  BY Zenon, <1>1, <1>5, <1>7

\* Init satisfies the type invariant.
LEMMA InitType == Init => TypeOK
<1> SUFFICES ASSUME Init PROVE TypeOK
  BY Zenon
<1> USE DEF Init
<1>1. DaemonType
  BY Zenon, EmptyDbType, RestingTypes DEF DaemonInit, DaemonType, ExitReasons
<1>2. CaptureType
  <2>1. << >> \in Seq(WalItems) /\ << >> \in Seq(Nat)
    OBVIOUS
  <2>2. \A d \in Daemons : Replicator("off") \in ReplicatorType
    BY Zenon, RestingTypes DEF Pcs
  <2> QED
    BY Zenon, <2>1, <2>2 DEF CaptureInit, CaptureType, FirstLSN, ProbeResults
<1>3. DeliveryType
  BY Zenon, RestingTypes DEF DeliveryInit, DeliveryType, NoPrune
<1> QED
  BY Zenon, <1>1, <1>2, <1>3 DEF TypeOK
-----------------------------------------------------------------------------
(* Parts of actions.                                                       *)

\* A daemon loses its transaction.
LEMMA RollbackType ==
  ASSUME TypeOK, NEW d \in Daemons, Rollback(d)
  PROVE  /\ lock' \in Daemons \cup {Operator, Nobody}
         /\ DOMAIN tx' = Daemons /\ \A q \in Daemons : TxType(tx'[q])
  BY Zenon, RestingTypes DEF TypeOK, DaemonType, Rollback

\* A committed write, of another process too, marks snapshots.
LEMMA SnapshotsAfterType ==
  ASSUME TypeOK, NEW b
  PROVE  /\ DOMAIN SnapshotsAfter(b) = Daemons
         /\ \A q \in Daemons : TxType(SnapshotsAfter(b)[q])
<1>1. DOMAIN SnapshotsAfter(b) = Daemons
  BY Zenon DEF SnapshotsAfter
<1>2. ASSUME NEW q \in Daemons PROVE TxType(SnapshotsAfter(b)[q])
  <2> DEFINE t == tx[q]
             s == t.stale \/ (t.open /\ b # db)
  <2>1. TxType(t) /\ s \in BOOLEAN
    BY Zenon DEF TypeOK, DaemonType
  <2>2. SnapshotsAfter(b)[q] = [t EXCEPT !.stale = s]
    BY Zenon DEF SnapshotsAfter
  <2> HIDE DEF t, s
  <2>3. [t EXCEPT !.stale = s] = [open |-> t.open, db |-> t.db, next |-> t.next, stale |-> s]
    BY <2>1 DEF TxType
  <2> QED
    BY Zenon, <2>1, <2>2, <2>3 DEF TxType
<1> QED
  BY Zenon, <1>1, <1>2

\* A cancelled context.
LEMMA CancelType ==
  ASSUME TypeOK, NEW d \in Daemons, NEW reason \in ExitReasons, Cancel(d, reason)
  PROVE  /\ mode' \in [Daemons -> {"down", "running", "stopping"}]
         /\ exit' \in [Daemons -> ExitReasons]
  BY Zenon DEF TypeOK, DaemonType, Cancel

\* runOnce returns.
LEMMA GotoType ==
  ASSUME TypeOK, NEW d \in Daemons, NEW pc \in Pcs, Goto(d, pc)
  PROVE  rep' \in [Daemons -> ReplicatorType]
  BY Zenon, RestingTypes DEF TypeOK, CaptureType, Goto
-----------------------------------------------------------------------------
(* The replicator.                                                         *)

\* A step of PostgreSQL or of the disk.
LEMMA EnvironmentType ==
  ASSUME TypeOK, UNCHANGED <<deliveryVars, calm>>,
         \/ \E w \in WalItems : AppCommit(w)
         \/ HandleStatus \/ ReleaseSlot \/ DiskChange
  PROVE  TypeOK'
<1> USE DEF TypeOK, deliveryVars
<1>1. DaemonType'
  BY Zenon DEF AppCommit, HandleStatus, ReleaseSlot, DiskChange, daemonVars, DaemonType
<1>2. DeliveryType'
  BY Zenon DEF DeliveryType
<1>3. CaptureType'
  <2> USE DEF CaptureType
  <2>1. ASSUME NEW w \in WalItems, AppCommit(w) PROVE CaptureType'
    BY <2>1 DEF AppCommit
  <2>2. CASE HandleStatus
    <3>1. Head(statuses) \in Nat /\ Tail(statuses) \in Seq(Nat)
      BY <2>2 DEF HandleStatus
    <3> QED
      BY Zenon, <2>2, <3>1 DEF HandleStatus
  <2>3. CASE ReleaseSlot
    <3>1. slot' \in [confirmed : Nat, owner : Daemons \cup {Nobody}]
      BY Zenon, <2>3 DEF ReleaseSlot
    <3>2. statuses' \in Seq(Nat)
      BY <2>3 DEF ReleaseSlot
    <3> QED
      BY Zenon, <2>3, <3>1, <3>2 DEF ReleaseSlot
  <2>4. CASE DiskChange
    BY Zenon, <2>4 DEF DiskChange
  <2> QED
    BY Zenon, <2>1, <2>2, <2>3, <2>4
<1> QED
  BY Zenon, <1>1, <1>2, <1>3

\* The steps of Run and runOnce that open and close a connection.
LEMMA ConnectionType ==
  ASSUME TypeOK, UNCHANGED <<deliveryVars, calm>>, NEW d \in Daemons,
         \/ RunOnce(d) \/ StartReplication(d) \/ LoseConnection(d) \/ NoticeClosed(d)
         \/ Reconnect(d) \/ WaitForDisk(d) \/ RoutineDiskCheck(d) \/ SendStatus(d)
         \/ StopCapture(d)
  PROVE  TypeOK'
<1> USE DEF TypeOK, deliveryVars
<1>0. DeliveryType'
  BY Zenon DEF DeliveryType
<1>1. CASE RunOnce(d)
  <2>1. PausedAfter(paused[d], disk) \in BOOLEAN
    BY Zenon DEF PausedAfter
  <2>2. paused' \in [Daemons -> BOOLEAN]
    BY Zenon, <1>1, <2>1 DEF RunOnce, CaptureType
  <2>3. StartLSN \in Nat
    BY Zenon DEF StartLSN, CaptureType, DaemonType, DbType
  <2>4. [Replicator("connect") EXCEPT !.start = StartLSN] \in ReplicatorType
    BY Zenon, <2>3, RestingTypes DEF ReplicatorType, Pcs
  <2>5. rep' \in [Daemons -> ReplicatorType]
    BY Zenon, <1>1, <2>4, GotoType DEF RunOnce, Fatal, Pcs, CaptureType
  <2>6. /\ mode' \in [Daemons -> {"down", "running", "stopping"}]
        /\ exit' \in [Daemons -> ExitReasons]
    BY Zenon, <1>1, CancelType DEF RunOnce, Fatal, ExitReasons, DaemonType
  <2> QED
    BY Zenon, <1>0, <1>1, <2>2, <2>5, <2>6 DEF RunOnce, DaemonType, CaptureType
<1>2. CASE StartReplication(d)
  <2> DEFINE r == [Replicator("stream") EXCEPT
                     !.start = rep[d].start,
                     !.cursor = IF rep[d].start > slot.confirmed THEN rep[d].start
                                ELSE slot.confirmed,
                     !.durable = IF db.checkpoint # 0 THEN db.checkpoint
                                 ELSE rep[d].start]
  <2>1. rep[d].start \in Nat /\ slot.confirmed \in Nat /\ db.checkpoint \in Nat
    BY Zenon DEF CaptureType, ReplicatorType, DaemonType, DbType
  <2>2. r \in ReplicatorType
    BY Zenon, <2>1, RestingTypes DEF ReplicatorType, Pcs
  <2> HIDE DEF r
  <2>3. rep' \in [Daemons -> ReplicatorType]
    <3>1. Goto(d, "backoff") \/ rep' = [rep EXCEPT ![d] = r]
      BY Zenon, <1>2 DEF StartReplication, r
    <3> QED
      BY Zenon, <3>1, <2>2, GotoType DEF Pcs, CaptureType
  <2>4. slot' \in [confirmed : Nat, owner : Daemons \cup {Nobody}]
    BY Zenon, <1>2 DEF StartReplication, CaptureType
  <2>5. statuses' \in Seq(Nat)
    <3>1. << >> \in Seq(Nat)
      OBVIOUS
    <3> QED
      BY Zenon, <1>2, <3>1 DEF StartReplication, CaptureType
  <2> QED
    BY Zenon, <1>0, <1>2, <2>3, <2>4, <2>5 DEF StartReplication, DaemonType, CaptureType, daemonVars
<1>3. CASE LoseConnection(d) \/ NoticeClosed(d) \/ Reconnect(d)
  <2>1. rep' \in [Daemons -> ReplicatorType]
    BY Zenon, <1>3, GotoType DEF LoseConnection, NoticeClosed, Reconnect, Pcs
  <2> QED
    BY Zenon, <1>0, <1>3, <2>1
    DEF LoseConnection, NoticeClosed, Reconnect, DaemonType, CaptureType, daemonVars
<1>4. CASE WaitForDisk(d) \/ RoutineDiskCheck(d)
  <2>1. rep' \in [Daemons -> ReplicatorType]
    BY Zenon, <1>4, GotoType DEF WaitForDisk, RoutineDiskCheck, Pcs
  <2> QED
    BY Zenon, <1>0, <1>4, <2>1
    DEF WaitForDisk, RoutineDiskCheck, DaemonType, CaptureType, daemonVars
<1>5. CASE SendStatus(d)
  <2>1. rep[d].durable \in Nat
    BY Zenon DEF CaptureType, ReplicatorType
  <2>2. statuses' \in Seq(Nat)
    BY <1>5, <2>1 DEF SendStatus, Status, CaptureType
  <2> QED
    BY Zenon, <1>0, <1>5, <2>2 DEF SendStatus, DaemonType, CaptureType, daemonVars
<1>6. CASE StopCapture(d)
  <2>1. rep' \in [Daemons -> ReplicatorType]
    BY Zenon, <1>6, GotoType DEF StopCapture, Pcs
  <2>2. /\ lock' \in Daemons \cup {Operator, Nobody}
        /\ DOMAIN tx' = Daemons /\ \A q \in Daemons : TxType(tx'[q])
    BY Zenon, <1>6, RollbackType DEF StopCapture
  <2> QED
    BY Zenon, <1>0, <1>6, <2>1, <2>2 DEF StopCapture, DaemonType, CaptureType
<1> QED
  BY Zenon, <1>1, <1>2, <1>3, <1>4, <1>5, <1>6

\* The position of the last message of an item.
LEMMA LastPosType ==
  ASSUME NEW w \in WalItems
  PROVE  /\ Len(w.body) \in Nat /\ LastPos(w) \in Nat
         /\ w.transactional => LastPos(w) = Len(w.body) + 1
         /\ ~w.transactional => LastPos(w) = Len(w.body) - 1
<1>1. w.body \in Seq(Body) /\ (~w.transactional => w.body # << >>)
  BY Zenon, WalItemsAssumption
<1>2. Len(w.body) \in Nat /\ (~w.transactional => Len(w.body) # 0)
  BY <1>1
<1>3. CASE w.transactional
  BY <1>2, <1>3 DEF LastPos
<1>4. CASE ~w.transactional
  BY <1>2, <1>4 DEF LastPos
<1> QED
  BY Zenon, <1>3, <1>4

\* What the message m at position p of item w may be.
MessageOf(w, p, m) ==
  \/ w.transactional /\ p = 0 /\ m.type = "begin"
  \/ w.transactional /\ p = LastPos(w) /\ m.type = "commit"
  \/ \E j \in DOMAIN w.body :
       /\ j = IF w.transactional THEN p ELSE p + 1
       /\ m.type = "message" /\ m.transactional = w.transactional
       /\ m.protected = w.body[j].protected
       /\ m.id = w.body[j].id /\ m.digest = w.body[j].digest
       /\ m.at = p

\* The message at a position inside an item that has been committed.
LEMMA MessageType ==
  ASSUME NEW w \in WalItems, NEW p \in Nat, p <= LastPos(w)
  PROVE  MessageOf(w, p, MessageAt(w, p))
<1>1. w.transactional \in BOOLEAN /\ w.body \in Seq(Body) /\ Len(w.body) \in Nat
  BY WalItemsAssumption
<1>2. CASE w.transactional /\ p = 0
  BY Zenon, <1>2 DEF MessageAt, MessageOf
<1>3. CASE w.transactional /\ p > Len(w.body)
  <2>1. p # 0 /\ p = LastPos(w)
    BY <1>1, <1>3 DEF LastPos
  <2>2. MessageAt(w, p) = [type |-> "commit"]
    BY Zenon, <1>3, <2>1 DEF MessageAt
  <2> QED
    BY <1>3, <2>1, <2>2 DEF MessageOf
<1>4. CASE (w.transactional => p > 0 /\ p <= Len(w.body))
  <2> DEFINE j == IF w.transactional THEN p ELSE p + 1
  <2>1. j \in DOMAIN w.body
    BY <1>1, <1>4 DEF LastPos
  <2>2. MessageAt(w, p) = [type |-> "message", transactional |-> w.transactional,
                           protected |-> w.body[j].protected, valid |-> w.body[j].valid,
                           id |-> w.body[j].id, digest |-> w.body[j].digest, at |-> p]
    BY <1>1, <1>4 DEF MessageAt
  <2> QED
    BY <2>1, <2>2 DEF MessageOf
<1>5. \/ w.transactional /\ p = 0
      \/ w.transactional /\ p > Len(w.body)
      \/ (w.transactional => p > 0 /\ p <= Len(w.body))
  BY <1>1
<1> QED
  BY <1>2, <1>3, <1>4, <1>5, Zenon

\* Consume keeps the type of the state machine.
LEMMA ConsumeType ==
  ASSUME NEW w \in WalItems, NEW p \in Nat, p <= LastPos(w), NEW s \in MachineState
  PROVE  /\ Consume(s, MessageAt(w, p)) \in MachineState
         /\ ConsumeError(s, MessageAt(w, p)) \in ExitReasons
<1> DEFINE m == MessageAt(w, p)
<1>0. w.body \in Seq(Body)
  BY Zenon, WalItemsAssumption
<1>1. \/ m.type = "begin" \/ m.type = "commit"
      \/ /\ m.type = "message"
         /\ m.id \in Identities /\ m.digest \in Digests /\ m.at \in Nat
         /\ m.protected \in BOOLEAN
  <2>1. \A j \in DOMAIN w.body : w.body[j] \in Body
    BY <1>0
  <2>2. \/ m.type = "begin" \/ m.type = "commit"
        \/ \E j \in DOMAIN w.body :
             /\ m.type = "message" /\ m.protected = w.body[j].protected
             /\ m.id = w.body[j].id /\ m.digest = w.body[j].digest /\ m.at = p
    BY MessageType DEF MessageOf
  <2> HIDE DEF m
  <2> QED
    BY Zenon, <2>1, <2>2 DEF Body
<1> HIDE DEF m
<1>2. NewStateMachine \in MachineState
  BY DEF NewStateMachine, MachineState
<1>3. [NewStateMachine EXCEPT !.inTx = TRUE] \in MachineState
  BY Zenon, <1>2 DEF MachineState
<1>4. ASSUME m.type = "message", m.protected
      PROVE  [s EXCEPT !.events = Append(@, [id |-> m.id, digest |-> m.digest,
                                             at |-> m.at]),
                       !.buffered = @ + PayloadSize[m.digest]] \in MachineState
  <2> DEFINE e == [id |-> m.id, digest |-> m.digest, at |-> m.at]
  <2>1. e \in BufferedEvent
    BY Zenon, <1>1, <1>4 DEF BufferedEvent
  <2> HIDE DEF e
  <2>2. Append(s.events, e) \in Seq(BufferedEvent)
    BY <2>1 DEF MachineState
  <2>3. s.buffered + PayloadSize[m.digest] \in Nat
    BY <1>1, <1>4, PayloadSizeAssumption DEF MachineState
  <2> QED
    BY Zenon, <2>2, <2>3 DEF MachineState, e
<1>5. Consume(s, m) \in MachineState
  BY Zenon, <1>1, <1>2, <1>3, <1>4 DEF Consume
<1>6. ConsumeError(s, m) \in ExitReasons
  BY Zenon, <1>1 DEF ConsumeError, LogicalMessageError, ExitReasons
<1> QED
  BY Zenon, <1>5, <1>6 DEF m

\* A received message: the replicator that has consumed it.
LEMMA ReceiveType ==
  ASSUME TypeOK, UNCHANGED <<deliveryVars, calm>>, NEW d \in Daemons, StreamInv(d),
         Receive(d)
  PROVE  TypeOK'
<1> DEFINE r == rep[d]
           w == wal[r.cursor]
           m == MessageAt(w, r.pos)
           last == r.pos = LastPos(w)
           cursor == IF last THEN r.cursor + 1 ELSE r.cursor
           pos == IF last THEN 0 ELSE r.pos + 1
           sm == Consume(r.sm, m)
           next == [r EXCEPT !.sm = sm, !.cursor = cursor, !.pos = pos]
           batch == [events |-> r.sm.events, lsn |-> r.cursor, end |-> EndLSN(r.cursor)]
<1>1. r \in ReplicatorType
  BY Zenon DEF TypeOK, CaptureType
<1>2. /\ r.cursor \in Nat /\ r.pos \in Nat /\ r.sm \in MachineState
      /\ r.pc = "stream" /\ r.cursor <= Len(wal) /\ r.cursor >= 1
  BY Zenon, <1>1 DEF ReplicatorType, Receive, StreamInv, ConnectionInv, Connected, FirstLSN
<1>3. w \in WalItems
  BY <1>2 DEF TypeOK, CaptureType
<1>4. r.pos <= LastPos(w)
  <2>1. CASE r.pos > 0
    BY Zenon, <2>1, <1>2 DEF StreamInv, BufferInv
  <2>2. CASE r.pos = 0
    BY <2>2, <1>3, WalItemsAssumption DEF LastPos
  <2> QED
    BY <2>1, <2>2, <1>2
<1>5. sm \in MachineState /\ ConsumeError(r.sm, m) \in ExitReasons
  BY Zenon, <1>2, <1>3, <1>4, ConsumeType
<1>6. /\ cursor \in Nat /\ pos \in Nat
      /\ batch \in [events : Seq(BufferedEvent), lsn : Nat, end : Nat]
  BY <1>2 DEF EndLSN, MachineState
<1>7. next \in ReplicatorType /\ [next EXCEPT !.pc = "persist", !.batch = batch] \in ReplicatorType
  <2> HIDE DEF r, sm, cursor, pos, batch
  <2>1. next \in ReplicatorType
    BY Zenon, <1>1, <1>5, <1>6 DEF ReplicatorType
  <2> HIDE DEF next
  <2> QED
    BY Zenon, <2>1, <1>6 DEF ReplicatorType, Pcs
<1>8. /\ \/ Fatal(d, ConsumeError(r.sm, m)) /\ UNCHANGED paused
         \/ rep' = [rep EXCEPT ![d] = next] /\ UNCHANGED <<paused, mode, exit>>
         \/ /\ paused' = [paused EXCEPT ![d] = PausedAfter(@, disk)]
            /\ \/ Goto(d, "paused")
               \/ rep' = [rep EXCEPT ![d] = [next EXCEPT !.pc = "persist", !.batch = batch]]
            /\ UNCHANGED <<mode, exit>>
      /\ UNCHANGED <<wal, slot, statuses, disk, db, lock, tx>>
  BY Zenon DEF Receive
<1> DEFINE full == [next EXCEPT !.pc = "persist", !.batch = batch]
<1> HIDE DEF r, m, sm, next, batch, full
<1>9. rep' \in [Daemons -> ReplicatorType]
  BY Zenon, <1>7, <1>8, GotoType DEF Fatal, Pcs, TypeOK, CaptureType, full
<1>10. paused' \in [Daemons -> BOOLEAN]
  <2>1. PausedAfter(paused[d], disk) \in BOOLEAN
    BY Zenon DEF PausedAfter
  <2> QED
    BY Zenon, <1>8, <2>1 DEF TypeOK, CaptureType
<1>11. /\ mode' \in [Daemons -> {"down", "running", "stopping"}]
       /\ exit' \in [Daemons -> ExitReasons]
  BY Zenon, <1>5, <1>8, CancelType DEF Fatal, TypeOK, DaemonType
<1> QED
  BY Zenon, <1>8, <1>9, <1>10, <1>11
  DEF TypeOK, DaemonType, CaptureType, DeliveryType, deliveryVars

\* A transaction that is opened, or has spooled one more event.
LEMMA OpenTxType ==
  ASSUME NEW b, DbType(b), NEW next \in Nat, NEW stale \in BOOLEAN
  PROVE  TxType(OpenTx(b, next, stale))
  BY Zenon DEF OpenTx, TxType

\* The transaction of PersistCommittedBatch begins or takes an event.
LEMMA PersistType ==
  ASSUME TypeOK, UNCHANGED <<deliveryVars, calm>>, NEW d \in Daemons,
         TransactionInv(d), BeginBatch(d) \/ PersistEvent(d)
  PROVE  TypeOK'
<1>0. DeliveryType' /\ calm' \in BOOLEAN
  BY Zenon DEF TypeOK, DeliveryType, deliveryVars
<1>1. CASE BeginBatch(d)
  <2> DEFINE t == OpenTx(db, 1, FALSE)
  <2>1. TxType(t)
    BY Zenon, OpenTxType DEF TypeOK, DaemonType
  <2> HIDE DEF t
  <2>2. tx' = [tx EXCEPT ![d] = t] /\ (lock' = d \/ lock' = lock)
    BY Zenon, <1>1 DEF BeginBatch, t
  <2>3. DaemonType'
    BY Zenon, <1>1, <2>1, <2>2 DEF BeginBatch, TypeOK, DaemonType
  <2> QED
    BY Zenon, <1>0, <1>1, <2>3 DEF BeginBatch, TypeOK, CaptureType, captureVars
<1>2. CASE PersistEvent(d)
  <2> DEFINE e == rep[d].batch.events[tx[d].next]
             b == SpoolEvent(tx[d].db, e, rep[d].batch.lsn)
             t == OpenTx(b, tx[d].next + 1, tx[d].stale)
  <2>1. CASE IdentityConflict(tx[d].db, e)
    <3>1. Rollback(d) /\ Goto(d, "off") /\ Cancel(d, "identity_conflict")
      BY Zenon, <1>2, <2>1 DEF PersistEvent, Fatal
    <3>2. /\ lock' \in Daemons \cup {Operator, Nobody}
          /\ DOMAIN tx' = Daemons /\ \A q \in Daemons : TxType(tx'[q])
      BY Zenon, <3>1, RollbackType
    <3>3. rep' \in [Daemons -> ReplicatorType]
      BY Zenon, <3>1, GotoType DEF Pcs
    <3>4. /\ mode' \in [Daemons -> {"down", "running", "stopping"}]
          /\ exit' \in [Daemons -> ExitReasons]
      BY Zenon, <3>1, CancelType DEF ExitReasons
    <3>5. UNCHANGED <<wal, slot, statuses, disk, paused, db>>
      BY Zenon, <1>2 DEF PersistEvent
    <3> QED
      BY Zenon, <1>0, <3>2, <3>3, <3>4, <3>5 DEF TypeOK, DaemonType, CaptureType
  <2>2. CASE ~IdentityConflict(tx[d].db, e)
    <3>1. rep[d] \in ReplicatorType /\ TxType(tx[d])
      BY Zenon DEF TypeOK, DaemonType, CaptureType
    <3>2. /\ rep[d].batch.events \in Seq(BufferedEvent) /\ rep[d].batch.lsn \in Nat
          /\ tx[d].next \in Nat /\ tx[d].next <= Len(rep[d].batch.events)
          /\ DbType(tx[d].db)
      BY Zenon, <1>2, <3>1 DEF ReplicatorType, TxType, PersistEvent
    <3>3. e \in BufferedEvent
      <4>1. tx[d].next > 0
        BY Zenon, <1>2 DEF PersistEvent, TransactionInv
      <4> QED
        BY <3>2, <4>1
    <3>4. DbType(b)
      <4> HIDE DEF e
      <4> QED
        BY Zenon, <3>2, <3>3, SpoolEventType DEF BufferedEvent
    <3>5. TxType(t)
      <4>1. tx[d].stale \in BOOLEAN /\ tx[d].next + 1 \in Nat
        BY <3>1, <3>2 DEF TxType
      <4> HIDE DEF b
      <4> QED
        BY Zenon, <3>4, <4>1, OpenTxType
    <3>6. tx' = [tx EXCEPT ![d] = t] /\ UNCHANGED <<rep, lock, mode, exit>>
      BY Zenon, <1>2, <2>2 DEF PersistEvent
    <3> HIDE DEF t
    <3>7. DaemonType'
      BY Zenon, <1>2, <3>5, <3>6 DEF PersistEvent, TypeOK, DaemonType
    <3> QED
      BY Zenon, <1>0, <1>2, <3>6, <3>7 DEF PersistEvent, TypeOK, CaptureType
  <2> QED
    BY Zenon, <2>1, <2>2
<1> QED
  BY Zenon, <1>1, <1>2

\* No batch is a batch without events (CommittedBatch).
LEMMA NoBatchType == NoBatch \in [events : Seq(BufferedEvent), lsn : Nat, end : Nat]
<1>1. << >> \in Seq(BufferedEvent)
  OBVIOUS
<1> HIDE DEF BufferedEvent
<1> QED
  BY Zenon, <1>1 DEF NoBatch

\* The end of PersistCommittedBatch and the acknowledgement.
LEMMA CommitType ==
  ASSUME TypeOK, UNCHANGED <<deliveryVars, calm>>, NEW d \in Daemons,
         CommitBatch(d) \/ Acknowledge(d)
  PROVE  TypeOK'
<1>0. DeliveryType' /\ calm' \in BOOLEAN
  BY Zenon DEF TypeOK, DeliveryType, deliveryVars
<1>1. /\ rep[d] \in ReplicatorType /\ TxType(tx[d])
      /\ rep \in [Daemons -> ReplicatorType]
  BY Zenon DEF TypeOK, DaemonType, CaptureType
<1>2. /\ rep[d].batch \in [events : Seq(BufferedEvent), lsn : Nat, end : Nat]
      /\ rep[d].batch.end \in Nat /\ DbType(tx[d].db)
  BY Zenon, <1>1 DEF ReplicatorType, TxType
<1>3. CASE CommitBatch(d)
  <2> DEFINE b == RaiseCheckpoint(tx[d].db, rep[d].batch.end)
             new == IF lock = d \/ MovesCheckpoint(d) THEN b ELSE db
             bt == [rep[d].batch EXCEPT !.end = b.checkpoint]
             r == [rep[d] EXCEPT !.pc = "ack", !.batch = bt]
  <2>1. DbType(b)
    BY Zenon, <1>2, RaiseCheckpointType
  <2>2. /\ db' = new /\ tx' = [SnapshotsAfter(new) EXCEPT ![d] = NoTx]
        /\ rep' = [rep EXCEPT ![d].pc = "ack", ![d].batch.end = b.checkpoint]
    BY Zenon, <1>3 DEF CommitBatch
  <2>3. r \in ReplicatorType
    <3>1. b.checkpoint \in Nat
      BY Zenon, <2>1 DEF DbType
    <3> HIDE DEF b
    <3>2. bt \in [events : Seq(BufferedEvent), lsn : Nat, end : Nat]
      BY Zenon, <1>2, <3>1
    <3> HIDE DEF bt
    <3> QED
      BY Zenon, <1>1, <3>2 DEF ReplicatorType, Pcs
  <2>4. rep' = [rep EXCEPT ![d] = r]
    <3> HIDE DEF b
    <3> QED
      BY Zenon, <2>2, <1>1 DEF ReplicatorType
  <2> HIDE DEF r, b
  <2>5. DbType(new)
    BY Zenon, <2>1 DEF TypeOK, DaemonType
  <2> HIDE DEF new
  <2>6. DOMAIN tx' = Daemons /\ \A q \in Daemons : TxType(tx'[q])
    BY Zenon, <2>2, SnapshotsAfterType, RestingTypes
  <2>7. DaemonType'
    BY Zenon, <1>3, <2>2, <2>5, <2>6 DEF CommitBatch, TypeOK, DaemonType
  <2> QED
    BY Zenon, <1>0, <1>1, <1>3, <2>3, <2>4, <2>7 DEF CommitBatch, TypeOK, CaptureType
<1>4. CASE Acknowledge(d)
  <2> DEFINE r == [rep[d] EXCEPT !.pc = "stream", !.batch = NoBatch,
                                 !.durable = rep[d].batch.end]
  <2>1. NoBatch \in [events : Seq(BufferedEvent), lsn : Nat, end : Nat]
    BY Zenon, NoBatchType
  <2>2. r \in ReplicatorType
    BY Zenon, <1>1, <1>2, <2>1 DEF ReplicatorType, Pcs
  <2>3. rep' = [rep EXCEPT ![d] = r]
    BY Zenon, <1>4 DEF Acknowledge
  <2> HIDE DEF r
  <2>4. statuses' \in Seq(Nat)
    BY <1>2, <1>4 DEF Acknowledge, Status, TypeOK, CaptureType
  <2> QED
    BY <1>0, <1>1, <1>4, <2>2, <2>3, <2>4
    DEF Acknowledge, TypeOK, DaemonType, CaptureType, daemonVars
<1> QED
  BY Zenon, <1>3, <1>4

\* PersistCommittedBatch fails, or the context is cancelled inside it.
LEMMA PersistErrorType ==
  ASSUME TypeOK, UNCHANGED <<deliveryVars, calm>>, NEW d \in Daemons,
         SnapshotConflict(d) \/ PersistBusy(d) \/ PersistFails(d)
  PROVE  TypeOK'
<1>1. Rollback(d) /\ Goto(d, "off") /\ \E reason \in ExitReasons : Cancel(d, reason)
  BY Zenon DEF SnapshotConflict, PersistBusy, PersistFails, Fatal, ExitReasons
<1>2. UNCHANGED <<wal, slot, statuses, disk, paused, db>>
  BY Zenon DEF SnapshotConflict, PersistBusy, PersistFails
<1>3. /\ lock' \in Daemons \cup {Operator, Nobody}
      /\ DOMAIN tx' = Daemons /\ \A q \in Daemons : TxType(tx'[q])
  BY Zenon, <1>1, RollbackType
<1>4. rep' \in [Daemons -> ReplicatorType]
  BY Zenon, <1>1, GotoType DEF Pcs
<1>5. /\ mode' \in [Daemons -> {"down", "running", "stopping"}]
      /\ exit' \in [Daemons -> ExitReasons]
  BY Zenon, <1>1, CancelType
<1> QED
  BY Zenon, <1>2, <1>3, <1>4, <1>5 DEF TypeOK, DaemonType, CaptureType, DeliveryType, deliveryVars
-----------------------------------------------------------------------------
(* The worker, the maintenance commands and the life of a daemon.          *)

\* A statement that is a transaction of its own.
LEMMA WriteType ==
  ASSUME TypeOK, NEW b, DbType(b), db' = b, tx' = SnapshotsAfter(b),
         lock' \in Daemons \cup {Operator, Nobody}, UNCHANGED <<mode, exit>>
  PROVE  DaemonType'
  BY Zenon, SnapshotsAfterType DEF TypeOK, DaemonType

\* ProcessOne up to the answer of the destination.
LEMMA SendType ==
  ASSUME TypeOK, UNCHANGED <<captureVars, calm>>, NEW d \in Daemons,
         \/ SelectNext(d) \/ Accept(d) \/ StopWorker(d) \/ RecordFails(d) \/ StoreFails(d)
         \/ \E result \in Results \ {"none"} : SendReturns(d, result)
  PROVE  TypeOK'
<1> USE DEF TypeOK
<1>0. CaptureType' /\ calm' \in BOOLEAN
  BY Zenon DEF CaptureType, captureVars
<1>1. CASE SelectNext(d)
  <2>1. PICK k \in NextDueDelivery(db) :
          \/ /\ wrk' = [wrk EXCEPT ![d] =
                  [Worker("send") EXCEPT
                     !.item = [key |-> k, attempts |-> db.deliveries[k].attempts]]]
             /\ UNCHANGED <<mode, exit>>
          \/ /\ wrk' = [wrk EXCEPT ![d] = Worker("off")]
             /\ Cancel(d, "worker")
    BY Zenon, <1>1 DEF SelectNext
  <2> DEFINE item == [key |-> k, attempts |-> db.deliveries[k].attempts]
             w == [Worker("send") EXCEPT !.item = item]
  <2>2. k \in DOMAIN db.deliveries
    BY Zenon, <2>1 DEF NextDueDelivery, DueHeads, Heads
  <2>3. k \in Keys /\ db.deliveries[k] \in DeliveryRow
    <3>1. /\ DOMAIN db.deliveries \subseteq (DOMAIN db.events) \X (DOMAIN db.sinks)
          /\ DOMAIN db.events \subseteq Nat /\ DOMAIN db.sinks \subseteq SinkNames
          /\ db.deliveries \in [DOMAIN db.deliveries -> DeliveryRow]
      BY DEF DaemonType, DbType
    <3> QED
      BY Zenon, <2>2, <3>1 DEF Keys
  <2>4. item \in [key : Keys, attempts : Nat]
    BY Zenon, <2>3 DEF DeliveryRow
  <2>5. w \in WorkerType
    <3> HIDE DEF item
    <3> QED
      BY Zenon, <2>4, RestingTypes DEF WorkerType
  <2>6. \/ wrk' = [wrk EXCEPT ![d] = w] /\ UNCHANGED <<mode, exit>>
        \/ wrk' = [wrk EXCEPT ![d] = Worker("off")] /\ Cancel(d, "worker")
    BY Zenon, <2>1
  <2> HIDE DEF w
  <2>7. wrk' \in [Daemons -> WorkerType]
    BY Zenon, <2>5, <2>6, RestingTypes DEF DeliveryType
  <2>8. /\ mode' \in [Daemons -> {"down", "running", "stopping"}]
        /\ exit' \in [Daemons -> ExitReasons]
    BY Zenon, <2>6, CancelType DEF ExitReasons, DaemonType
  <2> QED
    BY Zenon, <1>0, <1>1, <2>7, <2>8 DEF SelectNext, DaemonType, DeliveryType
<1>2. CASE Accept(d)
  <2> DEFINE w == [wrk[d] EXCEPT !.accepted = TRUE]
  <2>1. w \in WorkerType
    BY Zenon DEF DeliveryType, WorkerType
  <2>2. wrk' = [wrk EXCEPT ![d] = w]
    BY Zenon, <1>2 DEF Accept
  <2> HIDE DEF w
  <2>3. wrk[d].item.key \in Keys
    BY Zenon DEF DeliveryType, WorkerType
  <2> QED
    BY Zenon, <1>0, <1>2, <2>1, <2>2, <2>3 DEF Accept, DaemonType, DeliveryType
<1>3. CASE StopWorker(d)
  BY Zenon, <1>0, <1>3, RestingTypes DEF StopWorker, DaemonType, DeliveryType
<1>4. CASE RecordFails(d) \/ StoreFails(d)
  <2>1. wrk' \in [Daemons -> WorkerType]
    BY Zenon, <1>4, RestingTypes DEF RecordFails, StoreFails, DeliveryType
  <2>2. /\ mode' \in [Daemons -> {"down", "running", "stopping"}]
        /\ exit' \in [Daemons -> ExitReasons]
    BY Zenon, <1>4, CancelType DEF RecordFails, StoreFails, ExitReasons
  <2> QED
    BY Zenon, <1>0, <1>4, <2>1, <2>2 DEF RecordFails, StoreFails, DaemonType, DeliveryType
<1>5. ASSUME NEW result \in Results \ {"none"}, SendReturns(d, result) PROVE TypeOK'
  <2> DEFINE w == [wrk[d] EXCEPT !.pc = "record", !.result = result]
  <2>1. w \in WorkerType
    BY Zenon DEF DeliveryType, WorkerType
  <2>2. wrk' = [wrk EXCEPT ![d] = w] \/ wrk' = [wrk EXCEPT ![d] = Worker("off")]
    BY Zenon, <1>5 DEF SendReturns
  <2> HIDE DEF w
  <2>3. wrk' \in [Daemons -> WorkerType]
    BY Zenon, <2>1, <2>2, RestingTypes DEF DeliveryType
  <2> QED
    BY Zenon, <1>0, <1>5, <2>3 DEF SendReturns, DaemonType, DeliveryType
<1> QED
  BY Zenon, <1>1, <1>2, <1>3, <1>4, <1>5

\* ProcessOne records the result.
LEMMA RecordType ==
  ASSUME TypeOK, UNCHANGED <<captureVars, calm>>, NEW d \in Daemons,
         \/ RecordSuccess(d)
         \/ \E delay \in InitialDelay..MaxDelay : RecordFailure(d, delay)
  PROVE  TypeOK' /\ SameLog(db, db')
<1>0. CaptureType' /\ calm' \in BOOLEAN
  BY Zenon DEF TypeOK, CaptureType, captureVars
<1>1. PICK b : DbType(b) /\ SameLog(db, b) /\ Write(b)
  <2>1. DbType(db)
    BY Zenon DEF TypeOK, DaemonType
  <2>2. CASE RecordSuccess(d)
    BY Zenon, <2>1, <2>2, MarkDeliveredType DEF RecordSuccess
  <2>3. ASSUME NEW delay \in InitialDelay..MaxDelay, RecordFailure(d, delay)
        PROVE  \E b : DbType(b) /\ SameLog(db, b) /\ Write(b)
    <3> DEFINE permanent == \/ wrk[d].result = "permanent"
                            \/ wrk[d].item.attempts + 1 >= MaxAttempts
    <3>1. permanent \in BOOLEAN /\ delay \in Nat
      BY RetryAssumption
    <3>2. /\ StillOwned(db, wrk[d].item)
          /\ Write(MarkFailed(db, wrk[d].item, permanent, delay))
      BY Zenon, <2>3 DEF RecordFailure
    <3> HIDE DEF permanent
    <3> QED
      BY Zenon, <2>1, <3>1, <3>2, MarkFailedType
  <2> QED
    BY Zenon, <2>2, <2>3
<1>2. /\ wrk' = [wrk EXCEPT ![d] = Worker("idle")]
      /\ UNCHANGED <<config, accepted, pruning, lock, mode, exit>>
  BY Zenon DEF RecordSuccess, RecordFailure
<1>3. DaemonType'
  <2>1. lock' \in Daemons \cup {Operator, Nobody}
    BY Zenon, <1>2 DEF TypeOK, DaemonType
  <2> QED
    BY Zenon, <1>1, <1>2, <2>1, WriteType DEF Write
<1>4. DeliveryType'
  BY Zenon, <1>2, RestingTypes DEF TypeOK, DeliveryType
<1> QED
  BY Zenon, <1>0, <1>1, <1>3, <1>4 DEF TypeOK, Write

\* redrive, prune and the passage of time.
LEMMA MaintenanceType ==
  ASSUME TypeOK, UNCHANGED <<captureVars, calm>>,
         \/ \E k \in DOMAIN db.deliveries : Redrive(k)
         \/ \E c \in Cutoffs, l \in Limits : PruneBegin(c, l)
         \/ PruneCommit \/ PruneAbort \/ Tick
  PROVE  TypeOK' /\ SameLog(db, db')
<1>0. /\ CaptureType' /\ calm' \in BOOLEAN
      /\ DbType(db) /\ SameLog(db, db)
  BY Zenon DEF TypeOK, DaemonType, CaptureType, captureVars, SameLog
<1>1. ASSUME NEW k \in DOMAIN db.deliveries, Redrive(k) PROVE TypeOK' /\ SameLog(db, db')
  <2>1. /\ DbType(RedriveDelivery(db, k)) /\ SameLog(db, RedriveDelivery(db, k))
        /\ Write(RedriveDelivery(db, k))
    BY Zenon, <1>0, <1>1, RedriveDeliveryType DEF Redrive
  <2>2. UNCHANGED <<deliveryVars, lock, mode, exit>>
    BY Zenon, <1>1 DEF Redrive
  <2>3. lock' \in Daemons \cup {Operator, Nobody}
    BY Zenon, <2>2 DEF TypeOK, DaemonType
  <2>4. DaemonType'
    BY Zenon, <2>1, <2>2, <2>3, WriteType DEF Write
  <2> QED
    BY Zenon, <1>0, <2>1, <2>2, <2>4 DEF TypeOK, DeliveryType, deliveryVars, Write
<1>2. ASSUME NEW c \in Cutoffs, NEW l \in Limits, PruneBegin(c, l)
      PROVE  TypeOK' /\ SameLog(db, db')
  <2>1. c \in Nat /\ l \in Nat
    BY PruneAssumption, MaxAgeAssumption
  <2> QED
    BY Zenon, <1>0, <1>2, <2>1 DEF PruneBegin, TypeOK, DaemonType, DeliveryType
<1>3. CASE PruneCommit
  <2> DEFINE b == Prune(db, PruneSelection(db, pruning.cutoff, pruning.limit))
  <2>1. DbType(b) /\ SameLog(db, b)
    BY Zenon, <1>0, PruneType
  <2>2. db' = b /\ tx' = SnapshotsAfter(b)
    BY Zenon, <1>3 DEF PruneCommit
  <2> HIDE DEF b
  <2>3. DaemonType'
    BY Zenon, <1>3, <2>1, <2>2, WriteType DEF PruneCommit
  <2> QED
    BY Zenon, <1>0, <1>3, <2>1, <2>2, <2>3 DEF PruneCommit, NoPrune, TypeOK, DeliveryType
<1>4. CASE PruneAbort
  BY Zenon, <1>0, <1>4 DEF PruneAbort, NoPrune, TypeOK, DaemonType, DeliveryType
<1>5. CASE Tick
  <2>1. DbType(db') /\ SameLog(db, db')
    BY Zenon, <1>0, <1>5, ElapseType DEF Tick
  <2> QED
    BY Zenon, <1>0, <1>5, <2>1 DEF Tick, TypeOK, DaemonType, DeliveryType, deliveryVars
<1> QED
  BY Zenon, <1>1, <1>2, <1>3, <1>4, <1>5

\* A daemon starts, is told to stop, ends or dies.
LEMMA LifeType ==
  ASSUME TypeOK, NEW d \in Daemons,
         \/ \E regs \in Configs : Start(d, regs)
         \/ Signal(d) \/ Exit(d) \/ Crash(d)
  PROVE  TypeOK' /\ SameLog(db, db')
<1>0. DbType(db) /\ SameLog(db, db)
  BY Zenon DEF TypeOK, DaemonType, SameLog
<1>1. ASSUME NEW regs \in Configs, Start(d, regs) PROVE TypeOK' /\ SameLog(db, db')
  <2>1. regs \in Seq([name : SinkNames, target : Targets])
    BY Zenon, ConfigsAssumption
  <2>2. DbType(db') /\ SameLog(db, db')
    BY Zenon, <1>0, <1>1, <2>1, ConfigureSinksType DEF Start, Write
  <2>3. DOMAIN tx' = Daemons /\ \A q \in Daemons : TxType(tx'[q])
    BY Zenon, <1>1, SnapshotsAfterType DEF Start, Write, TypeOK, DaemonType
  <2>4. DaemonType'
    BY Zenon, <1>1, <2>2, <2>3 DEF Start, TypeOK, DaemonType, ExitReasons
  <2>5. CaptureType'
    BY Zenon, <1>1, RestingTypes DEF Start, TypeOK, CaptureType, Pcs
  <2>6. NamesOf(regs) \subseteq SinkNames
    <3> DEFINE R == [name : SinkNames, target : Targets]
    <3>1. regs \in Seq(R) /\ \A r \in R : r.name \in SinkNames
      BY Zenon, <2>1
    <3> HIDE DEF R
    <3>2. \A i \in DOMAIN regs : regs[i] \in R
      BY <3>1
    <3> QED
      BY Zenon, <3>1, <3>2 DEF NamesOf
  <2>7. DeliveryType'
    BY Zenon, <1>1, <2>6, RestingTypes DEF Start, TypeOK, DeliveryType
  <2> QED
    BY Zenon, <1>1, <2>2, <2>4, <2>5, <2>7 DEF Start, TypeOK
<1>2. CASE Signal(d)
  BY Zenon, <1>0, <1>2, CancelType
  DEF Signal, TypeOK, DaemonType, CaptureType, DeliveryType, captureVars, deliveryVars,
      ExitReasons
<1>3. CASE Exit(d)
  BY Zenon, <1>0, <1>3 DEF Exit, TypeOK, DaemonType, CaptureType, DeliveryType, ExitReasons
<1>4. CASE Crash(d)
  <2>1. DaemonType'
    BY Zenon, <1>4, RollbackType DEF Crash, TypeOK, DaemonType, ExitReasons
  <2>2. CaptureType'
    BY Zenon, <1>4, RestingTypes DEF Crash, TypeOK, CaptureType, Pcs
  <2>3. DeliveryType'
    BY Zenon, <1>4, RestingTypes DEF Crash, TypeOK, DeliveryType
  <2> QED
    BY Zenon, <1>0, <1>4, <2>1, <2>2, <2>3 DEF Crash, TypeOK
<1> QED
  BY Zenon, <1>1, <1>2, <1>3, <1>4

-----------------------------------------------------------------------------
(* Facts about capture that several arguments share.                       *)

\* The durable position is a position.
LEMMA DurableLSNType ==
  ASSUME TypeOK
  PROVE  DurableLSN \in Nat /\ DurableLSN >= 1 /\ db.checkpoint <= DurableLSN
  BY DEF TypeOK, DaemonType, DbType, DurableLSN, FirstLSN

\* An index of a sequence, and what it finds there.
LEMMA SeqIndex ==
  ASSUME NEW S, NEW f \in Seq(S), NEW i \in DOMAIN f
  PROVE  i \in Nat /\ 1 <= i /\ i <= Len(f) /\ Len(f) \in Nat /\ f[i] \in S
  OBVIOUS

\* The marks of a commit disturb nothing but "stale".
LEMMA SnapshotsFrame ==
  ASSUME TypeOK, NEW b, NEW q \in Daemons
  PROVE  LET t == SnapshotsAfter(b)[q]
         IN  /\ t.open = tx[q].open /\ t.db = tx[q].db /\ t.next = tx[q].next
             /\ tx[q].stale => t.stale
             /\ tx[q].open /\ b # db => t.stale
<1>1. tx[q] = [open |-> tx[q].open, db |-> tx[q].db, next |-> tx[q].next,
               stale |-> tx[q].stale]
  BY Zenon DEF TypeOK, DaemonType, TxType
<1> DEFINE t == tx[q]
           s == t.stale \/ (t.open /\ b # db)
<1>2. SnapshotsAfter(b)[q] = [t EXCEPT !.stale = s]
  BY Zenon DEF SnapshotsAfter
<1> HIDE DEF t, s
<1>3. [t EXCEPT !.stale = s] = [open |-> t.open, db |-> t.db, next |-> t.next, stale |-> s]
  BY <1>1 DEF t
<1> QED
  BY Zenon, <1>2, <1>3 DEF t, s

\* A replicator that is not persisting has no transaction.
LEMMA NoTransaction ==
  ASSUME CaptureInv, NEW d \in Daemons, rep[d].pc # "persist" \/ ~tx[d].open
  PROVE  ~tx[d].open /\ lock # d
  BY Zenon DEF CaptureInv, TransactionInv

\* A log that grows keeps what it holds.
LEMMA GrowingLog ==
  ASSUME NEW a, NEW b, NEW c
  PROVE  /\ LogGrows(a, b) /\ LogGrows(b, c) => LogGrows(a, c)
         /\ \A m : SpooledIn(a, m) /\ LogGrows(a, b) => SpooledIn(b, m)
<1>1. LogGrows(a, b) /\ LogGrows(b, c) => LogGrows(a, c)
  BY Zenon DEF LogGrows
<1>2. ASSUME NEW m, SpooledIn(a, m), LogGrows(a, b) PROVE SpooledIn(b, m)
  <2>1. PICK n \in DOMAIN a.events : a.events[n].id = m.id /\ a.events[n].digest = m.digest
    BY Zenon, <1>2 DEF SpooledIn
  <2>2. n \in DOMAIN b.events /\ b.events[n].id = m.id /\ b.events[n].digest = m.digest
    BY Zenon, <1>2, <2>1 DEF LogGrows
  <2> QED
    BY Zenon, <2>2 DEF SpooledIn
<1> QED
  BY Zenon, <1>1, <1>2

\* A commit that raises the checkpoint to the end of the batch: everything
\* below the new durable position is in the database it leaves.
LEMMA CommitCovers ==
  ASSUME TypeOK, CaptureInv, NEW d \in Daemons, AllInserted(d),
         LogGrows(db, tx[d].db), NEW b,
         b = RaiseCheckpoint(tx[d].db, rep[d].batch.end)
  PROVE  /\ b.checkpoint \in Nat /\ b.checkpoint >= DurableLSN
         /\ b.checkpoint >= rep[d].batch.end
         /\ b.checkpoint <= Len(wal) + 1
         /\ \A i \in DOMAIN wal : i < b.checkpoint =>
              \A j \in DOMAIN wal[i].body :
                wal[i].body[j].protected => SpooledIn(b, wal[i].body[j])
<1> DEFINE t == tx[d]
           bt == rep[d].batch
<1>1. /\ rep[d] \in ReplicatorType /\ TxType(t) /\ wal \in Seq(WalItems)
      /\ db.checkpoint \in Nat
  BY Zenon DEF TypeOK, CaptureType, DaemonType, DbType
<1>2. /\ bt.events \in Seq(BufferedEvent) /\ bt.lsn \in Nat /\ bt.end \in Nat
      /\ DbType(t.db) /\ t.db.checkpoint = db.checkpoint /\ t.next \in Nat
  BY Zenon, <1>1 DEF ReplicatorType, TxType, LogGrows
<1>3. /\ bt.lsn \in DOMAIN wal /\ bt.end = bt.lsn + 1
      /\ NothingBetween(DurableLSN, bt.lsn)
      /\ Holds(bt.events, wal[bt.lsn].body, Len(wal[bt.lsn].body))
      /\ \A k \in DOMAIN bt.events : k < t.next => SpooledIn(t.db, bt.events[k])
      /\ t.next > Len(bt.events)
  BY Zenon DEF CaptureInv, StreamInv, BatchInv, TransactionInv, AllInserted, EndLSN
<1>4. /\ b.events = t.db.events
      /\ b.checkpoint = IF bt.end > db.checkpoint THEN bt.end ELSE db.checkpoint
  BY Zenon, <1>2, RaiseCheckpointType
<1>5. /\ DurableLSN \in Nat /\ DurableLSN >= 1 /\ db.checkpoint <= DurableLSN
      /\ (db.checkpoint # 0 => DurableLSN = db.checkpoint)
      /\ (db.checkpoint = 0 => DurableLSN = 1)
      /\ DurableLSN <= Len(wal) + 1 /\ SpooledBelow(DurableLSN)
  BY Zenon, DurableLSNType DEF CaptureInv, PositionInv, DurableLSN, FirstLSN
<1>6. bt.lsn >= 1 /\ bt.lsn <= Len(wal) /\ Len(wal) \in Nat
  <2>1. wal \in Seq(WalItems) /\ bt.lsn \in DOMAIN wal
    BY Zenon, <1>1, <1>3
  <2> HIDE DEF bt
  <2> QED
    BY Zenon, <2>1, SeqIndex
<1>7. /\ b.checkpoint \in Nat /\ b.checkpoint >= DurableLSN
      /\ b.checkpoint >= bt.end /\ b.checkpoint <= Len(wal) + 1
  <2>1. /\ bt.lsn \in Nat /\ bt.lsn <= Len(wal) /\ bt.end = bt.lsn + 1
        /\ Len(wal) \in Nat /\ db.checkpoint \in Nat
    BY Zenon, <1>1, <1>2, <1>3, <1>6
  <2>2. /\ DurableLSN \in Nat /\ DurableLSN >= 1 /\ DurableLSN <= Len(wal) + 1
        /\ (db.checkpoint # 0 => DurableLSN = db.checkpoint)
        /\ (db.checkpoint = 0 => DurableLSN = 1)
    BY Zenon, <1>5
  <2>3. CASE bt.end > db.checkpoint
    <3>1. b.checkpoint = bt.end
      BY Zenon, <1>4, <2>3
    <3> HIDE DEF bt
    <3>2. bt.end \in Nat /\ bt.end >= 1 /\ bt.end <= Len(wal) + 1 /\ bt.end >= bt.end
      BY <2>1
    <3>3. DurableLSN = 1 \/ DurableLSN = db.checkpoint
      BY Zenon, <2>2
    <3>4. bt.end >= DurableLSN
      BY <2>1, <2>3, <3>2, <3>3
    <3> QED
      BY Zenon, <3>1, <3>2, <3>4
  <2>4. CASE ~(bt.end > db.checkpoint)
    <3>1. b.checkpoint = db.checkpoint
      BY Zenon, <1>4, <2>4
    <3> HIDE DEF bt
    <3>2. db.checkpoint # 0 /\ db.checkpoint >= bt.end
      BY <2>1, <2>4
    <3> QED
      BY <2>1, <2>2, <3>1, <3>2
  <2> QED
    BY Zenon, <2>3, <2>4
<1>8. \A m : SpooledIn(t.db, m) => SpooledIn(b, m)
  BY Zenon, <1>4 DEF SpooledIn
<1> HIDE DEF t, bt
<1>9. ASSUME NEW i \in DOMAIN wal, i < b.checkpoint,
             NEW j \in DOMAIN wal[i].body, wal[i].body[j].protected
      PROVE  SpooledIn(b, wal[i].body[j])
  <2>1. i \in Nat
    BY <1>1
  <2>2. i < DurableLSN \/ (DurableLSN <= i /\ i < bt.lsn) \/ i = bt.lsn
    <3>1. /\ bt.lsn \in Nat /\ bt.end = bt.lsn + 1 /\ DurableLSN \in Nat
          /\ db.checkpoint \in Nat /\ db.checkpoint <= DurableLSN
      BY Zenon, <1>1, <1>2, <1>3, <1>5
    <3>2. CASE b.checkpoint = db.checkpoint
      <4>1. \A x, y, z \in Nat : x < y /\ y <= z => x < z
        OBVIOUS
      <4> QED
        BY Zenon, <1>9, <2>1, <3>1, <3>2, <4>1
    <3>3. CASE b.checkpoint = bt.end
      <4>1. \A x, y, z \in Nat : x < y + 1 => x < z \/ (z <= x /\ x < y) \/ x = y
        OBVIOUS
      <4> QED
        BY Zenon, <1>9, <2>1, <3>1, <3>3, <4>1
    <3> QED
      BY Zenon, <1>4, <3>2, <3>3
  <2>3. CASE i < DurableLSN
    <3>1. SpooledIn(db, wal[i].body[j])
      BY Zenon, <1>5, <1>9, <2>3 DEF SpooledBelow
    <3> QED
      BY Zenon, <1>8, <3>1, GrowingLog DEF t
  <2>4. CASE DurableLSN <= i /\ i < bt.lsn
    BY Zenon, <1>3, <1>9, <2>4 DEF NothingBetween
  <2>5. CASE i = bt.lsn
    <3>1. wal[i].body \in Seq(Body)
      BY <1>1, WalItemsAssumption
    <3>2. j <= Len(wal[i].body)
      BY <3>1
    <3>3. PICK k \in DOMAIN bt.events : /\ bt.events[k].id = wal[i].body[j].id
                                        /\ bt.events[k].digest = wal[i].body[j].digest
      BY Zenon, <1>3, <1>9, <2>5, <3>2 DEF Holds
    <3>4. SpooledIn(t.db, bt.events[k])
      <4>1. k \in Nat /\ k <= Len(bt.events) /\ Len(bt.events) \in Nat
        BY Zenon, <1>2, SeqIndex
      <4>2. t.next \in Nat /\ t.next > Len(bt.events)
        BY Zenon, <1>2, <1>3
      <4>3. k < t.next
        BY <4>1, <4>2
      <4> QED
        BY Zenon, <1>3, <4>3
    <3>5. SpooledIn(b, bt.events[k])
      BY Zenon, <1>8, <3>4
    <3> QED
      BY Zenon, <3>3, <3>5 DEF SpooledIn
  <2> QED
    BY Zenon, <2>2, <2>3, <2>4, <2>5
<1> QED
  BY Zenon, <1>7, <1>9 DEF bt

\* Where a replicator is after runOnce has returned.
LEMMA GotoPc ==
  ASSUME TypeOK, NEW d \in Daemons, NEW pc, Goto(d, pc)
  PROVE  /\ rep'[d].pc = pc
         /\ \A q \in Daemons : q # d => rep'[q] = rep[q]
<1>1. rep'[d] = Replicator(pc) /\ \A q \in Daemons : q # d => rep'[q] = rep[q]
  BY Zenon DEF Goto, TypeOK, CaptureType
<1>2. Replicator(pc).pc = pc
  BY Zenon DEF Replicator
<1> QED
  BY Zenon, <1>1, <1>2
=============================================================================
