----------------------------- MODULE Refinement -----------------------------
(***************************************************************************)
(* Capture implements Outbox.  The events of a transaction are its         *)
(* protected messages, at their positions.                                 *)
(***************************************************************************)
EXTENDS Relay

ProtectedEvents(w) ==
  [j \in {i \in DOMAIN w.body : w.body[i].protected} |->
     [id |-> w.body[j].id, digest |-> w.body[j].digest]]

CommittedIn(items) == [i \in DOMAIN items |-> ProtectedEvents(items[i])]
EventsIn(b) ==
  [n \in DOMAIN b.events |-> [id |-> b.events[n].id, digest |-> b.events[n].digest]]

Promise == INSTANCE Outbox WITH
  Transactions <- {ProtectedEvents(w) : w \in WalItems},
  committed <- CommittedIn(wal),
  log <- EventsIn(db),
  taken <- DurableLSN - 1,
  released <- slot.confirmed - 1

\* Whatever the daemons, the connections and SQLite go through, committed
\* transactions are taken over whole, once and in order, and released only
\* after that.
ImplementsOutbox == Promise!OutboxSpec
=============================================================================
