------------------------------- MODULE Outbox -------------------------------
(***************************************************************************)
(* What capture promises, without daemons, connections or SQLite: the      *)
(* transactions that applications commit are taken over one by one, in     *)
(* commit order and whole, into a log that holds every event once, and     *)
(* PostgreSQL is released from a transaction only after that.              *)
(***************************************************************************)
EXTENDS Integers, Sequences

CONSTANT
  Transactions    \* what may be committed: events [id, digest], by position

VARIABLES
  committed,  \* the committed transactions
  log,        \* the events taken over
  taken,      \* how many transactions have been taken over
  released    \* how many transactions PostgreSQL may forget

outboxVars == <<committed, log, taken, released>>

OutboxInit == committed = << >> /\ log = << >> /\ taken = 0 /\ released = 0

Commit(t) ==
  /\ committed' = Append(committed, t)
  /\ UNCHANGED <<log, taken, released>>

\* new appends to old exactly the events of t that old lacks, in their order.
Extends(new, old, t) ==
  LET fresh == DOMAIN new \ DOMAIN old
  IN /\ DOMAIN new = 1..Len(new)
     /\ DOMAIN old \subseteq DOMAIN new /\ \A k \in DOMAIN old : new[k] = old[k]
     /\ \A j \in DOMAIN t : \E k \in DOMAIN new : new[k] = t[j]
     /\ \A k \in fresh : \E j \in DOMAIN t : new[k] = t[j]
     /\ \A k, m \in DOMAIN new : new[k].id = new[m].id => k = m
     /\ \A k, m \in fresh : k < m =>
          \E i, j \in DOMAIN t : i < j /\ new[k] = t[i] /\ new[m] = t[j]

\* Transactions without events may be passed over on the way to the n-th.
Take(n) ==
  /\ n > taken /\ n \in DOMAIN committed
  /\ \A i \in taken + 1 .. n - 1 : DOMAIN committed[i] = {}
  /\ Extends(log', log, committed[n])
  /\ taken' = n
  /\ UNCHANGED <<committed, released>>

Release ==
  /\ released' \in released..taken
  /\ UNCHANGED <<committed, log, taken>>

OutboxNext ==
  \/ \E t \in Transactions : Commit(t)
  \/ \E n \in DOMAIN committed : Take(n)
  \/ Release

OutboxSpec == OutboxInit /\ [][OutboxNext]_outboxVars
=============================================================================
