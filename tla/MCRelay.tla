------------------------------ MODULE MCRelay ------------------------------
(* Small instances of WriteRelay for TLC.                                  *)
EXTENDS Progress, TLC

CONSTANTS d1, d2, e1, e2, x, y, s1, s2, t1, t2

Event(id, digest) == [protected |-> TRUE, valid |-> TRUE, id |-> id, digest |-> digest]
Malformed == [protected |-> TRUE, valid |-> FALSE, id |-> e1, digest |-> x]
Foreign == [protected |-> FALSE, valid |-> TRUE, id |-> e1, digest |-> x]
Txn(body) == [transactional |-> TRUE, body |-> body]
Bare(message) == [transactional |-> FALSE, body |-> <<message>>]
Sink(name, target) == [name |-> name, target |-> target]

Sizes == [g \in Digests |-> 1]

\* Two-event transactions, the same identity again with the same and with
\* other content, no event at all, messages that are not WriteRelay's, a
\* malformed event, a protected message outside a transaction, too many events.
CaptureItems == { Txn(<<Event(e1, x), Event(e2, x)>>), Txn(<<Event(e1, x)>>),
                  Txn(<<Event(e2, y)>>), Txn(<<Foreign>>), Bare(Foreign),
                  Txn(<<Event(e2, x), Malformed>>), Bare(Event(e1, x)),
                  Txn(<<Event(e1, x), Foreign, Event(e2, x), Event(e1, x)>>) }
\* What a takeover between two daemons replays.
TakeoverItems == { Txn(<<Event(e1, x), Event(e2, x)>>), Txn(<<Foreign>>),
                   Txn(<<Event(e2, y)>>) }
\* One event; two events in one transaction.
OneItem == { Txn(<<Event(e1, x)>>) }
PairItem == { Txn(<<Event(e1, x), Event(e2, x)>>) }
LiveItems == { Txn(<<Event(e1, x), Event(e2, x)>>), Txn(<<Event(e1, x)>>), Txn(<<Foreign>>) }
\* A transaction without events behind one with an event.
BusyItems == OneItem \cup { Txn(<<Foreign>>) }

NoSinks == { << >> }
OneSink == { <<Sink(s1, t1)>> }
TwoSinks == { <<Sink(s1, t1), Sink(s2, t1)>> }
\* A sink is added, removed, enabled again, or comes with another target.
ChangingSinks == { <<Sink(s1, t1)>>, <<Sink(s2, t1), Sink(s1, t1)>>,
                   <<Sink(s2, t1)>>, <<Sink(s1, t2)>> }

\* The second sink is unknown to a daemon that was started with the first.
GrowingSinks == { <<Sink(s1, t1)>>, <<Sink(s1, t1), Sink(s2, t1)>> }

DaemonSymmetry == Permutations(Daemons)
=============================================================================
