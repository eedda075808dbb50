---------------------------- MODULE MCAlgorithms ----------------------------
(* The two algorithms that have a reference definition, the replication    *)
(* state machine (Stream) and the retry delay (Backoff), one at a time, on *)
(* small inputs.                                                           *)
EXTENDS Stream, Backoff

CONSTANTS e1, e2, small, large

MCSizes == [g \in Digests |-> IF g = small THEN 1 ELSE 2]

Message(transactional, protected, valid, id, digest) ==
  [type |-> "message", transactional |-> transactional, protected |-> protected,
   valid |-> valid, id |-> id, digest |-> digest, at |-> 0]

MCMessages ==
  { [type |-> "begin"], [type |-> "commit"],
    Message(TRUE, TRUE, TRUE, e1, small), Message(TRUE, TRUE, TRUE, e2, large),
    Message(TRUE, TRUE, FALSE, e1, small), Message(FALSE, TRUE, TRUE, e1, small),
    Message(FALSE, FALSE, TRUE, e1, small) }

\* Every number of seconds up to one whose duration wraps around twice, and
\* dates from the past to the largest duration.
MCHeaders == {NoHeader} \cup [kind : {"seconds", "date"}, value : -2..MaxDuration]

VARIABLE subject   \* the algorithm that is run

AlgorithmsInit ==
  /\ StreamInit
  /\ BackoffInit
  /\ subject \in {"stream", "backoff"}
  /\ subject = "stream" => initial = 1 /\ max = 1

AlgorithmsNext ==
  \/ subject = "stream" /\ StreamNext /\ UNCHANGED <<backoffVars, subject>>
  \/ subject = "backoff" /\ BackoffNext /\ UNCHANGED <<streamVars, subject>>

AlgorithmsSpec == AlgorithmsInit /\ [][AlgorithmsNext]_<<streamVars, backoffVars, subject>>
=============================================================================
