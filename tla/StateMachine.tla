---------------------------- MODULE StateMachine ----------------------------
(***************************************************************************)
(* The replication state machine of internal/postgres/state.go: it buffers *)
(* the protected logical messages of the transaction being received and    *)
(* turns a Commit into one batch.                                          *)
(*                                                                         *)
(* Stream messages are records                                             *)
(*   [type, transactional, protected, valid, id, digest, at]               *)
(* "protected" stands for the comparison with the configured prefix (and   *)
(* is FALSE for relation, DML and other pgoutput messages, which Consume   *)
(* also ignores), "valid" for the verdict of event.Validate, "id" for the  *)
(* pair (source, id), "digest" for the payload and its SHA-256, and "at"   *)
(* for the message LSN.                                                    *)
(***************************************************************************)
EXTENDS Events, Integers, Sequences

CONSTANTS
  PayloadSize,            \* payload length in bytes, by digest
  MaxTransactionEvents,   \* postgres.max_transaction_events
  MaxTransactionBytes     \* postgres.max_transaction_bytes

ASSUME PayloadSizeAssumption == PayloadSize \in [Digests -> Nat]
ASSUME LimitAssumption == /\ MaxTransactionEvents \in Nat
                          /\ MaxTransactionBytes \in Nat

BufferedEvent == [id : Identities, digest : Digests, at : Nat]

\* transaction, events and buffered of the Go struct.
MachineState == [inTx : BOOLEAN, events : Seq(BufferedEvent), buffered : Nat]

NewStateMachine == [inTx |-> FALSE, events |-> << >>, buffered |-> 0]

\* Mutant: off by one in the event limit.
LogicalMessageErrorLate(s, m) ==
  IF ~m.transactional THEN "protected_event"
  ELSE IF ~s.inTx THEN "protocol_state"
  ELSE IF \/ Len(s.events) > MaxTransactionEvents
          \/ PayloadSize[m.digest] > MaxTransactionBytes - s.buffered
       THEN "transaction_limit"
  ELSE IF ~m.valid THEN "protected_event"
  ELSE "none"

\* The fate of a protected message, in the order of the tests of the code.
LogicalMessageError(s, m) ==
  IF ~m.transactional THEN "protected_event"
  ELSE IF ~s.inTx THEN "protocol_state"
  ELSE IF \/ Len(s.events) >= MaxTransactionEvents
          \/ PayloadSize[m.digest] > MaxTransactionBytes - s.buffered
       THEN "transaction_limit"
  ELSE IF ~m.valid THEN "protected_event"
  ELSE "none"

ConsumeError(s, m) ==
  CASE m.type = "begin" -> IF s.inTx THEN "protocol_state" ELSE "none"
    [] m.type = "commit" -> IF s.inTx THEN "none" ELSE "protocol_state"
    [] OTHER -> IF m.protected THEN LogicalMessageError(s, m) ELSE "none"

\* A Commit inside a transaction hands s.events over as the batch.
CompletesBatch(s, m) == m.type = "commit" /\ s.inTx

\* Mutants: buffered counts down; a Commit does not reset the machine.
ConsumeCountingDown(s, m) ==
  CASE m.type = "begin" -> [NewStateMachine EXCEPT !.inTx = TRUE]
    [] m.type = "commit" -> NewStateMachine
    [] OTHER ->
         IF m.protected
         THEN [s EXCEPT !.events = Append(@, [id |-> m.id, digest |-> m.digest,
                                              at |-> m.at]),
                        !.buffered = @ - PayloadSize[m.digest]]
         ELSE s
ConsumeWithoutReset(s, m) ==
  CASE m.type = "begin" -> [s EXCEPT !.inTx = TRUE]
    [] m.type = "commit" -> [s EXCEPT !.inTx = FALSE]
    [] OTHER ->
         IF m.protected
         THEN [s EXCEPT !.events = Append(@, [id |-> m.id, digest |-> m.digest,
                                              at |-> m.at]),
                        !.buffered = @ + PayloadSize[m.digest]]
         ELSE s

\* The machine after m, when ConsumeError(s, m) = "none".
Consume(s, m) ==
  CASE m.type = "begin" -> [NewStateMachine EXCEPT !.inTx = TRUE]
    [] m.type = "commit" -> NewStateMachine
    [] OTHER ->
         IF m.protected
         THEN [s EXCEPT !.events = Append(@, [id |-> m.id, digest |-> m.digest,
                                              at |-> m.at]),
                        !.buffered = @ + PayloadSize[m.digest]]
         ELSE s
=============================================================================
