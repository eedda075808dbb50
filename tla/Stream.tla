------------------------------- MODULE Stream -------------------------------
(***************************************************************************)
(* The state machine of internal/postgres/state.go on arbitrary streams,   *)
(* also those that no correct server sends: each verdict and each batch is *)
(* compared with a definition over the whole stream so far.                *)
(***************************************************************************)
EXTENDS StateMachine, FiniteSetsExt

CONSTANTS
  StreamMessages,   \* the messages that may arrive
  MaxStream         \* bound: messages per connection

VARIABLES
  state,    \* the machine of the current connection
  sent,     \* what it has been given
  error,    \* the verdict on the last message
  batch     \* the last batch it returned

\* What DecodeWALData returns, with the fields that Consume looks at; whatever
\* Consume ignores is a message that is not protected.
DecodedMessage ==
  [type : {"begin", "commit"}] \cup
  [type : {"message"}, transactional : BOOLEAN, protected : BOOLEAN, valid : BOOLEAN,
   id : Identities, digest : Digests, at : Nat]

ASSUME StreamAssumption == StreamMessages \subseteq DecodedMessage

streamVars == <<state, sent, error, batch>>

StreamInit == state = NewStateMachine /\ sent = << >> /\ error = "none" /\ batch = << >>

\* runOnce hands the machine the next decoded message.
ConsumeNext(message) ==
  LET m == IF message.type = "message" THEN [message EXCEPT !.at = Len(sent) + 1]
           ELSE message
  IN /\ error = "none" /\ Len(sent) < MaxStream
     /\ sent' = Append(sent, m)
     /\ error' = ConsumeError(state, m)
     /\ state' = IF error' = "none" THEN Consume(state, m) ELSE state
     /\ batch' = IF CompletesBatch(state, m) THEN state.events ELSE batch

\* runOnce starts again with a new machine.
NewConnection ==
  /\ sent # << >>
  /\ state' = NewStateMachine /\ sent' = << >> /\ error' = "none" /\ batch' = << >>

StreamNext == NewConnection \/ \E m \in StreamMessages : ConsumeNext(m)

StreamSpec == StreamInit /\ [][StreamNext]_streamVars
-----------------------------------------------------------------------------
\* The reference: positions in a stream q, and what lies before them.
Begins(q) == {i \in DOMAIN q : q[i].type = "begin"}
Commits(q) == {i \in DOMAIN q : q[i].type = "commit"}
IsProtected(m) == m.type = "message" /\ m.protected
\* The protected positions from the last Begin before i on, without i.
TransactionOf(q, i) ==
  {j \in 1..i - 1 : IsProtected(q[j]) /\ ~\E b \in Begins(q) : j < b /\ b < i}
InTransaction(q, i) ==
  \E b \in Begins(q) : b < i /\ ~\E c \in Commits(q) : b < c /\ c < i
\* The payload bytes of the messages at the positions T.
Bytes(q, T) == MapThenSumSet(LAMBDA j : PayloadSize[q[j].digest], T)

WellFormedAt(q, i) ==
  /\ q[i].type = "begin" => ~InTransaction(q, i)
  /\ q[i].type = "commit" => InTransaction(q, i)
  /\ IsProtected(q[i]) =>
       /\ InTransaction(q, i) /\ q[i].transactional /\ q[i].valid
       /\ Cardinality(TransactionOf(q, i)) + 1 <= MaxTransactionEvents
       /\ Bytes(q, TransactionOf(q, i) \cup {i}) <= MaxTransactionBytes

\* Consume refuses a stream exactly when it breaks the protocol, misuses the
\* protected prefix or exceeds a transaction limit, counted over the whole
\* transaction; limits are inclusive.
RefusedIsIllFormed ==
  error = "none" <=> \A i \in DOMAIN sent : WellFormedAt(sent, i)

\* The events of q at the positions T, in their order.
InOrder(q, T) ==
  [k \in 1..Cardinality(T) |->
     LET i == CHOOSE j \in T : Cardinality({h \in T : h <= j}) = k
     IN  [id |-> q[i].id, digest |-> q[i].digest, at |-> i]]

\* The batch a Commit returns holds exactly the protected messages since the
\* transaction's Begin, in order: nothing of an earlier transaction and nothing
\* from between transactions.
BatchIsTransaction ==
  (error = "none" /\ sent # << >> /\ sent[Len(sent)].type = "commit") =>
    batch = InOrder(sent, TransactionOf(sent, Len(sent)))
-----------------------------------------------------------------------------
(* Why it holds: the invariant of the buffer.                              *)

\* The events are the messages of q at the positions T, in their order.
Buffers(events, q, T) ==
  /\ \A k \in DOMAIN events :
       LET i == events[k].at
       IN i \in T /\ events[k] = [id |-> q[i].id, digest |-> q[i].digest, at |-> i]
  /\ \A i \in T : \E k \in DOMAIN events : events[k].at = i
  /\ \A j, k \in DOMAIN events : j < k => events[j].at < events[k].at

\* Inductive: inside a transaction the buffer holds its messages so far.
MachineInv ==
  /\ sent \in Seq(DecodedMessage)
  /\ state \in MachineState
  /\ error = "none" /\ state.inTx =>
       Buffers(state.events, sent, TransactionOf(sent, Len(sent) + 1))
  /\ BatchIsTransaction

\* Inductive with MachineInv: the machine knows whether a transaction is open
\* and how many bytes it has buffered for it.
VerdictInv ==
  /\ RefusedIsIllFormed
  /\ error = "none" =>
       /\ state.inTx <=> InTransaction(sent, Len(sent) + 1)
       /\ state.inTx =>
            state.buffered = Bytes(sent, TransactionOf(sent, Len(sent) + 1))
=============================================================================
