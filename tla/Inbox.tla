------------------------------- MODULE Inbox -------------------------------
(***************************************************************************)
(* The receiving side: withInbox of the SDKs (sdk/go/inbox.go,             *)
(* sdk/typescript/src/inbox.ts).  A request carries a delivery's key and   *)
(* its original bytes; the inbox row and the writes of the application's   *)
(* callback are committed in one PostgreSQL transaction.                   *)
(*                                                                         *)
(* Requests are repeated: the sender retries what timed out while the      *)
(* first request may still be running, and redrives.  PostgreSQL is        *)
(* external: an INSERT waits for another transaction that has inserted the *)
(* same key, and a session whose client is gone is ended, or its COMMIT    *)
(* carried out, only later.                                                *)
(***************************************************************************)
EXTENDS Integers, Functions

CONSTANTS
  Handlers,       \* requests that may be in progress at the same time
  InboxKeys,      \* delivery keys
  Bodies,         \* request bodies, identified with their SHA-256
  Sdks,           \* which SDK a request is handled by: "go", "typescript"
  MaxExpiries     \* bound: receipts removed at the end of their retention

VARIABLES
  receipts,   \* the committed rows of the inbox table: key -> digest
  effects,    \* effects[k]: how often callback writes for k were committed
  call,       \* call[h]: the invocation of withInbox
  session,    \* session[h]: its transaction in PostgreSQL
  succeeded,  \* the <<key, body>> that were answered without an error
  expired,    \* expired[k]: how often the receipt of k was removed
  sending     \* the sender still has attempts left

inboxVars == <<receipts, effects, call, session, succeeded, expired, sending>>

Pcs == {"idle", "insert", "handle", "read", "check", "commit"}
\* orphan: the client is gone; committing: gone after it sent COMMIT.
SessionStates == {"none", "open", "orphan", "committing"}

\* claim: it has inserted the key; share: it has locked the existing row;
\* aborted: a statement has failed, so COMMIT rolls back.
NoSession == [state |-> "none", claim |-> FALSE, share |-> FALSE, aborted |-> FALSE]
Idle(h) == [call[h] EXCEPT !.pc = "idle"]

CallRecord == [pc : Pcs, key : InboxKeys, body : Bodies, sdk : Sdks]
SessionRecord == [state : SessionStates, claim : BOOLEAN, share : BOOLEAN,
                  aborted : BOOLEAN]

InboxType ==
  /\ DOMAIN receipts \subseteq InboxKeys /\ receipts \in [DOMAIN receipts -> Bodies]
  /\ effects \in [InboxKeys -> Nat] /\ expired \in [InboxKeys -> Nat]
  /\ call \in [Handlers -> CallRecord] /\ session \in [Handlers -> SessionRecord]
  /\ succeeded \subseteq InboxKeys \X Bodies /\ sending \in BOOLEAN
  /\ \A h \in Handlers : call[h].pc = "idle" <=> session[h].state # "open"

InboxInit ==
  /\ receipts = [k \in {} |-> 0]
  /\ effects = [k \in InboxKeys |-> 0]
  /\ call \in [Handlers -> [pc : {"idle"}, key : InboxKeys, body : Bodies, sdk : Sdks]]
  /\ session = [h \in Handlers |-> NoSession]
  /\ succeeded = {}
  /\ expired = [k \in InboxKeys |-> 0]
  /\ sending = TRUE
-----------------------------------------------------------------------------
(* withInbox.                                                              *)

\* A valid request: its bytes are hashed, a connection is taken, BEGIN.
Arrive(h, k, b, s) ==
  /\ sending /\ session[h].state = "none"
  /\ call' = [call EXCEPT ![h] = [pc |-> "insert", key |-> k, body |-> b, sdk |-> s]]
  /\ session' = [session EXCEPT ![h] = [NoSession EXCEPT !.state = "open"]]
  /\ UNCHANGED <<receipts, effects, succeeded, expired, sending>>

ClaimedByAnother(h) ==
  \E g \in Handlers \ {h} : session[g].claim /\ call[g].key = call[h].key

\* Mutant: ON CONFLICT DO UPDATE.
InsertOrUpdate(h) ==
  /\ call[h].pc = "insert" /\ ~ClaimedByAnother(h)
  /\ call' = [call EXCEPT ![h].pc = "handle"]
  /\ session' = [session EXCEPT ![h].claim = TRUE]
  /\ UNCHANGED <<receipts, effects, succeeded, expired, sending>>

\* INSERT ... ON CONFLICT DO NOTHING waits while another transaction that has
\* inserted the key is undecided.
Insert(h) ==
  /\ call[h].pc = "insert" /\ ~ClaimedByAnother(h)
  /\ IF call[h].key \in DOMAIN receipts
     THEN /\ call' = [call EXCEPT ![h].pc = "read"]
          /\ UNCHANGED session
     ELSE /\ call' = [call EXCEPT ![h].pc = "handle"]
          /\ session' = [session EXCEPT ![h].claim = TRUE]
  /\ UNCHANGED <<receipts, effects, succeeded, expired, sending>>

\* The callback returns; it may have swallowed the error of a statement.
Handle(h) ==
  /\ call[h].pc = "handle"
  /\ call' = [call EXCEPT ![h].pc = "check"]
  /\ \E swallowed \in BOOLEAN : session' = [session EXCEPT ![h].aborted = swallowed]
  /\ UNCHANGED <<receipts, effects, succeeded, expired, sending>>

\* SELECT ... FOR SHARE: the row may have been removed since, or hold another
\* digest; either is an error and rolls back.
Read(h) ==
  /\ call[h].pc = "read"
  /\ IF call[h].key \in DOMAIN receipts /\ receipts[call[h].key] = call[h].body
     THEN /\ call' = [call EXCEPT ![h].pc = "check"]
          /\ session' = [session EXCEPT ![h].share = TRUE]
     ELSE /\ call' = [call EXCEPT ![h] = Idle(h)]
          /\ session' = [session EXCEPT ![h] = NoSession]
  /\ UNCHANGED <<receipts, effects, succeeded, expired, sending>>

\* Go: "SELECT 1" fails in an aborted transaction.
Check(h) ==
  /\ call[h].pc = "check"
  /\ IF call[h].sdk = "go" /\ session[h].aborted
     THEN /\ call' = [call EXCEPT ![h] = Idle(h)]
          /\ session' = [session EXCEPT ![h] = NoSession]
     ELSE /\ call' = [call EXCEPT ![h].pc = "commit"]
          /\ UNCHANGED session
  /\ UNCHANGED <<receipts, effects, succeeded, expired, sending>>

\* PostgreSQL commits the transaction of h: row and writes together.
Apply(h) ==
  LET k == call[h].key
      wrote == session[h].claim
  IN /\ receipts' = IF wrote THEN [j \in DOMAIN receipts \cup {k} |->
                                     IF j = k THEN call[h].body ELSE receipts[j]]
                    ELSE receipts
     /\ effects' = IF wrote THEN [effects EXCEPT ![k] = @ + 1] ELSE effects
     /\ session' = [session EXCEPT ![h] = NoSession]

\* Mutant: a COMMIT that reports ROLLBACK counts as success.
CommitUnchecked(h) ==
  /\ call[h].pc = "commit"
  /\ call' = [call EXCEPT ![h] = Idle(h)]
  /\ succeeded' = succeeded \cup {<<call[h].key, call[h].body>>}
  /\ IF session[h].aborted
     THEN session' = [session EXCEPT ![h] = NoSession] /\ UNCHANGED <<receipts, effects>>
     ELSE Apply(h)
  /\ UNCHANGED <<expired, sending>>

\* COMMIT; TypeScript inspects its command tag.
Commit(h) ==
  /\ call[h].pc = "commit"
  /\ call' = [call EXCEPT ![h] = Idle(h)]
  /\ \/ /\ session[h].aborted
        /\ session' = [session EXCEPT ![h] = NoSession]
        /\ UNCHANGED <<receipts, effects, succeeded>>
     \/ /\ ~session[h].aborted
        /\ Apply(h)
        /\ succeeded' = succeeded \cup {<<call[h].key, call[h].body>>}
  /\ UNCHANGED <<expired, sending>>

\* Mutant: no deferred rollback; the connection keeps the transaction open.
FailWithoutRollback(h) ==
  /\ call[h].pc \notin {"idle", "commit"}
  /\ call' = [call EXCEPT ![h] = Idle(h)]
  /\ UNCHANGED <<receipts, effects, session, succeeded, expired, sending>>

\* The callback fails or panics, the context is cancelled, a statement fails or
\* the process dies: the deferred function rolls back, unless it cannot reach
\* the server any more.
Fail(h) ==
  /\ call[h].pc \notin {"idle", "commit"}
  /\ call' = [call EXCEPT ![h] = Idle(h)]
  /\ \/ session' = [session EXCEPT ![h] = NoSession]
     \/ session' = [session EXCEPT ![h].state = "orphan"]
  /\ UNCHANGED <<receipts, effects, succeeded, expired, sending>>

\* COMMIT returns an error, so its outcome is unknown.
CommitFails(h) ==
  /\ call[h].pc = "commit"
  /\ call' = [call EXCEPT ![h] = Idle(h)]
  /\ session' = [session EXCEPT ![h].state = "committing"]
  /\ UNCHANGED <<receipts, effects, succeeded, expired, sending>>
-----------------------------------------------------------------------------
(* PostgreSQL and the application's retention.                             *)

\* The server decides a transaction whose client is gone.
Resolve(h) ==
  /\ \/ /\ session[h].state \in {"orphan", "committing"}
        /\ session' = [session EXCEPT ![h] = NoSession]
        /\ UNCHANGED <<receipts, effects>>
     \/ /\ session[h].state = "committing" /\ ~session[h].aborted
        /\ Apply(h)
  /\ UNCHANGED <<call, succeeded, expired, sending>>

\* A receipt is removed; a row lock makes the DELETE wait.
Expire(k) ==
  /\ k \in DOMAIN receipts
  /\ expired[k] < MaxExpiries
  /\ ~\E h \in Handlers : session[h].share /\ call[h].key = k
  /\ receipts' = Restrict(receipts, DOMAIN receipts \ {k})
  /\ expired' = [expired EXCEPT ![k] = @ + 1]
  /\ UNCHANGED <<effects, call, session, succeeded, sending>>

\* Attempts are bounded, so the sender comes to its last request.
SenderStops ==
  /\ sending
  /\ sending' = FALSE
  /\ UNCHANGED <<receipts, effects, call, session, succeeded, expired>>

CallStep(h) == Insert(h) \/ Handle(h) \/ Read(h) \/ Check(h) \/ Commit(h)

InboxNext ==
  \/ \E h \in Handlers :
       \/ \E k \in InboxKeys, b \in Bodies, s \in Sdks : Arrive(h, k, b, s)
       \/ CallStep(h)
       \/ Fail(h)
       \/ CommitFails(h)
       \/ Resolve(h)
  \/ \E k \in InboxKeys : Expire(k)
  \/ SenderStops

\* A request goes on as long as its process lives, and its statements end when
\* nothing blocks them; the server notices a lost client.  Failures are not fair.
InboxFairness ==
  \A h \in Handlers : WF_inboxVars(CallStep(h)) /\ WF_inboxVars(Resolve(h))

InboxSpec == InboxInit /\ [][InboxNext]_inboxVars /\ InboxFairness
-----------------------------------------------------------------------------
\* The writes of the callback are committed once per receipt, never without it
\* and never twice under it, whatever requests overlap, fail in the middle or
\* have an unknown outcome (runInbox, withInbox).
ProcessedOnce ==
  \A k \in InboxKeys :
    effects[k] = expired[k] + IF k \in DOMAIN receipts THEN 1 ELSE 0

\* A request that was answered with success has been processed with exactly its
\* bytes, by itself or by an earlier one.
SuccessIsProcessed ==
  \A s \in succeeded :
    \/ s[1] \in DOMAIN receipts /\ receipts[s[1]] = s[2]
    \/ expired[s[1]] > 0

\* Why: a key is claimed by one transaction at a time, and by none while it has a
\* receipt; a receipt that was read is locked until the transaction ends; and a
\* call that goes on to its COMMIT has done one or the other.
ClaimInv(h) ==
  /\ session[h].claim => /\ call[h].key \notin DOMAIN receipts
                         /\ ~ClaimedByAnother(h)
  /\ session[h].share => /\ call[h].key \in DOMAIN receipts
                         /\ receipts[call[h].key] = call[h].body
  /\ call[h].pc = "handle" => session[h].claim
  /\ call[h].pc \in {"check", "commit"} => session[h].claim \/ session[h].share

InboxInv ==
  /\ InboxType /\ ProcessedOnce /\ SuccessIsProcessed
  /\ \A h \in Handlers : ClaimInv(h)

\* What a key stands for never changes while its receipt is retained.
ReceiptsAreFinal ==
  [][\A k \in DOMAIN receipts : k \in DOMAIN receipts' => receipts'[k] = receipts[k]]_receipts

\* Once no new request arrives, every request in progress returns and no
\* transaction stays open: nobody waits forever for a key that a failed call or a
\* lost client has inserted.
EveryCallReturns ==
  ~sending ~> \A h \in Handlers : call[h].pc = "idle" /\ session[h].state = "none"
=============================================================================
