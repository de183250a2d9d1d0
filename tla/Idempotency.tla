---------------------------- MODULE Idempotency ----------------------------
(***************************************************************************)
(* idempotency/store.go and idempotency/middleware.go: concurrent requests *)
(* that carry the same (actor_scope, Idempotency-Key), hence compete for   *)
(* one row of idempotency_records.  Rows of different keys share nothing,  *)
(* so one key is the whole problem.                                        *)
(*                                                                         *)
(* `row' is the committed row; what an open transaction has written stays  *)
(* in the transaction's pc until it commits, and `lock' is the InnoDB row  *)
(* lock that keeps everybody else from looking at the row meanwhile.       *)
(* begunAt[r] is the value Begin reads from the clock ONCE, at its entry,  *)
(* and uses in every later statement and every retry.  owned[r] is the     *)
(* closure variable of Begin that InTx's retries do not reset.  attempt[r] *)
(* counts the attempts of the InTx at hand: Begin's, then the handler's.   *)
(*                                                                         *)
(* Two history variables: claimant (whose claim the row carries) and       *)
(* effects (the business effects committed in the life of the present      *)
(* record, in their order: by which request, and whether InTx heard of it; *)
(* it does not when the answer to COMMIT is lost).                         *)
(***************************************************************************)
EXTENDS Naturals, Sequences

CONSTANTS
  Requests,       \* the HTTP requests that use the key
  HashOf,         \* HashOf[r]: RequestHash of r (actor, route, canonical body)
  LargeBodies,    \* requests whose response is longer than maxStoredBody
  TTL,            \* Store.ttl
  MaxTime,        \* bound on the clock
  MaxTxAttempts,  \* database.maxTxAttempts
  Faults,         \* which failures the environment produces
  Bounded,        \* no request outlives the record it claimed
  AtomicHandlers, \* handlers call CompleteTx inside their business transaction
  None            \* no request, no hash, no body

ASSUME NoneAssumption == None \notin Requests
ASSUME HashAssumption == \A r \in Requests : HashOf[r] # None
ASSUME TimeAssumption == TTL \in Nat /\ MaxTime \in Nat
ASSUME AttemptsAssumption == MaxTxAttempts \in Nat \ {0}
ASSUME LargeAssumption == LargeBodies \subseteq Requests
ASSUME FlagAssumption == Bounded \in BOOLEAN /\ AtomicHandlers \in BOOLEAN

VARIABLES row, lock, now, pc, begunAt, attempt, owned, record, answer,
          claimant, effects

dbVars   == <<row, lock>>
vars == <<row, lock, now, pc, begunAt, attempt, owned, record, answer,
          claimant, effects>>

Hashes == {HashOf[r] : r \in Requests}
Bodies == Requests \cup {None}

(* The states of a request; "done" is answered or gone.                    *)
InBegin  == {"insert", "read", "own", "insertTx", "claimed", "found"}
InHandler == {"run", "ran"}
Storing  == {"complete", "fail"}
Executing == InHandler \cup Storing
Active   == InBegin \cup Executing

RowStates == {"ABSENT", "IN_PROGRESS", "COMPLETED", "FAILED_RETRYABLE"}
Row == [state : RowStates, hash : Hashes \cup {None}, body : Bodies, expires : Nat]
NoRow == [state |-> "ABSENT", hash |-> None, body |-> None, expires |-> 0]

NoAnswer == [kind |-> "none", body |-> None]
Effects == [by : Requests, heard : BOOLEAN]
(* "error" is a 500, and a connection that ends without an answer.         *)
Answers == [kind : {"none", "refused", "conflict", "inProgress", "error",
                    "replay", "served"},
            body : Bodies]

(* Types; the row is well formed whatever committed it, also after faults. *)
TypeOK == /\ row \in Row
          /\ lock \in Requests \cup {None}
          /\ now \in Nat
          /\ pc \in [Requests -> {"idle", "done"} \cup Active]
          /\ begunAt \in [Requests -> Nat]
          /\ attempt \in [Requests -> 1 .. MaxTxAttempts]
          /\ owned \in [Requests -> BOOLEAN]
          /\ record \in [Requests -> Bodies]
          /\ answer \in [Requests -> Answers]
          /\ claimant \in Requests \cup {None}
          /\ effects \in Seq(Effects)

Init == /\ row = NoRow
        /\ lock = None
        /\ now = 0
        /\ pc = [r \in Requests |-> "idle"]
        /\ begunAt = [r \in Requests |-> 0]
        /\ attempt = [r \in Requests |-> 1]
        /\ owned = [r \in Requests |-> FALSE]
        /\ record = [r \in Requests |-> None]
        /\ answer = [r \in Requests |-> NoAnswer]
        /\ claimant = None
        /\ effects = <<>>

-----------------------------------------------------------------------------
(* Statements on the row.                                                  *)

(* Mutant: ExpiresAt no later than now.                                    *)
ExpiredAtLimit(t) == row.expires <= t
Expired(t) == row.expires < t

(* The row both INSERTs and takeOwnership leave behind.                    *)
ClaimedRow(r) == [state |-> "IN_PROGRESS", hash |-> HashOf[r], body |-> None,
                  expires |-> begunAt[r] + TTL]

(* payload = nil above maxStoredBody.                                      *)
StoredBody(r) == IF r \in LargeBodies THEN None ELSE r

(* Mutant: CompleteTx and Complete store the response, not the state.      *)
CompleteRowBodyOnly(body) == IF row.state = "ABSENT" THEN row
                             ELSE [row EXCEPT !.body = body]
(* UPDATE ... SET state = 'COMPLETED' WHERE actor_scope AND key: no check  *)
(* of the state the row is in; a missing row is not an error.              *)
CompleteRow(body) == IF row.state = "ABSENT" THEN row
                     ELSE [row EXCEPT !.state = "COMPLETED", !.body = body]

(* Mutant: Fail without its state condition.                               *)
FailRowAlways == IF row.state = "ABSENT" THEN row
                 ELSE [row EXCEPT !.state = "FAILED_RETRYABLE"]
(* UPDATE ... SET state = 'FAILED_RETRYABLE' ... AND state = 'IN_PROGRESS'. *)
FailRow == IF row.state = "IN_PROGRESS"
           THEN [row EXCEPT !.state = "FAILED_RETRYABLE"] ELSE row

(* Mutant: the state is looked at before the hash.                         *)
VerdictStateFirst(r) ==
  IF row.state = "ABSENT" THEN "insertTx"
  ELSE IF Expired(begunAt[r]) THEN "own"
  ELSE IF row.state = "COMPLETED" THEN "found"
  ELSE IF row.hash # HashOf[r] THEN "conflict"
  ELSE IF row.state = "FAILED_RETRYABLE" THEN "own"
  ELSE "inProgress"
(* The decision Begin takes about the row it has locked, in its order: an  *)
(* expired record is taken over whatever it holds, then the hash, then the *)
(* state decide.                                                           *)
Verdict(r) ==
  IF row.state = "ABSENT" THEN "insertTx"
  ELSE IF Expired(begunAt[r]) THEN "own"
  ELSE IF row.hash # HashOf[r] THEN "conflict"
  ELSE IF row.state = "COMPLETED" THEN "found"
  ELSE IF row.state = "FAILED_RETRYABLE" THEN "own"
  ELSE "inProgress"

(* A claim becomes durable.  A record that lapsed (or never was) starts a  *)
(* new life: the history of effects restarts with it.                      *)
TakeClaim(r) == /\ row' = ClaimedRow(r)
                /\ claimant' = r
                /\ effects' = IF row.state = "ABSENT" \/ Expired(begunAt[r])
                              THEN <<>> ELSE effects

Goto(r, label) == pc' = [pc EXCEPT ![r] = label]

(* The request's InTx is over: what its loop variable holds is forgotten.  *)
Leave(r, label) == /\ Goto(r, label)
                   /\ attempt' = [attempt EXCEPT ![r] = 1]

Reply(r, kind, body) ==
  /\ Leave(r, "done")
  /\ answer' = [answer EXCEPT ![r] = [kind |-> kind, body |-> body]]

-----------------------------------------------------------------------------
(* The middleware up to Begin.                                             *)

(* No key, an oversized key, no actor scope, an unreadable body.           *)
Refuse(r) == /\ pc[r] = "idle"
             /\ Reply(r, "refused", None)
             /\ UNCHANGED <<dbVars, now, begunAt, owned, record, claimant, effects>>

Arrive(r) == /\ pc[r] = "idle"
             /\ begunAt' = [begunAt EXCEPT ![r] = now]
             /\ Goto(r, "insert")
             /\ UNCHANGED <<dbVars, now, attempt, owned, record, answer, claimant, effects>>

(* The fast path: the unique index decides.  The INSERT waits for a        *)
(* transaction that holds the row.                                         *)
InsertWins(r) == /\ pc[r] = "insert" /\ lock = None
                 /\ row.state = "ABSENT"
                 /\ TakeClaim(r)
                 /\ Leave(r, "run")
                 /\ UNCHANGED <<lock, now, begunAt, owned, record, answer>>

InsertDuplicate(r) == /\ pc[r] = "insert" /\ lock = None
                      /\ row.state # "ABSENT"
                      /\ Goto(r, "read")
                      /\ UNCHANGED <<dbVars, now, begunAt, attempt, owned, record, answer, claimant, effects>>

-----------------------------------------------------------------------------
(* The slow path of Begin, one transaction of InTx per attempt.            *)

(* SELECT ... FOR UPDATE and the decision.  READ COMMITTED takes no gap    *)
(* lock: a missing row leaves nothing locked.  ErrConflict and             *)
(* ErrInProgress are not retryable: InTx rolls back and Begin returns.     *)
TxRead(r) ==
  /\ pc[r] = "read" /\ lock = None
  /\ \/ /\ Verdict(r) \in {"conflict", "inProgress"}
        /\ Reply(r, Verdict(r), None)
        /\ UNCHANGED <<lock, record>>
     \/ /\ Verdict(r) \in {"own", "found", "insertTx"}
        /\ Goto(r, Verdict(r))
        /\ lock' = IF Verdict(r) = "insertTx" THEN None ELSE r
        /\ record' = [record EXCEPT ![r] = IF Verdict(r) = "found" THEN row.body ELSE @]
        /\ UNCHANGED <<attempt, answer>>
  /\ UNCHANGED <<row, now, begunAt, owned, claimant, effects>>

(* takeOwnership: the UPDATE, and owned = true.                            *)
TxOwn(r) == /\ pc[r] = "own"
            /\ owned' = [owned EXCEPT ![r] = TRUE]
            /\ Goto(r, "claimed")
            /\ UNCHANGED <<dbVars, now, begunAt, attempt, record, answer, claimant, effects>>

(* INSERT inside the transaction, after the record was purged between the  *)
(* two statements.  It locks the new row; a duplicate is not retryable.    *)
TxInsert(r) ==
  /\ pc[r] = "insertTx" /\ lock = None
  /\ \/ /\ row.state = "ABSENT"
        /\ lock' = r
        /\ owned' = [owned EXCEPT ![r] = TRUE]
        /\ Goto(r, "claimed")
        /\ UNCHANGED <<attempt, answer>>
     \/ /\ row.state # "ABSENT"
        /\ Reply(r, "error", None)
        /\ UNCHANGED <<lock, owned>>
  /\ UNCHANGED <<row, now, begunAt, record, claimant, effects>>

CommitClaim(r) == /\ pc[r] = "claimed"
                  /\ TakeClaim(r)
                  /\ lock' = None
                  /\ Leave(r, "run")
                  /\ UNCHANGED <<now, begunAt, owned, record, answer>>

(* The attempt found a completed record.  Begin still prefers `owned': if  *)
(* an earlier attempt set it, the handler runs.                            *)
CommitFound(r) ==
  /\ pc[r] = "found"
  /\ lock' = None
  /\ \/ owned[r] /\ Leave(r, "run") /\ UNCHANGED answer
     \/ ~owned[r] /\ Reply(r, "replay", record[r])
  /\ UNCHANGED <<row, now, begunAt, owned, record, claimant, effects>>

(* The transaction is rolled back, or its connection gone.                 *)
Unlock(r) == lock' = IF lock = r THEN None ELSE lock

(* Mutant: the loop variable never advances.                               *)
AttemptsLeft(r) == attempt[r] < MaxTxAttempts
NextAttemptStuck(r) == attempt[r]
NextAttempt(r) == attempt[r] + 1

(* InTx after a retryable failure: the next attempt starts from the        *)
(* SELECT, or the retries are exhausted and the client gets a 500.         *)
RetryTx(r) ==
  /\ Unlock(r)
  /\ \/ /\ AttemptsLeft(r)
        /\ attempt' = [attempt EXCEPT ![r] = NextAttempt(r)]
        /\ Goto(r, "read")
        /\ UNCHANGED answer
     \/ /\ ~AttemptsLeft(r)
        /\ Reply(r, "error", None)
  /\ UNCHANGED <<now, begunAt, owned, record>>

(* Where the server may roll back: at a statement, and at the COMMIT, of a *)
(* transaction that has only read or (commitLost) of one with a claim.     *)
RollsBackAt == {"read", "own", "insertTx", "found"}
                 \cup (IF "commitLost" \in Faults THEN {"claimed"} ELSE {})

(* A statement fails with a deadlock, a lock wait timeout or a lost        *)
(* connection, or COMMIT with a lost connection (mysql.ErrInvalidConn is   *)
(* retryable); everything is rolled back.                                  *)
TxTransient(r) == /\ "transient" \in Faults
                  /\ pc[r] \in RollsBackAt
                  /\ RetryTx(r)
                  /\ UNCHANGED <<row, claimant, effects>>

(* The same error at COMMIT, but the server had committed: only the answer *)
(* is lost.                                                                *)
CommitUnknown(r) == /\ "ackLost" \in Faults
                    /\ pc[r] = "claimed"
                    /\ TakeClaim(r)
                    /\ RetryTx(r)

(* The fast path's autocommit INSERT is applied but its answer is lost:    *)
(* not a duplicate, so Begin fails.                                        *)
InsertUnknown(r) == /\ "ackLost" \in Faults
                    /\ pc[r] = "insert" /\ lock = None
                    /\ row.state = "ABSENT"
                    /\ TakeClaim(r)
                    /\ Reply(r, "error", None)
                    /\ UNCHANGED <<lock, now, begunAt, owned, record>>

(* Any other error inside Begin, the request's context ending included.    *)
BeginFails(r) == /\ "fatal" \in Faults
                 /\ pc[r] \in InBegin
                 /\ Unlock(r)
                 /\ Reply(r, "error", None)
                 /\ UNCHANGED <<row, now, begunAt, owned, record, claimant, effects>>

-----------------------------------------------------------------------------
(* The handler, and what the middleware stores afterwards.                 *)

(* An attempt of the handler's business transaction commits, with          *)
(* CompleteTx in it or without.                                            *)
CommitEffect(r, heard) ==
  /\ pc[r] = "run"
  /\ AtomicHandlers => lock = None
  /\ row' = IF AtomicHandlers THEN CompleteRow(r) ELSE row
  /\ effects' = Append(effects, [by |-> r, heard |-> heard])
  /\ UNCHANGED <<lock, now, begunAt, owned, record, answer, claimant>>

EffectCommit(r) == /\ CommitEffect(r, TRUE)
                   /\ Leave(r, "ran")

(* The handler's InTx runs its body again, or gives up with an error the   *)
(* handler still answers.                                                  *)
RetryEffect(r) == \/ /\ AttemptsLeft(r)
                     /\ attempt' = [attempt EXCEPT ![r] = NextAttempt(r)]
                     /\ UNCHANGED pc
                  \/ /\ ~AttemptsLeft(r)
                     /\ Leave(r, "ran")

(* The attempt has committed and only the answer to its COMMIT is lost:    *)
(* mysql.ErrInvalidConn again, and the body runs again.                    *)
EffectUnknown(r) == /\ "ackLost" \in Faults
                    /\ CommitEffect(r, FALSE)
                    /\ RetryEffect(r)

(* A retryable failure of a statement or of COMMIT, all rolled back.       *)
EffectRetries(r) ==
  /\ "transient" \in Faults
  /\ pc[r] = "run"
  /\ RetryEffect(r)
  /\ UNCHANGED <<dbVars, now, begunAt, owned, record, answer, claimant, effects>>

(* The handler returns; bufferingWriter has already sent the response.     *)
(* 2xx, 3xx and deterministic 4xx are completed, 429 and 5xx are failed:   *)
(* a handler may answer 5xx after its transaction committed, and any other *)
(* error of that transaction is an answer of the handler too.              *)
HandlerReturns(r) ==
  /\ pc[r] \in InHandler
  /\ \E next \in Storing : Leave(r, next)
  /\ answer' = [answer EXCEPT ![r] = [kind |-> "served", body |-> r]]
  /\ UNCHANGED <<dbVars, now, begunAt, owned, record, claimant, effects>>

(* A panicking handler unwinds the middleware: neither Complete nor Fail.  *)
HandlerPanics(r) == /\ "panic" \in Faults
                    /\ pc[r] \in InHandler
                    /\ Reply(r, "error", None)
                    /\ UNCHANGED <<dbVars, now, begunAt, owned, record, claimant, effects>>

Complete(r) == /\ pc[r] = "complete" /\ lock = None
               /\ row' = CompleteRow(StoredBody(r))
               /\ Goto(r, "done")
               /\ UNCHANGED <<lock, now, begunAt, attempt, owned, record, answer, claimant, effects>>

Fail(r) == /\ pc[r] = "fail" /\ lock = None
           /\ row' = FailRow
           /\ Goto(r, "done")
           /\ UNCHANGED <<lock, now, begunAt, attempt, owned, record, answer, claimant, effects>>

(* Complete and Fail run with the request's own context: once it has ended *)
(* (httpx.Timeout, a client that hung up) the UPDATE fails and the error   *)
(* is only logged.                                                         *)
StoreFails(r) == /\ "fatal" \in Faults
                 /\ pc[r] \in Storing
                 /\ Goto(r, "done")
                 /\ UNCHANGED <<dbVars, now, begunAt, attempt, owned, record, answer, claimant, effects>>

-----------------------------------------------------------------------------
(* The environment.                                                        *)

(* The process dies: open transactions roll back, the client hears nothing *)
(* unless the handler had already answered.                                *)
Crash(r) == /\ "crash" \in Faults
            /\ pc[r] \in Active
            /\ Unlock(r)
            /\ Leave(r, "done")
            /\ answer' = [answer EXCEPT ![r] = IF @ = NoAnswer THEN [@ EXCEPT !.kind = "error"] ELSE @]
            /\ UNCHANGED <<row, now, begunAt, owned, record, claimant, effects>>

(* DELETE ... WHERE expires_at < now, from the cleanup job.                *)
Purge == /\ lock = None
         /\ row.state # "ABSENT" /\ Expired(now)
         /\ row' = NoRow
         /\ claimant' = None
         /\ effects' = <<>>
         /\ UNCHANGED <<lock, now, pc, begunAt, attempt, owned, record, answer>>

Tick == /\ now < MaxTime
        /\ Bounded => \A r \in Requests : pc[r] \in Active => now < begunAt[r] + TTL
        /\ now' = now + 1
        /\ UNCHANGED <<dbVars, pc, begunAt, attempt, owned, record, answer, claimant, effects>>

(* Every request has been dealt with.                                      *)
Finished == /\ \A r \in Requests : pc[r] = "done"
            /\ UNCHANGED vars

Begin(r) == \/ InsertWins(r) \/ InsertDuplicate(r) \/ TxRead(r) \/ TxOwn(r)
            \/ TxInsert(r) \/ CommitClaim(r) \/ CommitFound(r)

Handle(r) == EffectCommit(r) \/ HandlerReturns(r) \/ Complete(r) \/ Fail(r)

Failure(r) == \/ TxTransient(r) \/ CommitUnknown(r)
              \/ InsertUnknown(r) \/ BeginFails(r) \/ EffectUnknown(r)
              \/ EffectRetries(r) \/ HandlerPanics(r) \/ StoreFails(r) \/ Crash(r)

Next == \/ \E r \in Requests : Refuse(r) \/ Arrive(r) \/ Begin(r) \/ Handle(r) \/ Failure(r)
        \/ Purge \/ Tick \/ Finished

Spec == Init /\ [][Next]_vars

(* Goroutines are scheduled, the server grants row locks to waiters, and   *)
(* handlers return (httpx.Timeout ends their context).  Nothing is assumed *)
(* about arrivals, faults, the clock or the cleanup job.                   *)
FairSpec == Spec /\ \A r \in Requests : WF_vars(Begin(r) \/ Handle(r))

-----------------------------------------------------------------------------
(* Properties.                                                             *)

(* Begin lets at most one request at a time past it (store.go: "Exactly    *)
(* one concurrent request inserts the row and therefore owns the key", and *)
(* the row lock extends that to the slow path).                            *)
OneExecutor == \A r, s \in Requests :
                 pc[r] \in Executing /\ pc[s] \in Executing => r = s

(* With CompleteTx in the business transaction, a record's life sees the   *)
(* effect of one request, whatever fails after that commit (a crash, a     *)
(* panic, a 5xx answer whose Fail must not reopen the record), and sees it *)
(* once, but for one thing: InTx repeats its body after a COMMIT whose     *)
(* answer was lost, and CompleteTx does not look at the state, so each     *)
(* such COMMIT may be followed by one more effect of the same request.     *)
EffectOnce == AtomicHandlers =>
  \A i, j \in DOMAIN effects :
    i < j => effects[i].by = effects[j].by /\ ~effects[i].heard

(* Once an answer is stored it stays the key's answer until it expires:    *)
(* no late Fail, no retry, no request with another body changes the state, *)
(* the hash, the lifetime or the body.  Only the request that stored it    *)
(* may write once more while it runs, by Complete after CompleteTx: its    *)
(* own response, or nothing in its place above maxStoredBody.              *)
AnswerIsFinal ==
  [][row.state = "COMPLETED" /\ ~Expired(now) =>
       /\ row'.state = "COMPLETED"
       /\ row'.hash = row.hash /\ row'.expires = row.expires
       /\ \/ row'.body = row.body
          \/ \E r \in Requests : /\ r = claimant /\ pc[r] \in Executing
                                 /\ row'.body \in {r, StoredBody(r)}]_vars

(* Begin lets a request into the handler only on its own durable claim,    *)
(* never on a record another request has completed.                        *)
RunsOnOwnClaim ==
  [][\A r \in Requests : pc[r] \in InBegin /\ pc'[r] = "run"
       => row'.state = "IN_PROGRESS" /\ claimant' = r]_vars

(* Every request that reached Begin is answered: no lock is held forever,  *)
(* no retry loop runs without end.                                         *)
EveryRequestAnswered == \A r \in Requests : pc[r] = "insert" ~> pc[r] = "done"

-----------------------------------------------------------------------------
(* What the table implements: the abstract key.                            *)

Phase == IF row.state \in {"ABSENT", "FAILED_RETRYABLE"} \/ Expired(now) THEN "free"
         ELSE IF row.state = "IN_PROGRESS" THEN "held" ELSE "done"

Holder == IF Phase = "free" THEN None ELSE claimant

Key == INSTANCE IdempotencyKey WITH phase <- Phase, holder <- Holder

(* The rows, locks and retries implement the abstract key: one holder at a *)
(* time, and only the holder finishes or releases its claim.               *)
ImplementsKey == Key!KeySpec
=============================================================================
