-------------------------------- MODULE InTx --------------------------------
(***************************************************************************)
(* database.InTx and runTx (database/database.go): concurrent calls, each  *)
(* running a body that locks the rows of its plan in order, under the      *)
(* retries InTx makes of deadlocks, lock wait timeouts and lost            *)
(* connections.                                                            *)
(*                                                                         *)
(* applied[c] counts how often the writes of call c became durable; the    *)
(* rows themselves matter only for the locks on them.                      *)
(***************************************************************************)
EXTENDS Naturals, Sequences

CONSTANTS
  Calls,          \* concurrent calls of InTx
  Rows,           \* rows of the database
  Plan,           \* Plan[c]: the rows the body of c locks, in order
  MaxTxAttempts,  \* maxTxAttempts
  Faults,         \* which failures the environment produces
  None            \* no call

ASSUME CallsAssumption == None \notin Calls
ASSUME PlanAssumption == Plan \in [Calls -> Seq(Rows)]
ASSUME MaxAssumption == MaxTxAttempts \in Nat \ {0}

VARIABLES pc, attempt, done, owner, ended, applied, result,
          doubt           \* commits of a call whose answer was lost

vars == <<pc, attempt, done, owner, ended, applied, result, doubt>>

Init == /\ pc = [c \in Calls |-> "begin"]
        /\ attempt = [c \in Calls |-> 1]
        /\ done = [c \in Calls |-> 0]        \* statements of the body executed
        /\ owner = [w \in Rows |-> None]     \* row locks
        /\ ended = [c \in Calls |-> FALSE]   \* the caller's context has ended
        /\ applied = [c \in Calls |-> 0]
        /\ result = [c \in Calls |-> "none"]
        /\ doubt = [c \in Calls |-> 0]

Goto(c, label) == pc' = [pc EXCEPT ![c] = label]
InTransaction == {"body", "commit"}

(* The row the next statement of c needs.                                  *)
Wanted(c) == Plan[c][done[c] + 1]
Waiting(c) == /\ pc[c] = "body" /\ done[c] < Len(Plan[c])
              /\ owner[Wanted(c)] \notin {None, c}

(* c waits for a transaction that waits for c, directly or through one     *)
(* more: the cycles the server's deadlock detection finds.                 *)
WaitsFor(c, d) == Waiting(c) /\ owner[Wanted(c)] = d
Deadlocked(c) == \E d \in Calls : WaitsFor(c, d) /\
                   (WaitsFor(d, c) \/ \E e \in Calls : WaitsFor(d, e) /\ WaitsFor(e, c))

(* Mutant: a panicking or failing body keeps its transaction open.         *)
KeepLocks(c) == UNCHANGED owner
(* The transaction ends, by COMMIT or by the deferred Rollback.            *)
EndTx(c) == owner' = [w \in Rows |-> IF owner[w] = c THEN None ELSE owner[w]]

(* Mutant: the deferred function commits what the body has written.        *)
CommitPartial(c) == EndTx(c) /\ applied' = [applied EXCEPT ![c] = @ + 1]
(* The deferred Rollback of runTx, on an error and on a panic.             *)
RollBack(c) == EndTx(c) /\ UNCHANGED applied

Return(c, outcome) == Goto(c, "done") /\ result' = [result EXCEPT ![c] = outcome]

-----------------------------------------------------------------------------
BeginTx(c) == /\ pc[c] = "begin"
              /\ Goto(c, "body")
              /\ done' = [done EXCEPT ![c] = 0]
              /\ UNCHANGED <<attempt, owner, ended, applied, result, doubt>>

(* A statement of the body gets its row.                                   *)
Execute(c) == /\ pc[c] = "body" /\ done[c] < Len(Plan[c])
              /\ ~Waiting(c)
              /\ owner' = [owner EXCEPT ![Wanted(c)] = c]
              /\ done' = [done EXCEPT ![c] = @ + 1]
              /\ UNCHANGED <<pc, attempt, ended, applied, result, doubt>>

BodyReturns(c) == /\ pc[c] = "body" /\ done[c] = Len(Plan[c])
                  /\ Goto(c, "commit")
                  /\ UNCHANGED <<attempt, done, owner, ended, applied, result, doubt>>

Commit(c) == /\ pc[c] = "commit"
             /\ applied' = [applied EXCEPT ![c] = @ + 1]
             /\ EndTx(c) /\ Return(c, "nil")
             /\ UNCHANGED <<attempt, done, ended, doubt>>

(* Mutant: the counter does not advance.                                   *)
AttemptsLeft(c) == attempt[c] < MaxTxAttempts
NextAttemptStuck(c) == attempt[c]
NextAttempt(c) == attempt[c] + 1

(* What InTx does with a retryable error: it returns it when the context   *)
(* has ended, and otherwise waits attempt^2 * 15ms, after the last attempt *)
(* too.                                                                    *)
Retryable(c) == \/ ended[c] /\ Return(c, "error")
                \/ ~ended[c] /\ Goto(c, "backoff") /\ UNCHANGED result

(* The loop's next round, or "exhausted retries".                          *)
BackoffEnds(c) ==
  /\ pc[c] = "backoff"
  /\ \/ /\ AttemptsLeft(c)
        /\ attempt' = [attempt EXCEPT ![c] = NextAttempt(c)]
        /\ Goto(c, "begin")
        /\ UNCHANGED result
     \/ /\ ~AttemptsLeft(c)
        /\ Return(c, "error")
        /\ UNCHANGED attempt
  /\ UNCHANGED <<done, owner, ended, applied, doubt>>

(* The select on ctx.Done.                                                 *)
BackoffCancelled(c) == /\ pc[c] = "backoff" /\ ended[c]
                       /\ Return(c, "error")
                       /\ UNCHANGED <<attempt, done, owner, ended, applied, doubt>>

(* The server rolls a transaction of a cycle back (1213).                  *)
DeadlockVictim(c) == /\ Deadlocked(c)
                     /\ RollBack(c) /\ Retryable(c)
                     /\ UNCHANGED <<attempt, done, ended, doubt>>

(* A lock wait timeout (1205), an interrupted query (1317) or a lost       *)
(* connection, at BEGIN, in the body or at a COMMIT the server rolls back. *)
Transient(c) == /\ "transient" \in Faults
                /\ pc[c] \in {"begin"} \cup InTransaction
                /\ RollBack(c) /\ Retryable(c)
                /\ UNCHANGED <<attempt, done, ended, doubt>>

(* The connection is lost after the server has committed: ErrInvalidConn,  *)
(* retryable.                                                              *)
CommitUnknown(c) == /\ "ackLost" \in Faults
                    /\ pc[c] = "commit"
                    /\ applied' = [applied EXCEPT ![c] = @ + 1]
                    /\ doubt' = [doubt EXCEPT ![c] = @ + 1]
                    /\ EndTx(c) /\ Retryable(c)
                    /\ UNCHANGED <<attempt, done, ended>>

(* BEGIN, the body (TxTimeout included) or COMMIT returns an error that is *)
(* not retryable, or the body panics: runTx rolls back and InTx returns    *)
(* the error or unwinds.                                                   *)
Fatal(c) == /\ "fatal" \in Faults
            /\ pc[c] \in {"begin"} \cup InTransaction
            /\ RollBack(c) /\ Return(c, "error")
            /\ UNCHANGED <<attempt, done, ended, doubt>>

ContextEnds(c) == /\ "cancel" \in Faults
                  /\ ~ended[c] /\ pc[c] # "done"
                  /\ ended' = [ended EXCEPT ![c] = TRUE]
                  /\ UNCHANGED <<pc, attempt, done, owner, applied, result, doubt>>

Finished == (\A c \in Calls : pc[c] = "done") /\ UNCHANGED vars

Step(c) == \/ BeginTx(c) \/ Execute(c) \/ BodyReturns(c) \/ Commit(c)
           \/ BackoffEnds(c) \/ BackoffCancelled(c) \/ DeadlockVictim(c)

Next == \/ \E c \in Calls : \/ Step(c) \/ Transient(c) \/ CommitUnknown(c)
                            \/ Fatal(c) \/ ContextEnds(c)
        \/ Finished

Spec == Init /\ [][Next]_vars

(* Bodies run, backoffs elapse, the server detects deadlocks and hands row *)
(* locks to waiters.                                                       *)
FairSpec == Spec /\ \A c \in Calls : WF_vars(Step(c))

-----------------------------------------------------------------------------
(* Properties.                                                             *)

(* Types.                                                                  *)
TypeOK == /\ pc \in [Calls -> {"begin", "body", "commit", "backoff", "done"}]
          /\ attempt \in [Calls -> 1 .. MaxTxAttempts]
          /\ done \in [Calls -> Nat]
          /\ owner \in [Rows -> Calls \cup {None}]
          /\ ended \in [Calls -> BOOLEAN]
          /\ applied \in [Calls -> Nat]
          /\ result \in [Calls -> {"none", "nil", "error"}]
          /\ doubt \in [Calls -> Nat]

(* A nil result stands for writes made durable once, an error for none of  *)
(* any attempt, except that each COMMIT whose answer was lost counts once  *)
(* more: InTx takes it for a rolled back transaction and runs the body     *)
(* again.                                                                  *)
ExactlyOnce == \A c \in Calls :
                 pc[c] = "done" => applied[c] = doubt[c] + (IF result[c] = "nil" THEN 1 ELSE 0)

(* No error path, panic or retry leaves row locks behind: only a           *)
(* transaction that is running holds any.                                  *)
NoLockLeaks == \A w \in Rows : owner[w] # None => pc[owner[w]] \in InTransaction

(* Calls that lock the same rows in opposite orders all return.            *)
EveryCallReturns == \A c \in Calls : <>(pc[c] = "done")
=============================================================================
