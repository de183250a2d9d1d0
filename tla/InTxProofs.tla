----------------------------- MODULE InTxProofs -----------------------------
(***************************************************************************)
(* Proofs about database.InTx, for any calls, plans and number of          *)
(* attempts, and any of the failures the model knows.                      *)
(***************************************************************************)
EXTENDS InTx, TLAPS

(* What the invariants need of the types.                                  *)
Shapes == /\ pc \in [Calls -> {"begin", "body", "commit", "backoff", "done"}]
          /\ owner \in [Rows -> Calls \cup {None}]
          /\ applied \in [Calls -> Nat]
          /\ result \in [Calls -> {"none", "nil", "error"}]
          /\ doubt \in [Calls -> Nat]

(* A call has a result when it is done, and what it has made durable is    *)
(* its result and the commits it was not told of.                          *)
Account == \A c \in Calls :
             /\ result[c] = "none" <=> pc[c] # "done"
             /\ applied[c] = doubt[c] + (IF result[c] = "nil" THEN 1 ELSE 0)

IInv == Shapes /\ Account /\ NoLockLeaks

LEMMA InitHolds == Init => IInv
  BY DEF Init, IInv, Shapes, Account, NoLockLeaks

(* Whatever a call does on its own account, the others keep theirs: the    *)
(* steps differ in what they do to the call and to its locks.              *)
Others(c) == \A d \in Calls \ {c} :
               /\ pc'[d] = pc[d] /\ result'[d] = result[d]
               /\ applied'[d] = applied[d] /\ doubt'[d] = doubt[d]

(* A step that keeps the account of the call keeps that of all.            *)
LEMMA AccountKept ==
  ASSUME IInv, NEW c \in Calls, Others(c),
         result'[c] = "none" <=> pc'[c] # "done",
         applied'[c] = doubt'[c] + (IF result'[c] = "nil" THEN 1 ELSE 0)
  PROVE  Account'
  BY DEF IInv, Account, Others

(* A transaction that ends frees its rows and takes no others.             *)
LEMMA LocksKept ==
  ASSUME IInv, NEW c \in Calls, Others(c),
         EndTx(c) \/ (UNCHANGED owner /\ (pc[c] \in InTransaction => pc'[c] \in InTransaction))
  PROVE  NoLockLeaks' /\ owner' \in [Rows -> Calls \cup {None}]
<1>1. owner \in [Rows -> Calls \cup {None}] /\ NoLockLeaks
  BY DEF IInv, Shapes
<1>2. CASE EndTx(c)
  <2>1. owner' \in [Rows -> Calls \cup {None}]
    BY <1>1, <1>2 DEF EndTx
  <2>2. ASSUME NEW w \in Rows, owner'[w] # None PROVE pc'[owner'[w]] \in InTransaction
    <3>1. owner'[w] = owner[w] /\ owner[w] \in Calls \ {c}
      BY <1>1, <1>2, <2>2 DEF EndTx
    <3>2. pc[owner[w]] \in InTransaction
      BY <1>1, <2>2, <3>1 DEF NoLockLeaks
    <3> QED
      BY <3>1, <3>2 DEF Others
  <2> QED
    BY <2>1, <2>2 DEF NoLockLeaks
<1>3. CASE UNCHANGED owner /\ (pc[c] \in InTransaction => pc'[c] \in InTransaction)
  BY <1>1, <1>3 DEF NoLockLeaks, Others
<1> QED
  BY <1>2, <1>3

(* A retryable error: rolled back, with or without writes made durable.    *)
LEMMA RetryableStep ==
  ASSUME IInv, NEW c \in Calls, pc[c] # "done", EndTx(c), Retryable(c),
         \/ UNCHANGED <<applied, doubt>>
         \/ /\ applied' = [applied EXCEPT ![c] = @ + 1]
            /\ doubt' = [doubt EXCEPT ![c] = @ + 1]
  PROVE  IInv'
<1>1. result[c] = "none" /\ applied[c] = doubt[c]
  BY DEF IInv, Shapes, Account
<1>2. Others(c) /\ (result'[c] = "none" <=> pc'[c] # "done") /\ result'[c] # "nil"
  BY <1>1 DEF IInv, Shapes, Retryable, Return, Goto, Others
<1>3. applied'[c] = doubt'[c]
  BY <1>1 DEF IInv, Shapes
<1>4. applied'[c] \in Nat /\ doubt'[c] \in Nat /\ applied' \in [Calls -> Nat]
      /\ doubt' \in [Calls -> Nat]
  BY DEF IInv, Shapes
<1>5. pc' \in [Calls -> {"begin", "body", "commit", "backoff", "done"}]
      /\ result' \in [Calls -> {"none", "nil", "error"}]
  BY DEF IInv, Shapes, Retryable, Return, Goto
<1>6. applied'[c] = doubt'[c] + (IF result'[c] = "nil" THEN 1 ELSE 0)
  BY <1>2, <1>3, <1>4
<1>7. Account'
  BY <1>2, <1>6, AccountKept
<1>8. NoLockLeaks' /\ owner' \in [Rows -> Calls \cup {None}]
  BY <1>2, LocksKept
<1> QED
  BY <1>4, <1>5, <1>7, <1>8 DEF IInv, Shapes

(* A call that returns without durable writes of its own.                  *)
LEMMA FailingStep ==
  ASSUME IInv, NEW c \in Calls, pc[c] # "done", Return(c, "error"),
         UNCHANGED <<applied, doubt>>,
         EndTx(c) \/ (UNCHANGED owner /\ pc[c] \notin InTransaction)
  PROVE  IInv'
<1>1. result[c] = "none" /\ applied[c] = doubt[c] /\ applied[c] \in Nat
  BY DEF IInv, Shapes, Account
<1>2. Others(c) /\ result'[c] = "error" /\ pc'[c] = "done"
  BY DEF IInv, Shapes, Return, Goto, Others
<1>3. Shapes' <=> owner' \in [Rows -> Calls \cup {None}]
  BY DEF IInv, Shapes, Return, Goto
<1>4. Account'
  BY <1>1, <1>2, AccountKept
<1>5. NoLockLeaks' /\ owner' \in [Rows -> Calls \cup {None}]
  BY <1>2, LocksKept
<1> QED
  BY <1>3, <1>4, <1>5 DEF IInv

(* A call that only moves within its attempts.                             *)
LEMMA MovingStep ==
  ASSUME IInv, NEW c \in Calls, NEW label \in {"begin", "body", "commit", "backoff"},
         pc[c] # "done", Goto(c, label), UNCHANGED <<applied, doubt, result, owner>>,
         pc[c] \in InTransaction => label \in InTransaction
  PROVE  IInv'
<1>1. result[c] = "none" /\ applied[c] = doubt[c] /\ applied[c] \in Nat
  BY DEF IInv, Shapes, Account
<1>2. Others(c) /\ pc'[c] = label
  BY DEF IInv, Shapes, Goto, Others
<1>3. Shapes' <=> owner' \in [Rows -> Calls \cup {None}]
  BY DEF IInv, Shapes, Goto
<1>4. Account'
  BY <1>1, <1>2, AccountKept
<1>5. NoLockLeaks' /\ owner' \in [Rows -> Calls \cup {None}]
  BY <1>2, LocksKept
<1> QED
  BY <1>3, <1>4, <1>5 DEF IInv

LEMMA CommitStep ==
  ASSUME IInv, NEW c \in Calls, Commit(c)
  PROVE  IInv'
<1>1. result[c] = "none" /\ applied[c] = doubt[c] /\ applied[c] \in Nat
  BY DEF IInv, Shapes, Account, Commit
<1>2. Others(c) /\ result'[c] = "nil" /\ pc'[c] = "done"
      /\ applied'[c] = applied[c] + 1 /\ doubt'[c] = doubt[c]
  BY DEF IInv, Shapes, Commit, Return, Goto, Others
<1>3. Shapes' <=> owner' \in [Rows -> Calls \cup {None}]
  BY DEF IInv, Shapes, Commit, Return, Goto
<1>4. Account'
  BY <1>1, <1>2, AccountKept
<1>5. NoLockLeaks' /\ owner' \in [Rows -> Calls \cup {None}]
  BY <1>2, LocksKept DEF Commit
<1> QED
  BY <1>3, <1>4, <1>5 DEF IInv

(* A statement locks a row that is free or the call's already.             *)
LEMMA ExecuteStep ==
  ASSUME IInv, NEW c \in Calls, Execute(c)
  PROVE  IInv'
<1>1. Shapes' /\ Account'
  BY DEF IInv, Shapes, Account, Execute
<1>2. ASSUME NEW w \in Rows, owner'[w] # None PROVE pc'[owner'[w]] \in InTransaction
  BY <1>2 DEF IInv, Shapes, NoLockLeaks, Execute, InTransaction
<1> QED
  BY <1>1, <1>2 DEF IInv, NoLockLeaks

-----------------------------------------------------------------------------
LEMMA InTxStep == IInv /\ [Next]_vars => IInv'
<1> SUFFICES ASSUME IInv, [Next]_vars PROVE IInv'
  OBVIOUS
<1>1. ASSUME NEW c \in Calls, BeginTx(c) PROVE IInv'
  BY <1>1, MovingStep DEF BeginTx, InTransaction
<1>2. ASSUME NEW c \in Calls, Execute(c) PROVE IInv'
  BY <1>2, ExecuteStep
<1>3. ASSUME NEW c \in Calls, BodyReturns(c) PROVE IInv'
  BY <1>3, MovingStep DEF BodyReturns, InTransaction
<1>4. ASSUME NEW c \in Calls, Commit(c) PROVE IInv'
  BY <1>4, CommitStep
<1>5. ASSUME NEW c \in Calls, BackoffEnds(c) PROVE IInv'
  BY <1>5, MovingStep, FailingStep DEF BackoffEnds, InTransaction
<1>6. ASSUME NEW c \in Calls, BackoffCancelled(c) PROVE IInv'
  BY <1>6, FailingStep DEF BackoffCancelled, InTransaction
<1>7. ASSUME NEW c \in Calls, DeadlockVictim(c) PROVE IInv'
  <2>1. pc[c] # "done"
    BY <1>7 DEF DeadlockVictim, Deadlocked, WaitsFor, Waiting
  <2> QED
    BY <1>7, <2>1, RetryableStep DEF DeadlockVictim, RollBack
<1>8. ASSUME NEW c \in Calls, Transient(c) PROVE IInv'
  BY <1>8, RetryableStep DEF Transient, RollBack, InTransaction
<1>9. ASSUME NEW c \in Calls, CommitUnknown(c) PROVE IInv'
  BY <1>9, RetryableStep DEF CommitUnknown
<1>10. ASSUME NEW c \in Calls, Fatal(c) PROVE IInv'
  BY <1>10, FailingStep DEF Fatal, RollBack, InTransaction
<1>11. ASSUME NEW c \in Calls, ContextEnds(c) PROVE IInv'
  BY <1>11 DEF ContextEnds, IInv, Shapes, Account, NoLockLeaks
<1>12. CASE UNCHANGED vars
  BY <1>12 DEF vars, IInv, Shapes, Account, NoLockLeaks
<1> QED
  BY <1>1, <1>2, <1>3, <1>4, <1>5, <1>6, <1>7, <1>8, <1>9, <1>10, <1>11, <1>12
     DEF Next, Step, Finished

(* The inductive invariant holds through all retries, deadlocks, panics    *)
(* and lost answers (database.go, InTx and runTx).                         *)
THEOREM InTxInvariance == Spec => []IInv
  BY InitHolds, InTxStep, PTL DEF Spec

(* Only a transaction that is running holds row locks: every way out of    *)
(* runTx ends it (database.go, the deferred Rollback and the commit).      *)
THEOREM LocksEndWithTheTransaction == Spec => []NoLockLeaks
<1>1. IInv => NoLockLeaks
  BY DEF IInv
<1> QED
  BY <1>1, InTxInvariance, PTL

(* A nil result of InTx stands for one durable run of the body, an error   *)
(* for none, apart from commits whose answer was lost (database.go, InTx). *)
THEOREM ResultsTellTheTruth == Spec => []ExactlyOnce
<1>1. IInv => ExactlyOnce
  BY DEF IInv, Account, ExactlyOnce
<1> QED
  BY <1>1, InTxInvariance, PTL
=============================================================================
