------------------------- MODULE IdempotencyProofs -------------------------
(***************************************************************************)
(* Proofs about Idempotency and IdempotentRequests, for every set of       *)
(* requests, every payload, every lifetime and every number of attempts.   *)
(*                                                                         *)
(* First the protocol: types, the inductive invariant and what follows     *)
(* from it.  Then the digest of RequestHash, on its own: recursion over a  *)
(* well-founded relation; flattened sequences and sorted keys; documents   *)
(* and their parts; the canonical form, the reference and Precise as       *)
(* solutions of their equations; and that the digest says what a body      *)
(* says, for every set of documents, however deeply nested.  At last what  *)
(* the clients read, which needs both.                                     *)
(***************************************************************************)
EXTENDS IdempotentRequests, SequenceTheorems, FiniteSetTheorems, WellFoundedInduction,
        TLAPS

(* The row carries r's claim.                                              *)
Holds(r) == /\ claimant = r
            /\ row.state # "ABSENT"
            /\ row.hash = HashOf[r]
            /\ row.expires = begunAt[r] + TTL

(* What r may overwrite: nothing, a released claim, or one that had        *)
(* expired when r arrived.                                                 *)
Claimable(r) == \/ row.state \in {"ABSENT", "FAILED_RETRYABLE"}
                \/ Expired(begunAt[r])

(* The row lock is held exactly between the SELECT and the end of the      *)
(* transaction, and while r holds it the row stays claimable.              *)
LockInv == \A r \in Requests :
             /\ lock = r <=> pc[r] \in {"own", "claimed", "found"}
             /\ pc[r] \in {"own", "claimed"} => Claimable(r)

(* owned is set only by an attempt that commits, or whose commit the       *)
(* client did not see: then the row carries the claim.                     *)
OwnedInv == \A r \in Requests :
              /\ pc[r] \in {"idle", "insert", "own", "insertTx", "found"} => ~owned[r]
              /\ pc[r] = "read" /\ owned[r] => Holds(r) /\ row.state = "IN_PROGRESS"

(* A request that runs its handler holds the claim.                        *)
ExecInv == \A r \in Requests :
             pc[r] \in Executing => Holds(r) /\ row.state \in {"IN_PROGRESS", "COMPLETED"}

(* With CompleteTx the effect and the COMPLETED state appear together, and *)
(* a request that goes on trying has heard of no effect yet.               *)
EffectInv == AtomicHandlers =>
               /\ row.state \in {"IN_PROGRESS", "FAILED_RETRYABLE"} => effects = <<>>
               /\ \A r \in Requests : pc[r] = "run" =>
                    \A i \in DOMAIN effects : effects[i].by = r /\ ~effects[i].heard
               /\ EffectOnce

(* Nobody outlives the record it would claim.                              *)
ClockInv == \A r \in Requests :
              pc[r] \in Active => begunAt[r] <= now /\ now <= begunAt[r] + TTL

(* The inductive invariant.                                                *)
IInv == TypeOK /\ LockInv /\ OwnedInv /\ ExecInv /\ EffectInv /\ ClockInv

-----------------------------------------------------------------------------
(* Types.                                                                  *)

(* The empty table and idle requests are well typed.                       *)
LEMMA TypeInit == Init => TypeOK
  BY NoneAssumption, AttemptsAssumption
  DEF Init, TypeOK, Row, NoRow, RowStates, Bodies, Answers, NoAnswer

(* A durable claim is a well formed row.                                   *)
LEMMA TakeClaimType ==
  ASSUME TypeOK, NEW r \in Requests, TakeClaim(r)
  PROVE  row' \in Row /\ claimant' \in Requests \cup {None} /\ effects' \in Seq(Effects)
<1>1. begunAt[r] + TTL \in Nat /\ HashOf[r] \in Hashes
  BY TimeAssumption DEF TypeOK, Hashes
<1>2. ClaimedRow(r) \in Row
  BY <1>1 DEF ClaimedRow, Row, RowStates, Bodies
<1> QED
  BY <1>2 DEF TakeClaim, TypeOK

(* An answer ends its request and is one of the answers there are.         *)
LEMMA ReplyType ==
  ASSUME TypeOK, NEW r \in Requests, NEW kind, NEW body, Reply(r, kind, body),
         [kind |-> kind, body |-> body] \in Answers
  PROVE  /\ pc' \in [Requests -> {"idle", "done"} \cup Active]
         /\ answer' \in [Requests -> Answers]
         /\ attempt' \in [Requests -> 1 .. MaxTxAttempts]
  BY AttemptsAssumption DEF TypeOK, Reply, Goto, Leave

(* So does an InTx that ends.                                              *)
LEMMA LeaveType ==
  ASSUME TypeOK, NEW r \in Requests, NEW label \in {"idle", "done"} \cup Active, Leave(r, label)
  PROVE  /\ pc' \in [Requests -> {"idle", "done"} \cup Active]
         /\ attempt' \in [Requests -> 1 .. MaxTxAttempts]
  BY AttemptsAssumption DEF TypeOK, Goto, Leave

(* InTx stays within its attempts, and answers when they run out.          *)
LEMMA RetryType ==
  ASSUME TypeOK, NEW r \in Requests, RetryTx(r)
  PROVE  /\ lock' \in Requests \cup {None}
         /\ attempt' \in [Requests -> 1 .. MaxTxAttempts]
         /\ pc' \in [Requests -> {"idle", "done"} \cup Active]
         /\ answer' \in [Requests -> Answers]
<1>1. [kind |-> "error", body |-> None] \in Answers
  BY DEF Answers, Bodies
<1>2. lock' \in Requests \cup {None}
  BY DEF RetryTx, Unlock, TypeOK
<1>3. CASE AttemptsLeft(r)
  <2>1. NextAttempt(r) \in 1 .. MaxTxAttempts
    BY <1>3, AttemptsAssumption DEF NextAttempt, AttemptsLeft, TypeOK
  <2> QED
    BY <1>2, <1>3, <2>1 DEF RetryTx, TypeOK, Goto, Leave, Active, InBegin
<1>4. CASE ~AttemptsLeft(r)
  BY <1>1, <1>2, <1>4, ReplyType DEF RetryTx, TypeOK
<1> QED
  BY <1>3, <1>4

(* The handler's InTx likewise, and what it commits is well formed.        *)
LEMMA RetryEffectType ==
  ASSUME TypeOK, NEW r \in Requests, RetryEffect(r)
  PROVE  /\ attempt' \in [Requests -> 1 .. MaxTxAttempts]
         /\ pc' \in [Requests -> {"idle", "done"} \cup Active]
<1>1. CASE AttemptsLeft(r)
  <2>1. NextAttempt(r) \in 1 .. MaxTxAttempts
    BY <1>1, AttemptsAssumption DEF NextAttempt, AttemptsLeft, TypeOK
  <2> QED
    BY <1>1, <2>1 DEF RetryEffect, TypeOK
<1>2. CASE ~AttemptsLeft(r)
  BY <1>2, LeaveType DEF RetryEffect, Active, Executing, InHandler
<1> QED
  BY <1>1, <1>2

LEMMA CommitEffectType ==
  ASSUME TypeOK, NEW r \in Requests, NEW heard \in BOOLEAN, CommitEffect(r, heard)
  PROVE  /\ row' \in Row /\ effects' \in Seq(Effects)
         /\ UNCHANGED <<lock, now, begunAt, owned, record, answer, claimant>>
<1>1. CompleteRow(r) \in Row
  BY DEF CompleteRow, TypeOK, Row, RowStates, Bodies
<1>2. row' \in Row
  <2>1. CASE AtomicHandlers
    BY <1>1, <2>1, Zenon DEF CommitEffect
  <2>2. CASE ~AtomicHandlers
    BY <2>2, Zenon DEF CommitEffect, TypeOK
  <2> QED
    BY <2>1, <2>2
<1>3. [by |-> r, heard |-> heard] \in Effects
  BY DEF Effects
<1>4. effects' \in Seq(Effects)
  BY <1>3 DEF CommitEffect, TypeOK
<1> QED
  BY <1>2, <1>4 DEF CommitEffect

(* Every step keeps the types.                                             *)
LEMMA TypeStep == ASSUME TypeOK, [Next]_vars PROVE TypeOK'
<1> USE NoneAssumption, HashAssumption, TimeAssumption, AttemptsAssumption, LargeAssumption
<1> USE DEF TypeOK, Row, RowStates, Bodies, Hashes, Answers, Active, InBegin, InHandler, Storing, Executing, dbVars
<1>1. ASSUME NEW r \in Requests, Refuse(r) PROVE TypeOK'
  BY <1>1 DEF Refuse, Reply, Goto, Leave
<1>2. ASSUME NEW r \in Requests, Arrive(r) PROVE TypeOK'
  BY <1>2 DEF Arrive, Goto, Leave
<1>3. ASSUME NEW r \in Requests, InsertWins(r) PROVE TypeOK'
  <2>1. TakeClaim(r) /\ Leave(r, "run") /\ UNCHANGED <<lock, now, begunAt, owned, record, answer>>
    BY <1>3 DEF InsertWins
  <2>2. pc' \in [Requests -> {"idle", "done"} \cup Active] /\ attempt' \in [Requests -> 1 .. MaxTxAttempts]
    BY <2>1, LeaveType
  <2> QED
    BY <2>1, <2>2, TakeClaimType
<1>4. ASSUME NEW r \in Requests, InsertDuplicate(r) PROVE TypeOK'
  BY <1>4 DEF InsertDuplicate, Goto, Leave
<1>5. ASSUME NEW r \in Requests, TxRead(r) PROVE TypeOK'
  <2>1. CASE Reply(r, Verdict(r), None) /\ Verdict(r) \in {"conflict", "inProgress"}
    <3>1. [kind |-> Verdict(r), body |-> None] \in Answers
      BY <2>1
    <3>2. UNCHANGED <<row, lock, now, begunAt, owned, record, claimant, effects>>
      BY <1>5, <2>1 DEF TxRead
    <3> QED
      BY <2>1, <3>1, <3>2, ReplyType
  <2>2. CASE Goto(r, Verdict(r)) /\ Verdict(r) \in {"own", "found", "insertTx"}
    <3>1. lock' \in Requests \cup {None} /\ record' \in [Requests -> Bodies]
      BY <1>5, <2>2 DEF TxRead, Reply, Leave
    <3>2. UNCHANGED <<row, now, begunAt, attempt, owned, answer, claimant, effects>>
      BY <1>5, <2>2 DEF TxRead
    <3>3. pc' \in [Requests -> {"idle", "done"} \cup Active]
      BY <2>2 DEF Goto
    <3> QED
      BY <3>1, <3>2, <3>3
  <2> QED
    BY <1>5, <2>1, <2>2 DEF TxRead
<1>6. ASSUME NEW r \in Requests, TxOwn(r) PROVE TypeOK'
  <2>1. owned' \in [Requests -> BOOLEAN]
    BY <1>6, Zenon DEF TxOwn
  <2> QED
    BY <1>6, <2>1 DEF TxOwn, Goto, Leave
<1>7. ASSUME NEW r \in Requests, TxInsert(r) PROVE TypeOK'
  <2>1. owned' \in [Requests -> BOOLEAN]
    BY <1>7, Zenon DEF TxInsert
  <2>2. CASE Goto(r, "claimed") /\ lock' = r /\ UNCHANGED <<attempt, answer>>
    BY <1>7, <2>1, <2>2 DEF TxInsert, Goto
  <2>3. CASE Reply(r, "error", None) /\ UNCHANGED <<lock, owned>>
    <3>1. [kind |-> "error", body |-> None] \in Answers
      OBVIOUS
    <3>2. UNCHANGED <<row, lock, now, begunAt, owned, record, claimant, effects>>
      BY <1>7, <2>3 DEF TxInsert
    <3> QED
      BY <2>3, <3>1, <3>2, ReplyType
  <2> QED
    BY <1>7, <2>2, <2>3 DEF TxInsert
<1>8. ASSUME NEW r \in Requests, CommitClaim(r) PROVE TypeOK'
  <2>1. TakeClaim(r) /\ Leave(r, "run") /\ lock' = None /\ UNCHANGED <<now, begunAt, owned, record, answer>>
    BY <1>8 DEF CommitClaim
  <2>2. pc' \in [Requests -> {"idle", "done"} \cup Active] /\ attempt' \in [Requests -> 1 .. MaxTxAttempts]
    BY <2>1, LeaveType
  <2> QED
    BY <2>1, <2>2, TakeClaimType
<1>9. ASSUME NEW r \in Requests, CommitFound(r) PROVE TypeOK'
  <2>1. UNCHANGED <<row, now, begunAt, owned, record, claimant, effects>> /\ lock' = None
    BY <1>9 DEF CommitFound
  <2>2. CASE Leave(r, "run") /\ UNCHANGED answer
    BY <2>1, <2>2, LeaveType
  <2>3. CASE Reply(r, "replay", record[r])
    <3>1. record[r] \in Bodies
      OBVIOUS
    <3>2. [kind |-> "replay", body |-> record[r]] \in Answers
      BY <3>1
    <3> QED
      BY <2>1, <2>3, <3>2, ReplyType
  <2> QED
    BY <1>9, <2>2, <2>3 DEF CommitFound
<1>10. ASSUME NEW r \in Requests, EffectCommit(r) PROVE TypeOK'
  BY <1>10, CommitEffectType, LeaveType DEF EffectCommit
<1>24. ASSUME NEW r \in Requests, EffectUnknown(r) PROVE TypeOK'
  BY <1>24, CommitEffectType, RetryEffectType DEF EffectUnknown
<1>25. ASSUME NEW r \in Requests, EffectRetries(r) PROVE TypeOK'
  BY <1>25, RetryEffectType DEF EffectRetries
<1>11. ASSUME NEW r \in Requests, HandlerReturns(r) PROVE TypeOK'
  BY <1>11 DEF HandlerReturns, Goto, Leave
<1>12. ASSUME NEW r \in Requests, Complete(r) PROVE TypeOK'
  BY <1>12 DEF Complete, CompleteRow, StoredBody, Goto, Leave
<1>13. ASSUME NEW r \in Requests, Fail(r) PROVE TypeOK'
  BY <1>13 DEF Fail, FailRow, Goto, Leave
<1>14. ASSUME NEW r \in Requests, TxTransient(r) PROVE TypeOK'
  BY <1>14, RetryType DEF TxTransient, RetryTx
<1>15. ASSUME NEW r \in Requests, CommitUnknown(r) PROVE TypeOK'
  BY <1>15, RetryType, TakeClaimType DEF CommitUnknown, RetryTx
<1>16. ASSUME NEW r \in Requests, InsertUnknown(r) PROVE TypeOK'
  <2>1. [kind |-> "error", body |-> None] \in Answers
    OBVIOUS
  <2> QED
    BY <1>16, <2>1, ReplyType, TakeClaimType DEF InsertUnknown
<1>17. ASSUME NEW r \in Requests, BeginFails(r) PROVE TypeOK'
  <2>1. Reply(r, "error", None) /\ lock' \in Requests \cup {None}
        /\ UNCHANGED <<row, now, begunAt, owned, record, claimant, effects>>
    BY <1>17 DEF BeginFails, Unlock
  <2>2. [kind |-> "error", body |-> None] \in Answers
    OBVIOUS
  <2> QED
    BY <2>1, <2>2, ReplyType
<1>18. ASSUME NEW r \in Requests, HandlerPanics(r) PROVE TypeOK'
  BY <1>18 DEF HandlerPanics, Reply, Goto, Leave
<1>19. ASSUME NEW r \in Requests, StoreFails(r) PROVE TypeOK'
  BY <1>19 DEF StoreFails, Goto, Leave
<1>20. ASSUME NEW r \in Requests, Crash(r) PROVE TypeOK'
  <2>1. /\ Leave(r, "done")
        /\ answer' = [answer EXCEPT ![r] = IF @ = NoAnswer THEN [@ EXCEPT !.kind = "error"] ELSE @]
        /\ lock' \in Requests \cup {None}
        /\ UNCHANGED <<row, now, begunAt, owned, record, claimant, effects>>
    BY <1>20 DEF Crash, Unlock
  <2>2. pc' \in [Requests -> {"idle", "done"} \cup Active] /\ attempt' \in [Requests -> 1 .. MaxTxAttempts]
    BY <2>1, LeaveType
  <2>3. answer' \in [Requests -> Answers]
    BY <2>1 DEF NoAnswer
  <2> QED
    BY <2>1, <2>2, <2>3
<1>21. CASE Purge
  BY <1>21 DEF Purge, NoRow
<1>22. CASE Tick
  BY <1>22 DEF Tick
<1>23. CASE UNCHANGED vars
  BY <1>23 DEF vars
<1> QED
  BY <1>1, <1>2, <1>3, <1>4, <1>5, <1>6, <1>7, <1>8, <1>9, <1>10, <1>11, <1>12, <1>13, <1>14, <1>15, <1>16, <1>17, <1>18, <1>19, <1>20, <1>21, <1>22, <1>23, <1>24, <1>25 DEF Next, Begin, Handle, Failure, Finished

(* Every variable keeps its type: Begin's closure variables, the row and   *)
(* the lock never hold anything the code could not have put there.         *)
THEOREM TypeCorrect == Spec => []TypeOK
  BY TypeInit, TypeStep, PTL DEF Spec

-----------------------------------------------------------------------------
(* Mutual exclusion and at most one effect.                                *)

(* The invariant holds of an empty table.                                  *)
LEMMA InvInit == Init => IInv
<1> SUFFICES ASSUME Init PROVE IInv
  OBVIOUS
<1>1. TypeOK
  BY TypeInit
<1> QED
  BY <1>1, NoneAssumption, TimeAssumption
  DEF Init, IInv, LockInv, OwnedInv, ExecInv, EffectInv, EffectOnce, ClockInv, NoRow, Active, InBegin, Executing, InHandler, Storing

(* A request that is refused touches nothing.                              *)
LEMMA RefuseStep == ASSUME Bounded, IInv, TypeOK', NEW r \in Requests, Refuse(r) PROVE IInv'
<1> USE NoneAssumption, HashAssumption, TimeAssumption
<1> USE DEF IInv, TypeOK, Row, RowStates, Active, InBegin, InHandler, Storing, Executing, dbVars, Refuse, Reply, Goto, Leave
<1>1. LockInv'
  BY DEF LockInv, ClockInv, ExecInv, OwnedInv, Claimable, Expired, Holds
<1>2. OwnedInv'
  BY DEF LockInv, OwnedInv, ExecInv, ClockInv, Holds, Claimable, Expired
<1>3. ExecInv'
  BY DEF LockInv, OwnedInv, ExecInv, ClockInv, Holds, Claimable, Expired
<1>4. EffectInv'
  BY DEF EffectInv, EffectOnce, LockInv, ExecInv, Claimable, Expired, Holds
<1>5. ClockInv'
  BY DEF ClockInv
<1> QED
  BY <1>1, <1>2, <1>3, <1>4, <1>5

(* A request that arrives has the whole of its record's life before it.    *)
LEMMA ArriveStep == ASSUME Bounded, IInv, TypeOK', NEW r \in Requests, Arrive(r) PROVE IInv'
<1> USE NoneAssumption, HashAssumption, TimeAssumption
<1> USE DEF IInv, TypeOK, Row, RowStates, Active, InBegin, InHandler, Storing, Executing, dbVars, Arrive, Goto, Leave
<1>1. LockInv'
  BY DEF LockInv, ClockInv, ExecInv, OwnedInv, Claimable, Expired, Holds
<1>2. OwnedInv'
  BY DEF LockInv, OwnedInv, ExecInv, ClockInv, Holds, Claimable, Expired
<1>3. ExecInv'
  BY DEF LockInv, OwnedInv, ExecInv, ClockInv, Holds, Claimable, Expired
<1>4. EffectInv'
  BY DEF EffectInv, EffectOnce, LockInv, ExecInv, Claimable, Expired, Holds
<1>5. ClockInv'
  BY DEF ClockInv
<1> QED
  BY <1>1, <1>2, <1>3, <1>4, <1>5

(* The fast path claims an absent row, which nobody executes for.          *)
LEMMA InsertWinsStep == ASSUME Bounded, IInv, TypeOK', NEW r \in Requests, InsertWins(r) PROVE IInv'
<1> USE NoneAssumption, HashAssumption, TimeAssumption
<1> USE DEF IInv, TypeOK, Row, RowStates, Active, InBegin, InHandler, Storing, Executing, dbVars, InsertWins, TakeClaim, ClaimedRow, Goto, Leave
<1>1. LockInv'
  BY DEF LockInv, ClockInv, ExecInv, OwnedInv, Claimable, Expired, Holds
<1>2. OwnedInv'
  BY DEF LockInv, OwnedInv, ExecInv, ClockInv, Holds, Claimable, Expired
<1>3. ExecInv'
  BY DEF LockInv, OwnedInv, ExecInv, ClockInv, Holds, Claimable, Expired
<1>4. EffectInv'
  BY DEF EffectInv, EffectOnce, LockInv, ExecInv, Claimable, Expired, Holds
<1>5. ClockInv'
  BY DEF ClockInv
<1> QED
  BY <1>1, <1>2, <1>3, <1>4, <1>5

(* A duplicate sends the request to the slow path with nothing owned.      *)
LEMMA InsertDuplicateStep == ASSUME Bounded, IInv, TypeOK', NEW r \in Requests, InsertDuplicate(r) PROVE IInv'
<1> USE NoneAssumption, HashAssumption, TimeAssumption
<1> USE DEF IInv, TypeOK, Row, RowStates, Active, InBegin, InHandler, Storing, Executing, dbVars, InsertDuplicate, Goto, Leave
<1>1. LockInv'
  BY DEF LockInv, ClockInv, ExecInv, OwnedInv, Claimable, Expired, Holds
<1>2. OwnedInv'
  BY DEF LockInv, OwnedInv, ExecInv, ClockInv, Holds, Claimable, Expired
<1>3. ExecInv'
  BY DEF LockInv, OwnedInv, ExecInv, ClockInv, Holds, Claimable, Expired
<1>4. EffectInv'
  BY DEF EffectInv, EffectOnce, LockInv, ExecInv, Claimable, Expired, Holds
<1>5. ClockInv'
  BY DEF ClockInv
<1> QED
  BY <1>1, <1>2, <1>3, <1>4, <1>5

(* The row the SELECT locks for takeOwnership is claimable.                *)
LEMMA TxReadStep == ASSUME Bounded, IInv, TypeOK', NEW r \in Requests, TxRead(r) PROVE IInv'
<1> USE NoneAssumption, HashAssumption, TimeAssumption
<1> USE DEF IInv, TypeOK, Row, RowStates, Active, InBegin, InHandler, Storing, Executing, dbVars, TxRead, Reply, Goto, Leave, Verdict
<1>1. LockInv'
  BY DEF LockInv, ClockInv, ExecInv, OwnedInv, Claimable, Expired, Holds
<1>2. OwnedInv'
  BY DEF LockInv, OwnedInv, ExecInv, ClockInv, Holds, Claimable, Expired
<1>3. ExecInv'
  BY DEF LockInv, OwnedInv, ExecInv, ClockInv, Holds, Claimable, Expired
<1>4. EffectInv'
  BY DEF EffectInv, EffectOnce, LockInv, ExecInv, Claimable, Expired, Holds
<1>5. ClockInv'
  BY DEF ClockInv
<1> QED
  BY <1>1, <1>2, <1>3, <1>4, <1>5

(* takeOwnership sets owned while the lock is held.                        *)
LEMMA TxOwnStep == ASSUME Bounded, IInv, TypeOK', NEW r \in Requests, TxOwn(r) PROVE IInv'
<1> USE NoneAssumption, HashAssumption, TimeAssumption
<1> USE DEF IInv, TypeOK, Row, RowStates, Active, InBegin, InHandler, Storing, Executing, dbVars, TxOwn, Goto, Leave
<1>1. LockInv'
  BY DEF LockInv, ClockInv, ExecInv, OwnedInv, Claimable, Expired, Holds
<1>2. OwnedInv'
  BY DEF LockInv, OwnedInv, ExecInv, ClockInv, Holds, Claimable, Expired
<1>3. ExecInv'
  BY DEF LockInv, OwnedInv, ExecInv, ClockInv, Holds, Claimable, Expired
<1>4. EffectInv'
  BY DEF EffectInv, EffectOnce, LockInv, ExecInv, Claimable, Expired, Holds
<1>5. ClockInv'
  BY DEF ClockInv
<1> QED
  BY <1>1, <1>2, <1>3, <1>4, <1>5

(* The INSERT of the slow path finds the row absent and locks it.          *)
LEMMA TxInsertStep == ASSUME Bounded, IInv, TypeOK', NEW r \in Requests, TxInsert(r) PROVE IInv'
<1> USE NoneAssumption, HashAssumption, TimeAssumption
<1> USE DEF IInv, TypeOK, Row, RowStates, Active, InBegin, InHandler, Storing, Executing, dbVars, TxInsert, Goto, Leave, Reply
<1>1. LockInv'
  BY DEF LockInv, ClockInv, ExecInv, OwnedInv, Claimable, Expired, Holds
<1>2. OwnedInv'
  <2>1. SUFFICES ASSUME NEW q \in Requests
                 PROVE  /\ pc'[q] \in {"idle", "insert", "own", "insertTx", "found"} => ~owned'[q]
                        /\ pc'[q] = "read" /\ owned'[q] => Holds(q)' /\ row'.state = "IN_PROGRESS"
    BY DEF OwnedInv
  <2>2. CASE q = r
    BY <2>2
  <2>3. CASE q # r
    BY <2>3 DEF OwnedInv, Holds
  <2> QED
    BY <2>2, <2>3
<1>3. ExecInv'
  BY DEF LockInv, OwnedInv, ExecInv, ClockInv, Holds, Claimable, Expired
<1>4. EffectInv'
  BY DEF EffectInv, EffectOnce, LockInv, ExecInv, Claimable, Expired, Holds
<1>5. ClockInv'
  BY DEF ClockInv
<1> QED
  BY <1>1, <1>2, <1>3, <1>4, <1>5

(* The row was claimable up to the commit, so nobody executes for it.      *)
LEMMA CommitClaimStep == ASSUME Bounded, IInv, TypeOK', NEW r \in Requests, CommitClaim(r) PROVE IInv'
<1> USE NoneAssumption, HashAssumption, TimeAssumption
<1> USE DEF IInv, TypeOK, Row, RowStates, Active, InBegin, InHandler, Storing, Executing, dbVars, CommitClaim, TakeClaim, ClaimedRow, Goto, Leave
<1>1. LockInv'
  BY DEF LockInv, ClockInv, ExecInv, OwnedInv, Claimable, Expired, Holds
<1>2. OwnedInv'
  BY DEF LockInv, OwnedInv, ExecInv, ClockInv, Holds, Claimable, Expired
<1>3. ExecInv'
  BY DEF LockInv, OwnedInv, ExecInv, ClockInv, Holds, Claimable, Expired
<1>4. EffectInv'
  BY DEF EffectInv, EffectOnce, LockInv, ExecInv, Claimable, Expired, Holds
<1>5. ClockInv'
  BY DEF ClockInv
<1> QED
  BY <1>1, <1>2, <1>3, <1>4, <1>5

(* A request that found a completed record while it owns the key would     *)
(* need a claim that did not last; the invariant excludes it.              *)
LEMMA CommitFoundStep == ASSUME Bounded, IInv, TypeOK', NEW r \in Requests, CommitFound(r) PROVE IInv'
<1> USE NoneAssumption, HashAssumption, TimeAssumption
<1> USE DEF IInv, TypeOK, Row, RowStates, Active, InBegin, InHandler, Storing, Executing, dbVars, CommitFound, Goto, Leave, Reply
<1>1. /\ UNCHANGED <<row, claimant, owned, effects>> /\ pc' = [pc EXCEPT ![r] = "done"]
      /\ lock' = None /\ pc[r] = "found"
  BY DEF OwnedInv
<1>2. \A q \in Requests : pc'[q] = "done" \/ pc'[q] = pc[q]
  BY <1>1
<1>3. LockInv'
  <2>1. lock = r /\ \A q \in Requests : pc[q] \in {"own", "claimed", "found"} => q = r
    BY <1>1 DEF LockInv
  <2>2. \A q \in Requests : pc'[q] \notin {"own", "claimed", "found"}
    BY <1>1, <1>2, <2>1
  <2> QED
    BY <1>1, <2>2 DEF LockInv
<1>4. OwnedInv'
  <2>1. ASSUME NEW q \in Requests
        PROVE  /\ pc'[q] \in {"idle", "insert", "own", "insertTx", "found"} => ~owned'[q]
               /\ pc'[q] = "read" /\ owned'[q] => Holds(q)' /\ row'.state = "IN_PROGRESS"
    BY <1>1, <1>2 DEF OwnedInv, Holds
  <2> QED
    BY <2>1 DEF OwnedInv
<1>5. ExecInv'
  <2>1. ASSUME NEW q \in Requests, pc'[q] \in Executing
        PROVE  Holds(q)' /\ row'.state \in {"IN_PROGRESS", "COMPLETED"}
    BY <1>1, <1>2, <2>1 DEF ExecInv, Holds
  <2> QED
    BY <2>1 DEF ExecInv
<1>6. EffectInv'
  <2>1. UNCHANGED <<row, effects>> /\ pc' = [pc EXCEPT ![r] = "done"]
    BY <1>1
  <2>2. \A q \in Requests : pc'[q] = "run" => pc[q] = "run"
    BY <2>1
  <2>3. EffectInv
    OBVIOUS
  <2>4. EffectOnce => EffectOnce'
    BY <2>1 DEF EffectOnce
  <2> QED
    BY <2>1, <2>2, <2>3, <2>4 DEF EffectInv
<1>7. ClockInv'
  BY DEF ClockInv
<1> QED
  BY <1>3, <1>4, <1>5, <1>6, <1>7

(* Only one request executes, and its record is not free.                  *)
LEMMA ExecutesAlone ==
  ASSUME ExecInv, NEW r \in Requests, pc[r] \in Executing
  PROVE  /\ row.state # "ABSENT" /\ \A q \in Requests : pc[q] \in Executing => q = r
  BY DEF ExecInv, Holds

(* CompleteTx: the effect and COMPLETED appear together, under the claim   *)
(* of the request, after effects of which it has not heard.                *)
LEMMA EffectAppended ==
  ASSUME IInv, NEW r \in Requests, NEW heard \in BOOLEAN, CommitEffect(r, heard), AtomicHandlers
  PROVE  /\ row'.state = "COMPLETED" /\ EffectOnce'
         /\ \A i \in DOMAIN effects' : effects'[i].by = r /\ (effects'[i].heard => heard)
<1>1. row'.state = "COMPLETED"
  BY ExecutesAlone DEF CommitEffect, CompleteRow, IInv, TypeOK, Row, Executing, InHandler
<1>2. effects \in Seq(Effects) /\ \A i \in DOMAIN effects : effects[i].by = r /\ ~effects[i].heard
  BY DEF IInv, TypeOK, EffectInv, CommitEffect
<1> DEFINE e == [by |-> r, heard |-> heard]
<1>3. /\ effects' = Append(effects, e) /\ DOMAIN effects' = 1 .. Len(effects) + 1
      /\ \A i \in 1 .. Len(effects) : effects'[i] = effects[i]
      /\ effects'[Len(effects) + 1] = e /\ Len(effects) \in Nat
      /\ DOMAIN effects = 1 .. Len(effects)
  BY <1>2 DEF CommitEffect
<1>4. \A i \in DOMAIN effects' : effects'[i].by = r /\ (effects'[i].heard => heard)
  BY <1>2, <1>3
<1>5. \A i, j \in DOMAIN effects' : i < j => ~effects'[i].heard
  BY <1>2, <1>3
<1> QED
  BY <1>1, <1>4, <1>5 DEF EffectOnce

(* InTx has heard of the effect and runs no further.                       *)
LEMMA EffectCommitStep == ASSUME Bounded, IInv, TypeOK', NEW r \in Requests, EffectCommit(r) PROVE IInv'
<1> USE NoneAssumption, HashAssumption, TimeAssumption
<1> USE DEF IInv, TypeOK, Row, RowStates, Active, InBegin, InHandler, Storing, Executing, dbVars, EffectCommit, CommitEffect, CompleteRow, Goto, Leave
<1>1. LockInv'
  BY DEF LockInv, ClockInv, ExecInv, OwnedInv, Claimable, Expired, Holds
<1>2. OwnedInv'
  BY DEF LockInv, OwnedInv, ExecInv, ClockInv, Holds, Claimable, Expired
<1>3. ExecInv'
  BY DEF LockInv, OwnedInv, ExecInv, ClockInv, Holds, Claimable, Expired
<1>4. EffectInv'
  <2> SUFFICES ASSUME AtomicHandlers PROVE EffectInv'
    BY DEF EffectInv
  <2>1. /\ row'.state = "COMPLETED" /\ EffectOnce'
        /\ \A i \in DOMAIN effects' : effects'[i].by = r /\ (effects'[i].heard => TRUE)
    BY EffectAppended
  <2>2. \A q \in Requests : pc[q] \in Executing => q = r
    BY ExecutesAlone
  <2>3. \A q \in Requests : pc'[q] # "run"
    BY <2>2 
  <2> QED
    BY <2>1, <2>3 DEF EffectInv
<1>5. ClockInv'
  BY DEF ClockInv
<1> QED
  BY <1>1, <1>2, <1>3, <1>4, <1>5

(* An effect whose COMMIT is not answered may be followed by another.      *)
LEMMA EffectUnknownStep == ASSUME Bounded, IInv, TypeOK', NEW r \in Requests, EffectUnknown(r) PROVE IInv'
<1> USE NoneAssumption, HashAssumption, TimeAssumption
<1> USE DEF IInv, TypeOK, Row, RowStates, Active, InBegin, InHandler, Storing, Executing, dbVars, EffectUnknown, CommitEffect, RetryEffect, CompleteRow, Goto, Leave
<1>1. LockInv'
  BY DEF LockInv, ClockInv, ExecInv, OwnedInv, Claimable, Expired, Holds
<1>2. OwnedInv'
  BY DEF LockInv, OwnedInv, ExecInv, ClockInv, Holds, Claimable, Expired
<1>3. ExecInv'
  BY DEF LockInv, OwnedInv, ExecInv, ClockInv, Holds, Claimable, Expired
<1>4. EffectInv'
  <2> SUFFICES ASSUME AtomicHandlers PROVE EffectInv'
    BY DEF EffectInv
  <2>1. /\ row'.state = "COMPLETED" /\ EffectOnce'
        /\ \A i \in DOMAIN effects' : effects'[i].by = r /\ (effects'[i].heard => FALSE)
    BY EffectAppended
  <2>2. \A q \in Requests : pc[q] \in Executing => q = r
    BY ExecutesAlone
  <2>3. \A q \in Requests : pc'[q] = "run" => q = r
    BY <2>2 
  <2> QED
    BY <2>1, <2>3 DEF EffectInv
<1>5. ClockInv'
  BY DEF ClockInv
<1> QED
  BY <1>1, <1>2, <1>3, <1>4, <1>5

(* A business transaction that is rolled back leaves nothing behind.       *)
LEMMA EffectRetriesStep == ASSUME Bounded, IInv, TypeOK', NEW r \in Requests, EffectRetries(r) PROVE IInv'
<1> USE NoneAssumption, HashAssumption, TimeAssumption
<1> USE DEF IInv, TypeOK, Row, RowStates, Active, InBegin, InHandler, Storing, Executing, dbVars, EffectRetries, RetryEffect, Goto, Leave
<1>1. LockInv'
  BY DEF LockInv, ClockInv, ExecInv, OwnedInv, Claimable, Expired, Holds
<1>2. OwnedInv'
  BY DEF LockInv, OwnedInv, ExecInv, ClockInv, Holds, Claimable, Expired
<1>3. ExecInv'
  BY DEF LockInv, OwnedInv, ExecInv, ClockInv, Holds, Claimable, Expired
<1>4. EffectInv'
  BY DEF EffectInv, EffectOnce
<1>5. ClockInv'
  BY DEF ClockInv
<1> QED
  BY <1>1, <1>2, <1>3, <1>4, <1>5

(* The handler's return changes nothing in the table.                      *)
LEMMA HandlerReturnsStep == ASSUME Bounded, IInv, TypeOK', NEW r \in Requests, HandlerReturns(r) PROVE IInv'
<1> USE NoneAssumption, HashAssumption, TimeAssumption
<1> USE DEF IInv, TypeOK, Row, RowStates, Active, InBegin, InHandler, Storing, Executing, dbVars, HandlerReturns, Goto, Leave
<1>1. LockInv'
  BY DEF LockInv, ClockInv, ExecInv, OwnedInv, Claimable, Expired, Holds
<1>2. OwnedInv'
  BY DEF LockInv, OwnedInv, ExecInv, ClockInv, Holds, Claimable, Expired
<1>3. ExecInv'
  BY DEF LockInv, OwnedInv, ExecInv, ClockInv, Holds, Claimable, Expired
<1>4. EffectInv'
  BY DEF EffectInv, EffectOnce, LockInv, ExecInv, Claimable, Expired, Holds
<1>5. ClockInv'
  BY DEF ClockInv
<1> QED
  BY <1>1, <1>2, <1>3, <1>4, <1>5

(* Complete writes the row of the request that holds it.                   *)
LEMMA CompleteStep == ASSUME Bounded, IInv, TypeOK', NEW r \in Requests, Complete(r) PROVE IInv'
<1> USE NoneAssumption, HashAssumption, TimeAssumption
<1> USE DEF IInv, TypeOK, Row, RowStates, Active, InBegin, InHandler, Storing, Executing, dbVars, Complete, CompleteRow, StoredBody, Goto, Leave
<1>1. LockInv'
  BY DEF LockInv, ClockInv, ExecInv, OwnedInv, Claimable, Expired, Holds
<1>2. OwnedInv'
  BY DEF LockInv, OwnedInv, ExecInv, ClockInv, Holds, Claimable, Expired
<1>3. ExecInv'
  BY DEF LockInv, OwnedInv, ExecInv, ClockInv, Holds, Claimable, Expired
<1>4. EffectInv'
  BY DEF EffectInv, EffectOnce, LockInv, ExecInv, Claimable, Expired, Holds
<1>5. ClockInv'
  BY DEF ClockInv
<1> QED
  BY <1>1, <1>2, <1>3, <1>4, <1>5

(* Fail never reopens a completed record.                                  *)
LEMMA FailStep == ASSUME Bounded, IInv, TypeOK', NEW r \in Requests, Fail(r) PROVE IInv'
<1> USE NoneAssumption, HashAssumption, TimeAssumption
<1> USE DEF IInv, TypeOK, Row, RowStates, Active, InBegin, InHandler, Storing, Executing, dbVars, Fail, FailRow, Goto, Leave
<1>1. LockInv'
  BY DEF LockInv, ClockInv, ExecInv, OwnedInv, Claimable, Expired, Holds
<1>2. OwnedInv'
  BY DEF LockInv, OwnedInv, ExecInv, ClockInv, Holds, Claimable, Expired
<1>3. ExecInv'
  BY DEF LockInv, OwnedInv, ExecInv, ClockInv, Holds, Claimable, Expired
<1>4. EffectInv'
  BY DEF EffectInv, EffectOnce, LockInv, ExecInv, Claimable, Expired, Holds
<1>5. ClockInv'
  BY DEF ClockInv
<1> QED
  BY <1>1, <1>2, <1>3, <1>4, <1>5

(* A rolled back attempt frees the lock and leaves owned unset, or its     *)
(* claim durable.                                                          *)
LEMMA TxTransientStep ==
  ASSUME Bounded, "commitLost" \notin Faults, IInv, TypeOK', NEW r \in Requests, TxTransient(r)
  PROVE  IInv'
<1> USE NoneAssumption, HashAssumption, TimeAssumption
<1> USE DEF IInv, TypeOK, Row, RowStates, Active, InBegin, InHandler, Storing, Executing, dbVars, TxTransient, RollsBackAt, RetryTx, Unlock, Goto, Leave, Reply
<1>1. LockInv'
  BY DEF LockInv, ClockInv, ExecInv, OwnedInv, Claimable, Expired, Holds
<1>2. OwnedInv'
  BY DEF LockInv, OwnedInv, ExecInv, ClockInv, Holds, Claimable, Expired
<1>3. ExecInv'
  BY DEF LockInv, OwnedInv, ExecInv, ClockInv, Holds, Claimable, Expired
<1>4. EffectInv'
  BY DEF EffectInv, EffectOnce, LockInv, ExecInv, Claimable, Expired, Holds
<1>5. ClockInv'
  BY DEF ClockInv
<1> QED
  BY <1>1, <1>2, <1>3, <1>4, <1>5

(* A commit whose answer is lost leaves the claim in the row.              *)
LEMMA CommitUnknownStep == ASSUME Bounded, IInv, TypeOK', NEW r \in Requests, CommitUnknown(r) PROVE IInv'
<1> USE NoneAssumption, HashAssumption, TimeAssumption
<1> USE DEF IInv, TypeOK, Row, RowStates, Active, InBegin, InHandler, Storing, Executing, dbVars, CommitUnknown, RetryTx, Unlock, Goto, Leave, Reply, TakeClaim, ClaimedRow
<1>1. LockInv'
  BY DEF LockInv, ClockInv, ExecInv, OwnedInv, Claimable, Expired, Holds
<1>2. OwnedInv'
  BY DEF LockInv, OwnedInv, ExecInv, ClockInv, Holds, Claimable, Expired
<1>3. ExecInv'
  BY DEF LockInv, OwnedInv, ExecInv, ClockInv, Holds, Claimable, Expired
<1>4. EffectInv'
  BY DEF EffectInv, EffectOnce, LockInv, ExecInv, Claimable, Expired, Holds
<1>5. ClockInv'
  BY DEF ClockInv
<1> QED
  BY <1>1, <1>2, <1>3, <1>4, <1>5

(* So does an INSERT, whose request is answered with an error.             *)
LEMMA InsertUnknownStep == ASSUME Bounded, IInv, TypeOK', NEW r \in Requests, InsertUnknown(r) PROVE IInv'
<1> USE NoneAssumption, HashAssumption, TimeAssumption
<1> USE DEF IInv, TypeOK, Row, RowStates, Active, InBegin, InHandler, Storing, Executing, dbVars, InsertUnknown, Reply, Goto, Leave, TakeClaim, ClaimedRow
<1>1. LockInv'
  BY DEF LockInv, ClockInv, ExecInv, OwnedInv, Claimable, Expired, Holds
<1>2. OwnedInv'
  BY DEF LockInv, OwnedInv, ExecInv, ClockInv, Holds, Claimable, Expired
<1>3. ExecInv'
  BY DEF LockInv, OwnedInv, ExecInv, ClockInv, Holds, Claimable, Expired
<1>4. EffectInv'
  BY DEF EffectInv, EffectOnce, LockInv, ExecInv, Claimable, Expired, Holds
<1>5. ClockInv'
  BY DEF ClockInv
<1> QED
  BY <1>1, <1>2, <1>3, <1>4, <1>5

(* An error of Begin rolls back and frees the lock.                        *)
LEMMA BeginFailsStep == ASSUME Bounded, IInv, TypeOK', NEW r \in Requests, BeginFails(r) PROVE IInv'
<1> USE NoneAssumption, HashAssumption, TimeAssumption
<1> USE DEF IInv, TypeOK, Row, RowStates, Active, InBegin, InHandler, Storing, Executing, dbVars, BeginFails, Unlock, Reply, Goto, Leave
<1>1. LockInv'
  BY DEF LockInv, ClockInv, ExecInv, OwnedInv, Claimable, Expired, Holds
<1>2. OwnedInv'
  BY DEF LockInv, OwnedInv, ExecInv, ClockInv, Holds, Claimable, Expired
<1>3. ExecInv'
  BY DEF LockInv, OwnedInv, ExecInv, ClockInv, Holds, Claimable, Expired
<1>4. EffectInv'
  BY DEF EffectInv, EffectOnce, LockInv, ExecInv, Claimable, Expired, Holds
<1>5. ClockInv'
  BY DEF ClockInv
<1> QED
  BY <1>1, <1>2, <1>3, <1>4, <1>5

(* A panic leaves the claim in the row and executes no further.            *)
LEMMA HandlerPanicsStep == ASSUME Bounded, IInv, TypeOK', NEW r \in Requests, HandlerPanics(r) PROVE IInv'
<1> USE NoneAssumption, HashAssumption, TimeAssumption
<1> USE DEF IInv, TypeOK, Row, RowStates, Active, InBegin, InHandler, Storing, Executing, dbVars, HandlerPanics, Reply, Goto, Leave
<1>1. LockInv'
  BY DEF LockInv, ClockInv, ExecInv, OwnedInv, Claimable, Expired, Holds
<1>2. OwnedInv'
  BY DEF LockInv, OwnedInv, ExecInv, ClockInv, Holds, Claimable, Expired
<1>3. ExecInv'
  BY DEF LockInv, OwnedInv, ExecInv, ClockInv, Holds, Claimable, Expired
<1>4. EffectInv'
  BY DEF EffectInv, EffectOnce, LockInv, ExecInv, Claimable, Expired, Holds
<1>5. ClockInv'
  BY DEF ClockInv
<1> QED
  BY <1>1, <1>2, <1>3, <1>4, <1>5

(* An UPDATE that fails leaves the claim in the row.                       *)
LEMMA StoreFailsStep == ASSUME Bounded, IInv, TypeOK', NEW r \in Requests, StoreFails(r) PROVE IInv'
<1> USE NoneAssumption, HashAssumption, TimeAssumption
<1> USE DEF IInv, TypeOK, Row, RowStates, Active, InBegin, InHandler, Storing, Executing, dbVars, StoreFails, Goto, Leave
<1>1. LockInv'
  BY DEF LockInv, ClockInv, ExecInv, OwnedInv, Claimable, Expired, Holds
<1>2. OwnedInv'
  BY DEF LockInv, OwnedInv, ExecInv, ClockInv, Holds, Claimable, Expired
<1>3. ExecInv'
  BY DEF LockInv, OwnedInv, ExecInv, ClockInv, Holds, Claimable, Expired
<1>4. EffectInv'
  BY DEF EffectInv, EffectOnce, LockInv, ExecInv, Claimable, Expired, Holds
<1>5. ClockInv'
  BY DEF ClockInv
<1> QED
  BY <1>1, <1>2, <1>3, <1>4, <1>5

(* A crash frees the lock and executes no further.                         *)
LEMMA CrashStep == ASSUME Bounded, IInv, TypeOK', NEW r \in Requests, Crash(r) PROVE IInv'
<1> USE NoneAssumption, HashAssumption, TimeAssumption
<1> USE DEF IInv, TypeOK, Row, RowStates, Active, InBegin, InHandler, Storing, Executing, dbVars, Crash, Unlock, Goto, Leave, NoAnswer
<1>1. LockInv'
  BY DEF LockInv, ClockInv, ExecInv, OwnedInv, Claimable, Expired, Holds
<1>2. OwnedInv'
  BY DEF LockInv, OwnedInv, ExecInv, ClockInv, Holds, Claimable, Expired
<1>3. ExecInv'
  BY DEF LockInv, OwnedInv, ExecInv, ClockInv, Holds, Claimable, Expired
<1>4. EffectInv'
  BY DEF EffectInv, EffectOnce, LockInv, ExecInv, Claimable, Expired, Holds
<1>5. ClockInv'
  BY DEF ClockInv
<1> QED
  BY <1>1, <1>2, <1>3, <1>4, <1>5

(* Every step keeps the invariant.                                         *)
LEMMA InvStep ==
  ASSUME Bounded, "commitLost" \notin Faults, IInv, [Next]_vars
  PROVE  IInv'
<1>1. TypeOK'
  BY TypeStep DEF IInv
<1>2. ASSUME NEW r \in Requests, Begin(r) PROVE IInv'
  BY <1>1, <1>2, InsertWinsStep, InsertDuplicateStep, TxReadStep, TxOwnStep,
     TxInsertStep, CommitClaimStep, CommitFoundStep DEF Begin
<1>3. ASSUME NEW r \in Requests, Handle(r) PROVE IInv'
  BY <1>1, <1>3, EffectCommitStep, HandlerReturnsStep, CompleteStep, FailStep DEF Handle
<1>4. ASSUME NEW r \in Requests, Failure(r) PROVE IInv'
  BY <1>1, <1>4, TxTransientStep, CommitUnknownStep, InsertUnknownStep,
     BeginFailsStep, EffectUnknownStep, EffectRetriesStep, HandlerPanicsStep, StoreFailsStep, CrashStep DEF Failure
<1>5. ASSUME NEW r \in Requests, Refuse(r) \/ Arrive(r) PROVE IInv'
  BY <1>1, <1>5, RefuseStep, ArriveStep
<1>6. CASE Purge
  <2> USE <1>1, <1>6, TimeAssumption, NoneAssumption
  <2> USE DEF IInv, TypeOK, Purge, NoRow, Active, InBegin, InHandler, Storing, Executing
  <2>1. \A r \in Requests : pc[r] \in Executing \/ (pc[r] = "read" /\ owned[r]) => FALSE
    BY DEF ExecInv, OwnedInv, ClockInv, Holds, Expired
  <2>2. LockInv' /\ OwnedInv' /\ ExecInv'
    BY <2>1 DEF LockInv, OwnedInv, ExecInv, Claimable
  <2>3. EffectInv' /\ ClockInv'
    BY DEF EffectInv, EffectOnce, ClockInv
  <2> QED
    BY <2>2, <2>3
<1>7. CASE Tick
  <2> USE <1>1, <1>7, TimeAssumption
  <2> USE DEF IInv, TypeOK, Tick, dbVars, Active, InBegin, InHandler, Storing, Executing
  <2>1. LockInv' /\ OwnedInv' /\ ExecInv' /\ EffectInv'
    BY DEF LockInv, OwnedInv, ExecInv, EffectInv, EffectOnce, Claimable, Expired, Holds
  <2>2. ClockInv'
    BY DEF ClockInv
  <2> QED
    BY <2>1, <2>2
<1>8. CASE UNCHANGED vars
  BY <1>1, <1>8 DEF vars, IInv, LockInv, OwnedInv, ExecInv, EffectInv, EffectOnce, ClockInv,
                    Claimable, Expired, Holds
<1> QED
  BY <1>2, <1>3, <1>4, <1>5, <1>6, <1>7, <1>8 DEF Next, Finished

(* The strengthening is an invariant: a request that executes holds the    *)
(* row's claim, and the row lock keeps a claimable row claimable until the *)
(* transaction that saw it ends.                                           *)
THEOREM Invariance ==
  ASSUME Bounded, "commitLost" \notin Faults
  PROVE  Spec => []IInv
<1>1. IInv /\ [Next]_vars => IInv'
  BY InvStep
<1> QED
  BY <1>1, InvInit, PTL DEF Spec

(* However many requests share a key and wherever they crash, time out or  *)
(* retry, at most one of them is past Begin, provided no commit is lost    *)
(* and no request outlives its record.                                     *)
THEOREM MutualExclusion ==
  ASSUME Bounded, "commitLost" \notin Faults
  PROVE  Spec => []OneExecutor
<1>1. IInv => OneExecutor
  BY DEF IInv, ExecInv, Holds, OneExecutor
<1> QED
  BY <1>1, Invariance, PTL

(* Under the same assumptions, with handlers that use CompleteTx, the life *)
(* of a record sees the effect of one request, and sees it twice only when *)
(* the answer to a COMMIT was lost and InTx repeated its body.             *)
THEOREM AtMostOneEffect ==
  ASSUME Bounded, "commitLost" \notin Faults
  PROVE  Spec => []EffectOnce
<1>1. IInv => EffectOnce
  BY DEF IInv, EffectInv, EffectOnce
<1> QED
  BY <1>1, Invariance, PTL

-----------------------------------------------------------------------------
(* Stored answers, and the abstract key.                                   *)

(* The steps that write the row: a claim over a claimable row, or the      *)
(* holder of the row storing its outcome, or the cleanup job.              *)
Claims(r) == IInv' /\ TakeClaim(r) /\ Claimable(r) /\ begunAt[r] <= now
             /\ now <= begunAt[r] + TTL /\ UNCHANGED <<now, begunAt>>
Stores(r) == /\ Holds(r) /\ row.state \in {"IN_PROGRESS", "COMPLETED"} /\ now <= begunAt[r] + TTL
             /\ pc[r] \in Executing
             /\ row' = FailRow \/ \E body \in {r, StoredBody(r)} : row' = CompleteRow(body)
             /\ UNCHANGED <<now, claimant>>
Lapses == Purge \/ Tick
CommitsEffect(r) == \E heard \in BOOLEAN : CommitEffect(r, heard)

(* What a step may do to the row, whoever takes it.                        *)
LEMMA RowSteps ==
  ASSUME Bounded, "commitLost" \notin Faults, IInv, [Next]_vars
  PROVE  \/ \E r \in Requests : Claims(r) \/ Stores(r)
         \/ Lapses
         \/ UNCHANGED <<row, now, claimant>>
<1>1. IInv'
  BY InvStep
<1> USE <1>1
<1>2. ASSUME NEW r \in Requests, InsertWins(r) \/ InsertUnknown(r) \/ CommitClaim(r) \/ CommitUnknown(r)
      PROVE  Claims(r)
  <2>1. TakeClaim(r) /\ UNCHANGED <<now, begunAt>> /\ pc[r] \in Active
    BY <1>2 DEF InsertWins, InsertUnknown, CommitClaim, CommitUnknown, RetryTx, Active, InBegin
  <2>2. Claimable(r)
    BY <1>2 DEF InsertWins, InsertUnknown, CommitClaim, CommitUnknown, Claimable, IInv, LockInv
  <2> QED
    BY <2>1, <2>2 DEF Claims, IInv, ClockInv
<1>3. ASSUME NEW r \in Requests, Complete(r) \/ Fail(r) \/ (CommitsEffect(r) /\ AtomicHandlers)
      PROVE  Stores(r)
  <2>1. pc[r] \in Executing
    BY <1>3 DEF Complete, Fail, CommitsEffect, CommitEffect, Executing, InHandler, Storing
  <2>2. row' = FailRow \/ \E body \in {r, StoredBody(r)} : row' = CompleteRow(body)
    BY <1>3 DEF Complete, Fail, CommitsEffect, CommitEffect
  <2>3. UNCHANGED <<now, claimant>>
    BY <1>3 DEF Complete, Fail, CommitsEffect, CommitEffect
  <2> QED
    BY <2>1, <2>2, <2>3 DEF Stores, IInv, ExecInv, ClockInv, Active
<1>4. ASSUME NEW r \in Requests, CommitsEffect(r), ~AtomicHandlers
      PROVE  UNCHANGED <<row, now, claimant>>
  BY <1>4, Zenon DEF CommitsEffect, CommitEffect
<1>5. \A r \in Requests : EffectCommit(r) \/ EffectUnknown(r) => CommitsEffect(r)
  BY DEF EffectCommit, EffectUnknown, CommitsEffect
<1>6. ASSUME NEW r \in Requests,
             \/ Refuse(r) \/ Arrive(r) \/ InsertDuplicate(r) \/ TxRead(r) \/ TxOwn(r)
             \/ TxInsert(r) \/ CommitFound(r) \/ HandlerReturns(r) \/ TxTransient(r)
             \/ BeginFails(r) \/ EffectRetries(r) \/ HandlerPanics(r) \/ StoreFails(r) \/ Crash(r)
      PROVE  UNCHANGED <<row, now, claimant>>
  BY <1>6 DEF Refuse, Arrive, InsertDuplicate, TxRead, TxOwn, TxInsert, CommitFound,
       HandlerReturns, TxTransient, RetryTx, BeginFails, EffectRetries, HandlerPanics, StoreFails, Crash, dbVars
<1>7. CASE UNCHANGED vars
  BY <1>7 DEF vars
<1> QED
  BY <1>2, <1>3, <1>4, <1>5, <1>6, <1>7
  DEF Next, Begin, Handle, Failure, Finished, Lapses

(* A stored answer that has not expired survives every step: a late Fail,  *)
(* another body under the same key, a takeover decided on a stale clock.   *)
(* Only the request that holds the record writes to it once more, while it *)
(* runs, and only its own response or nothing in its place.                *)
THEOREM StoredAnswerIsFinal ==
  ASSUME Bounded, "commitLost" \notin Faults
  PROVE  Spec => AnswerIsFinal
<1>1. ASSUME IInv, [Next]_vars, row.state = "COMPLETED", ~Expired(now)
      PROVE  /\ row'.state = "COMPLETED"
             /\ row'.hash = row.hash /\ row'.expires = row.expires
             /\ \/ row'.body = row.body
                \/ \E r \in Requests : /\ r = claimant /\ pc[r] \in Executing
                                       /\ row'.body \in {r, StoredBody(r)}
  <2> USE DEF IInv, TypeOK, Row
  <2>1. ASSUME NEW r \in Requests, Claims(r) PROVE FALSE
    BY <1>1, <2>1 DEF Claims, Claimable, Expired
  <2>2. ASSUME NEW r \in Requests, Stores(r)
        PROVE  /\ row'.state = "COMPLETED" /\ row'.hash = row.hash /\ row'.expires = row.expires
               /\ r = claimant /\ pc[r] \in Executing
               /\ row'.body = row.body \/ row'.body \in {r, StoredBody(r)}
    <3>1. CASE row' = FailRow
      BY <1>1, <2>2, <3>1 DEF Stores, Holds, FailRow
    <3>2. ASSUME NEW body \in {r, StoredBody(r)}, row' = CompleteRow(body)
          PROVE  /\ row'.state = "COMPLETED" /\ row'.hash = row.hash /\ row'.expires = row.expires
                 /\ row'.body = body
      BY <1>1, <3>2 DEF CompleteRow
    <3> QED
      BY <2>2, <3>1, <3>2 DEF Stores, Holds
  <2>3. Lapses => row' = row
    BY <1>1 DEF Lapses, Purge, Tick, dbVars
  <2> QED
    BY <1>1, <2>1, <2>2, <2>3, RowSteps
<1>2. IInv /\ [Next]_vars
        => [row.state = "COMPLETED" /\ ~Expired(now) =>
              /\ row'.state = "COMPLETED"
              /\ row'.hash = row.hash /\ row'.expires = row.expires
              /\ \/ row'.body = row.body
                 \/ \E r \in Requests : /\ r = claimant /\ pc[r] \in Executing
                                        /\ row'.body \in {r, StoredBody(r)}]_vars
  BY <1>1
<1> QED
  BY <1>2, Invariance, PTL DEF Spec, AnswerIsFinal

(* `owned', which InTx's retries never reset, misleads Begin only after a  *)
(* claim whose COMMIT the server rolled back: without such a COMMIT a      *)
(* request enters the handler on its own durable claim, retries, takeovers *)
(* and lost answers notwithstanding.                                       *)
THEOREM ClaimIsOwn ==
  ASSUME Bounded, "commitLost" \notin Faults
  PROVE  Spec => RunsOnOwnClaim
<1>1. ASSUME IInv, [Next]_vars, NEW r \in Requests, pc[r] \in InBegin, pc'[r] = "run"
      PROVE  row'.state = "IN_PROGRESS" /\ claimant' = r
  <2> USE DEF IInv, TypeOK, InBegin, Goto, Leave, Reply
  <2>1. \A q \in Requests : InsertWins(q) \/ CommitClaim(q) => TakeClaim(q) /\ Goto(q, "run")
    BY DEF InsertWins, CommitClaim, Leave
  <2>2. ASSUME NEW q \in Requests, TakeClaim(q), Goto(q, "run")
        PROVE  row'.state = "IN_PROGRESS" /\ claimant' = r
    BY <1>1, <2>2 DEF TakeClaim, ClaimedRow
  <2>3. ASSUME NEW q \in Requests, CommitFound(q) PROVE FALSE
    BY <1>1, <2>3 DEF CommitFound, OwnedInv
  <2>4. ASSUME NEW q \in Requests,
               \/ Refuse(q) \/ Arrive(q) \/ InsertDuplicate(q) \/ TxRead(q) \/ TxOwn(q) \/ TxInsert(q)
        PROVE  FALSE
    BY <1>1, <2>4 DEF Refuse, Arrive, InsertDuplicate, TxRead, TxOwn, TxInsert, Verdict
  <2>5. ASSUME NEW q \in Requests, Handle(q) PROVE FALSE
    BY <1>1, <2>5 DEF Handle, EffectCommit, CommitEffect, HandlerReturns, Complete, Fail, Storing, InHandler
  <2>6. ASSUME NEW q \in Requests, TxTransient(q) \/ CommitUnknown(q) PROVE FALSE
    BY <1>1, <2>6 DEF TxTransient, CommitUnknown, RetryTx
  <2>7. ASSUME NEW q \in Requests,
               \/ InsertUnknown(q) \/ BeginFails(q) \/ EffectUnknown(q) \/ EffectRetries(q)
               \/ HandlerPanics(q) \/ StoreFails(q) \/ Crash(q)
        PROVE  FALSE
    BY <1>1, <2>7 DEF InsertUnknown, BeginFails, EffectUnknown, EffectRetries, CommitEffect, RetryEffect, HandlerPanics, StoreFails, Crash
  <2>8. Purge \/ Tick \/ UNCHANGED vars => FALSE
    BY <1>1 DEF Purge, Tick, vars
  <2> QED
    BY <1>1, <2>1, <2>2, <2>3, <2>4, <2>5, <2>6, <2>7, <2>8
    DEF Next, Begin, Failure, Finished
<1>2. IInv /\ [Next]_vars
        => [\A r \in Requests : pc[r] \in InBegin /\ pc'[r] = "run"
              => row'.state = "IN_PROGRESS" /\ claimant' = r]_vars
  BY <1>1
<1> QED
  BY <1>2, Invariance, PTL DEF Spec, RunsOnOwnClaim

(* Every step maps to a step of the abstract key, or to a stutter.         *)
LEMMA KeyStep ==
  ASSUME Bounded, "commitLost" \notin Faults, IInv, [Next]_vars
  PROVE  [Key!KeyNext]_Key!keyVars
<1> USE NoneAssumption, TimeAssumption
<1> USE DEF IInv, TypeOK, Row, RowStates
<1>1. ASSUME NEW r \in Requests, Claims(r) PROVE Key!Acquire(r)
  <2>1. Phase = "free"
    BY <1>1 DEF Claims, Claimable, Phase, Expired
  <2>2. Phase' = "held" /\ claimant' = r
    BY <1>1 DEF Claims, TakeClaim, ClaimedRow, Phase, Expired
  <2> QED
    BY <2>1, <2>2 DEF Key!Acquire, Holder
<1>2. ASSUME NEW r \in Requests, Stores(r)
      PROVE  Key!Finish(r) \/ Key!Release(r) \/ UNCHANGED <<Phase, Holder>>
  <2>1. ~Expired(now) /\ Holder = r /\ Phase = IF row.state = "IN_PROGRESS" THEN "held" ELSE "done"
    BY <1>2 DEF Stores, Holds, Expired, Holder, Phase
  <2>2. CASE row' = FailRow
    BY <1>2, <2>1, <2>2 DEF Stores, FailRow, Holder, Phase, Expired, Key!Release
  <2>3. ASSUME NEW body, row' = CompleteRow(body) PROVE Key!Finish(r) \/ UNCHANGED <<Phase, Holder>>
    BY <1>2, <2>1, <2>3 DEF Stores, CompleteRow, Holder, Phase, Expired, Key!Finish
  <2> QED
    BY <1>2, <2>2, <2>3 DEF Stores
<1>3. CASE Lapses
  <2>1. CASE Purge
    BY <2>1 DEF Purge, NoRow, Phase, Holder, Expired, Key!keyVars
  <2>2. CASE Tick
    <3>1. Key!Lapse \/ UNCHANGED <<Phase, Holder>>
      BY <2>2 DEF Tick, dbVars, Phase, Holder, Expired, Key!Lapse
    <3> QED
      BY <3>1 DEF Key!KeyNext, Key!keyVars
  <2> QED
    BY <1>3, <2>1, <2>2 DEF Lapses
<1>4. CASE UNCHANGED <<row, now, claimant>>
  BY <1>4 DEF Phase, Holder, Expired, Key!keyVars
<1> QED
  BY <1>1, <1>2, <1>3, <1>4, RowSteps DEF Key!KeyNext, Key!keyVars

(* Begin, Complete, Fail and Purge implement the abstract key: one holder  *)
(* at a time, and nobody but the holder finishes or releases its claim,    *)
(* although neither UPDATE names an owner.                                 *)
THEOREM KeyRefinement ==
  ASSUME Bounded, "commitLost" \notin Faults
  PROVE  Spec => ImplementsKey
<1>1. Init => Key!KeyInit
  BY DEF Init, NoRow, Key!KeyInit, Phase, Holder
<1>2. IInv /\ [Next]_vars => [Key!KeyNext]_Key!keyVars
  BY KeyStep
<1> QED
  BY <1>1, <1>2, Invariance, PTL DEF Spec, ImplementsKey, Key!KeySpec

-----------------------------------------------------------------------------
(* Recursion over a well-founded relation R on S.  H[x, f] is the value at *)
(* x of a function whose values at the predecessors of x are those of f.   *)

Local(H, R, S, V) ==
  \A x \in S : \A f, g \in [S -> V] :
    (\A y \in S : <<y, x>> \in R => f[y] = g[y]) => H[<<x, f>>] = H[<<x, g>>]

(* f obeys the equation at x and at all that x depends on.                 *)
Obeys(f, H, R, S, x) ==
  \A y \in S : y = x \/ <<y, x>> \in TransitiveClosureOn(R, S) => f[y] = H[<<y, f>>]

(* The equation has one solution at most.                                  *)
LEMMA OneSolution ==
  ASSUME NEW R, NEW S, IsWellFoundedOn(R, S), NEW V, NEW H, Local(H, R, S, V),
         NEW f \in [S -> V], NEW g \in [S -> V], NEW x \in S,
         Obeys(f, H, R, S, x), Obeys(g, H, R, S, x)
  PROVE  f[x] = g[x]
<1> DEFINE TC == TransitiveClosureOn(R, S)
           T == {y \in S : (y = x \/ <<y, x>> \in TC) /\ f[y] # g[y]}
<1> SUFFICES ASSUME T # {} PROVE FALSE
  OBVIOUS
<1>1. PICK y \in T : \A z \in T : ~(<<z, y>> \in R)
  BY WFMin
<1>2. \A z \in S : <<z, y>> \in R => <<z, x>> \in TC
  <2> SUFFICES ASSUME NEW z \in S, <<z, y>> \in R PROVE <<z, x>> \in TC
    OBVIOUS
  <2>1. <<z, y>> \in TC
    BY TransitiveClosureThm, Zenon
  <2> QED
    BY <2>1, <1>1, RTCTC
<1>3. \A z \in S : <<z, y>> \in R => f[z] = g[z]
  BY <1>1, <1>2
<1>4. H[<<y, f>>] = H[<<y, g>>]
  BY <1>3 DEF Local
<1> QED
  BY <1>1, <1>4 DEF Obeys

(* What is a solution at x is one at each y that x depends on.             *)
LEMMA ObeysBelow ==
  ASSUME NEW R, NEW S, NEW H, NEW f, NEW x \in S, NEW y \in S,
         <<y, x>> \in TransitiveClosureOn(R, S), Obeys(f, H, R, S, x)
  PROVE  Obeys(f, H, R, S, y)
<1> SUFFICES ASSUME NEW z \in S, z = y \/ <<z, y>> \in TransitiveClosureOn(R, S)
             PROVE  f[z] = H[<<z, f>>]
  BY DEF Obeys
<1>1. <<z, x>> \in TransitiveClosureOn(R, S)
  BY TCTCTC
<1> QED
  BY <1>1 DEF Obeys

(* Solutions at the members of a set D that is closed under R are one.     *)
LEMMA Glue ==
  ASSUME NEW R, NEW S, IsWellFoundedOn(R, S), NEW V, NEW H, Local(H, R, S, V),
         NEW D \in SUBSET S, NEW G \in [D -> [S -> V]], NEW v \in V,
         \A x \in D : Obeys(G[x], H, R, S, x),
         \A x \in D, y \in S : <<y, x>> \in R => y \in D,
         NEW f \in [S -> V], \A x \in D : f[x] = G[x][x]
  PROVE  \A x \in D : f[x] = H[<<x, f>>]
<1> SUFFICES ASSUME NEW x \in D PROVE f[x] = H[<<x, f>>]
  OBVIOUS
<1>1. \A y \in S : <<y, x>> \in R => f[y] = G[x][y]
  <2> SUFFICES ASSUME NEW y \in S, <<y, x>> \in R PROVE f[y] = G[x][y]
    OBVIOUS
  <2>1. <<y, x>> \in TransitiveClosureOn(R, S) /\ y \in D
    BY TransitiveClosureThm, Zenon
  <2>2. Obeys(G[x], H, R, S, y) /\ Obeys(G[y], H, R, S, y)
    BY <2>1, ObeysBelow
  <2>3. G[y][y] = G[x][y]
    BY <2>1, <2>2, OneSolution
  <2> QED
    BY <2>1, <2>3
<1>2. H[<<x, f>>] = H[<<x, G[x]>>]
  BY <1>1 DEF Local
<1> QED
  BY <1>2 DEF Obeys

(* A recursion that only looks at predecessors has a solution.             *)
LEMMA Recursion ==
  ASSUME NEW R, NEW S, IsWellFoundedOn(R, S), NEW V, NEW H, Local(H, R, S, V), NEW v \in V,
         \A x \in S : \A f \in [S -> V] : H[<<x, f>>] \in V
  PROVE  \E f \in [S -> V] : \A x \in S : f[x] = H[<<x, f>>]
<1> DEFINE TC == TransitiveClosureOn(R, S)
           Solved(x) == \E f \in [S -> V] : Obeys(f, H, R, S, x)
           Solution == [y \in S |-> CHOOSE f \in [S -> V] : Obeys(f, H, R, S, y)]
<1>1. \A y \in S : Solved(y) => Solution[y] \in [S -> V] /\ Obeys(Solution[y], H, R, S, y)
  BY Zenon
<1>2. \A y \in S : Solved(y)
  <2> SUFFICES ASSUME {y \in S : ~Solved(y)} # {} PROVE FALSE
    OBVIOUS
  <2>1. IsWellFoundedOn(TC, S)
    BY TransitiveClosureWF
  <2>2. PICK x \in S : ~Solved(x) /\ \A y \in S : <<y, x>> \in TC => Solved(y)
    <3> HIDE DEF Solved, TC
    <3> DEFINE Bad == {y \in S : ~Solved(y)}
    <3>1. Bad \subseteq S /\ Bad # {}
      OBVIOUS
    <3> HIDE DEF Bad
    <3>2. \E x \in Bad : \A y \in Bad : ~(<<y, x>> \in TC)
      BY <2>1, <3>1, WFMin
    <3> QED
      BY <3>2 DEF Bad
  <2> DEFINE D == {y \in S : <<y, x>> \in TC}
             f == [y \in S |-> IF y \in D THEN Solution[y][y] ELSE v]
             g == [f EXCEPT ![x] = H[<<x, f>>]]
  <2>3. \A y \in D, z \in S : <<z, y>> \in R => z \in D
    BY RTCTC
  <2>4. \A y \in S : <<y, x>> \in R => y \in D
    BY TransitiveClosureThm, Zenon
  <2>5. f \in [S -> V]
    BY <1>1, <2>2
  <2>6. \A y \in D : f[y] = H[<<y, f>>]
    <3> DEFINE G == [y \in D |-> Solution[y]]
    <3>1. G \in [D -> [S -> V]] /\ \A y \in D : Obeys(G[y], H, R, S, y)
      BY <1>1, <2>2
    <3>2. D \in SUBSET S /\ \A y \in D : f[y] = G[y][y]
      OBVIOUS
    <3> HIDE DEF D, f, G
    <3> QED
      BY <2>3, <2>5, <3>1, <3>2, Glue
  <2>7. x \notin D
    BY <2>1, WellFoundedIsIrreflexive
  <2>8. g \in [S -> V] /\ g[x] = H[<<x, f>>] /\ \A y \in D : g[y] = f[y]
    BY <2>5, <2>7
  <2> HIDE DEF D, f, g
  <2>9. \A y \in D : y \in S /\ (<<y, x>> \in TC)
    BY DEF D
  <2>10. H[<<x, g>>] = H[<<x, f>>]
    BY <2>4, <2>5, <2>8 DEF Local
  <2>11. \A y \in D : H[<<y, g>>] = H[<<y, f>>]
    BY <2>3, <2>5, <2>8, <2>9 DEF Local
  <2>12. \A y \in S : <<y, x>> \in TC => y \in D
    BY DEF D
  <2>13. Obeys(g, H, R, S, x)
    BY <2>6, <2>8, <2>10, <2>11, <2>12 DEF Obeys
  <2> QED
    BY <2>2, <2>8, <2>13
<1> DEFINE f == [y \in S |-> Solution[y][y]]
<1>3. /\ Solution \in [S -> [S -> V]] /\ \A y \in S : Obeys(Solution[y], H, R, S, y)
      /\ f \in [S -> V] /\ \A y \in S : f[y] = Solution[y][y]
  BY <1>1, <1>2
<1> HIDE DEF f, Solution
<1>4. \A x \in S : f[x] = H[<<x, f>>]
  BY <1>3, Glue
<1> QED
  BY <1>3, <1>4

-----------------------------------------------------------------------------
(* Numbers.                                                                *)

(* Every set of naturals that is not empty has a least element.            *)
LEMMA LeastNumber ==
  ASSUME NEW S \in SUBSET Nat, S # {}
  PROVE  \E n \in S : \A m \in S : n <= m
<1>1. PICK n \in S : \A m \in S : ~(<<m, n>> \in OpToRel(<, Nat))
  BY NatLessThanWellFounded, WFMin
<1>2. \A m \in S : ~(m < n)
  BY <1>1 DEF OpToRel
<1> QED
  BY <1>2

(* Every set of indices that is not empty has a greatest element.          *)
LEMMA GreatestIndex ==
  ASSUME NEW n \in Nat, NEW S \in SUBSET (1 .. n), S # {}
  PROVE  \E i \in S : \A j \in S : j <= i
<1> DEFINE T == {n - i : i \in S}
<1>0. \A i \in S : n - i \in Nat
  OBVIOUS
<1>1. T \in SUBSET Nat /\ T # {}
  BY <1>0, Zenon
<1>2. PICK m \in T : \A k \in T : m <= k
  BY <1>1, LeastNumber
<1>3. PICK i \in S : m = n - i
  OBVIOUS
<1>4. \A j \in S : n - i <= n - j
  BY <1>2, <1>3
<1> QED
  BY <1>4

(* Predecessors among the indices of a sequence.                           *)
Before(n) == {p \in (1 .. n) \X (1 .. n) : p[1] = p[2] - 1}

(* The order of the indices of a sequence is well-founded.                 *)
LEMMA BeforeIsWellFounded == ASSUME NEW n \in Nat PROVE IsWellFoundedOn(Before(n), 1 .. n)
<1>1. 1 .. n \in SUBSET Nat
  OBVIOUS
<1>2. IsWellFoundedOn(OpToRel(<, Nat), 1 .. n)
  BY <1>1, NatLessThanWellFounded, IsWellFoundedOnSubset
<1>3. Before(n) \cap ((1 .. n) \X (1 .. n)) \subseteq OpToRel(<, Nat)
  BY DEF Before, OpToRel
<1> QED
  BY <1>2, <1>3, IsWellFoundedOnSubrelation

-----------------------------------------------------------------------------
(* Sequences.                                                              *)

(* p[i] is the concatenation of the first i sequences of ss.               *)
RunsOf(p, ss, T) == /\ p \in [0 .. Len(ss) -> Seq(T)]
                      /\ p[0] = <<>>
                      /\ \A i \in 1 .. Len(ss) : p[i] = p[i - 1] \o ss[i]

(* FlattenSeq puts the sequences one after the other.                      *)
LEMMA FlattenIsRun ==
  ASSUME NEW T, NEW ss \in Seq(Seq(T))
  PROVE  \E p : RunsOf(p, ss, T) /\ FlattenSeq(ss) = p[Len(ss)]
<1> DEFINE n == Len(ss)
           S == 1 .. n
<1>1. n \in Nat /\ \A i \in S : ss[i] \in Seq(T)
  BY LenProperties, ElementOfSeq
<1>2. CASE n = 0
  <2>1. ss = <<>> /\ FlattenSeq(ss) = <<>>
    BY <1>2, EmptySeq DEF FlattenSeq
  <2>2. RunsOf([i \in 0 .. 0 |-> <<>>], ss, T)
    BY <1>2, EmptySeq DEF RunsOf
  <2> QED
    BY <1>2, <2>1, <2>2
<1>3. CASE n # 0
  <2> DEFINE Step(f, i) == IF i = 1 THEN ss[i] ELSE f[i - 1] \o ss[i]
             H == [x \in S \X [S -> Seq(T)] |-> Step(x[2], x[1])]
  <2>1. \A i \in S : \A f \in [S -> Seq(T)] : H[<<i, f>>] = Step(f, i) /\ Step(f, i) \in Seq(T)
    <3> SUFFICES ASSUME NEW i \in S, NEW f \in [S -> Seq(T)] PROVE Step(f, i) \in Seq(T)
      OBVIOUS
    <3>1. CASE i = 1
      BY <1>1, <3>1
    <3>2. CASE i # 1
      <4>1. i - 1 \in S
        BY <1>1, <3>2
      <4>2. f[i - 1] \in Seq(T) /\ ss[i] \in Seq(T)
        BY <1>1, <4>1
      <4> QED
        BY <3>2, <4>2, ConcatProperties
    <3> QED
      BY <3>1, <3>2
  <2>2. Local(H, Before(n), S, Seq(T))
    <3> SUFFICES ASSUME NEW i \in S, NEW f \in [S -> Seq(T)], NEW g \in [S -> Seq(T)],
                        \A j \in S : <<j, i>> \in Before(n) => f[j] = g[j]
                 PROVE  H[<<i, f>>] = H[<<i, g>>]
      BY DEF Local
    <3>1. i # 1 => i - 1 \in S /\ <<i - 1, i>> \in Before(n)
      BY <1>1 DEF Before
    <3>2. Step(f, i) = Step(g, i)
      BY <3>1
    <3> QED
      BY <2>1, <3>2
  <2>3. <<>> \in Seq(T) /\ IsWellFoundedOn(Before(n), S)
    BY <1>1, EmptySeq, BeforeIsWellFounded
  <2>4. PICK f \in [S -> Seq(T)] : \A i \in S : f[i] = H[<<i, f>>]
    <3> DEFINE W == Seq(T)
               R == Before(n)
    <3>1. \A i \in S : \A f \in [S -> W] : H[<<i, f>>] \in W
      BY <2>1
    <3>2. PICK v : v \in W
      BY <2>3
    <3>3. Local(H, R, S, W) /\ IsWellFoundedOn(R, S)
      BY <2>2, <2>3
    <3> HIDE DEF H, S, W, R
    <3>4. \E f \in [S -> W] : \A i \in S : f[i] = H[<<i, f>>]
      BY <3>1, <3>2, <3>3, Recursion
    <3> QED
      BY <3>4 DEF W
  <2>5. f = [i \in 1 .. Len(ss) |-> IF i = 1 THEN ss[i] ELSE f[i - 1] \o ss[i]]
    BY <2>1, <2>4
  <2>6. PICK g : /\ g = [i \in 1 .. Len(ss) |-> IF i = 1 THEN ss[i] ELSE g[i - 1] \o ss[i]]
                 /\ FlattenSeq(ss) = g[Len(ss)]
    BY <1>3, <2>5, Zenon DEF FlattenSeq
  <2>7. \A i \in S : g[i] = IF i = 1 THEN ss[i] ELSE g[i - 1] \o ss[i]
    BY <2>6, Zenon
  <2>8. \A i \in S : g[i] \in Seq(T)
    <3> SUFFICES ASSUME {i \in S : g[i] \notin Seq(T)} # {} PROVE FALSE
      OBVIOUS
    <3> DEFINE Bad == {i \in S : g[i] \notin Seq(T)}
    <3>1. PICK i \in Bad : \A j \in Bad : i <= j
      <4>1. Bad \in SUBSET Nat
        BY <1>1
      <4> QED
        BY <4>1, LeastNumber
    <3>2. i # 1 => i - 1 \in S /\ g[i - 1] \in Seq(T)
      BY <1>1, <3>1
    <3>3. CASE i = 1
      BY <1>1, <2>7, <3>1, <3>3
    <3>4. CASE i # 1
      <4>1. g[i - 1] \o ss[i] \in Seq(T)
        BY <1>1, <3>1, <3>2, <3>4, ConcatProperties
      <4> QED
        BY <2>7, <3>1, <3>4, <4>1
    <3> QED
      BY <3>3, <3>4
  <2> DEFINE p == [i \in 0 .. n |-> IF i = 0 THEN <<>> ELSE g[i]]
  <2>9. p \in [0 .. n -> Seq(T)] /\ p[0] = <<>> /\ \A i \in S : p[i] = g[i]
    BY <1>1, <2>8, EmptySeq
  <2>10. \A i \in 1 .. n : p[i] = p[i - 1] \o ss[i]
    <3> SUFFICES ASSUME NEW i \in 1 .. n PROVE p[i] = p[i - 1] \o ss[i]
      OBVIOUS
    <3>1. CASE i = 1
      BY <1>1, <2>7, <2>9, <3>1, ConcatEmptySeq
    <3>2. CASE i # 1
      <4>1. i - 1 \in S
        BY <1>1, <3>2
      <4> QED
        BY <2>7, <2>9, <3>2, <4>1
    <3> QED
      BY <3>1, <3>2
  <2>11. p[Len(ss)] = FlattenSeq(ss)
    BY <1>1, <1>3, <2>6, <2>9
  <2> QED
    BY <2>9, <2>10, <2>11 DEF RunsOf
<1> QED
  BY <1>2, <1>3

(* Concatenation, as a fact about all sequences of a set.                  *)
Associates(T) == \A s, t, u \in Seq(T) : (s \o t) \o u = s \o (t \o u)

LEMMA Associative == \A T : Associates(T)
<1> SUFFICES ASSUME NEW T, NEW s \in Seq(T), NEW t \in Seq(T), NEW u \in Seq(T)
             PROVE  (s \o t) \o u = s \o (t \o u)
  BY DEF Associates
<1> QED
  BY ConcatAssociative

(* What is put between two marks and continued.                            *)
Continues(T, x) == \A a, b, c \in Seq(T) : ((a \o b) \o c) \o x = a \o (b \o (c \o x))

LEMMA Continuing == ASSUME NEW T, NEW x \in Seq(T) PROVE Continues(T, x)
<1> DEFINE Cat(s, t) == s \o t
<1>1. \A s, t, u \in Seq(T) : Cat(Cat(s, t), u) = Cat(s, Cat(t, u))
  BY ConcatAssociative
<1>2. \A s, t \in Seq(T) : Cat(s, t) \in Seq(T)
  BY ConcatProperties
<1> HIDE DEF Cat
<1>3. \A a, b, c \in Seq(T) : Cat(Cat(Cat(a, b), c), x) = Cat(a, Cat(b, Cat(c, x)))
  <2> SUFFICES ASSUME NEW a \in Seq(T), NEW b \in Seq(T), NEW c \in Seq(T)
               PROVE  Cat(Cat(Cat(a, b), c), x) = Cat(a, Cat(b, Cat(c, x)))
    OBVIOUS
  <2>1. Cat(Cat(Cat(a, b), c), x) = Cat(Cat(a, b), Cat(c, x))
    BY <1>1, <1>2
  <2>2. Cat(Cat(a, b), Cat(c, x)) = Cat(a, Cat(b, Cat(c, x)))
    BY <1>1, <1>2
  <2> QED
    BY <2>1, <2>2, Zenon
<1> QED
  BY <1>3, Zenon DEF Cat, Continues

(* What follows equal beginnings of equal sequences is equal.              *)
LEMMA CancelLeft ==
  ASSUME NEW T, NEW s \in Seq(T), NEW t \in Seq(T), NEW u \in Seq(T), s \o t = s \o u
  PROVE  t = u
BY ConcatSimplifications, Zenon

(* What is flattened is made of the same elements.                         *)
LEMMA FlattenType ==
  ASSUME NEW T, NEW ss \in Seq(Seq(T))
  PROVE  FlattenSeq(ss) \in Seq(T)
<1>1. PICK p : RunsOf(p, ss, T) /\ FlattenSeq(ss) = p[Len(ss)]
  BY FlattenIsRun
<1>2. Len(ss) \in 0 .. Len(ss)
  BY LenProperties
<1> QED
  BY <1>1, <1>2 DEF RunsOf

(* r starts with the next sequence after the first i, if there is one.     *)
StartsWithNext(r, ss, i, T) == i # Len(ss) => \E u \in Seq(T) : r = ss[i + 1] \o u

(* What follows the first i sequences starts with the next one.            *)
LEMMA Remainder ==
  ASSUME NEW T, NEW ss \in Seq(Seq(T)), NEW p, RunsOf(p, ss, T), NEW z \in Seq(T),
         NEW i \in 0 .. Len(ss)
  PROVE  \E r \in Seq(T) : /\ p[Len(ss)] \o z = p[i] \o r
                           /\ i = Len(ss) => r = z
                           /\ StartsWithNext(r, ss, i, T)
<1> DEFINE n == Len(ss)
           Follows(j, r) == /\ p[n] \o z = p[j] \o r
                            /\ j = n => r = z
                            /\ StartsWithNext(r, ss, j, T)
           Good(j) == \E r \in Seq(T) : Follows(j, r)
           Bad == {k \in 0 .. n : ~Good(n - k)}
<1>1. n \in Nat
  BY LenProperties
<1>2. Good(n)
  BY DEF StartsWithNext
<1>3. ASSUME NEW j \in 1 .. n, Good(j) PROVE Good(j - 1)
  <2>1. PICK r \in Seq(T) : p[n] \o z = p[j] \o r
    BY <1>3
  <2>2. /\ p[j - 1] \in Seq(T) /\ ss[j] \in Seq(T) /\ p[j] = p[j - 1] \o ss[j]
        /\ j - 1 # n /\ (j - 1) + 1 = j
    <3>1. ss[j] \in Seq(T)
      BY ElementOfSeq
    <3>2. j - 1 \in 0 .. n /\ j - 1 # n /\ (j - 1) + 1 = j
      BY <1>1
    <3> QED
      BY <3>1, <3>2 DEF RunsOf
  <2>3. ss[j] \o r \in Seq(T) /\ p[n] \o z = p[j - 1] \o (ss[j] \o r)
    <3>1. ss[j] \o r \in Seq(T)
      BY <2>2, ConcatProperties
    <3>2. (p[j - 1] \o ss[j]) \o r = p[j - 1] \o (ss[j] \o r)
      <4>1. p[j - 1] \in Seq(T) /\ ss[j] \in Seq(T)
        BY <2>2
      <4>2. Associates(T)
        BY Associative, Zenon
      <4> QED
        BY <4>1, <4>2, Zenon DEF Associates
    <3> QED
      BY <2>1, <2>2, <3>1, <3>2
  <2>4. StartsWithNext(ss[j] \o r, ss, j - 1, T)
    BY <2>2 DEF StartsWithNext
  <2> QED
    BY <2>2, <2>3, <2>4
<1> HIDE DEF Good
<1>4. Bad = {}
  <2> SUFFICES ASSUME Bad # {} PROVE FALSE
    OBVIOUS
  <2>1. Bad \in SUBSET Nat
    BY <1>1
  <2>2. PICK k \in Bad : \A m \in Bad : k <= m
    BY <2>1, LeastNumber
  <2>3. k # 0
    BY <1>1, <1>2, <2>2
  <2>4. k - 1 \in 0 .. n /\ ~(k <= k - 1)
    BY <1>1, <2>3
  <2>5. Good(n - (k - 1))
    BY <2>2, <2>4
  <2>6. n - (k - 1) \in 1 .. n /\ (n - (k - 1)) - 1 = n - k
    BY <1>1, <2>3
  <2> QED
    BY <1>3, <2>2, <2>5, <2>6
<1>5. n - i \in 0 .. n /\ n - (n - i) = i
  BY <1>1
<1>6. Good(i)
  BY <1>4, <1>5
<1> QED
  BY <1>6 DEF Good

(* A sequence s starts with something, but not with c.                     *)
StartsOther(s, c) == s # <<>> /\ s[1] # c

(* A sequence that starts otherwise does not start with the mark, also     *)
(* when something follows.                                                 *)
LEMMA NotTheMark ==
  ASSUME NEW T, NEW s \in Seq(T), NEW c, StartsOther(s, c), NEW u \in Seq(T)
  PROVE  StartsOther(s \o u, c)
<1>1. Len(s) \in Nat \ {0} /\ Len(u) \in Nat
  BY EmptySeq, LenProperties DEF StartsOther
<1>2. (s \o u)[1] = s[1] /\ Len(s \o u) # 0
  BY <1>1, ConcatProperties
<1> QED
  BY <1>2, EmptySeq DEF StartsOther

(* Lists of sequences none of which is the start of another, or starts     *)
(* with c.                                                                 *)
Distinct(ss, tt, c, T) ==
  /\ ss \in Seq(Seq(T)) /\ \A i \in 1 .. Len(ss) : StartsOther(ss[i], c)
  /\ tt \in Seq(Seq(T)) /\ \A i \in 1 .. Len(tt) : StartsOther(tt[i], c)
  /\ \A i \in 1 .. Len(ss) : i <= Len(tt) =>
       \A u, v \in Seq(T) : ss[i] \o u = tt[i] \o v => ss[i] = tt[i]

(* They can be told apart when they are run together and c follows.        *)
LEMMA Decodable ==
  ASSUME NEW T, NEW c, NEW ss, NEW tt, Distinct(ss, tt, c, T),
         NEW cx \in Seq(T), ~StartsOther(cx, c), NEW cy \in Seq(T), ~StartsOther(cy, c),
         FlattenSeq(ss) \o cx = FlattenSeq(tt) \o cy
  PROVE  ss = tt
<1> SUFFICES ASSUME ss \in Seq(Seq(T)), \A i \in 1 .. Len(ss) : StartsOther(ss[i], c),
                    tt \in Seq(Seq(T)), \A i \in 1 .. Len(tt) : StartsOther(tt[i], c),
                    \A i \in 1 .. Len(ss) : i <= Len(tt) =>
                      \A u, v \in Seq(T) : ss[i] \o u = tt[i] \o v => ss[i] = tt[i]
             PROVE  ss = tt
  BY DEF Distinct
<1> DEFINE n == Len(ss)
           m == Len(tt)
<1>1. n \in Nat /\ m \in Nat
  BY LenProperties
<1>3. PICK p : RunsOf(p, ss, T) /\ FlattenSeq(ss) = p[n]
  BY FlattenIsRun
<1>4. PICK q : RunsOf(q, tt, T) /\ FlattenSeq(tt) = q[m]
  BY FlattenIsRun
<1>5. p[n] \o cx = q[m] \o cy
  BY <1>3, <1>4
<1>6. \A i \in 1 .. n : ss[i] \in Seq(T) /\ p[i] = p[i - 1] \o ss[i]
  BY <1>3, ElementOfSeq DEF RunsOf
<1>7. \A i \in 1 .. m : tt[i] \in Seq(T) /\ q[i] = q[i - 1] \o tt[i]
  BY <1>4, ElementOfSeq DEF RunsOf
<1>8. /\ \A i \in 0 .. n : p[i] \in Seq(T)
      /\ \A i \in 0 .. m : q[i] \in Seq(T)
      /\ p[0] = <<>> /\ q[0] = <<>>
  BY <1>3, <1>4 DEF RunsOf
<1>9. ASSUME NEW i \in 0 .. n, i <= m, p[i] = q[i]
      PROVE  \E r \in Seq(T) : /\ i = n => r = cx
                               /\ StartsWithNext(r, ss, i, T)
                               /\ i = m => r = cy
                               /\ StartsWithNext(r, tt, i, T)
  <2>1. PICK r \in Seq(T) : /\ p[n] \o cx = p[i] \o r
                            /\ i = n => r = cx
                            /\ StartsWithNext(r, ss, i, T)
    BY <1>3, Remainder, Zenon
  <2>2. i \in 0 .. m
    BY <1>1, <1>9
  <2>3. PICK w \in Seq(T) : /\ q[m] \o cy = q[i] \o w
                            /\ i = m => w = cy
                            /\ StartsWithNext(w, tt, i, T)
    BY <1>4, <2>2, Remainder, Zenon
  <2>4. r = w
    <3>1. p[i] \in Seq(T) /\ p[i] \o r = p[i] \o w
      BY <1>5, <1>8, <1>9, <2>1, <2>3, Zenon
    <3> QED
      BY <3>1, CancelLeft, Zenon
  <2> QED
    BY <2>1, <2>3, <2>4
<1> HIDE DEF n, m
<1>10. \A i \in 0 .. n : i <= m /\ p[i] = q[i]
  <2> DEFINE Bad == {i \in 0 .. n : ~(i <= m /\ p[i] = q[i])}
  <2> SUFFICES ASSUME Bad # {} PROVE FALSE
    OBVIOUS
  <2>1. Bad \in SUBSET Nat
    BY <1>1
  <2>2. PICK i \in Bad : \A j \in Bad : i <= j
    BY <2>1, LeastNumber
  <2>3. i # 0
    BY <1>1, <1>8, <2>2
  <2>4. i \in 1 .. n /\ i - 1 \in 0 .. n /\ i - 1 # n /\ (i - 1) + 1 = i /\ ~(i <= i - 1)
    BY <1>1, <2>3
  <2>5. i - 1 <= m /\ p[i - 1] = q[i - 1]
    BY <2>2, <2>4
  <2>6. PICK r \in Seq(T) : /\ StartsWithNext(r, ss, i - 1, T)
                            /\ i - 1 = m => r = cy
                            /\ StartsWithNext(r, tt, i - 1, T)
    BY <1>9, <2>4, <2>5
  <2>7. PICK u \in Seq(T) : r = ss[i] \o u
    BY <2>4, <2>6 DEF StartsWithNext, n
  <2>8. i - 1 # m
    <3>1. ss[i] \in Seq(T) /\ StartsOther(ss[i], c)
      BY <1>6, <2>4 DEF n
    <3>2. StartsOther(ss[i] \o u, c)
      BY <3>1, NotTheMark, Zenon
    <3> QED
      BY <2>6, <2>7, <3>2
  <2>9. PICK v \in Seq(T) : r = tt[i] \o v
    BY <2>4, <2>6, <2>8 DEF StartsWithNext, m
  <2>10. i <= m /\ i \in 1 .. m
    BY <1>1, <2>4, <2>5, <2>8
  <2>11. ss[i] = tt[i]
    <3>1. \A a, b \in Seq(T) : ss[i] \o a = tt[i] \o b => ss[i] = tt[i]
      BY <2>4, <2>10 DEF n, m
    <3> QED
      BY <2>7, <2>9, <3>1, Zenon
  <2> QED
    BY <1>6, <1>7, <2>2, <2>4, <2>5, <2>10, <2>11
<1>11. n = m
  <2>1. n <= m /\ p[n] = q[n]
    BY <1>1, <1>10
  <2>2. n \in 0 .. n
    BY <1>1
  <2>3. PICK r \in Seq(T) : r = cx /\ StartsWithNext(r, tt, n, T)
    BY <1>9, <2>1, <2>2
  <2> SUFFICES ASSUME n # m PROVE FALSE
    OBVIOUS
  <2>4. n + 1 \in 1 .. m
    BY <1>1, <2>1
  <2>5. PICK u \in Seq(T) : cx = tt[n + 1] \o u
    BY <2>3 DEF StartsWithNext, m
  <2>6. tt[n + 1] \in Seq(T) /\ StartsOther(tt[n + 1], c)
    BY <1>7, <2>4 DEF m
  <2>7. StartsOther(tt[n + 1] \o u, c)
    BY <2>6, NotTheMark, Zenon
  <2> QED
    BY <2>5, <2>7
<1>12. ASSUME NEW i \in 1 .. n PROVE ss[i] = tt[i]
  <2>1. p[i - 1] = q[i - 1] /\ p[i] = q[i] /\ p[i - 1] \in Seq(T)
    BY <1>1, <1>8, <1>10
  <2> QED
    <3>1. /\ ss[i] \in Seq(T) /\ tt[i] \in Seq(T)
          /\ p[i - 1] \o ss[i] = p[i - 1] \o tt[i]
      BY <1>6, <1>7, <1>11, <2>1
    <3> QED
      BY <2>1, <3>1, CancelLeft, Zenon
<1> QED
  BY <1>11, <1>12, SeqEqual DEF n, m

-----------------------------------------------------------------------------
(* Keys and values of an object.                                           *)

Increasing(keys) == \A i, j \in DOMAIN keys : i < j => keys[i] < keys[j]

(* An object has finitely many keys, all of them naturals.                 *)
LEMMA KeysFinite ==
  ASSUME NEW V, NEW ms \in Seq(Nat \X V)
  PROVE  /\ Keys(ms) \in SUBSET Nat /\ IsFiniteSet(Keys(ms))
         /\ \A i \in DOMAIN ms : MemberKey(ms[i]) \in Keys(ms)
<1> DEFINE n == Len(ms)
           f == [i \in 1 .. n |-> MemberKey(ms[i])]
<1>1. n \in Nat /\ DOMAIN ms = 1 .. n
  BY LenProperties
<1>2. \A i \in 1 .. n : ms[i] \in Nat \X V
  BY <1>1, ElementOfSeq
<1>3. Keys(ms) \in SUBSET Nat /\ \A i \in DOMAIN ms : MemberKey(ms[i]) \in Keys(ms)
  BY <1>1, <1>2 DEF Keys, MemberKey
<1>4. f \in Surjection(1 .. n, Keys(ms))
  BY <1>1 DEF Surjection, Keys
<1>5. IsFiniteSet(1 .. n)
  BY <1>1, FS_Interval
<1> HIDE DEF n, f
<1>6. IsFiniteSet(Keys(ms))
  BY <1>4, <1>5, FS_Surjection
<1> QED
  BY <1>3, <1>6

(* A finite set of numbers can be listed in increasing order ...           *)
LEMMA SortExists ==
  ASSUME NEW K \in SUBSET Nat, IsFiniteSet(K)
  PROVE  \E keys \in [1 .. Cardinality(K) -> K] : Increasing(keys)
<1> DEFINE n == Cardinality(K)
           UpTo(k) == {j \in K : j <= k}
           rank == [k \in K |-> Cardinality(UpTo(k))]
<1>1. n \in Nat
  BY FS_CardinalityType
<1>2. \A k \in K : /\ IsFiniteSet(UpTo(k)) /\ rank[k] \in Nat /\ rank[k] <= n
                   /\ rank[k] # 0
  <2> SUFFICES ASSUME NEW k \in K
               PROVE  /\ IsFiniteSet(UpTo(k)) /\ rank[k] \in Nat /\ rank[k] <= n /\ rank[k] # 0
    OBVIOUS
  <2>1. UpTo(k) \in SUBSET K /\ k \in UpTo(k)
    OBVIOUS
  <2>2. IsFiniteSet(UpTo(k)) /\ Cardinality(UpTo(k)) <= Cardinality(K)
    BY <2>1, FS_Subset
  <2>3. Cardinality(UpTo(k)) \in Nat /\ Cardinality(UpTo(k)) # 0
    BY <2>1, <2>2, FS_CardinalityType, FS_EmptySet
  <2> QED
    BY <2>2, <2>3
<1>3. \A j, k \in K : j < k => rank[j] < rank[k]
  <2> SUFFICES ASSUME NEW j \in K, NEW k \in K, j < k PROVE rank[j] < rank[k]
    OBVIOUS
  <2>1. UpTo(j) \in SUBSET UpTo(k) /\ UpTo(j) # UpTo(k)
    <3>1. \A i \in UpTo(j) : i \in UpTo(k)
      OBVIOUS
    <3>2. k \in UpTo(k) /\ k \notin UpTo(j)
      OBVIOUS
    <3> HIDE DEF UpTo
    <3> QED
      BY <3>1, <3>2
  <2>2. Cardinality(UpTo(j)) <= Cardinality(UpTo(k)) /\ Cardinality(UpTo(j)) # Cardinality(UpTo(k))
    <3> HIDE DEF UpTo
    <3> QED
      BY <1>2, <2>1, FS_Subset
  <2> QED
    BY <1>2, <2>2
<1> HIDE DEF rank
<1>4. rank \in Injection(K, 1 .. n)
  <2>1. rank \in [K -> 1 .. n]
    BY <1>1, <1>2 DEF rank
  <2>2. \A j, k \in K : rank[j] = rank[k] => j = k
    <3> SUFFICES ASSUME NEW j \in K, NEW k \in K, rank[j] = rank[k], j # k PROVE FALSE
      OBVIOUS
    <3>1. j \in Nat /\ k \in Nat /\ (j < k \/ k < j)
      OBVIOUS
    <3>2. rank[j] \in Nat /\ rank[k] \in Nat
      BY <1>2
    <3> QED
      BY <1>3, <3>1, <3>2
  <2> QED
    BY <2>1, <2>2 DEF Injection, IsInjective
<1>5. rank \in Surjection(K, 1 .. n)
  <2>1. IsFiniteSet(1 .. n) /\ Cardinality(1 .. n) = n
    BY <1>1, FS_Interval
  <2> QED
    BY <1>4, <2>1, FS_Injection
<1> DEFINE keys == [i \in 1 .. n |-> CHOOSE k \in K : rank[k] = i]
<1>6. \A i \in 1 .. n : keys[i] \in K /\ rank[keys[i]] = i
  BY <1>5 DEF Surjection
<1>7. keys \in [1 .. n -> K] /\ DOMAIN keys = 1 .. n
  BY <1>6
<1> HIDE DEF keys
<1>8. Increasing(keys)
  <2> SUFFICES ASSUME NEW i \in 1 .. n, NEW j \in 1 .. n, i < j, ~(keys[i] < keys[j]) PROVE FALSE
    BY <1>7 DEF Increasing
  <2>1. keys[i] \in Nat /\ keys[j] \in Nat /\ keys[i] \in K /\ keys[j] \in K
    BY <1>6
  <2>2. keys[j] < keys[i] \/ keys[j] = keys[i]
    BY <2>1
  <2>3. j < i \/ j = i
    BY <1>3, <1>6, <2>1, <2>2
  <2> QED
    BY <2>3
<1> QED
  BY <1>7, <1>8

(* ... and such a list has them all.                                       *)
LEMMA IncreasingIsOnto ==
  ASSUME NEW K \in SUBSET Nat, IsFiniteSet(K),
         NEW keys \in [1 .. Cardinality(K) -> K], Increasing(keys)
  PROVE  \A k \in K : \E i \in 1 .. Cardinality(K) : keys[i] = k
<1> DEFINE n == Cardinality(K)
<1>1. n \in Nat
  BY FS_CardinalityType
<1>2. \A i, j \in 1 .. n : keys[i] = keys[j] => i = j
  <2> SUFFICES ASSUME NEW i \in 1 .. n, NEW j \in 1 .. n, keys[i] = keys[j], i # j PROVE FALSE
    OBVIOUS
  <2>1. i < j \/ j < i
    BY <1>1
  <2>2. keys[i] \in K /\ DOMAIN keys = 1 .. n
    OBVIOUS
  <2>3. keys[i] < keys[j] \/ keys[j] < keys[i]
    BY <2>1, <2>2 DEF Increasing
  <2> QED
    <3>1. keys[i] \in Nat
      BY <2>2
    <3>2. ~(keys[i] < keys[i])
      BY <3>1
    <3> QED
      BY <2>3, <3>2
<1>3. IsFiniteSet(1 .. n) /\ Cardinality(1 .. n) = n
  BY <1>1, FS_Interval
<1>4. keys \in Injection(1 .. n, K)
  BY <1>2 DEF Injection, IsInjective
<1>5. keys \in Surjection(1 .. n, K)
  BY <1>3, <1>4, FS_Injection
<1> QED
  BY <1>5 DEF Surjection

(* SortedKeys is a list of the keys, and depends on nothing else.          *)
LEMMA SortedKeysList ==
  ASSUME NEW V, NEW ms \in Seq(Nat \X V)
  PROVE  /\ Cardinality(Keys(ms)) \in Nat
         /\ SortedKeys(ms) \in [1 .. Cardinality(Keys(ms)) -> Keys(ms)]
         /\ \A k \in Keys(ms) : \E i \in 1 .. Cardinality(Keys(ms)) : SortedKeys(ms)[i] = k
<1>1. Keys(ms) \in SUBSET Nat /\ IsFiniteSet(Keys(ms)) /\ Cardinality(Keys(ms)) \in Nat
  BY KeysFinite, FS_CardinalityType
<1>2. \E keys \in [1 .. Cardinality(Keys(ms)) -> Keys(ms)] : Increasing(keys)
  BY <1>1, SortExists
<1>3. SortedKeys(ms) \in [1 .. Cardinality(Keys(ms)) -> Keys(ms)] /\ Increasing(SortedKeys(ms))
  BY <1>2, Zenon DEF SortedKeys, Increasing
<1> QED
  BY <1>1, <1>3, IncreasingIsOnto

(* The order of the keys depends on the keys alone.                        *)
LEMMA SortedKeysOfKeys ==
  ASSUME NEW ms, NEW ns, Keys(ms) = Keys(ns)
  PROVE  SortedKeys(ms) = SortedKeys(ns)
<1> DEFINE Sorted(K) == CHOOSE keys \in [1 .. Cardinality(K) -> K] :
                          \A i, j \in DOMAIN keys : i < j => keys[i] < keys[j]
<1>1. SortedKeys(ms) = Sorted(Keys(ms)) /\ SortedKeys(ns) = Sorted(Keys(ns))
  BY Zenon DEF SortedKeys
<1> HIDE DEF Sorted
<1> QED
  BY <1>1

(* The value of a key is that of its last member, however it is looked up. *)
LEMMA ValueIsLast ==
  ASSUME NEW V, NEW ms \in Seq(Nat \X V), NEW k \in Keys(ms)
  PROVE  /\ ValueOf(ms, k) = LastValue(ms, k)
         /\ \E i \in DOMAIN ms : LastValue(ms, k) = MemberValue(ms[i])
<1> DEFINE n == Len(ms)
           I == {i \in 1 .. n : MemberKey(ms[i]) = k}
           Latest(i) == i \in I /\ \A j \in I : j <= i
<1>1. n \in Nat /\ DOMAIN ms = 1 .. n
  BY LenProperties
<1>2. I \in SUBSET (1 .. n) /\ I # {}
  BY <1>1 DEF Keys
<1>3. PICK last : Latest(last)
  BY <1>1, <1>2, GreatestIndex
<1>4. \A i : Latest(i) => i = last
  <2> SUFFICES ASSUME NEW i, Latest(i) PROVE i = last
    OBVIOUS
  <2>1. i <= last /\ last <= i /\ i \in Int /\ last \in Int
    BY <1>1, <1>3
  <2> QED
    BY <2>1
<1>5. ValueOf(ms, k) = ms[last][2]
  <2>1. SelectLastInSeq(ms, LAMBDA m : MemberKey(m) = k) = Max(I)
    BY <1>2, Zenon DEF SelectLastInSeq
  <2>2. Max(I) = CHOOSE i \in I : \A j \in I : i >= j
    BY Zenon DEF Max
  <2>3. Latest(Max(I))
    <3>1. \A i, j \in I : i >= j <=> j <= i
      BY <1>1
    <3> HIDE DEF I
    <3>2. \E i \in I : \A j \in I : i >= j
      BY <1>3, <3>1
    <3>3. Max(I) \in I /\ \A j \in I : Max(I) >= j
      BY <2>2, <3>2, Zenon
    <3> QED
      BY <3>1, <3>3
  <2>4. Max(I) = last
    BY <1>4, <2>3
  <2> QED
    BY <2>1, <2>4, Zenon DEF ValueOf
<1>6. LastValue(ms, k) = ms[last][2] /\ last \in DOMAIN ms
  <2> DEFINE L == CHOOSE i \in DOMAIN ms : /\ MemberKey(ms[i]) = k
                                           /\ \A j \in DOMAIN ms : MemberKey(ms[j]) = k => j <= i
  <2>1. /\ last \in DOMAIN ms /\ MemberKey(ms[last]) = k
        /\ \A j \in DOMAIN ms : MemberKey(ms[j]) = k => j <= last
    BY <1>1, <1>3
  <2>2. /\ L \in DOMAIN ms /\ MemberKey(ms[L]) = k
        /\ \A j \in DOMAIN ms : MemberKey(ms[j]) = k => j <= L
    BY <2>1, Zenon
  <2>3. LastValue(ms, k) = ms[L][2]
    BY Zenon DEF LastValue, MemberValue
  <2> HIDE DEF L
  <2>4. L = last
    BY <1>1, <1>4, <2>2
  <2> QED
    BY <2>1, <2>3, <2>4
<1> QED
  BY <1>5, <1>6 DEF MemberValue

-----------------------------------------------------------------------------
(* Documents are finite.                                                   *)

(* <<e, d>>: e is an item of d or the value of one of its members.         *)
PartOf == {p \in Docs \X Docs :
  \/ Kind(p[2]) = "arr" /\ \E i \in DOMAIN Of(p[2]) : p[1] = Of(p[2])[i]
  \/ Kind(p[2]) = "obj" /\ \E i \in DOMAIN Of(p[2]) : p[1] = MemberValue(Of(p[2])[i])}

(* Every document is nested to some depth, and its parts to a smaller one. *)
Nested == \E depth \in [Docs -> Nat] : \A p \in PartOf : depth[p[1]] < depth[p[2]]

(* No document has parts of parts without end.                             *)
LEMMA NestedIsWellFounded == ASSUME Nested PROVE IsWellFoundedOn(PartOf, Docs)
<1> SUFFICES ASSUME NEW f \in [Nat -> Docs], \A n \in Nat : <<f[n + 1], f[n]>> \in PartOf
             PROVE  FALSE
  BY DEF IsWellFoundedOn
<1>1. PICK depth \in [Docs -> Nat] : \A p \in PartOf : depth[p[1]] < depth[p[2]]
  BY DEF Nested
<1> DEFINE D == {depth[f[n]] : n \in Nat}
<1>2. D \in SUBSET Nat /\ D # {}
  OBVIOUS
<1>3. PICK m \in D : \A k \in D : m <= k
  BY <1>2, LeastNumber
<1>4. PICK n \in Nat : m = depth[f[n]]
  OBVIOUS
<1>5. depth[f[n + 1]] < depth[f[n]]
  BY <1>1
<1>6. depth[f[n + 1]] \in D
  OBVIOUS
<1>7. depth[f[n + 1]] \in Nat /\ depth[f[n]] \in Nat
  OBVIOUS
<1>8. depth[f[n]] <= depth[f[n + 1]]
  BY <1>3, <1>4, <1>6
<1> QED
  BY <1>5, <1>7, <1>8

(* What is true of a document when it is true of its parts.                *)
LEMMA PartsFirst ==
  ASSUME Nested, NEW P,
         \A d \in Docs : (\A e \in Docs : <<e, d>> \in PartOf => e \in P) => d \in P
  PROVE  Docs \subseteq P
<1> SUFFICES ASSUME Docs \ P # {} PROVE FALSE
  OBVIOUS
<1>1. PICK d \in Docs \ P : \A e \in Docs \ P : ~(<<e, d>> \in PartOf)
  BY NestedIsWellFounded, WFMin
<1> QED
  BY <1>1

(* What a document is made of, by its kind.                                *)
LEMMA Parts ==
  ASSUME NEW d \in Docs
  PROVE  /\ Kind(d) \in {"num", "str", "lit"} => Of(d) \in Nat
         /\ Kind(d) = "arr" =>
              /\ Of(d) \in Seq(Docs)
              /\ \A i \in DOMAIN Of(d) : Of(d)[i] \in Docs /\ <<Of(d)[i], d>> \in PartOf
         /\ Kind(d) = "obj" =>
              /\ Of(d) \in Seq(Nat \X Docs)
              /\ \A i \in DOMAIN Of(d) : /\ MemberValue(Of(d)[i]) \in Docs
                                         /\ <<MemberValue(Of(d)[i]), d>> \in PartOf
              /\ \A k \in Keys(Of(d)) : /\ ValueOf(Of(d), k) \in Docs
                                        /\ <<ValueOf(Of(d), k), d>> \in PartOf
                                        /\ LastValue(Of(d), k) = ValueOf(Of(d), k)
         /\ Kind(d) \in {"num", "str", "lit", "arr", "obj"}
<1>1. CASE Kind(d) \in {"num", "str", "lit"}
  BY <1>1, DocsAssumption
<1>2. CASE Kind(d) = "arr"
  <2>1. Of(d) \in Seq(Docs)
    BY <1>2, DocsAssumption
  <2>2. \A i \in DOMAIN Of(d) : Of(d)[i] \in Docs
    BY <2>1, LenProperties, ElementOfSeq
  <2>3. \A i \in DOMAIN Of(d) : <<Of(d)[i], d>> \in PartOf
    BY <1>2, <2>2 DEF PartOf
  <2> QED
    BY <1>2, <2>1, <2>2, <2>3
<1>3. CASE Kind(d) = "obj"
  <2> DEFINE ms == Of(d)
  <2>1. ms \in Seq(Nat \X Docs)
    BY <1>3, DocsAssumption
  <2> HIDE DEF ms
  <2>2. \A i \in DOMAIN ms : ms[i] \in Nat \X Docs
    BY <2>1, LenProperties, ElementOfSeq
  <2>3. \A i \in DOMAIN ms : MemberValue(ms[i]) \in Docs
    BY <2>2 DEF MemberValue
  <2>4. \A i \in DOMAIN ms : <<MemberValue(ms[i]), d>> \in PartOf
    BY <1>3, <2>3 DEF PartOf, ms
  <2>5. ASSUME NEW k \in Keys(ms)
        PROVE  /\ ValueOf(ms, k) = LastValue(ms, k)
               /\ \E i \in DOMAIN ms : LastValue(ms, k) = MemberValue(ms[i])
    BY <2>1, ValueIsLast
  <2>6. \A k \in Keys(ms) : /\ ValueOf(ms, k) \in Docs
                            /\ <<ValueOf(ms, k), d>> \in PartOf
                            /\ LastValue(ms, k) = ValueOf(ms, k)
    BY <2>3, <2>4, <2>5
  <2> QED
    BY <1>3, <2>1, <2>3, <2>4, <2>6 DEF ms
<1>4. Kind(d) \in {"num", "str", "lit", "arr", "obj"}
  BY DocsAssumption
<1> QED
  BY <1>1, <1>2, <1>3, <1>4

-----------------------------------------------------------------------------
(* The canonical form.  Its definition has a solution, and is one.         *)

Marks == {"{", "}", "[", "]"}
Tokens == {"mark", "key", "num", "str", "lit"} \X (Nat \cup Marks)

(* The body of Canonical, with f for Canonical.                            *)
Written(f, d, k) == Token("key", k) \o f[ValueOf(Of(d), k)]
Members(f, d) ==
  [i \in DOMAIN SortedKeys(Of(d)) |-> Written(f, d, SortedKeys(Of(d))[i])]
Items(f, d) == [i \in DOMAIN Of(d) |-> f[Of(d)[i]]]
Form(f, d) ==
  IF Kind(d) = "obj" THEN Mark("{") \o FlattenSeq(Members(f, d)) \o Mark("}")
  ELSE IF Kind(d) = "arr" THEN Mark("[") \o FlattenSeq(Items(f, d)) \o Mark("]")
  ELSE Leaf(d)

(* Tokens and marks are sequences of tokens.                               *)
LEMMA TokenType ==
  /\ \A kind \in {"key", "num", "str", "lit"}, v \in Nat :
       Token(kind, v) \in Seq(Tokens) /\ <<kind, v>> \in Tokens
  /\ \A c \in Marks : Mark(c) \in Seq(Tokens) /\ <<"mark", c>> \in Tokens
<1>1. \A t \in Tokens : <<t>> \in Seq(Tokens)
  OBVIOUS
<1>2. \A kind \in {"key", "num", "str", "lit"}, v \in Nat : <<kind, v>> \in Tokens
  BY DEF Tokens
<1>3. \A c \in Marks : <<"mark", c>> \in Tokens
  BY DEF Tokens
<1> QED
  BY <1>1, <1>2, <1>3 DEF Token, Mark

(* A leaf is written as one token.                                         *)
LEMMA LeafType ==
  ASSUME NEW d \in Docs, Kind(d) \in {"num", "str", "lit"}
  PROVE  \E v \in Nat : Leaf(d) = Token(Kind(d), v)
BY Parts, FloatAssumption DEF Leaf

(* What is written of the parts of a document.                             *)
LEMMA ListTypes ==
  ASSUME NEW d \in Docs, NEW f,
         \A e \in Docs : <<e, d>> \in PartOf => f[e] \in Seq(Tokens)
  PROVE  /\ Kind(d) = "obj" =>
              /\ Members(f, d) \in Seq(Seq(Tokens))
              /\ Len(Members(f, d)) = Cardinality(Keys(Of(d)))
              /\ \A i \in 1 .. Cardinality(Keys(Of(d))) :
                   Members(f, d)[i] = Written(f, d, SortedKeys(Of(d))[i])
              /\ \A k \in Keys(Of(d)) : Written(f, d, k) \in Seq(Tokens)
         /\ Kind(d) = "arr" =>
              /\ Items(f, d) \in Seq(Seq(Tokens))
              /\ Len(Items(f, d)) = Len(Of(d))
              /\ \A i \in 1 .. Len(Of(d)) : Items(f, d)[i] = f[Of(d)[i]]
<1>1. CASE Kind(d) = "obj"
  <2> DEFINE n == Cardinality(Keys(Of(d)))
             keys == SortedKeys(Of(d))
  <2>1. n \in Nat /\ keys \in [1 .. n -> Keys(Of(d))]
    BY <1>1, Parts, SortedKeysList
  <2>2. \A k \in Keys(Of(d)) : Written(f, d, k) \in Seq(Tokens)
    <3> SUFFICES ASSUME NEW k \in Keys(Of(d)) PROVE Written(f, d, k) \in Seq(Tokens)
      OBVIOUS
    <3>1. k \in Nat
      BY <1>1, Parts, KeysFinite
    <3>2. Token("key", k) \in Seq(Tokens)
      BY <3>1, TokenType
    <3>3. f[ValueOf(Of(d), k)] \in Seq(Tokens)
      BY <1>1, Parts
    <3> QED
      BY <3>2, <3>3, ConcatProperties DEF Written
  <2> HIDE DEF n, keys
  <2>3. Members(f, d) = [i \in 1 .. n |-> Written(f, d, keys[i])]
    BY <2>1 DEF Members, keys
  <2>4. \A i \in 1 .. n : Written(f, d, keys[i]) \in Seq(Tokens)
    BY <2>1, <2>2
  <2>5. Members(f, d) \in Seq(Seq(Tokens)) /\ Len(Members(f, d)) = n
    BY <2>1, <2>3, <2>4
  <2> QED
    BY <1>1, <2>2, <2>3, <2>5 DEF n, keys
<1>2. CASE Kind(d) = "arr"
  <2> DEFINE n == Len(Of(d))
  <2>1. n \in Nat /\ DOMAIN Of(d) = 1 .. n
    BY <1>2, Parts, LenProperties
  <2>2. \A i \in 1 .. n : f[Of(d)[i]] \in Seq(Tokens)
    BY <1>2, <2>1, Parts
  <2> HIDE DEF n
  <2>3. Items(f, d) = [i \in 1 .. n |-> f[Of(d)[i]]]
    BY <2>1 DEF Items
  <2>4. Items(f, d) \in Seq(Seq(Tokens)) /\ Len(Items(f, d)) = n
    BY <2>1, <2>2, <2>3
  <2> QED
    BY <1>2, <2>3, <2>4 DEF n
<1> QED
  BY <1>1, <1>2

(* What is written is a sequence of tokens, if that of the parts is.       *)
LEMMA FormType ==
  ASSUME NEW d \in Docs, NEW f,
         \A e \in Docs : <<e, d>> \in PartOf => f[e] \in Seq(Tokens)
  PROVE  Form(f, d) \in Seq(Tokens)
<1>1. CASE Kind(d) = "obj"
  <2>1. FlattenSeq(Members(f, d)) \in Seq(Tokens)
    BY <1>1, ListTypes, FlattenType
  <2>2. Mark("{") \in Seq(Tokens) /\ Mark("}") \in Seq(Tokens)
    BY TokenType DEF Marks
  <2> QED
    BY <1>1, <2>1, <2>2, ConcatProperties DEF Form
<1>2. CASE Kind(d) = "arr"
  <2>1. FlattenSeq(Items(f, d)) \in Seq(Tokens)
    BY <1>2, ListTypes, FlattenType
  <2>2. Mark("[") \in Seq(Tokens) /\ Mark("]") \in Seq(Tokens)
    BY TokenType DEF Marks
  <2> QED
    BY <1>2, <2>1, <2>2, ConcatProperties DEF Form
<1>3. CASE Kind(d) \in {"num", "str", "lit"}
  <2>1. PICK v \in Nat : Leaf(d) = Token(Kind(d), v)
    BY <1>3, LeafType
  <2> QED
    BY <1>3, <2>1, TokenType DEF Form
<1> QED
  BY <1>1, <1>2, <1>3, Parts

(* What is written of a document depends on that of its parts only.        *)
LEMMA FormLocal ==
  ASSUME NEW d \in Docs, NEW f, NEW g,
         \A e \in Docs : <<e, d>> \in PartOf => f[e] = g[e]
  PROVE  Form(f, d) = Form(g, d)
<1>1. CASE Kind(d) = "obj"
  <2> DEFINE keys == SortedKeys(Of(d))
  <2>1. \A i \in DOMAIN keys : keys[i] \in Keys(Of(d))
    BY <1>1, Parts, SortedKeysList
  <2>2. \A k \in Keys(Of(d)) : Written(f, d, k) = Written(g, d, k)
    BY <1>1, Parts DEF Written
  <2>3. Members(f, d) = Members(g, d)
    BY <2>1, <2>2 DEF Members
  <2> QED
    BY <1>1, <2>3 DEF Form
<1>2. CASE Kind(d) = "arr"
  <2>1. Items(f, d) = Items(g, d)
    BY <1>2, Parts DEF Items
  <2> QED
    BY <1>2, <2>1 DEF Form
<1> QED
  BY <1>1, <1>2 DEF Form

(* Canonical obeys its equation.                                           *)
LEMMA CanonicalForm ==
  ASSUME Nested
  PROVE  /\ Canonical = [d \in Docs |-> Form(Canonical, d)]
         /\ \A d \in Docs : Canonical[d] = Form(Canonical, d) /\ Canonical[d] \in Seq(Tokens)
<1> DEFINE V == Seq(Tokens)
           H == [x \in Docs \X [Docs -> V] |-> Form(x[2], x[1])]
<1>1. \A d \in Docs, f \in [Docs -> V] : H[<<d, f>>] = Form(f, d)
  OBVIOUS
<1>2. \A d \in Docs : \A f \in [Docs -> V] : H[<<d, f>>] \in V
  BY <1>1, FormType
<1>3. Local(H, PartOf, Docs, V)
  <2> SUFFICES ASSUME NEW d \in Docs, NEW f \in [Docs -> V], NEW g \in [Docs -> V],
                      \A e \in Docs : <<e, d>> \in PartOf => f[e] = g[e]
               PROVE  H[<<d, f>>] = H[<<d, g>>]
    BY DEF Local
  <2>1. Form(f, d) = Form(g, d)
    BY FormLocal
  <2> QED
    BY <1>1, <2>1
<1>4. PICK v : v \in V
  BY EmptySeq
<1> HIDE DEF H, V
<1>5. PICK f \in [Docs -> V] : \A d \in Docs : f[d] = H[<<d, f>>]
  BY <1>2, <1>3, <1>4, NestedIsWellFounded, Recursion
<1>6. f = [d \in Docs |-> Form(f, d)]
  BY <1>1, <1>5
<1>7. Canonical = [d \in Docs |-> Form(Canonical, d)]
  BY <1>6, Zenon DEF Canonical, Form, Members, Items, Written
<1>8. \A d \in Docs : Canonical[d] = Form(Canonical, d)
  BY <1>7, Zenon
<1> DEFINE P == {d \in Docs : Canonical[d] \in Seq(Tokens)}
<1>9. \A d \in Docs : (\A e \in Docs : <<e, d>> \in PartOf => e \in P) => d \in P
  BY <1>8, FormType
<1>10. Docs \subseteq P
  <2> HIDE DEF P
  <2> QED
    BY <1>9, PartsFirst
<1> QED
  BY <1>7, <1>8, <1>10

-----------------------------------------------------------------------------
(* The reference, likewise.                                                *)

(* The body of SameDoc, with f for SameDoc.                                *)
Says(f, d, e, exact) ==
  /\ Kind(d) = Kind(e)
  /\ Kind(d) = "num" => Of(d) = Of(e) \/ (~exact /\ Float(Of(d)) = Float(Of(e)))
  /\ Kind(d) \in {"str", "lit"} => Of(d) = Of(e)
  /\ Kind(d) = "arr" => /\ Len(Of(d)) = Len(Of(e))
                        /\ \A i \in DOMAIN Of(d) : f[Of(d)[i]][Of(e)[i]][exact]
  /\ Kind(d) = "obj" => /\ Keys(Of(d)) = Keys(Of(e))
                        /\ \A k \in Keys(Of(d)) :
                             f[LastValue(Of(d), k)][LastValue(Of(e), k)][exact]
Saying(f, d) == [e \in Docs |-> [exact \in BOOLEAN |-> Says(f, d, e, exact)]]

(* What a document says depends on what its parts say only.                *)
LEMMA SayingLocal ==
  ASSUME NEW d \in Docs, NEW f, NEW g,
         \A e \in Docs : <<e, d>> \in PartOf => f[e] = g[e]
  PROVE  Saying(f, d) = Saying(g, d)
<1>1. Kind(d) = "arr" => \A i \in DOMAIN Of(d) : f[Of(d)[i]] = g[Of(d)[i]]
  BY Parts
<1>2. Kind(d) = "obj" => \A k \in Keys(Of(d)) : f[LastValue(Of(d), k)] = g[LastValue(Of(d), k)]
  BY Parts
<1>3. ASSUME NEW e \in Docs, NEW exact \in BOOLEAN
      PROVE  Says(f, d, e, exact) = Says(g, d, e, exact)
  <2>1. Says(f, d, e, exact) => Says(g, d, e, exact)
    BY <1>1, <1>2, Zenon DEF Says
  <2>2. Says(g, d, e, exact) => Says(f, d, e, exact)
    BY <1>1, <1>2, Zenon DEF Says
  <2>3. Says(f, d, e, exact) \in BOOLEAN /\ Says(g, d, e, exact) \in BOOLEAN
    BY DEF Says
  <2> QED
    BY <2>1, <2>2, <2>3
<1> QED
  BY <1>3, Zenon DEF Saying

(* Whether two documents say the same is a Boolean.                        *)
LEMMA SayingType == \A d, f : Saying(f, d) \in [Docs -> [BOOLEAN -> BOOLEAN]]
<1>1. \A f, d, e, exact : Says(f, d, e, exact) \in BOOLEAN
  BY DEF Says
<1> QED
  BY <1>1, Zenon DEF Saying

(* SameDoc obeys its equation.                                             *)
LEMMA SameDocSays ==
  ASSUME Nested
  PROVE  \A d, e \in Docs, exact \in BOOLEAN :
           /\ SameDoc[d][e][exact] = Says(SameDoc, d, e, exact)
           /\ SameDoc[d][e][exact] \in BOOLEAN
<1> DEFINE V == [Docs -> [BOOLEAN -> BOOLEAN]]
           H == [x \in Docs \X [Docs -> V] |-> Saying(x[2], x[1])]
<1>1. \A d \in Docs, f \in [Docs -> V] : H[<<d, f>>] = Saying(f, d)
  BY Zenon
<1>2. \A d \in Docs : \A f \in [Docs -> V] : H[<<d, f>>] \in V
  BY <1>1, SayingType, Zenon
<1>3. Local(H, PartOf, Docs, V)
  <2> SUFFICES ASSUME NEW d \in Docs, NEW f \in [Docs -> V], NEW g \in [Docs -> V],
                      \A e \in Docs : <<e, d>> \in PartOf => f[e] = g[e]
               PROVE  H[<<d, f>>] = H[<<d, g>>]
    BY Zenon DEF Local
  <2>1. Saying(f, d) = Saying(g, d)
    BY SayingLocal, Zenon
  <2> QED
    BY <1>1, <2>1, Zenon
<1>4. PICK v : v \in V
  BY SayingType, Zenon
<1> HIDE DEF H, V
<1>5. PICK f \in [Docs -> V] : \A d \in Docs : f[d] = H[<<d, f>>]
  BY <1>2, <1>3, <1>4, NestedIsWellFounded, Recursion
<1>6. f = [d \in Docs |-> Saying(f, d)]
  BY <1>1, <1>5
<1>7. SameDoc = [d \in Docs |-> Saying(SameDoc, d)]
  BY <1>6, Zenon DEF SameDoc, Saying, Says
<1>8. \A d \in Docs : SameDoc[d] = Saying(SameDoc, d)
  BY <1>7, Zenon
<1> SUFFICES ASSUME NEW d \in Docs, NEW e \in Docs, NEW exact \in BOOLEAN
             PROVE  /\ SameDoc[d][e][exact] = Says(SameDoc, d, e, exact)
                    /\ SameDoc[d][e][exact] \in BOOLEAN
  BY Zenon
<1>9. Saying(SameDoc, d)[e][exact] = Says(SameDoc, d, e, exact)
  BY Zenon DEF Saying
<1>10. Says(SameDoc, d, e, exact) \in BOOLEAN
  BY Zenon DEF Says
<1> QED
  BY <1>8, <1>9, <1>10, Zenon

(* The body of Precise, with f for Precise.                                *)
Within(f, d) ==
  /\ Kind(d) = "num" => Of(d) <= Precision
  /\ Kind(d) = "arr" => \A i \in DOMAIN Of(d) : f[Of(d)[i]]
  /\ Kind(d) = "obj" => \A i \in DOMAIN Of(d) : f[MemberValue(Of(d)[i])]

(* Precise obeys its equation.                                             *)
LEMMA PreciseWithin ==
  ASSUME Nested
  PROVE  \A d \in Docs : Precise[d] = Within(Precise, d)
<1> DEFINE H == [x \in Docs \X [Docs -> BOOLEAN] |-> Within(x[2], x[1])]
<1>1. \A d \in Docs, f \in [Docs -> BOOLEAN] : H[<<d, f>>] = Within(f, d)
  BY Zenon
<1>2. \A d \in Docs : \A f \in [Docs -> BOOLEAN] : H[<<d, f>>] \in BOOLEAN
  BY <1>1, Zenon DEF Within
<1>3. Local(H, PartOf, Docs, BOOLEAN)
  <2> SUFFICES ASSUME NEW d \in Docs, NEW f \in [Docs -> BOOLEAN], NEW g \in [Docs -> BOOLEAN],
                      \A e \in Docs : <<e, d>> \in PartOf => f[e] = g[e]
               PROVE  H[<<d, f>>] = H[<<d, g>>]
    BY Zenon DEF Local
  <2>1. Kind(d) = "arr" => \A i \in DOMAIN Of(d) : f[Of(d)[i]] = g[Of(d)[i]]
    BY Parts
  <2>2. Kind(d) = "obj" => \A i \in DOMAIN Of(d) :
          f[MemberValue(Of(d)[i])] = g[MemberValue(Of(d)[i])]
    BY Parts
  <2>3. Within(f, d) <=> Within(g, d)
    BY <2>1, <2>2, Zenon DEF Within
  <2>4. Within(f, d) \in BOOLEAN /\ Within(g, d) \in BOOLEAN
    BY Zenon DEF Within
  <2>5. Within(f, d) = Within(g, d)
    BY <2>3, <2>4
  <2> QED
    BY <1>1, <2>5, Zenon
<1> HIDE DEF H
<1>4. PICK f \in [Docs -> BOOLEAN] : \A d \in Docs : f[d] = H[<<d, f>>]
  <2>1. \E v : v \in BOOLEAN
    OBVIOUS
  <2> DEFINE V == BOOLEAN
  <2>2. PICK v : v \in V
    BY <2>1
  <2>3. (\A d \in Docs : \A f \in [Docs -> V] : H[<<d, f>>] \in V) /\ Local(H, PartOf, Docs, V)
    BY <1>2, <1>3
  <2> HIDE DEF V
  <2>4. \E f \in [Docs -> V] : \A d \in Docs : f[d] = H[<<d, f>>]
    BY <2>2, <2>3, NestedIsWellFounded, Recursion
  <2> QED
    BY <2>4 DEF V
<1>5. f = [d \in Docs |-> Within(f, d)]
  <2>1. \A d \in Docs : f[d] = Within(f, d)
    BY <1>1, <1>4, Zenon
  <2> QED
    BY <1>4, <2>1, Zenon
<1>6. Precise = [d \in Docs |-> Within(Precise, d)]
  BY <1>5, Zenon DEF Precise, Within
<1> QED
  BY <1>6, Zenon

-----------------------------------------------------------------------------
(* The canonical form tells documents apart, also at the start of a longer *)
(* sequence.                                                               *)

(* Equal sequences start equally and go on equally.                        *)
LEMMA SameStart ==
  ASSUME NEW T, NEW a \in T, NEW b \in T, NEW r \in Seq(T), NEW s \in Seq(T),
         <<a>> \o r = <<b>> \o s
  PROVE  a = b /\ r = s
<1>1. <<a>> \in Seq(T) /\ <<b>> \in Seq(T) /\ Len(<<a>>) = 1 /\ Len(<<b>>) = 1
  OBVIOUS
<1>2. Len(r) \in Nat /\ Len(s) \in Nat
  BY LenProperties
<1>3. (<<a>> \o r)[1] = a /\ (<<b>> \o s)[1] = b
  BY <1>1, <1>2, ConcatProperties
<1>4. a = b
  BY <1>3
<1> QED
  BY <1>1, <1>4, CancelLeft

(* A sequence starts with its head.                                        *)
LEMMA HeadStarts ==
  ASSUME NEW T, NEW t \in T, NEW a \in Seq(T), NEW c, t # c
  PROVE  StartsOther(<<t>> \o a, c)
<1>1. <<t>> \in Seq(T) /\ Len(<<t>>) = 1 /\ <<t>>[1] = t
  OBVIOUS
<1>2. Len(a) \in Nat
  BY LenProperties
<1>3. Len(<<t>> \o a) # 0 /\ (<<t>> \o a)[1] = t
  BY <1>1, <1>2, ConcatProperties
<1> QED
  BY <1>3, EmptySeq DEF StartsOther

(* Equal sequences have equal tails.                                       *)
LEMMA SameTail ==
  ASSUME NEW T, NEW a \in T, NEW f \in Seq(T), NEW g \in Seq(T), <<a>> \o f = <<a>> \o g
  PROVE  f = g
BY SameStart

(* A mark ends a list of sequences that do not start with it.              *)
LEMMA MarkEnds ==
  ASSUME NEW T, NEW c \in T, NEW x \in Seq(T)
  PROVE  <<c>> \o x \in Seq(T) /\ ~StartsOther(<<c>> \o x, c)
<1>1. <<c>> \in Seq(T) /\ Len(<<c>>) = 1 /\ <<c>>[1] = c
  OBVIOUS
<1>2. Len(x) \in Nat
  BY LenProperties
<1>3. (<<c>> \o x)[1] = c /\ <<c>> \o x \in Seq(T)
  BY <1>1, <1>2, ConcatProperties
<1> QED
  BY <1>3 DEF StartsOther

(* What a canonical form starts with, and what follows.                    *)
LEMMA Opening ==
  ASSUME Nested, NEW d \in Docs, NEW x \in Seq(Tokens)
  PROVE  /\ Kind(d) = "obj" =>
              Canonical[d] \o x = <<<<"mark", "{">>>> \o
                (FlattenSeq(Members(Canonical, d)) \o (<<<<"mark", "}">>>> \o x))
         /\ Kind(d) = "arr" =>
              Canonical[d] \o x = <<<<"mark", "[">>>> \o
                (FlattenSeq(Items(Canonical, d)) \o (<<<<"mark", "]">>>> \o x))
         /\ Kind(d) \in {"num", "str", "lit"} =>
              Canonical[d] \o x = Leaf(d) \o x /\ Leaf(d) = <<Leaf(d)[1]>>
                /\ \E v \in Nat : Leaf(d)[1] = <<Kind(d), v>> /\ <<Kind(d), v>> \in Tokens
<1> DEFINE C == Canonical
<1>1. C[d] = Form(C, d) /\ \A e \in Docs : C[e] \in Seq(Tokens)
  BY CanonicalForm
<1>2. Continues(Tokens, x)
  BY Continuing, Zenon
<1>3. /\ Mark("{") \in Seq(Tokens) /\ Mark("}") \in Seq(Tokens)
      /\ Mark("[") \in Seq(Tokens) /\ Mark("]") \in Seq(Tokens)
  BY TokenType DEF Marks
<1>4. CASE Kind(d) = "obj"
  <2> DEFINE b == FlattenSeq(Members(C, d))
  <2>1. b \in Seq(Tokens)
    BY <1>1, <1>4, ListTypes, FlattenType
  <2>2. C[d] = (Mark("{") \o b) \o Mark("}")
    BY <1>1, <1>4 DEF Form
  <2> HIDE DEF b, C
  <2>3. C[d] \o x = Mark("{") \o (b \o (Mark("}") \o x))
    <3> DEFINE a == Mark("{")
               c == Mark("}")
    <3>1. a \in Seq(Tokens) /\ c \in Seq(Tokens)
      BY <1>3
    <3>2. C[d] = (a \o b) \o c
      BY <2>2
    <3> HIDE DEF a, c
    <3>3. ((a \o b) \o c) \o x = a \o (b \o (c \o x))
      BY <1>2, <2>1, <3>1 DEF Continues
    <3> QED
      BY <3>2, <3>3 DEF a, c
  <2> QED
    BY <1>4, <2>3 DEF b, C, Mark
<1>5. CASE Kind(d) = "arr"
  <2> DEFINE b == FlattenSeq(Items(C, d))
  <2>1. b \in Seq(Tokens)
    BY <1>1, <1>5, ListTypes, FlattenType
  <2>2. C[d] = (Mark("[") \o b) \o Mark("]")
    BY <1>1, <1>5 DEF Form
  <2> HIDE DEF b, C
  <2>3. C[d] \o x = Mark("[") \o (b \o (Mark("]") \o x))
    <3> DEFINE a == Mark("[")
               c == Mark("]")
    <3>1. a \in Seq(Tokens) /\ c \in Seq(Tokens)
      BY <1>3
    <3>2. C[d] = (a \o b) \o c
      BY <2>2
    <3> HIDE DEF a, c
    <3>3. ((a \o b) \o c) \o x = a \o (b \o (c \o x))
      BY <1>2, <2>1, <3>1 DEF Continues
    <3> QED
      BY <3>2, <3>3 DEF a, c
  <2> QED
    BY <1>5, <2>3 DEF b, C, Mark
<1>6. CASE Kind(d) \in {"num", "str", "lit"}
  <2>1. C[d] = Leaf(d)
    BY <1>1, <1>6 DEF Form
  <2>2. PICK v \in Nat : Leaf(d) = Token(Kind(d), v)
    BY <1>6, LeafType
  <2>3. Leaf(d) = <<<<Kind(d), v>>>> /\ Leaf(d)[1] = <<Kind(d), v>>
    BY <2>2 DEF Token
  <2>4. <<Kind(d), v>> \in Tokens
    BY <1>6, TokenType
  <2> QED
    BY <1>6, <2>1, <2>3, <2>4
<1> QED
  BY <1>4, <1>5, <1>6, Parts

(* The first token of a canonical form tells the kind of the document.     *)
Sign(d, t) == /\ Kind(d) = "obj" => t = <<"mark", "{">>
              /\ Kind(d) = "arr" => t = <<"mark", "[">>
              /\ Kind(d) \in {"num", "str", "lit"} => \E v \in Nat : t = <<Kind(d), v>>

(* What a document is written as begins with a sign of its kind.           *)
LEMMA Begins ==
  ASSUME Nested, NEW d \in Docs, NEW x \in Seq(Tokens)
  PROVE  \E t \in Tokens, r \in Seq(Tokens) : Canonical[d] \o x = <<t>> \o r /\ Sign(d, t)
<1>1. \A c \in Marks : <<"mark", c>> \in Tokens /\ <<<<"mark", c>>>> \in Seq(Tokens)
  BY TokenType DEF Mark
<1>2. \A c \in Marks : <<<<"mark", c>>>> \o x \in Seq(Tokens)
  BY <1>1, ConcatProperties
<1>3. CASE Kind(d) = "obj"
  <2> DEFINE r == FlattenSeq(Members(Canonical, d)) \o (<<<<"mark", "}">>>> \o x)
  <2>1. Canonical[d] \o x = <<<<"mark", "{">>>> \o r
    BY <1>3, Opening
  <2>2. r \in Seq(Tokens)
    <3>1. FlattenSeq(Members(Canonical, d)) \in Seq(Tokens)
      BY <1>3, CanonicalForm, ListTypes, FlattenType
    <3> QED
      BY <1>2, <3>1, ConcatProperties DEF Marks
  <2>3. <<"mark", "{">> \in Tokens /\ Sign(d, <<"mark", "{">>)
    BY <1>1, <1>3 DEF Sign, Marks
  <2> HIDE DEF r
  <2> QED
    BY <2>1, <2>2, <2>3
<1>4. CASE Kind(d) = "arr"
  <2> DEFINE r == FlattenSeq(Items(Canonical, d)) \o (<<<<"mark", "]">>>> \o x)
  <2>1. Canonical[d] \o x = <<<<"mark", "[">>>> \o r
    BY <1>4, Opening
  <2>2. r \in Seq(Tokens)
    <3>1. FlattenSeq(Items(Canonical, d)) \in Seq(Tokens)
      BY <1>4, CanonicalForm, ListTypes, FlattenType
    <3> QED
      BY <1>2, <3>1, ConcatProperties DEF Marks
  <2>3. <<"mark", "[">> \in Tokens /\ Sign(d, <<"mark", "[">>)
    BY <1>1, <1>4 DEF Sign, Marks
  <2> HIDE DEF r
  <2> QED
    BY <2>1, <2>2, <2>3
<1>5. CASE Kind(d) \in {"num", "str", "lit"}
  <2>1. /\ Canonical[d] \o x = <<Leaf(d)[1]>> \o x
        /\ \E v \in Nat : Leaf(d)[1] = <<Kind(d), v>> /\ <<Kind(d), v>> \in Tokens
    <3>1. /\ Canonical[d] \o x = Leaf(d) \o x /\ Leaf(d) = <<Leaf(d)[1]>>
          /\ \E v \in Nat : Leaf(d)[1] = <<Kind(d), v>> /\ <<Kind(d), v>> \in Tokens
      BY <1>5, Opening
    <3> QED
      BY <3>1
  <2>2. Leaf(d)[1] \in Tokens /\ Sign(d, Leaf(d)[1])
    BY <1>5, <2>1 DEF Sign
  <2> QED
    BY <2>1, <2>2
<1> QED
  BY <1>3, <1>4, <1>5, Parts

(* The sign of a document tells its kind, and closes nothing.              *)
LEMMA SignTells ==
  ASSUME NEW d \in Docs, NEW e \in Docs, NEW t, Sign(d, t), Sign(e, t)
  PROVE  Kind(d) = Kind(e) /\ t # <<"mark", "}">> /\ t # <<"mark", "]">>
<1>0. Kind(e) \in {"num", "str", "lit", "arr", "obj"}
  BY Parts
<1>1. CASE Kind(d) = "obj"
  <2>1. t = <<"mark", "{">>
    BY <1>1 DEF Sign
  <2>2. Kind(e) \notin {"num", "str", "lit"}
    BY <2>1 DEF Sign
  <2>3. Kind(e) # "arr"
    BY <2>1 DEF Sign
  <2> QED
    BY <1>0, <1>1, <2>1, <2>2, <2>3
<1>2. CASE Kind(d) = "arr"
  <2>1. t = <<"mark", "[">>
    BY <1>2 DEF Sign
  <2>2. Kind(e) \notin {"num", "str", "lit"}
    BY <2>1 DEF Sign
  <2>3. Kind(e) # "obj"
    BY <2>1 DEF Sign
  <2> QED
    BY <1>0, <1>2, <2>1, <2>2, <2>3
<1>3. CASE Kind(d) \in {"num", "str", "lit"}
  <2>1. PICK v \in Nat : t = <<Kind(d), v>>
    BY <1>3 DEF Sign
  <2>2. Kind(e) # "obj" /\ Kind(e) # "arr"
    BY <1>3, <2>1 DEF Sign
  <2>3. \E w \in Nat : t = <<Kind(e), w>>
    BY <1>0, <2>2 DEF Sign
  <2> QED
    BY <1>3, <2>1, <2>3
<1> QED
  BY <1>1, <1>2, <1>3, Parts

(* It never closes an object or an array.                                  *)
LEMMA NoClosing ==
  ASSUME Nested, NEW d \in Docs
  PROVE  StartsOther(Canonical[d], <<"mark", "}">>) /\ StartsOther(Canonical[d], <<"mark", "]">>)
<1>1. Canonical[d] \in Seq(Tokens) /\ <<>> \in Seq(Tokens)
  BY CanonicalForm, EmptySeq
<1>2. PICK t \in Tokens, r \in Seq(Tokens) : Canonical[d] \o <<>> = <<t>> \o r /\ Sign(d, t)
  BY <1>1, Begins
<1>3. Canonical[d] = <<t>> \o r
  BY <1>1, <1>2, ConcatEmptySeq
<1>4. <<t>> \in Seq(Tokens) /\ Len(<<t>>) = 1 /\ Len(r) \in Nat
  BY LenProperties
<1>5. Len(Canonical[d]) # 0 /\ Canonical[d][1] = t
  BY <1>3, <1>4, ConcatProperties
<1>6. t # <<"mark", "}">> /\ t # <<"mark", "]">>
  BY <1>2, SignTells
<1> QED
  BY <1>5, <1>6, EmptySeq DEF StartsOther

(* s before u is t before v.                                               *)
Meet(s, u, t, v) == s \o u = t \o v

(* A member tells its key and the form of its value.                       *)
MembersTell(f, d, e) ==
  \A k \in Keys(Of(d)), j \in Keys(Of(e)), u, v \in Seq(Tokens) :
    Meet(Written(f, d, k), u, Written(f, e, j), v) =>
      k = j /\ Meet(f[ValueOf(Of(d), k)], u, f[ValueOf(Of(e), j)], v)

LEMMA WrittenTells ==
  ASSUME Nested, NEW d \in Docs, NEW e \in Docs, Kind(d) = "obj", Kind(e) = "obj"
  PROVE  MembersTell(Canonical, d, e)
<1> SUFFICES ASSUME NEW k \in Keys(Of(d)), NEW j \in Keys(Of(e)),
                    NEW u \in Seq(Tokens), NEW v \in Seq(Tokens),
                    Written(Canonical, d, k) \o u = Written(Canonical, e, j) \o v
             PROVE  k = j /\ Canonical[ValueOf(Of(d), k)] \o u = Canonical[ValueOf(Of(e), j)] \o v
  BY Zenon DEF MembersTell, Meet
<1> DEFINE a == Canonical[ValueOf(Of(d), k)]
           b == Canonical[ValueOf(Of(e), j)]
           s == <<"key", k>>
           t == <<"key", j>>
<1>1. k \in Nat /\ j \in Nat
  BY Parts, KeysFinite
<1>2. s \in Tokens /\ t \in Tokens /\ a \in Seq(Tokens) /\ b \in Seq(Tokens)
  BY <1>1, TokenType, Parts, CanonicalForm
<1>3. (<<s>> \o a) \o u = (<<t>> \o b) \o v
  BY DEF Written, Token
<1> HIDE DEF a, b, s, t
<1>4. Associates(Tokens)
  BY Associative, Zenon
<1> DEFINE ss == <<s>>
           tt == <<t>>
           x == a \o u
           y == b \o v
<1>5. ss \in Seq(Tokens) /\ tt \in Seq(Tokens)
  BY <1>2
<1>6. (ss \o a) \o u = (tt \o b) \o v
  BY <1>3
<1> HIDE DEF ss, tt
<1>7. (ss \o a) \o u = ss \o x
  <2>1. ss \in Seq(Tokens) /\ a \in Seq(Tokens) /\ u \in Seq(Tokens)
    BY <1>2, <1>5
  <2> QED
    BY <2>1, <1>4, Zenon DEF Associates
<1>8. (tt \o b) \o v = tt \o y
  <2>1. tt \in Seq(Tokens) /\ b \in Seq(Tokens) /\ v \in Seq(Tokens)
    BY <1>2, <1>5
  <2> QED
    BY <2>1, <1>4, Zenon DEF Associates
<1>9. x \in Seq(Tokens) /\ y \in Seq(Tokens)
  <2>1. \A p, q \in Seq(Tokens) : p \o q \in Seq(Tokens)
    BY ConcatProperties
  <2> QED
    BY <1>2, <2>1, Zenon
<1> HIDE DEF x, y
<1>10. <<s>> \o x = <<t>> \o y
  <2>1. ss \o x = tt \o y
    BY <1>6, <1>7, <1>8, Zenon
  <2> QED
    BY <2>1, Zenon DEF ss, tt
<1>11. \A p, q \in Seq(Tokens) : <<s>> \o p = <<t>> \o q => s = t /\ p = q
  BY <1>2, SameStart
<1>12. s = t /\ x = y
  BY <1>9, <1>10, <1>11
<1> QED
  BY <1>12 DEF a, b, s, t, x, y

(* Nor does a member close anything.                                       *)
LEMMA WrittenStarts ==
  ASSUME Nested, NEW d \in Docs, Kind(d) = "obj", NEW k \in Keys(Of(d))
  PROVE  StartsOther(Written(Canonical, d, k), <<"mark", "}">>)
<1>1. k \in Nat /\ Canonical[ValueOf(Of(d), k)] \in Seq(Tokens)
  BY Parts, KeysFinite, CanonicalForm
<1>2. <<"key", k>> \in Tokens /\ <<"key", k>> # <<"mark", "}">>
  BY <1>1, TokenType
<1>3. \A t \in Tokens, a \in Seq(Tokens) :
        t # <<"mark", "}">> => StartsOther(<<t>> \o a, <<"mark", "}">>)
  BY HeadStarts
<1> QED
  BY <1>1, <1>2, <1>3 DEF Written, Token

-----------------------------------------------------------------------------
(* Two documents have one canonical form exactly when they say the same.   *)

(* What says the same is written in the same way.                          *)
LEMMA SameIsWrittenAlike ==
  ASSUME Nested, NEW d \in Docs, NEW e \in Docs, SameDoc[d][e][FALSE]
  PROVE  Canonical[d] = Canonical[e]
<1> DEFINE C == Canonical
           P == {c \in Docs : \A b \in Docs : SameDoc[c][b][FALSE] => C[c] = C[b]}
<1> SUFFICES ASSUME NEW c \in Docs, \A p \in Docs : <<p, c>> \in PartOf => p \in P,
                    NEW b \in Docs, SameDoc[c][b][FALSE]
             PROVE  C[c] = C[b]
  <2>1. \A c \in Docs : (\A p \in Docs : <<p, c>> \in PartOf => p \in P) => c \in P
    OBVIOUS
  <2> HIDE DEF P
  <2>2. Docs \subseteq P
    BY <2>1, PartsFirst
  <2> QED
    BY <2>2 DEF P
<1>1. Says(SameDoc, c, b, FALSE)
  BY SameDocSays, Zenon
<1>2. Form(C, c) = Form(C, b)
  <2>1. CASE Kind(c) = "obj"
    <3>1. Kind(b) = "obj" /\ Keys(Of(c)) = Keys(Of(b))
      BY <1>1, <2>1 DEF Says
    <3>2. \A k \in Keys(Of(c)) : SameDoc[LastValue(Of(c), k)][LastValue(Of(b), k)][FALSE]
      BY <1>1, <2>1, Zenon DEF Says
    <3>3. SortedKeys(Of(c)) = SortedKeys(Of(b))
      BY <3>1, SortedKeysOfKeys
    <3>4. ASSUME NEW k \in Keys(Of(c)) PROVE Written(C, c, k) = Written(C, b, k)
      <4>1. /\ LastValue(Of(c), k) = ValueOf(Of(c), k) /\ LastValue(Of(b), k) = ValueOf(Of(b), k)
            /\ ValueOf(Of(c), k) \in Docs /\ <<ValueOf(Of(c), k), c>> \in PartOf
            /\ ValueOf(Of(b), k) \in Docs
        BY <2>1, <3>1, Parts
      <4>2. SameDoc[ValueOf(Of(c), k)][ValueOf(Of(b), k)][FALSE]
        BY <3>2, <4>1
      <4>3. C[ValueOf(Of(c), k)] = C[ValueOf(Of(b), k)]
        BY <4>1, <4>2
      <4> QED
        BY <4>3 DEF Written
    <3>5. \A i \in DOMAIN SortedKeys(Of(c)) : SortedKeys(Of(c))[i] \in Keys(Of(c))
      BY <2>1, Parts, SortedKeysList
    <3>6. Members(C, c) = Members(C, b)
      BY <3>3, <3>4, <3>5 DEF Members
    <3> QED
      BY <2>1, <3>1, <3>6 DEF Form
  <2>2. CASE Kind(c) = "arr"
    <3>1. Kind(b) = "arr" /\ Len(Of(c)) = Len(Of(b))
      BY <1>1, <2>2 DEF Says
    <3>2. \A i \in DOMAIN Of(c) : SameDoc[Of(c)[i]][Of(b)[i]][FALSE]
      BY <1>1, <2>2, Zenon DEF Says
    <3>3. DOMAIN Of(c) = DOMAIN Of(b)
      BY <2>2, <3>1, Parts, LenProperties
    <3>4. ASSUME NEW i \in DOMAIN Of(c) PROVE C[Of(c)[i]] = C[Of(b)[i]]
      <4>1. Of(c)[i] \in Docs /\ <<Of(c)[i], c>> \in PartOf /\ Of(b)[i] \in Docs
        BY <2>2, <3>1, <3>3, Parts
      <4> QED
        BY <3>2, <4>1
    <3>5. Items(C, c) = Items(C, b)
      BY <3>3, <3>4 DEF Items
    <3> QED
      BY <2>2, <3>1, <3>5 DEF Form
  <2>3. CASE Kind(c) \in {"num", "str", "lit"}
    <3>1. Kind(b) = Kind(c) /\ Leaf(c) = Leaf(b)
      BY <1>1, <2>3 DEF Says, Leaf
    <3> QED
      BY <2>3, <3>1 DEF Form
  <2> QED
    BY <2>1, <2>2, <2>3, Parts
<1> QED
  BY <1>2, CanonicalForm

(* Canonical forms that start two equal sequences are those of documents   *)
(* that say the same.                                                      *)
LEMMA WrittenAlikeIsSame ==
  ASSUME Nested
  PROVE  \A d, e \in Docs : \A x, y \in Seq(Tokens) :
           Canonical[d] \o x = Canonical[e] \o y => SameDoc[d][e][FALSE]
<1> DEFINE C == Canonical
           Tells(c, b) == \A u, v \in Seq(Tokens) : C[c] \o u = C[b] \o v => SameDoc[c][b][FALSE]
           P == {c \in Docs : \A b \in Docs : Tells(c, b)}
<1>a. SUFFICES ASSUME NEW c \in Docs, \A p \in Docs : <<p, c>> \in PartOf => p \in P,
                    NEW b \in Docs, NEW u \in Seq(Tokens), NEW v \in Seq(Tokens),
                    C[c] \o u = C[b] \o v
             PROVE  SameDoc[c][b][FALSE]
  <2>1. \A c \in Docs : (\A p \in Docs : <<p, c>> \in PartOf => p \in P) => c \in P
    OBVIOUS
  <2> HIDE DEF P
  <2>2. Docs \subseteq P
    BY <2>1, PartsFirst
  <2> QED
    BY <2>2 DEF P
<1> SUFFICES Says(SameDoc, c, b, FALSE)
  BY SameDocSays, Zenon
<1>1. \A p, q \in Docs : <<p, c>> \in PartOf => Tells(p, q)
  BY <1>a
<1>2. \A p, q \in Docs : <<p, c>> \in PartOf =>
        \A z, w \in Seq(Tokens) : C[p] \o z = C[q] \o w => SameDoc[p][q][FALSE] /\ C[p] = C[q]
  <2> SUFFICES ASSUME NEW p \in Docs, NEW q \in Docs, <<p, c>> \in PartOf,
                      NEW z \in Seq(Tokens), NEW w \in Seq(Tokens), C[p] \o z = C[q] \o w
               PROVE  SameDoc[p][q][FALSE] /\ C[p] = C[q]
    BY Zenon
  <2>1. SameDoc[p][q][FALSE]
    BY <1>1
  <2> QED
    BY <2>1, SameIsWrittenAlike
<1> HIDE DEF P, Tells, C
<1>3. \A f \in Docs : C[f] \in Seq(Tokens)
  BY CanonicalForm DEF C
<1>4. Kind(c) = Kind(b)
  <2>1. PICK s \in Tokens, r \in Seq(Tokens) : C[c] \o u = <<s>> \o r /\ Sign(c, s)
    BY Begins DEF C
  <2>2. PICK t \in Tokens, w \in Seq(Tokens) : C[b] \o v = <<t>> \o w /\ Sign(b, t)
    BY Begins DEF C
  <2>3. <<s>> \o r = <<t>> \o w
    BY <1>a, <2>1, <2>2 DEF C
  <2>4. s = t
    BY <2>3, SameStart
  <2> QED
    BY <2>1, <2>2, <2>4, SignTells
<1>5. CASE Kind(c) = "obj"
  <2> DEFINE ss == Members(C, c)
             tt == Members(C, b)
             m == <<"mark", "}">>
             open == <<"mark", "{">>
             Kc == Keys(Of(c))
             Kb == Keys(Of(b))
             keys == SortedKeys(Of(c))
             kees == SortedKeys(Of(b))
  <2>0. Kind(b) = "obj"
    BY <1>4, <1>5
  <2>1. /\ ss \in Seq(Seq(Tokens)) /\ Len(ss) = Cardinality(Kc)
        /\ \A i \in 1 .. Cardinality(Kc) : ss[i] = Written(C, c, keys[i])
    BY <1>3, <1>5, ListTypes
  <2>2. /\ tt \in Seq(Seq(Tokens)) /\ Len(tt) = Cardinality(Kb)
        /\ \A i \in 1 .. Cardinality(Kb) : tt[i] = Written(C, b, kees[i])
    BY <1>3, <2>0, ListTypes
  <2>3. /\ Cardinality(Kc) \in Nat /\ \A i \in 1 .. Cardinality(Kc) : keys[i] \in Kc
        /\ \A k \in Kc : \E i \in 1 .. Cardinality(Kc) : keys[i] = k
    BY <1>5, Parts, SortedKeysList
  <2>4. /\ Cardinality(Kb) \in Nat /\ \A i \in 1 .. Cardinality(Kb) : kees[i] \in Kb
        /\ \A k \in Kb : \E i \in 1 .. Cardinality(Kb) : kees[i] = k
    BY <2>0, Parts, SortedKeysList
  <2>5. m \in Tokens /\ open \in Tokens
    BY TokenType DEF Marks
  <2>6. C[c] \o u = <<open>> \o (FlattenSeq(ss) \o (<<m>> \o u))
    BY <1>5, Opening DEF C
  <2>7. C[b] \o v = <<open>> \o (FlattenSeq(tt) \o (<<m>> \o v))
    BY <2>0, Opening DEF C
  <2>15. MembersTell(C, c, b)
    BY <1>5, <2>0, WrittenTells DEF C
  <2> HIDE DEF ss, tt
  <2>8. /\ \A i \in 1 .. Len(ss) : StartsOther(ss[i], m)
        /\ \A i \in 1 .. Len(tt) : StartsOther(tt[i], m)
    <3>1. \A k \in Kc : StartsOther(Written(C, c, k), m)
      BY <1>5, WrittenStarts DEF C
    <3>2. \A k \in Kb : StartsOther(Written(C, b, k), m)
      BY <2>0, WrittenStarts DEF C
    <3> HIDE DEF Kc, Kb, keys, kees, m
    <3>3. ASSUME NEW i \in 1 .. Len(ss) PROVE StartsOther(ss[i], m)
      <4>1. i \in 1 .. Cardinality(Kc)
        BY <2>1
      <4>2. ss[i] = Written(C, c, keys[i]) /\ keys[i] \in Kc
        BY <2>1, <2>3, <4>1
      <4> QED
        BY <3>1, <4>2
    <3>4. ASSUME NEW i \in 1 .. Len(tt) PROVE StartsOther(tt[i], m)
      <4>1. i \in 1 .. Cardinality(Kb)
        BY <2>2
      <4>2. tt[i] = Written(C, b, kees[i]) /\ kees[i] \in Kb
        BY <2>2, <2>4, <4>1
      <4> QED
        BY <3>2, <4>2
    <3> QED
      BY <3>3, <3>4
  <2> HIDE DEF m, open
  (* The i-th members have one key, and values that say the same.          *)
  <2>9. ASSUME NEW i \in 1 .. Len(ss), i <= Len(tt),
               NEW z \in Seq(Tokens), NEW w \in Seq(Tokens), ss[i] \o z = tt[i] \o w
        PROVE  /\ keys[i] = kees[i] /\ ss[i] = tt[i]
               /\ SameDoc[ValueOf(Of(c), keys[i])][ValueOf(Of(b), kees[i])][FALSE]
    <3> DEFINE k == keys[i]
               j == kees[i]
               p == ValueOf(Of(c), k)
               q == ValueOf(Of(b), j)
    <3>1. i \in 1 .. Cardinality(Kc) /\ i \in 1 .. Cardinality(Kb)
      BY <2>1, <2>2, <2>3, <2>4, <2>9
    <3>2. k \in Kc /\ j \in Kb /\ ss[i] = Written(C, c, k) /\ tt[i] = Written(C, b, j)
      BY <2>1, <2>2, <2>3, <2>4, <3>1
    <3>3. p \in Docs /\ <<p, c>> \in PartOf /\ q \in Docs
      BY <1>5, <2>0, <3>2, Parts
    <3>4. Written(C, c, k) = Token("key", k) \o C[p] /\ Written(C, b, j) = Token("key", j) \o C[q]
      BY DEF Written
    <3> HIDE DEF k, j
    <3>5. k = j /\ C[p] \o z = C[q] \o w
      <4>1. Meet(Written(C, c, k), z, Written(C, b, j), w)
        BY <2>9, <3>2 DEF Meet
      <4>2. k \in Keys(Of(c)) /\ j \in Keys(Of(b))
        BY <3>2
      <4>3. k = j /\ Meet(C[p], z, C[q], w)
        BY <2>15, <4>1, <4>2, Zenon DEF MembersTell
      <4> QED
        BY <4>3 DEF Meet
    <3> HIDE DEF p, q
    <3>6. SameDoc[p][q][FALSE] /\ C[p] = C[q]
      BY <1>2, <3>3, <3>5, Zenon
    <3>7. ss[i] = tt[i]
      BY <3>2, <3>4, <3>5, <3>6
    <3> QED
      BY <3>5, <3>6, <3>7 DEF k, j, p, q
  <2>10. ss = tt
    <3>1. ASSUME NEW i \in 1 .. Len(ss), i <= Len(tt),
                 NEW z \in Seq(Tokens), NEW w \in Seq(Tokens), ss[i] \o z = tt[i] \o w
          PROVE  ss[i] = tt[i]
      BY <2>9, <3>1
    <3>0. Distinct(ss, tt, m, Tokens)
      BY <2>1, <2>2, <2>8, <3>1, Zenon DEF Distinct
    <3> DEFINE mu == <<m>> \o u
               mv == <<m>> \o v
               f == FlattenSeq(ss) \o mu
               g == FlattenSeq(tt) \o mv
    <3>2. <<open>> \o f = <<open>> \o g
      BY <1>a, <2>6, <2>7 DEF C
    <3>3. /\ mu \in Seq(Tokens) /\ ~StartsOther(mu, m)
          /\ mv \in Seq(Tokens) /\ ~StartsOther(mv, m)
      BY <2>5, MarkEnds, Zenon
    <3> HIDE DEF mu, mv
    <3>4. FlattenSeq(ss) \in Seq(Tokens) /\ FlattenSeq(tt) \in Seq(Tokens)
      BY <2>1, <2>2, FlattenType
    <3>5. f \in Seq(Tokens) /\ g \in Seq(Tokens)
      BY <3>3, <3>4, ConcatProperties
    <3> HIDE DEF f, g
    <3>6. f = g
      BY <2>5, <3>2, <3>5, SameTail, Zenon
    <3>7. FlattenSeq(ss) \o mu = FlattenSeq(tt) \o mv
      BY <3>6 DEF f, g
    <3> QED
      BY <3>0, <3>3, <3>7, Decodable, Zenon
  <2>11. Cardinality(Kc) = Cardinality(Kb)
    BY <2>1, <2>2, <2>10
  <2>12. ASSUME NEW i \in 1 .. Cardinality(Kc)
         PROVE  /\ keys[i] = kees[i]
                /\ SameDoc[ValueOf(Of(c), keys[i])][ValueOf(Of(b), kees[i])][FALSE]
    <3>1. i \in 1 .. Len(ss) /\ i <= Len(tt)
      BY <2>1, <2>2, <2>3, <2>11
    <3>2. ss[i] \o u = tt[i] \o u
      BY <2>10
    <3> QED
      BY <2>9, <3>1, <3>2
  <2>13. Kc = Kb
    <3> HIDE DEF Kc, Kb, keys, kees
    <3>1. ASSUME NEW k \in Kc PROVE k \in Kb
      <4>1. PICK i \in 1 .. Cardinality(Kc) : keys[i] = k
        BY <2>3
      <4>2. keys[i] = kees[i] /\ i \in 1 .. Cardinality(Kb)
        BY <2>11, <2>12
      <4> QED
        BY <2>4, <4>1, <4>2
    <3>2. ASSUME NEW k \in Kb PROVE k \in Kc
      <4>1. PICK i \in 1 .. Cardinality(Kb) : kees[i] = k
        BY <2>4
      <4>2. i \in 1 .. Cardinality(Kc)
        BY <2>11
      <4>3. keys[i] = kees[i]
        BY <2>12, <4>2
      <4> QED
        BY <2>3, <4>1, <4>2, <4>3
    <3> QED
      BY <3>1, <3>2
  <2>14. ASSUME NEW k \in Kc PROVE SameDoc[LastValue(Of(c), k)][LastValue(Of(b), k)][FALSE]
    <3>1. PICK i \in 1 .. Cardinality(Kc) : keys[i] = k
      BY <2>3
    <3>2. SameDoc[ValueOf(Of(c), k)][ValueOf(Of(b), k)][FALSE]
      BY <2>12, <3>1
    <3>3. LastValue(Of(c), k) = ValueOf(Of(c), k) /\ LastValue(Of(b), k) = ValueOf(Of(b), k)
      BY <1>5, <2>0, <2>13, Parts
    <3> QED
      BY <3>2, <3>3
  <2> QED
    BY <1>5, <2>0, <2>13, <2>14 DEF Says
<1>6. CASE Kind(c) = "arr"
  <2> DEFINE ss == Items(C, c)
             tt == Items(C, b)
             m == <<"mark", "]">>
             open == <<"mark", "[">>
  <2>1. /\ ss \in Seq(Seq(Tokens)) /\ Len(ss) = Len(Of(c))
        /\ \A i \in 1 .. Len(Of(c)) : ss[i] = C[Of(c)[i]]
    BY <1>3, <1>6, ListTypes
  <2>2. /\ tt \in Seq(Seq(Tokens)) /\ Len(tt) = Len(Of(b))
        /\ \A i \in 1 .. Len(Of(b)) : tt[i] = C[Of(b)[i]]
    <3>1. Kind(b) = "arr"
      BY <1>4, <1>6
    <3> QED
      BY <1>3, <3>1, ListTypes
  <2>3. /\ DOMAIN Of(c) = 1 .. Len(Of(c)) /\ Len(Of(c)) \in Nat
        /\ DOMAIN Of(b) = 1 .. Len(Of(b)) /\ Len(Of(b)) \in Nat
    BY <1>4, <1>6, Parts, LenProperties
  <2>4. /\ \A i \in 1 .. Len(Of(c)) : Of(c)[i] \in Docs /\ <<Of(c)[i], c>> \in PartOf
        /\ \A i \in 1 .. Len(Of(b)) : Of(b)[i] \in Docs
    BY <1>4, <1>6, <2>3, Parts
  <2>5. m \in Tokens /\ open \in Tokens
    BY TokenType DEF Marks
  <2>6. C[c] \o u = <<open>> \o (FlattenSeq(ss) \o (<<m>> \o u))
    BY <1>6, Opening DEF C
  <2>7. C[b] \o v = <<open>> \o (FlattenSeq(tt) \o (<<m>> \o v))
    <3>1. Kind(b) = "arr"
      BY <1>4, <1>6
    <3> QED
      BY <3>1, Opening DEF C
  <2> HIDE DEF ss, tt
  <2>8. /\ \A i \in 1 .. Len(ss) : StartsOther(ss[i], m)
        /\ \A i \in 1 .. Len(tt) : StartsOther(tt[i], m)
    BY <2>1, <2>2, <2>4, NoClosing DEF C
  <2> HIDE DEF m, open
  <2>9. ss = tt
    <3>1. ASSUME NEW i \in 1 .. Len(ss), i <= Len(tt),
                 NEW z \in Seq(Tokens), NEW w \in Seq(Tokens), ss[i] \o z = tt[i] \o w
          PROVE  ss[i] = tt[i]
      <4> DEFINE p == Of(c)[i]
                 q == Of(b)[i]
      <4>1. i \in 1 .. Len(Of(c)) /\ i \in 1 .. Len(Of(b))
        BY <2>1, <2>2, <2>3, <3>1
      <4>2. ss[i] = C[p] /\ tt[i] = C[q] /\ p \in Docs /\ q \in Docs /\ <<p, c>> \in PartOf
        BY <2>1, <2>2, <2>4, <4>1
      <4> HIDE DEF p, q
      <4>3. C[p] \o z = C[q] \o w
        BY <3>1, <4>2
      <4>4. C[p] = C[q]
        BY <1>2, <4>2, <4>3, Zenon
      <4> QED
        BY <4>2, <4>4
    <3>0. Distinct(ss, tt, m, Tokens)
      BY <2>1, <2>2, <2>8, <3>1, Zenon DEF Distinct
    <3> DEFINE mu == <<m>> \o u
               mv == <<m>> \o v
               f == FlattenSeq(ss) \o mu
               g == FlattenSeq(tt) \o mv
    <3>2. <<open>> \o f = <<open>> \o g
      BY <1>a, <2>6, <2>7 DEF C
    <3>3. /\ mu \in Seq(Tokens) /\ ~StartsOther(mu, m)
          /\ mv \in Seq(Tokens) /\ ~StartsOther(mv, m)
      BY <2>5, MarkEnds, Zenon
    <3> HIDE DEF mu, mv
    <3>4. FlattenSeq(ss) \in Seq(Tokens) /\ FlattenSeq(tt) \in Seq(Tokens)
      BY <2>1, <2>2, FlattenType
    <3>5. f \in Seq(Tokens) /\ g \in Seq(Tokens)
      BY <3>3, <3>4, ConcatProperties
    <3> HIDE DEF f, g
    <3>6. f = g
      BY <2>5, <3>2, <3>5, SameTail, Zenon
    <3>7. FlattenSeq(ss) \o mu = FlattenSeq(tt) \o mv
      BY <3>6 DEF f, g
    <3> QED
      BY <3>0, <3>3, <3>7, Decodable, Zenon
  <2>10. Len(Of(c)) = Len(Of(b))
    BY <2>1, <2>2, <2>9
  <2>11. ASSUME NEW i \in DOMAIN Of(c) PROVE SameDoc[Of(c)[i]][Of(b)[i]][FALSE]
    <3>1. /\ C[Of(c)[i]] = C[Of(b)[i]] /\ Of(b)[i] \in Docs
          /\ Of(c)[i] \in Docs /\ <<Of(c)[i], c>> \in PartOf
      BY <2>1, <2>2, <2>3, <2>4, <2>9, <2>10
    <3>2. C[Of(c)[i]] \o u = C[Of(b)[i]] \o u
      BY <3>1
    <3> QED
      BY <1>2, <3>1, <3>2
  <2> QED
    BY <1>4, <1>6, <2>10, <2>11 DEF Says
<1>7. CASE Kind(c) \in {"num", "str", "lit"}
  <2>1. PICK m \in Nat : Leaf(c) = <<Leaf(c)[1]>> /\ Leaf(c)[1] = <<Kind(c), m>> /\ Leaf(c)[1] \in Tokens
    BY <1>7, Opening
  <2>2. PICK n \in Nat : Leaf(b) = <<Leaf(b)[1]>> /\ Leaf(b)[1] = <<Kind(b), n>> /\ Leaf(b)[1] \in Tokens
    BY <1>4, <1>7, Opening
  <2>3. <<Leaf(c)[1]>> \o u = <<Leaf(b)[1]>> \o v
    <3>1. C[c] \o u = Leaf(c) \o u
      BY <1>7, Opening DEF C
    <3>2. C[b] \o v = Leaf(b) \o v
      BY <1>4, <1>7, Opening DEF C
    <3> QED
      BY <1>a, <2>1, <2>2, <3>1, <3>2 DEF C
  <2>4. Leaf(c)[1] = Leaf(b)[1]
    <3>1. \A s, t \in Tokens : <<s>> \o u = <<t>> \o v => s = t
      BY SameStart
    <3> QED
      BY <2>1, <2>2, <2>3, <3>1
  <2>5. Leaf(c) = Leaf(b)
    BY <2>1, <2>2, <2>4
  <2> QED
    BY <1>4, <1>7, <2>5 DEF Says, Leaf, Token
<1> QED
  BY <1>5, <1>6, <1>7, Parts

-----------------------------------------------------------------------------
(* What the digest says.                                                   *)

(* Two documents are written alike exactly when they say the same.         *)
LEMMA CanonicalTells ==
  ASSUME Nested
  PROVE  \A d, e \in Docs : Canonical[d] = Canonical[e] <=> SameDoc[d][e][FALSE]
<1> SUFFICES ASSUME NEW d \in Docs, NEW e \in Docs
             PROVE  Canonical[d] = Canonical[e] <=> SameDoc[d][e][FALSE]
  BY Zenon
<1>1. ASSUME Canonical[d] = Canonical[e] PROVE SameDoc[d][e][FALSE]
  <2> DEFINE x == <<>>
  <2>1. x \in Seq(Tokens)
    BY EmptySeq
  <2> HIDE DEF x
  <2>2. Canonical[d] \o x = Canonical[e] \o x
    BY <1>1, Zenon
  <2> QED
    BY <2>1, <2>2, WrittenAlikeIsSame, Zenon
<1>2. ASSUME SameDoc[d][e][FALSE] PROVE Canonical[d] = Canonical[e]
  BY <1>2, SameIsWrittenAlike, Zenon
<1> QED
  BY <1>1, <1>2

(* What is the same to the last digit is the same; and the converse, where *)
(* float64 has every digit.                                                *)
LEMMA ExactSame ==
  ASSUME Nested
  PROVE  \A d, e \in Docs :
           /\ SameDoc[d][e][TRUE] => SameDoc[d][e][FALSE]
           /\ Precise[d] /\ Precise[e] /\ SameDoc[d][e][FALSE] => SameDoc[d][e][TRUE]
<1> DEFINE Exact(d, e) ==
             /\ SameDoc[d][e][TRUE] => SameDoc[d][e][FALSE]
             /\ Precise[d] /\ Precise[e] /\ SameDoc[d][e][FALSE] => SameDoc[d][e][TRUE]
           P == {d \in Docs : \A e \in Docs : Exact(d, e)}
<1>a. SUFFICES ASSUME NEW d \in Docs, \A p \in Docs : <<p, d>> \in PartOf => p \in P,
                      NEW e \in Docs
               PROVE  Exact(d, e)
  <2>1. \A d \in Docs : (\A p \in Docs : <<p, d>> \in PartOf => p \in P) => d \in P
    BY Zenon
  <2> HIDE DEF P
  <2>2. Docs \subseteq P
    BY <2>1, PartsFirst
  <2> QED
    BY <2>2, Zenon DEF P
<1>1. \A p, q \in Docs : <<p, d>> \in PartOf => Exact(p, q)
  BY <1>a, Zenon
<1> HIDE DEF P, Exact
<1>2. \A exact \in BOOLEAN : SameDoc[d][e][exact] <=> Says(SameDoc, d, e, exact)
  BY SameDocSays, Zenon
<1>3. Precise[d] = Within(Precise, d) /\ Precise[e] = Within(Precise, e)
  BY PreciseWithin, Zenon
<1>4. CASE Kind(d) \in {"num", "str", "lit"}
  <2>1. Kind(e) = Kind(d) => Of(d) \in Nat /\ Of(e) \in Nat
    BY <1>4, Parts
  <2>2. \A n \in Nat : n <= Precision => Float(n) = n
    BY FloatAssumption
  <2>3. Says(SameDoc, d, e, TRUE) => Says(SameDoc, d, e, FALSE)
    BY <1>4 DEF Says
  <2>4. Within(Precise, d) /\ Within(Precise, e) /\ Says(SameDoc, d, e, FALSE)
          => Says(SameDoc, d, e, TRUE)
    BY <1>4, <2>1, <2>2 DEF Says, Within
  <2> QED
    BY <1>2, <1>3, <2>3, <2>4, Zenon DEF Exact
<1>5. CASE Kind(d) = "arr"
  <2>1. ASSUME Kind(e) = "arr", Len(Of(d)) = Len(Of(e)), NEW i \in DOMAIN Of(d)
        PROVE  /\ Exact(Of(d)[i], Of(e)[i])
               /\ Within(Precise, d) /\ Within(Precise, e) => Precise[Of(d)[i]] /\ Precise[Of(e)[i]]
    <3>1. Of(d) \in Seq(Docs) /\ Of(e) \in Seq(Docs)
      BY <1>5, <2>1, Parts
    <3>2. i \in DOMAIN Of(e)
      BY <2>1, <3>1, LenProperties
    <3>3. Of(d)[i] \in Docs /\ Of(e)[i] \in Docs /\ <<Of(d)[i], d>> \in PartOf
      BY <1>5, <2>1, <3>2, Parts
    <3> QED
      BY <1>1, <1>5, <2>1, <3>2, <3>3, Zenon DEF Within
  <2>2. Says(SameDoc, d, e, TRUE) => Says(SameDoc, d, e, FALSE)
    BY <1>5, <2>1 DEF Says, Exact
  <2>3. Within(Precise, d) /\ Within(Precise, e) /\ Says(SameDoc, d, e, FALSE)
          => Says(SameDoc, d, e, TRUE)
    BY <1>5, <2>1 DEF Says, Exact
  <2> QED
    BY <1>2, <1>3, <2>2, <2>3, Zenon DEF Exact
<1>6. CASE Kind(d) = "obj"
  <2>1. ASSUME Kind(e) = "obj", Keys(Of(d)) = Keys(Of(e)), NEW k \in Keys(Of(d))
        PROVE  LET p == LastValue(Of(d), k)
                   q == LastValue(Of(e), k)
               IN  /\ Exact(p, q)
                   /\ Within(Precise, d) /\ Within(Precise, e) => Precise[p] /\ Precise[q]
    <3> DEFINE p == LastValue(Of(d), k)
               q == LastValue(Of(e), k)
    <3>1. Of(d) \in Seq(Nat \X Docs) /\ Of(e) \in Seq(Nat \X Docs) /\ k \in Keys(Of(e))
      BY <1>6, <2>1, Parts
    <3>2. p \in Docs /\ <<p, d>> \in PartOf /\ q \in Docs
      BY <1>6, <2>1, <3>1, Parts
    <3>3. /\ \E i \in DOMAIN Of(d) : p = MemberValue(Of(d)[i])
          /\ \E i \in DOMAIN Of(e) : q = MemberValue(Of(e)[i])
      BY <2>1, <3>1, ValueIsLast
    <3> HIDE DEF p, q
    <3>4. Exact(p, q)
      BY <1>1, <3>2, Zenon
    <3>5. Within(Precise, d) /\ Within(Precise, e) => Precise[p] /\ Precise[q]
      BY <1>6, <2>1, <3>3, Zenon DEF Within
    <3> QED
      BY <3>4, <3>5, Zenon DEF p, q
  <2>2. Says(SameDoc, d, e, TRUE) => Says(SameDoc, d, e, FALSE)
    BY <1>6, <2>1 DEF Says, Exact
  <2>3. Within(Precise, d) /\ Within(Precise, e) /\ Says(SameDoc, d, e, FALSE)
          => Says(SameDoc, d, e, TRUE)
    BY <1>6, <2>1 DEF Says, Exact
  <2> QED
    BY <1>2, <1>3, <2>2, <2>3, Zenon DEF Exact
<1> QED
  BY <1>4, <1>5, <1>6, Parts

(* A document is written as something, and never as text that is no JSON   *)
(* would be.                                                               *)
LEMMA CanonicalStarts ==
  ASSUME Nested
  PROVE  \A d \in Docs : Canonical[d] # <<>> /\ \A t : Canonical[d] # Token("text", t)
<1> SUFFICES ASSUME NEW d \in Docs
             PROVE  Canonical[d] # <<>> /\ \A t : Canonical[d] # Token("text", t)
  BY Zenon
<1> DEFINE c == Canonical[d]
<1>1. c \in Seq(Tokens)
  BY CanonicalForm
<1>2. StartsOther(c, <<"mark", "}">>)
  BY NoClosing
<1> HIDE DEF c
<1>3. Len(c) # 0 /\ Len(c) \in Nat
  BY <1>1, <1>2, LenProperties, EmptySeq DEF StartsOther
<1>4. c[1] \in Tokens
  BY <1>1, <1>3, ElementOfSeq
<1>5. \A t : <<"text", t>> \notin Tokens
  BY DEF Tokens
<1>6. c # <<>>
  BY <1>3
<1>7. ASSUME NEW t, c = Token("text", t) PROVE FALSE
  BY <1>4, <1>5, <1>7 DEF Token
<1> QED
  BY <1>6, <1>7 DEF c

(* Two bodies are written alike exactly when they say the same.            *)
LEMMA BodyTells ==
  ASSUME Nested, NEW b, NEW c, IsBody(b), IsBody(c)
  PROVE  CanonicalJSON(b) = CanonicalJSON(c) <=> SameBody(b, c, FALSE)
<1> DEFINE T(t) == Token("text", t)
<1>1. /\ \A s, t : T(s) = T(t) <=> s = t
      /\ \A t : T(t) # <<>>
  BY DEF Token
<1>2. \A d \in Docs : Canonical[d] # <<>> /\ \A t : Canonical[d] # T(t)
  BY CanonicalStarts, Zenon
<1>3. \A d, e \in Docs : Canonical[d] = Canonical[e] <=> SameDoc[d][e][FALSE]
  BY CanonicalTells, Zenon
<1>4. \A x : IsBody(x) =>
        \/ Kind(x) = "blank" /\ CanonicalJSON(x) = <<>>
        \/ Kind(x) = "text" /\ CanonicalJSON(x) = T(Of(x))
        \/ Kind(x) = "json" /\ Of(x) \in Docs /\ CanonicalJSON(x) = Canonical[Of(x)]
  BY DEF IsBody, CanonicalJSON
<1> HIDE DEF T
<1> DEFINE Alike == CanonicalJSON(b) = CanonicalJSON(c)
<1>5. CASE Kind(b) = "blank"
  <2>1. CanonicalJSON(b) = <<>>
    BY <1>4, <1>5
  <2>2. Alike <=> Kind(c) = "blank"
    BY <1>1, <1>2, <1>4, <2>1
  <2>3. SameBody(b, c, FALSE) <=> Kind(c) = "blank"
    BY <1>5, Zenon DEF SameBody
  <2> QED
    BY <2>2, <2>3
<1>6. CASE Kind(b) = "text"
  <2>1. CanonicalJSON(b) = T(Of(b))
    BY <1>4, <1>6
  <2>2. Alike <=> Kind(c) = "text" /\ Of(b) = Of(c)
    BY <1>1, <1>2, <1>4, <2>1
  <2>3. SameBody(b, c, FALSE) <=> Kind(c) = "text" /\ Of(b) = Of(c)
    BY <1>6 DEF SameBody
  <2> QED
    BY <2>2, <2>3
<1>7. CASE Kind(b) = "json"
  <2>1. CanonicalJSON(b) = Canonical[Of(b)] /\ Of(b) \in Docs
    BY <1>4, <1>7
  <2>2. Alike <=> Kind(c) = "json" /\ SameDoc[Of(b)][Of(c)][FALSE]
    <3>1. Alike => Kind(c) = "json"
      BY <1>2, <1>4, <2>1
    <3>2. Kind(c) = "json" => Of(c) \in Docs /\ CanonicalJSON(c) = Canonical[Of(c)]
      BY <1>4
    <3>3. ASSUME Kind(c) = "json" PROVE Alike <=> SameDoc[Of(b)][Of(c)][FALSE]
      <4>1. Canonical[Of(b)] = Canonical[Of(c)] <=> SameDoc[Of(b)][Of(c)][FALSE]
        BY <1>3, <2>1, <3>2, <3>3, Zenon
      <4>2. Alike <=> Canonical[Of(b)] = Canonical[Of(c)]
        BY <2>1, <3>2, <3>3
      <4> QED
        BY <4>1, <4>2, Zenon
    <3> QED
      BY <3>1, <3>3, Zenon
  <2>3. SameBody(b, c, FALSE) <=> Kind(c) = "json" /\ SameDoc[Of(b)][Of(c)][FALSE]
    BY <1>7 DEF SameBody
  <2> QED
    BY <2>2, <2>3
<1> QED
  BY <1>4, <1>5, <1>6, <1>7

(* A payload's digest tells who sends what to which route.                 *)
LEMMA HashTells ==
  ASSUME Nested, NEW p, NEW q, IsBody(p.body), IsBody(q.body)
  PROVE  RequestHash(p) = RequestHash(q) <=> SameRequest(p, q)
<1> DEFINE x == CanonicalJSON(p.body)
           y == CanonicalJSON(q.body)
           a == <<"actor", p.actor>>
           b == <<"actor", q.actor>>
           r == <<"route", p.route>>
           s == <<"route", q.route>>
           T == Tokens \cup {a, b, r, s, <<"text", Of(p.body)>>, <<"text", Of(q.body)>>}
<1>1. x = y <=> SameBody(p.body, q.body, FALSE)
  BY BodyTells, Zenon
<1>2. /\ a = b <=> p.actor = q.actor
      /\ r = s <=> p.route = q.route
  OBVIOUS
<1>3. RequestHash(p) = (<<a>> \o <<r>>) \o x /\ RequestHash(q) = (<<b>> \o <<s>>) \o y
  BY Zenon DEF RequestHash, Token
<1>4. a \in T /\ b \in T /\ r \in T /\ s \in T
  OBVIOUS
<1>5. \A d \in Docs : Canonical[d] \in Seq(T)
  <2>1. \A d \in Docs : Canonical[d] \in Seq(Tokens)
    BY CanonicalForm
  <2>2. Tokens \subseteq T
    OBVIOUS
  <2> HIDE DEF T
  <2> QED
    BY <2>1, <2>2
<1>6. \A t \in {Of(p.body), Of(q.body)} : Token("text", t) \in Seq(T)
  <2>1. \A t \in {Of(p.body), Of(q.body)} : <<"text", t>> \in T
    OBVIOUS
  <2> HIDE DEF T
  <2> QED
    BY <2>1 DEF Token
<1>7. <<>> \in Seq(T)
  BY EmptySeq
<1> HIDE DEF T
<1>8. x \in Seq(T) /\ y \in Seq(T)
  BY <1>5, <1>6, <1>7 DEF IsBody, CanonicalJSON
<1> DEFINE aa == <<a>>
           bb == <<b>>
           rr == <<r>>
           ss == <<s>>
           xx == rr \o x
           yy == ss \o y
<1>9. /\ aa \in Seq(T) /\ bb \in Seq(T) /\ rr \in Seq(T) /\ ss \in Seq(T)
  BY <1>4
<1>10. Associates(T)
  BY Associative, Zenon
<1> HIDE DEF x, y, a, b, r, s
<1>11. RequestHash(p) = (aa \o rr) \o x /\ RequestHash(q) = (bb \o ss) \o y
  BY <1>3
<1> HIDE DEF aa, bb, rr, ss
<1>12. RequestHash(p) = aa \o xx /\ RequestHash(q) = bb \o yy
  <2>1. (aa \o rr) \o x = aa \o xx
    <3>1. aa \in Seq(T) /\ rr \in Seq(T) /\ x \in Seq(T)
      BY <1>8, <1>9
    <3> QED
      BY <3>1, <1>10, Zenon DEF Associates
  <2>2. (bb \o ss) \o y = bb \o yy
    <3>1. bb \in Seq(T) /\ ss \in Seq(T) /\ y \in Seq(T)
      BY <1>8, <1>9
    <3> QED
      BY <3>1, <1>10, Zenon DEF Associates
  <2> QED
    BY <1>11, <2>1, <2>2
<1>13. xx \in Seq(T) /\ yy \in Seq(T)
  BY <1>8, <1>9, ConcatProperties
<1>14. ASSUME RequestHash(p) = RequestHash(q) PROVE a = b /\ r = s /\ x = y
  <2> HIDE DEF xx, yy
  <2>1. <<a>> \o xx = <<b>> \o yy
    <3>1. aa \o xx = bb \o yy
      BY <1>12, <1>14
    <3> QED
      BY <3>1, Zenon DEF aa, bb
  <2>2. \A u, v \in Seq(T) : <<a>> \o u = <<b>> \o v => a = b /\ u = v
    BY <1>4, SameStart
  <2>3. \A u, v \in Seq(T) : <<r>> \o u = <<s>> \o v => r = s /\ u = v
    BY <1>4, SameStart
  <2>4. a = b /\ xx = yy
    BY <1>13, <2>1, <2>2
  <2>5. <<r>> \o x = <<s>> \o y
    BY <2>4, Zenon DEF xx, yy, rr, ss
  <2>6. r = s /\ x = y
    BY <1>8, <2>3, <2>5
  <2> QED
    BY <2>4, <2>6
<1>15. ASSUME a = b, r = s, x = y PROVE RequestHash(p) = RequestHash(q)
  BY <1>3, <1>15, Zenon
<1>16. RequestHash(p) = RequestHash(q) <=> a = b /\ r = s /\ x = y
  BY <1>14, <1>15, Zenon
<1> QED
  BY <1>1, <1>2, <1>16, Zenon DEF SameRequest, SamePayload

(* Where float64 has every digit, to the last one.                         *)
LEMMA PreciseTells ==
  ASSUME Nested, NEW p, NEW q, IsBody(p.body), IsBody(q.body),
         PrecisePayload(p), PrecisePayload(q)
  PROVE  SameRequest(p, q) <=> IdenticalRequest(p, q)
<1> DEFINE b == p.body
           c == q.body
<1>1. SameBody(b, c, FALSE) <=> SameBody(b, c, TRUE)
  <2>1. CASE Kind(b) = "json" /\ Kind(c) = "json"
    <3>1. Of(b) \in Docs /\ Of(c) \in Docs /\ Precise[Of(b)] /\ Precise[Of(c)]
      BY <2>1 DEF IsBody, PrecisePayload
    <3>2. SameDoc[Of(b)][Of(c)][FALSE] <=> SameDoc[Of(b)][Of(c)][TRUE]
      BY <3>1, ExactSame, Zenon
    <3> QED
      BY <2>1, <3>2 DEF SameBody
  <2>2. CASE ~(Kind(b) = "json" /\ Kind(c) = "json")
    BY <2>2 DEF SameBody, IsBody
  <2> QED
    BY <2>1, <2>2
<1> QED
  BY <1>1, Zenon DEF SameRequest, IdenticalRequest, SamePayload

(* Order of keys, blanks and repeated keys do not change a digest, and     *)
(* payloads that mean different things have different digests, for all     *)
(* documents that are nested to some depth, as all that are received are;  *)
(* only numbers beyond the exact range of float64 may be confused.         *)
THEOREM DigestMeansRequest == ASSUME Nested PROVE Spec => []DigestIsMeaning
<1>1. DigestsAgree
  <2> SUFFICES ASSUME NEW p \in Payloads, NEW q \in Payloads
               PROVE  /\ RequestHash(p) = RequestHash(q) <=> SameRequest(p, q)
                      /\ CanonicalHash(p.body) = CanonicalHash(q.body) <=> SameBody(p.body, q.body, FALSE)
                      /\ PrecisePayload(p) /\ PrecisePayload(q)
                           => (RequestHash(p) = RequestHash(q) <=> IdenticalRequest(p, q))
    BY Zenon DEF DigestsAgree
  <2>1. IsBody(p.body) /\ IsBody(q.body)
    BY PayloadsAssumption
  <2>2. RequestHash(p) = RequestHash(q) <=> SameRequest(p, q)
    BY <2>1, HashTells, Zenon
  <2>3. CanonicalHash(p.body) = CanonicalHash(q.body) <=> SameBody(p.body, q.body, FALSE)
    BY <2>1, BodyTells, Zenon DEF CanonicalHash
  <2>4. PrecisePayload(p) /\ PrecisePayload(q) => (SameRequest(p, q) <=> IdenticalRequest(p, q))
    BY <2>1, PreciseTells, Zenon
  <2> QED
    BY <2>2, <2>3, <2>4, Zenon
<1>2. DigestIsMeaning
  BY <1>1, Zenon DEF DigestIsMeaning
<1>3. DigestIsMeaning'
  BY <1>1, Zenon DEF DigestIsMeaning
<1> QED
  BY <1>2, <1>3, PTL

-----------------------------------------------------------------------------
(* What the clients read: replayed answers and conflicts.                  *)

(* A stored body is the response to a request with digest h, or empty      *)
(* because such a response was too long to be stored.                      *)
Fits(body, h) == \/ body \in Requests /\ HashOf[body] = h
                 \/ body = None /\ \E s \in LargeBodies : HashOf[s] = h

(* A response is stored under the digest of its request, and keeps it on   *)
(* its way through Begin to the client.                                    *)
StoredInv == row.state = "COMPLETED" => Fits(row.body, row.hash)
FoundInv  == \A r \in Requests : pc[r] = "found" => Fits(record[r], HashOf[r])
ReplayInv == \A r \in Requests : answer[r].kind = "replay" => Fits(answer[r].body, HashOf[r])
AnswerInv == StoredInv /\ FoundInv /\ ReplayInv

(* The holder completes the row under its own digest; no other step makes  *)
(* a row COMPLETED or touches a completed one but to remove it.            *)
LEMMA StoredStep ==
  ASSUME Bounded, IInv, StoredInv, [Next]_vars
  PROVE  StoredInv'
<1> USE NoneAssumption, LargeAssumption
<1> USE DEF IInv, TypeOK, Row, RowStates, StoredInv, Fits
<1>1. ASSUME NEW r \in Requests, TakeClaim(r) PROVE StoredInv'
  BY <1>1 DEF TakeClaim, ClaimedRow
<1>2. ASSUME NEW r \in Requests, CommitsEffect(r) PROVE StoredInv'
  <2>1. CASE AtomicHandlers
    BY <1>2, <2>1 DEF CommitsEffect, CommitEffect, CompleteRow, ExecInv, Holds, Executing, InHandler
  <2>2. CASE ~AtomicHandlers
    <3>1. row' = row
      BY <1>2, <2>2, Zenon DEF CommitsEffect, CommitEffect
    <3> QED
      BY <3>1
  <2> QED
    BY <2>1, <2>2
<1>3. ASSUME NEW r \in Requests, Complete(r) PROVE StoredInv'
  BY <1>3 DEF Complete, CompleteRow, StoredBody, ExecInv, Holds, Executing, Storing
<1>4. ASSUME NEW r \in Requests, Fail(r) PROVE StoredInv'
  BY <1>4 DEF Fail, FailRow
<1>5. CASE Purge
  BY <1>5 DEF Purge, NoRow
<1>6. ASSUME UNCHANGED row PROVE StoredInv'
  BY <1>6
<1>7. ASSUME NEW r \in Requests, InsertWins(r) \/ InsertUnknown(r) \/ CommitClaim(r) \/ CommitUnknown(r)
      PROVE  TakeClaim(r)
  BY <1>7 DEF InsertWins, InsertUnknown, CommitClaim, CommitUnknown
<1>8. ASSUME NEW r \in Requests,
             \/ Refuse(r) \/ Arrive(r) \/ InsertDuplicate(r) \/ TxRead(r) \/ TxOwn(r)
             \/ TxInsert(r) \/ CommitFound(r) \/ HandlerReturns(r) \/ TxTransient(r)
             \/ BeginFails(r) \/ EffectRetries(r) \/ HandlerPanics(r) \/ StoreFails(r) \/ Crash(r)
      PROVE  UNCHANGED row
  BY <1>8 DEF Refuse, Arrive, InsertDuplicate, TxRead, TxOwn, TxInsert, CommitFound,
       HandlerReturns, TxTransient, BeginFails, EffectRetries, HandlerPanics, StoreFails, Crash, dbVars
<1>9. Tick \/ UNCHANGED vars => UNCHANGED row
  BY DEF Tick, vars, dbVars
<1>10. ASSUME NEW r \in Requests, EffectCommit(r) \/ EffectUnknown(r)
       PROVE  CommitsEffect(r)
  BY <1>10 DEF EffectCommit, EffectUnknown, CommitsEffect
<1> QED
  BY <1>1, <1>2, <1>3, <1>4, <1>5, <1>6, <1>7, <1>8, <1>9, <1>10
  DEF Next, Begin, Handle, Failure, Finished

(* The steps by what they do to the answers: a request moves on (which an  *)
(* InTx that runs its body again does not), fails, or leaves with the      *)
(* answer it has.                                                          *)
MovesOn(r) == /\ pc[r] # "done"
              /\ (\E label \in Active \ {"found"} : Goto(r, label)) \/ UNCHANGED pc
              /\ UNCHANGED <<answer, record>>
Errs(r)    == Reply(r, "error", None) /\ UNCHANGED record
Leaves(r)  == Goto(r, "done") /\ UNCHANGED <<answer, record>>

(* Only Refuse, TxRead, CommitFound, the handler's return and a crash do   *)
(* anything else.                                                          *)
LEMMA AnswerSteps ==
  ASSUME TypeOK, [Next]_vars
  PROVE  \/ \E r \in Requests :
              \/ MovesOn(r) \/ Errs(r) \/ Leaves(r)
              \/ Refuse(r) \/ TxRead(r) \/ CommitFound(r) \/ HandlerReturns(r) \/ Crash(r)
         \/ UNCHANGED <<pc, answer, record>>
<1> USE DEF MovesOn, Errs, Leaves, Active, InBegin, InHandler, Storing, Executing
<1>1. ASSUME NEW r \in Requests,
             \/ Arrive(r) \/ InsertWins(r) \/ InsertDuplicate(r) \/ TxOwn(r)
             \/ CommitClaim(r) \/ EffectCommit(r) \/ EffectUnknown(r) \/ EffectRetries(r)
      PROVE  MovesOn(r)
  <2>1. pc[r] # "done" /\ UNCHANGED <<answer, record>>
    BY <1>1 DEF Arrive, InsertWins, InsertDuplicate, TxOwn, CommitClaim, EffectCommit,
         EffectUnknown, EffectRetries, CommitEffect
  <2>2. \/ Goto(r, "insert") \/ Goto(r, "run") \/ Goto(r, "read")
        \/ Goto(r, "claimed") \/ Goto(r, "ran") \/ UNCHANGED pc
    BY <1>1 DEF Arrive, InsertWins, InsertDuplicate, TxOwn, CommitClaim, EffectCommit,
         EffectUnknown, EffectRetries, RetryEffect, Leave
  <2> QED
    BY <2>1, <2>2
<1>2. ASSUME NEW r \in Requests, TxInsert(r) PROVE MovesOn(r) \/ Errs(r)
  BY <1>2 DEF TxInsert
<1>3. ASSUME NEW r \in Requests, TxTransient(r) \/ CommitUnknown(r) PROVE MovesOn(r) \/ Errs(r)
  <2>1. pc[r] # "done" /\ RetryTx(r)
    BY <1>3 DEF TxTransient, CommitUnknown, RollsBackAt
  <2> QED
    BY <2>1 DEF RetryTx
<1>4. ASSUME NEW r \in Requests, InsertUnknown(r) \/ BeginFails(r) \/ HandlerPanics(r) PROVE Errs(r)
  BY <1>4 DEF InsertUnknown, BeginFails, HandlerPanics
<1>5. ASSUME NEW r \in Requests, Complete(r) \/ Fail(r) \/ StoreFails(r) PROVE Leaves(r)
  BY <1>5 DEF Complete, Fail, StoreFails
<1>6. Purge \/ Tick \/ UNCHANGED vars => UNCHANGED <<pc, answer, record>>
  BY DEF Purge, Tick, vars
<1> QED
  BY <1>1, <1>2, <1>3, <1>4, <1>5, <1>6 DEF Next, Begin, Handle, Failure, Finished

(* A request reads the stored body only under its own digest.              *)
LEMMA AnswerStep ==
  ASSUME Bounded, IInv, AnswerInv, [Next]_vars
  PROVE  AnswerInv'
<1> USE DEF AnswerInv, FoundInv, ReplayInv
<1>1. StoredInv'
  BY StoredStep
<1>2. TypeOK
  BY DEF IInv
<1>3. UNCHANGED <<pc, answer, record>> => (FoundInv /\ ReplayInv)'
  BY DEF Fits
<1>4. ASSUME NEW r \in Requests, MovesOn(r) \/ Errs(r) \/ Leaves(r) PROVE (FoundInv /\ ReplayInv)'
  BY <1>2, <1>4 DEF MovesOn, Errs, Leaves, Goto, Leave, Reply, TypeOK, Fits
<1>5. ASSUME NEW r \in Requests, Refuse(r) PROVE (FoundInv /\ ReplayInv)'
  BY <1>2, <1>5 DEF Refuse, Goto, Leave, Reply, TypeOK, Fits
<1>6. ASSUME NEW r \in Requests, TxRead(r) PROVE (FoundInv /\ ReplayInv)'
  <2>1. CASE Verdict(r) \in {"conflict", "inProgress"}
    <3>1. /\ pc' = [pc EXCEPT ![r] = "done"]
          /\ answer' = [answer EXCEPT ![r] = [kind |-> Verdict(r), body |-> None]]
          /\ record' = record
      BY <1>6, <2>1 DEF TxRead, Reply, Goto, Leave
    <3> QED
      BY <1>2, <2>1, <3>1 DEF TypeOK, Fits
  <2>2. CASE Verdict(r) \in {"own", "insertTx"}
    BY <1>2, <1>6, <2>2 DEF TxRead, Goto, Leave, TypeOK, Fits
  <2>3. CASE Verdict(r) = "found"
    <3>1. row.state = "COMPLETED" /\ row.hash = HashOf[r]
      BY <2>3 DEF Verdict
    <3>2. Fits(row.body, HashOf[r])
      BY <3>1 DEF StoredInv
    <3>3. /\ pc' = [pc EXCEPT ![r] = "found"]
          /\ record' = [record EXCEPT ![r] = row.body]
          /\ answer' = answer
      BY <1>6, <2>3 DEF TxRead, Goto, Leave
    <3> QED
      BY <1>2, <3>2, <3>3 DEF TypeOK, Fits
  <2> QED
    BY <1>6, <2>1, <2>2, <2>3 DEF TxRead
<1>7. ASSUME NEW r \in Requests, CommitFound(r) PROVE (FoundInv /\ ReplayInv)'
  <2>1. Fits(record[r], HashOf[r]) /\ UNCHANGED record
    BY <1>7 DEF CommitFound
  <2>2. CASE owned[r]
    BY <1>2, <1>7, <2>2 DEF CommitFound, Goto, Leave, TypeOK, Fits
  <2>3. CASE ~owned[r]
    BY <1>2, <1>7, <2>1, <2>3 DEF CommitFound, Reply, Goto, Leave, TypeOK, Fits
  <2> QED
    BY <2>2, <2>3
<1>8. ASSUME NEW r \in Requests, HandlerReturns(r) PROVE (FoundInv /\ ReplayInv)'
  BY <1>2, <1>8 DEF HandlerReturns, Storing, Goto, Leave, TypeOK, Fits
<1>9. ASSUME NEW r \in Requests, Crash(r) PROVE (FoundInv /\ ReplayInv)'
  BY <1>2, <1>9 DEF Crash, Goto, Leave, TypeOK, Answers, NoAnswer, Fits
<1> QED
  BY <1>1, <1>2, <1>3, <1>4, <1>5, <1>6, <1>7, <1>8, <1>9, AnswerSteps

(* Two requests share a digest exactly when they mean the same.            *)
LEMMA DigestOfMeaning ==
  ASSUME Nested, NEW r \in Requests, NEW s \in Requests
  PROVE  HashOf[r] = HashOf[s] <=> Same(r, s)
<1>1. /\ HashOf[r] = RequestHash(Payload[r]) /\ HashOf[s] = RequestHash(Payload[s])
      /\ IsBody(Payload[r].body) /\ IsBody(Payload[s].body)
  BY PayloadAssumption
<1> QED
  BY <1>1, HashTells DEF Same

(* A client that retries is replayed the response to its own request,      *)
(* whoever stored it and whatever failed in between, and an empty one only *)
(* for a response that was too long to store.                              *)
THEOREM ReplayIsOwnAnswer ==
  ASSUME Bounded, "commitLost" \notin Faults, Nested
  PROVE  Spec => []ReplaysOwnAnswer
<1>1. Init => AnswerInv
  BY DEF Init, NoRow, NoAnswer, AnswerInv, StoredInv, FoundInv, ReplayInv
<1>2. IInv /\ AnswerInv /\ [Next]_vars => AnswerInv'
  BY AnswerStep
<1>3. AnswerInv => ReplaysOwnAnswer
  BY DigestOfMeaning, LargeAssumption DEF AnswerInv, ReplayInv, Fits, ReplaysOwnAnswer
<1> QED
  BY <1>1, <1>2, <1>3, Invariance, PTL DEF Spec

-----------------------------------------------------------------------------
(* Conflicts.  Nothing is assumed about faults, or about how long a        *)
(* request takes.                                                          *)

(* s has been let in, if only for a while.                                 *)
Used(s) == pc[s] # "idle" /\ answer[s].kind # "refused"

(* Only idle requests are refused; a row's digest is that of a request     *)
(* that was let in, and a conflict names another one's.                    *)
AskedInv    == \A r \in Requests : pc[r] # "done" => answer[r].kind # "refused"
DigestInv   == row.state # "ABSENT" => \E s \in Requests : HashOf[s] = row.hash /\ Used(s)
ConflictInv == \A r \in Requests : answer[r].kind = "conflict" =>
                 \E s \in Requests : HashOf[s] # HashOf[r] /\ Used(s)
UseInv == TypeOK /\ AskedInv /\ DigestInv /\ ConflictInv

(* Who was let in stays so, whatever becomes of it, and a refusal or a     *)
(* conflict is the answer of the step that decides it.                     *)
LEMMA UseSteps ==
  ASSUME TypeOK, AskedInv, [Next]_vars, NEW q \in Requests
  PROVE  /\ Used(q) => Used(q)'
         /\ pc'[q] # "done" => answer'[q].kind # "refused"
         /\ answer'[q].kind = "conflict" =>
              answer[q].kind = "conflict" \/ (row.state # "ABSENT" /\ row.hash # HashOf[q])
<1> DEFINE Kept == /\ Used(q) => Used(q)'
                   /\ pc'[q] # "done" => answer'[q].kind # "refused"
                   /\ answer'[q].kind = "conflict" =>
                        answer[q].kind = "conflict" \/ (row.state # "ABSENT" /\ row.hash # HashOf[q])
<1> SUFFICES Kept
  OBVIOUS
<1> USE DEF AskedInv, Used, TypeOK, Goto, Leave, Reply
<1>1. UNCHANGED <<pc, answer, record>> => Kept
  OBVIOUS
<1>2. ASSUME NEW r \in Requests, MovesOn(r) \/ Errs(r) \/ Leaves(r) PROVE Kept
  BY <1>2 DEF MovesOn, Errs, Leaves, Active, InBegin, Executing, InHandler, Storing
<1>3. ASSUME NEW r \in Requests, Refuse(r) PROVE Kept
  BY <1>3 DEF Refuse
<1>4. ASSUME NEW r \in Requests, TxRead(r) PROVE Kept
  <2> DEFINE Answered(kind) == /\ pc' = [pc EXCEPT ![r] = "done"]
                               /\ answer' = [answer EXCEPT ![r] = [kind |-> kind, body |-> None]]
  <2>1. CASE Verdict(r) = "conflict"
    <3>1. row.state # "ABSENT" /\ row.hash # HashOf[r]
      BY <2>1 DEF Verdict
    <3>2. Answered("conflict")
      BY <1>4, <2>1 DEF TxRead
    <3> QED
      BY <3>1, <3>2
  <2>2. CASE Verdict(r) = "inProgress"
    <3>1. Answered("inProgress")
      BY <1>4, <2>2 DEF TxRead
    <3> QED
      BY <3>1
  <2>3. CASE Verdict(r) \in {"own", "found", "insertTx"}
    BY <1>4, <2>3 DEF TxRead
  <2> QED
    BY <1>4, <2>1, <2>2, <2>3 DEF TxRead
<1>5. ASSUME NEW r \in Requests, CommitFound(r) PROVE Kept
  BY <1>5 DEF CommitFound
<1>6. ASSUME NEW r \in Requests, HandlerReturns(r) PROVE Kept
  BY <1>6 DEF HandlerReturns, Storing, InHandler
<1>7. ASSUME NEW r \in Requests, Crash(r) PROVE Kept
  BY <1>7 DEF Crash, Answers, NoAnswer, Active, InBegin, Executing, InHandler, Storing
<1> QED
  BY <1>1, <1>2, <1>3, <1>4, <1>5, <1>6, <1>7, AnswerSteps

(* A row takes the digest of a request that is past the door, or keeps the *)
(* digest it had.                                                          *)
LEMMA DigestSteps ==
  ASSUME TypeOK, AskedInv, [Next]_vars, row'.state # "ABSENT"
  PROVE  \/ row.state # "ABSENT" /\ row'.hash = row.hash
         \/ \E r \in Requests : row'.hash = HashOf[r] /\ Used(r)
<1> USE DEF TypeOK, Row
<1>1. ASSUME NEW r \in Requests, InsertWins(r) \/ InsertUnknown(r) \/ CommitClaim(r) \/ CommitUnknown(r)
      PROVE  row'.hash = HashOf[r] /\ Used(r)
  <2>1. TakeClaim(r) /\ pc[r] \in {"insert", "claimed"}
    BY <1>1 DEF InsertWins, InsertUnknown, CommitClaim, CommitUnknown
  <2> QED
    BY <2>1 DEF TakeClaim, ClaimedRow, Used, AskedInv
<1>2. ASSUME NEW r \in Requests, Complete(r) \/ Fail(r)
      PROVE  row.state # "ABSENT" /\ row'.hash = row.hash
  BY <1>2 DEF Complete, Fail, CompleteRow, FailRow
<1>3. ASSUME NEW r \in Requests, EffectCommit(r) \/ EffectUnknown(r)
      PROVE  row.state # "ABSENT" /\ row'.hash = row.hash
  <2>1. row' = row \/ row' = CompleteRow(r)
    BY <1>3, Zenon DEF EffectCommit, EffectUnknown, CommitEffect
  <2> QED
    BY <2>1 DEF CompleteRow
<1>4. CASE Purge
  BY <1>4 DEF Purge, NoRow
<1>5. ASSUME NEW r \in Requests,
             \/ Refuse(r) \/ Arrive(r) \/ InsertDuplicate(r) \/ TxRead(r) \/ TxOwn(r)
             \/ TxInsert(r) \/ CommitFound(r) \/ HandlerReturns(r) \/ TxTransient(r)
             \/ BeginFails(r) \/ EffectRetries(r) \/ HandlerPanics(r) \/ StoreFails(r) \/ Crash(r)
      PROVE  UNCHANGED row
  BY <1>5 DEF Refuse, Arrive, InsertDuplicate, TxRead, TxOwn, TxInsert, CommitFound,
       HandlerReturns, TxTransient, BeginFails, EffectRetries, HandlerPanics, StoreFails, Crash, dbVars
<1>6. Tick \/ UNCHANGED vars => UNCHANGED row
  BY DEF Tick, vars, dbVars
<1> QED
  BY <1>1, <1>2, <1>3, <1>4, <1>5, <1>6 DEF Next, Begin, Handle, Failure, Finished

(* The digests in play are those of requests that were let in.             *)
LEMMA UseStep == ASSUME UseInv, [Next]_vars PROVE UseInv'
<1> USE DEF UseInv
<1>1. TypeOK'
  BY TypeStep
<1>2. AskedInv'
  BY UseSteps DEF AskedInv
<1>3. DigestInv'
  <2> SUFFICES ASSUME row'.state # "ABSENT"
               PROVE  \E s \in Requests : HashOf[s] = row'.hash /\ Used(s)'
    BY DEF DigestInv, Used
  <2>1. PICK s \in Requests : HashOf[s] = row'.hash /\ Used(s)
    BY DigestSteps DEF DigestInv
  <2> QED
    BY <2>1, UseSteps
<1>4. ConflictInv'
  <2> SUFFICES ASSUME NEW r \in Requests, answer'[r].kind = "conflict"
               PROVE  \E s \in Requests : HashOf[s] # HashOf[r] /\ Used(s)'
    BY DEF ConflictInv, Used
  <2>1. PICK s \in Requests : HashOf[s] # HashOf[r] /\ Used(s)
    BY UseSteps DEF ConflictInv, DigestInv
  <2> QED
    BY <2>1, UseSteps
<1> QED
  BY <1>1, <1>2, <1>3, <1>4

(* A retry that is spelled differently is not refused as a conflict:       *)
(* whoever is told so shares the key with a request that was let in before *)
(* and means something else.  Faults, lost commits and requests that       *)
(* outlive their record make no difference.                                *)
THEOREM ConflictNamesAnother ==
  ASSUME Nested
  PROVE  Spec => []CopiesNeverConflict
<1>1. Init => UseInv
  BY TypeInit DEF Init, NoRow, NoAnswer, UseInv, AskedInv, DigestInv, ConflictInv
<1>2. UseInv /\ [Next]_vars => UseInv'
  BY UseStep
<1>3. UseInv => CopiesNeverConflict
  BY DigestOfMeaning DEF UseInv, ConflictInv, Used, CopiesNeverConflict
<1> QED
  BY <1>1, <1>2, <1>3, PTL DEF Spec
=============================================================================
