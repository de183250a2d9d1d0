----------------------------- MODULE AuditChain -----------------------------
(***************************************************************************)
(* audit/audit.go: concurrent transactions append to the hash-chained      *)
(* audit trail through the singleton row audit_chain_head, retried by      *)
(* database.InTx, and VerifyChain walks the committed rows.                *)
(*                                                                         *)
(* A digest is modelled by what it commits to: EntryHash is the tuple of   *)
(* the fields entryHash writes, hence injective.  Timestamps count half    *)
(* microseconds, the finest unit that tells truncation from rounding.      *)
(* `rows' and `head' are committed; a transaction keeps what it has        *)
(* written in pending[w] and newHead[w] until it commits.                  *)
(***************************************************************************)
EXTENDS Integers, FiniteSets, FiniteSetsExt, Functions

CONSTANTS
  Writers,        \* transactions that append
  Appends,        \* Appends[w]: events the transaction appends
  Targets,        \* optional identifiers a caller may pass: "none", "id", "zero"
  Clock,          \* timestamps a caller may pass, in half microseconds
  MaxTxAttempts,  \* database.maxTxAttempts
  Faults,         \* which failures the environment produces
  None            \* no writer

ASSUME WritersAssumption == None \notin Writers /\ Appends \in [Writers -> Nat \ {0}]
ASSUME AuditAttempts == MaxTxAttempts \in Nat \ {0}
ASSUME ClockAssumption == Clock \subseteq Nat

VARIABLES rows, head, headLock, nextSeq, pc, appended, attempt, previous,
          pending, newHead, result,
          doubt           \* commits of a transaction whose answer was lost

chain   == <<rows, head>>
vars == <<rows, head, headLock, nextSeq, pc, appended, attempt, previous,
          pending, newHead, result, doubt>>

NoRows == <<>>
Genesis == <<>>

-----------------------------------------------------------------------------
(* Conversions between an Event and its row.                               *)

(* Mutant: the nanosecond timestamp is hashed.                             *)
TruncateNothing(t) == t
(* CreatedAt.UTC().Truncate(time.Microsecond).                             *)
Truncate(t) == (t \div 2) * 2

(* DATETIME(6) rounds what it is given to the nearest microsecond.         *)
Column(t) == ((t + 1) \div 2) * 2

(* ids.Opt.Value stores NULL for an absent and for the zero identifier.    *)
OptValue(id) == IF id = "zero" THEN "none" ELSE id

(* entryHash: every column it covers; metadata and trace_id are not among  *)
(* them.                                                                   *)
EntryHash(e) == <<e.id, e.target, e.created, e.prev>>

(* The Event Append hashes, and the row the INSERT leaves.                 *)
EventOf(w, target, t) == [id |-> <<w, appended[w], attempt[w]>>, target |-> target,
                          created |-> Truncate(t), prev |-> previous[w], by |-> w]
RowOf(e) == [id |-> e.id, target |-> OptValue(e.target), created |-> Column(e.created),
             prev |-> e.prev, by |-> e.by, hash |-> EntryHash(e)]

-----------------------------------------------------------------------------
(* VerifyChain over a table: a function from sequence numbers to rows.     *)

Earlier(table, s) == {q \in DOMAIN table : q < s}

ExpectedPrevious(table, s) ==
  IF Earlier(table, s) = {} THEN Genesis ELSE table[Max(Earlier(table, s))].hash

(* Mutant: only the link is compared, the digest is not recomputed.        *)
LinkHoldsUnhashed(table, s) == table[s].prev = ExpectedPrevious(table, s)
LinkHolds(table, s) == /\ table[s].prev = ExpectedPrevious(table, s)
                       /\ EntryHash(table[s]) = table[s].hash

(* ORDER BY sequence_no LIMIT limit, up to the first broken link.          *)
VerifyChain(table, limit) ==
  LET walked == {s \in DOMAIN table : Cardinality(Earlier(table, s)) < limit}
      broken == {s \in walked : ~LinkHolds(table, s)}
  IN  IF broken = {} THEN [checked |-> Cardinality(walked), brokenAt |-> 0]
      ELSE [checked |-> Cardinality(Earlier(table, Min(broken))), brokenAt |-> Min(broken)]

-----------------------------------------------------------------------------
Init == /\ rows = NoRows /\ head = Genesis
        /\ headLock = None /\ nextSeq = 1
        /\ pc = [w \in Writers |-> "read"]
        /\ appended = [w \in Writers |-> 0]
        /\ attempt = [w \in Writers |-> 1]
        /\ previous = [w \in Writers |-> Genesis]
        /\ pending = [w \in Writers |-> NoRows]
        /\ newHead = [w \in Writers |-> Genesis]
        /\ result = [w \in Writers |-> "none"]
        /\ doubt = [w \in Writers |-> 0]

Goto(w, label) == pc' = [pc EXCEPT ![w] = label]

(* What the transaction sees of the head row: its own update, if any.      *)
HeadSeenBy(w) == IF appended[w] > 0 THEN newHead[w] ELSE head

(* Append: SELECT entry_hash FROM audit_chain_head ... FOR UPDATE.         *)
ReadHead(w) ==
  /\ pc[w] = "read" /\ headLock \in {None, w}
  /\ headLock' = w
  /\ previous' = [previous EXCEPT ![w] = HeadSeenBy(w)]
  /\ Goto(w, "write")
  /\ UNCHANGED <<chain, nextSeq, appended, attempt, pending, newHead, result, doubt>>

(* Mutant: the head is never advanced.                                     *)
AdvanceNothing(w, e) == newHead' = [newHead EXCEPT ![w] = HeadSeenBy(w)]
(* UPDATE audit_chain_head SET entry_hash.                                 *)
Advance(w, e) == newHead' = [newHead EXCEPT ![w] = EntryHash(e)]

(* Append: the INSERT, which draws the next sequence number even if the    *)
(* transaction later rolls back, and the advance of the head.  The         *)
(* transaction then appends again or commits.                              *)
WriteEvent(w, target, t) ==
  LET e == EventOf(w, target, t)
  IN  /\ pc[w] = "write"
      /\ pending' = [pending EXCEPT ![w] = [s \in DOMAIN @ \cup {nextSeq} |->
                                              IF s = nextSeq THEN RowOf(e) ELSE @[s]]]
      /\ nextSeq' = nextSeq + 1
      /\ Advance(w, e)
      /\ appended' = [appended EXCEPT ![w] = @ + 1]
      /\ Goto(w, IF appended[w] + 1 < Appends[w] THEN "read" ELSE "commit")
      /\ UNCHANGED <<chain, headLock, attempt, previous, result, doubt>>

(* Mutant: the lock outlives the transaction.                              *)
UnlockNever(w) == UNCHANGED headLock
Unlock(w) == headLock' = IF headLock = w THEN None ELSE headLock

MakeDurable(w) == /\ rows' = [s \in DOMAIN rows \cup DOMAIN pending[w] |->
                                IF s \in DOMAIN rows THEN rows[s] ELSE pending[w][s]]
                  /\ head' = newHead[w]

Forget(w) == /\ appended' = [appended EXCEPT ![w] = 0]
             /\ previous' = [previous EXCEPT ![w] = Genesis]
             /\ pending' = [pending EXCEPT ![w] = NoRows]
             /\ newHead' = [newHead EXCEPT ![w] = Genesis]

Return(w, outcome) == Goto(w, "done") /\ result' = [result EXCEPT ![w] = outcome]

Commit(w) == /\ pc[w] = "commit"
             /\ MakeDurable(w)
             /\ Unlock(w) /\ Forget(w) /\ Return(w, "ok")
             /\ UNCHANGED <<nextSeq, attempt, doubt>>

(* The caller's transaction fails for a reason InTx does not retry: an     *)
(* empty action, the mutation's own error, a cancelled context, a crash.   *)
Abort(w) == /\ pc[w] # "done"
            /\ Unlock(w) /\ Forget(w) /\ Return(w, "error")
            /\ UNCHANGED <<chain, nextSeq, attempt, doubt>>

AttemptsLeft(w) == attempt[w] < MaxTxAttempts

(* InTx: run the body again, or give up after the last attempt.            *)
Retry(w) == /\ Unlock(w) /\ Forget(w)
            /\ \/ /\ AttemptsLeft(w)
                  /\ attempt' = [attempt EXCEPT ![w] = @ + 1]
                  /\ Goto(w, "read")
                  /\ UNCHANGED result
               \/ /\ ~AttemptsLeft(w)
                  /\ Return(w, "error")
                  /\ UNCHANGED attempt
            /\ UNCHANGED nextSeq

(* Mutant: what a failed transaction had inserted stays.                   *)
RollBackNothing(w) == rows' = [s \in DOMAIN rows \cup DOMAIN pending[w] |->
                                 IF s \in DOMAIN rows THEN rows[s] ELSE pending[w][s]]
                      /\ UNCHANGED head
(* The deferred Rollback of runTx.                                         *)
RollBack(w) == UNCHANGED chain

(* A statement, or the COMMIT, fails with a retryable error and the server *)
(* rolls back.                                                             *)
Transient(w) == /\ "transient" \in Faults
                /\ pc[w] # "done"
                /\ RollBack(w)
                /\ Retry(w)
                /\ UNCHANGED doubt

(* The COMMIT is applied but its answer is lost with the connection, which *)
(* IsRetryable takes for a rolled back transaction.                        *)
CommitUnknown(w) == /\ "ackLost" \in Faults
                    /\ pc[w] = "commit"
                    /\ MakeDurable(w)
                    /\ Retry(w)
                    /\ doubt' = [doubt EXCEPT ![w] = @ + 1]

Finished == (\A w \in Writers : pc[w] = "done") /\ UNCHANGED vars

Step(w) == \/ ReadHead(w) \/ Commit(w)
           \/ \E target \in Targets, t \in Clock : WriteEvent(w, target, t)

Next == \/ \E w \in Writers : Step(w) \/ Abort(w) \/ Transient(w) \/ CommitUnknown(w)
        \/ Finished

Spec == Init /\ [][Next]_vars

(* A transaction keeps issuing its statements; the server grants the head  *)
(* row's lock to its waiters.                                              *)
FairSpec == Spec /\ \A w \in Writers : WF_vars(Step(w))

-----------------------------------------------------------------------------
(* Properties.                                                             *)

Last(table) == IF DOMAIN table = {} THEN Genesis ELSE table[Max(DOMAIN table)].hash

(* Types: committed and pending rows carry numbers already drawn, and      *)
(* InTx never runs an attempt too many.                                    *)
TypeOK == /\ DOMAIN rows \subseteq 1 .. nextSeq - 1
          /\ headLock \in Writers \cup {None}
          /\ \A w \in Writers :
               /\ pc[w] \in {"read", "write", "commit", "done"}
               /\ appended[w] \in 0 .. Appends[w]
               /\ attempt[w] \in 1 .. MaxTxAttempts
               /\ DOMAIN pending[w] \subseteq 1 .. nextSeq - 1
               /\ result[w] \in {"none", "ok", "error"}

(* Rows whose event carried a zero identifier: Opt.Value stores them NULL.  *)
ZeroIds == {s \in DOMAIN rows : rows[s].hash[2] = "zero"}

(* Concurrency, retries and rollbacks never break the chain: on every      *)
(* committed state the walk reports no broken link, whatever its limit,    *)
(* except at an event whose optional identifier was present but zero.      *)
NoFalseAlarm == \A limit \in 1 .. Cardinality(DOMAIN rows) + 1 :
                  VerifyChain(rows, limit).brokenAt \in ZeroIds \cup {0}

(* The head row names the entry that is last by sequence number: the order *)
(* in which AUTO_INCREMENT numbers rows is the order of the chain.         *)
HeadIsLast == head = Last(rows)

(* A row removed from inside the trail, or edited in a column the digest   *)
(* covers, breaks verification, at that row or before it.  (Removing the   *)
(* last row breaks nothing: VerifyChain never reads audit_chain_head.)     *)
TamperingDetected ==
  \A s \in DOMAIN rows :
    LET without == Restrict(rows, DOMAIN rows \ {s})
        edited  == [rows EXCEPT ![s].created = @ + 2]
    IN  /\ s # Max(DOMAIN rows) => VerifyChain(without, Cardinality(DOMAIN rows)).brokenAt # 0
        /\ VerifyChain(edited, Cardinality(DOMAIN rows)).brokenAt \in 1 .. s

EventsBy(w) == {s \in DOMAIN rows : rows[s].by = w}

(* A privileged mutation leaves exactly the events it appended, and one    *)
(* that failed leaves none; only a COMMIT whose answer was lost, which     *)
(* InTx runs again or reports as failed, leaves a set of its own.          *)
ExactlyOneEvent ==
  \A w \in Writers : pc[w] = "done" =>
    Cardinality(EventsBy(w)) = Appends[w] * (doubt[w] + (IF result[w] = "ok" THEN 1 ELSE 0))

(* Every transaction that appends gets the head row and returns.           *)
AppendReturns == \A w \in Writers : <>(pc[w] = "done")

-----------------------------------------------------------------------------
(* What the table and its head row implement: a log that only grows.       *)

Log == INSTANCE AuditLog WITH log <- rows

(* Transactions, the lock of the head row and retries implement the        *)
(* abstract log: the events of a mutation appear together, adjacent and    *)
(* after all others, linked to what was last, and nothing committed is     *)
(* ever changed, although AUTO_INCREMENT numbers a row at its INSERT and   *)
(* what is inserted may be rolled back.                                    *)
ImplementsLog == Log!LogSpec
=============================================================================
