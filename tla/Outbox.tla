------------------------------- MODULE Outbox -------------------------------
(***************************************************************************)
(* outbox/outbox.go: events inserted with the aggregate they describe, and *)
(* relay replicas that claim batches of them with FOR UPDATE SKIP LOCKED,  *)
(* publish them from inside the claiming transaction and mark them         *)
(* published, under database.InTx's retries.                               *)
(*                                                                         *)
(* Events are named by their id, whose order is the order of ORDER BY id;  *)
(* batch[p] are the rows relay p has claimed and locked, ok[p] and bad[p]  *)
(* the outcomes its publishing has had.  The queue is external: sent[e]    *)
(* counts the messages it accepted, failures the faults so far.  The       *)
(* columns attempts and last_error, which nothing reads back, are left out. *)
(***************************************************************************)
EXTENDS Integers, FiniteSets

CONSTANTS
  Events,         \* event ids, numbers in ORDER BY id order
  Relays,         \* relay replicas
  Limit,          \* ClaimBatch's limit
  Poison,         \* events the queue always refuses
  MaxTxAttempts,  \* database.maxTxAttempts
  MaxFailures,    \* bound on the faults of a behaviour
  Faults          \* which failures the environment produces

ASSUME EventsAssumption == Events \subseteq Nat /\ IsFiniteSet(Events) /\ Poison \subseteq Events
ASSUME BoundsAssumption == /\ Limit \in Nat \ {0} /\ MaxTxAttempts \in Nat \ {0}
                           /\ MaxFailures \in Nat

VARIABLES stored, published, batch, sent, pc, attempt, ok, bad, failures

vars == <<stored, published, batch, sent, pc, attempt, ok, bad, failures>>

Init == /\ stored = [e \in Events |-> "none"]
        /\ published = {}
        /\ batch = [p \in Relays |-> {}]
        /\ sent = [e \in Events |-> 0]
        /\ pc = [p \in Relays |-> "idle"]
        /\ attempt = [p \in Relays |-> 1]
        /\ ok = [p \in Relays |-> {}] /\ bad = [p \in Relays |-> {}]
        /\ failures = 0

Goto(p, label) == pc' = [pc EXCEPT ![p] = label]
Locked == UNION {batch[p] : p \in Relays}

Fault(kind) == /\ kind \in Faults /\ failures < MaxFailures
               /\ failures' = failures + 1

-----------------------------------------------------------------------------
(* Producers: Append inside the transaction that persists the aggregate.   *)

Append(e) == /\ stored[e] = "none"
             /\ stored' = [stored EXCEPT ![e] = "open"]
             /\ UNCHANGED <<published, batch, sent, pc, attempt, ok, bad, failures>>

(* The aggregate and its event commit together, or neither exists.         *)
EndProducer(e) ==
  /\ stored[e] = "open"
  /\ \E end \in {"committed", "aborted"} : stored' = [stored EXCEPT ![e] = end]
  /\ UNCHANGED <<published, batch, sent, pc, attempt, ok, bad, failures>>

-----------------------------------------------------------------------------
(* Relays.                                                                 *)

(* Mutants: uncommitted rows are taken; rows another relay has locked are. *)
SelectableOpen == {e \in Events : /\ stored[e] \in {"open", "committed"}
                                  /\ e \notin published /\ e \notin Locked}
SelectableLocked == {e \in Events : stored[e] = "committed" /\ e \notin published}
(* Rows the SELECT can return: committed, published_at IS NULL, and not    *)
(* locked by another transaction (SKIP LOCKED).                            *)
Selectable == {e \in Events : /\ stored[e] = "committed"
                              /\ e \notin published /\ e \notin Locked}

(* ORDER BY id LIMIT limit.                                                *)
FirstRows(rows) == {e \in rows : Cardinality({f \in rows : f < e}) < Limit}

(* The relay's loop calls ClaimBatch.                                      *)
Call(p) == /\ pc[p] = "idle"
           /\ Goto(p, "select")
           /\ UNCHANGED <<stored, published, batch, sent, attempt, ok, bad, failures>>

(* SELECT ... FOR UPDATE SKIP LOCKED; an empty batch has nothing to do but *)
(* commit.                                                                 *)
Select(p) == /\ pc[p] = "select"
             /\ batch' = [batch EXCEPT ![p] = FirstRows(Selectable)]
             /\ Goto(p, IF Selectable = {} THEN "commit" ELSE "publish")
             /\ UNCHANGED <<stored, published, sent, attempt, ok, bad, failures>>

(* fn hands the events of the batch to the queue one by one; the queue     *)
(* accepts, or refuses a poisoned event.                                   *)
Publish(p) ==
  /\ pc[p] = "publish"
  /\ \E e \in batch[p] \ (ok[p] \cup bad[p]) :
       IF e \in Poison
       THEN bad' = [bad EXCEPT ![p] = @ \cup {e}] /\ UNCHANGED <<sent, ok>>
       ELSE /\ sent' = [sent EXCEPT ![e] = @ + 1]
            /\ ok' = [ok EXCEPT ![p] = @ \cup {e}]
            /\ UNCHANGED bad
  /\ UNCHANGED <<stored, published, batch, pc, attempt, failures>>

(* The queue refuses an event, or accepts it although fn sees an error.    *)
PublishFails(p) ==
  /\ Fault("queue")
  /\ pc[p] = "publish"
  /\ \E e \in batch[p] \ (ok[p] \cup bad[p] \cup Poison), accepted \in {0, 1} :
       /\ sent' = [sent EXCEPT ![e] = @ + accepted]
       /\ bad' = [bad EXCEPT ![p] = @ \cup {e}]
  /\ UNCHANGED <<stored, published, batch, pc, attempt, ok>>

(* Mutant: an event the queue refused is marked too.                       *)
MarkableAll(p) == batch[p]
(* The results loop writes published_at only for events without an error.  *)
Markable(p) == ok[p]

Record(p) == /\ pc[p] = "publish"
             /\ batch[p] = ok[p] \cup bad[p]
             /\ Goto(p, "commit")
             /\ UNCHANGED <<stored, published, batch, sent, attempt, ok, bad, failures>>

(* Mutant: row locks outlive the transaction.                              *)
ReleaseNothing(p) == UNCHANGED <<batch, ok, bad>>
(* The transaction ends and with it its row locks.                         *)
Release(p) == /\ batch' = [batch EXCEPT ![p] = {}]
              /\ ok' = [ok EXCEPT ![p] = {}] /\ bad' = [bad EXCEPT ![p] = {}]

EndCall(p) == attempt' = [attempt EXCEPT ![p] = 1] /\ Goto(p, "idle")

Commit(p) == /\ pc[p] = "commit"
             /\ published' = published \cup Markable(p)
             /\ Release(p) /\ EndCall(p)
             /\ UNCHANGED <<stored, sent, failures>>

AttemptsLeft(p) == attempt[p] < MaxTxAttempts

Retry(p) == /\ Release(p)
            /\ \/ /\ AttemptsLeft(p)
                  /\ attempt' = [attempt EXCEPT ![p] = @ + 1]
                  /\ Goto(p, "select")
               \/ ~AttemptsLeft(p) /\ EndCall(p)

(* A statement or the COMMIT fails with a retryable error; the transaction *)
(* rolls back, the messages fn has sent stay sent.                         *)
TxFails(p) == /\ Fault("transient")
              /\ pc[p] \in {"select", "publish", "commit"}
              /\ Retry(p)
              /\ UNCHANGED <<stored, published, sent>>

(* The COMMIT is applied, its answer is lost, and InTx runs the body again. *)
CommitUnknown(p) == /\ Fault("ackLost")
                    /\ pc[p] = "commit"
                    /\ published' = published \cup Markable(p)
                    /\ Retry(p)
                    /\ UNCHANGED <<stored, sent>>

(* fn returns an error, the context ends, or the process dies and is       *)
(* restarted: not retried.                                                 *)
CallFails(p) == /\ Fault("crash")
                /\ pc[p] \in {"select", "publish", "commit"}
                /\ Release(p) /\ EndCall(p)
                /\ UNCHANGED <<stored, published, sent>>

Relay(p) == Call(p) \/ Select(p) \/ Publish(p) \/ Record(p) \/ Commit(p)

Next == \/ \E e \in Events : Append(e) \/ EndProducer(e)
        \/ \E p \in Relays : \/ Relay(p) \/ PublishFails(p) \/ TxFails(p)
                             \/ CommitUnknown(p) \/ CallFails(p)

Spec == Init /\ [][Next]_vars

(* Relays poll without end and their transactions make progress.  Producers *)
(* and faults are free.                                                    *)
FairSpec == Spec /\ \A p \in Relays : WF_vars(Relay(p))

-----------------------------------------------------------------------------
(* Properties.                                                             *)

(* Types.                                                                  *)
TypeOK == /\ stored \in [Events -> {"none", "open", "committed", "aborted"}]
          /\ published \subseteq Events
          /\ batch \in [Relays -> SUBSET Events]
          /\ ok \in [Relays -> SUBSET Events] /\ bad \in [Relays -> SUBSET Events]
          /\ sent \in [Events -> Nat]
          /\ pc \in [Relays -> {"idle", "select", "publish", "commit"}]
          /\ attempt \in [Relays -> 1 .. MaxTxAttempts]
          /\ failures \in 0 .. MaxFailures

(* The queue never has an event whose aggregate did not commit ("a commit  *)
(* either contains both or neither").                                      *)
NoPhantomMessage == \A e \in Events : sent[e] > 0 => stored[e] = "committed"

(* No event is given up before the queue has it: published_at is set only  *)
(* behind an accepted message, across retries, crashes and refusals.       *)
NothingLost == \A e \in published : sent[e] > 0

(* Replicas do not multiply messages: an event is sent again only after a  *)
(* fault, once per fault.                                                  *)
DuplicatesNeedFaults == \A e \in Events : sent[e] <= 1 + failures

(* Every committed event the queue would take is published once faults     *)
(* stop, as long as a batch has room beside the poisoned events, which     *)
(* every claim selects again and first.                                    *)
EventuallyPublished ==
  Cardinality(Poison) < Limit =>
    \A e \in Events \ Poison : stored[e] = "committed" ~> e \in published

-----------------------------------------------------------------------------
(* What the table and its relays implement: delivery at least once.        *)

Queue == INSTANCE Delivery WITH
  due <- {e \in Events : stored[e] = "committed"}, settled <- published, faults <- failures

(* Producers, batches, row locks and retries implement the abstract        *)
(* delivery: no message of an aggregate that did not commit, none after    *)
(* the event is marked, no mark without a message, and no message too many *)
(* but for a fault that came before it.                                    *)
ImplementsDelivery == Queue!DeliverySpec
=============================================================================
