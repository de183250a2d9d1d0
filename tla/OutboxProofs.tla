---------------------------- MODULE OutboxProofs ----------------------------
(***************************************************************************)
(* Outbox for every set of events and relays, every batch size and every   *)
(* number of faults.                                                       *)
(***************************************************************************)
EXTENDS Outbox, TLAPS

(* A relay works on committed rows that nobody has marked and that no      *)
(* other relay has; what it will mark is part of them, and was sent.       *)
BatchInv == \A p \in Relays :
  /\ ok[p] \subseteq batch[p]
  /\ \A e \in batch[p] : stored[e] = "committed" /\ e \notin published
  /\ \A q \in Relays : q # p => batch[p] \cap batch[q] = {}
  /\ \A e \in ok[p] : sent[e] > 0

(* Before its SELECT a transaction has no rows.                            *)
IdleInv == \A p \in Relays : pc[p] \in {"idle", "select"} => batch[p] = {}

(* e has been sent by a transaction that has marked it, or may yet.        *)
Counted(e) == e \in published \/ \E p \in Relays : e \in ok[p]

(* Every message beyond the one that counts has a fault to explain it.     *)
CountInv == \A e \in Events : sent[e] <= failures + (IF Counted(e) THEN 1 ELSE 0)

IInv == TypeOK /\ BatchInv /\ IdleInv /\ NoPhantomMessage /\ NothingLost /\ CountInv

(* Nothing is stored, claimed or sent at first.                            *)
LEMMA InitHolds == Init => IInv
  BY BoundsAssumption, SMT DEF Init, IInv, TypeOK, BatchInv, IdleInv, NoPhantomMessage, NothingLost, CountInv, Counted

(* A producer only writes rows that no relay has.                          *)
LEMMA ProducerStep ==
  ASSUME IInv, NEW e \in Events, Append(e) \/ EndProducer(e)
  PROVE  IInv'
<1> USE DEF IInv, TypeOK
<1>1. \A f \in Events : stored[f] = "committed" => stored'[f] = "committed"
  BY DEF Append, EndProducer
<1>2. UNCHANGED <<published, batch, sent, pc, attempt, ok, bad, failures>>
  BY DEF Append, EndProducer
<1>3. TypeOK'
  BY <1>2 DEF Append, EndProducer
<1>4. BatchInv' /\ IdleInv'
  BY <1>1, <1>2 DEF BatchInv, IdleInv
<1>5. NoPhantomMessage' /\ NothingLost' /\ CountInv'
  BY <1>1, <1>2 DEF NoPhantomMessage, NothingLost, CountInv, Counted
<1> QED
  BY <1>3, <1>4, <1>5

(* SKIP LOCKED: the rows a relay takes are nobody's.                       *)
LEMMA SelectStep ==
  ASSUME IInv, NEW p \in Relays, Select(p)
  PROVE  IInv'
<1> USE DEF IInv, TypeOK
<1>1. UNCHANGED <<stored, published, sent, attempt, ok, bad, failures>>
  BY DEF Select
<1>2. FirstRows(Selectable) \subseteq Selectable
  BY DEF FirstRows
<1> DEFINE new == FirstRows(Selectable)
<1> HIDE DEF new
<1>3. batch' = [batch EXCEPT ![p] = new]
  BY DEF Select, new
<1>4. \A e \in new : /\ e \in Events /\ stored[e] = "committed" /\ e \notin published
                     /\ \A q \in Relays : e \notin batch[q]
  BY <1>2 DEF new, Selectable, Locked
<1>5. TypeOK'
  BY <1>1, <1>3, <1>4 DEF Select, Goto
<1>6. NoPhantomMessage' /\ NothingLost' /\ CountInv'
  BY <1>1 DEF NoPhantomMessage, NothingLost, CountInv, Counted
<1>7. batch[p] = {} /\ ok[p] = {}
  BY DEF Select, IdleInv, BatchInv
<1>8. BatchInv'
  BY <1>1, <1>3, <1>4, <1>7 DEF BatchInv
<1>9. IdleInv'
  BY <1>1, <1>3 DEF IdleInv, Select, Goto
<1> QED
  BY <1>5, <1>6, <1>8, <1>9

(* A message raises the count of an event that no transaction counts yet.  *)
LEMMA PublishStep ==
  ASSUME IInv, NEW p \in Relays, Publish(p)
  PROVE  IInv'
<1> USE DEF IInv, TypeOK
<1>1. PICK e \in batch[p] \ (ok[p] \cup bad[p]) :
        IF e \in Poison
        THEN bad' = [bad EXCEPT ![p] = @ \cup {e}] /\ UNCHANGED <<sent, ok>>
        ELSE /\ sent' = [sent EXCEPT ![e] = @ + 1]
             /\ ok' = [ok EXCEPT ![p] = @ \cup {e}]
             /\ UNCHANGED bad
  BY DEF Publish
<1>2. UNCHANGED <<stored, published, batch, pc, attempt, failures>>
  BY DEF Publish
<1>3. e \in Events /\ stored[e] = "committed" /\ e \notin published
  BY DEF BatchInv
<1>4. TypeOK'
  BY <1>1, <1>2, <1>3
<1>5. \A f \in Events : sent'[f] >= sent[f] /\ (sent'[f] # sent[f] => f = e)
  BY <1>1, <1>3
<1>6. BatchInv'
  BY <1>1, <1>2, <1>3, <1>5 DEF BatchInv
<1>7. IdleInv' /\ NoPhantomMessage' /\ NothingLost'
  BY <1>2, <1>3, <1>5 DEF IdleInv, NoPhantomMessage, NothingLost
<1>8. ~Counted(e)
  BY <1>3 DEF Counted, BatchInv
<1>9. CountInv'
  <2> SUFFICES ASSUME NEW f \in Events
               PROVE  sent'[f] <= failures + (IF Counted(f)' THEN 1 ELSE 0)
    BY <1>2 DEF CountInv
  <2>1. sent[f] <= failures + (IF Counted(f) THEN 1 ELSE 0)
    BY DEF CountInv
  <2>2. Counted(f) => Counted(f)'
    BY <1>1, <1>2 DEF Counted
  <2>3. CASE sent'[f] = sent[f]
    BY <2>1, <2>2, <2>3
  <2>4. CASE sent'[f] # sent[f]
    <3>1. f = e /\ sent'[e] = sent[e] + 1 /\ e \in ok'[p]
      BY <2>4, <1>1, <1>3, <1>5
    <3>2. Counted(f)'
      BY <3>1 DEF Counted
    <3> QED
      BY <2>1, <3>1, <3>2, <1>8
  <2> QED
    BY <2>3, <2>4
<1> QED
  BY <1>4, <1>6, <1>7, <1>9

(* A message the relay does not know of is made up for by its fault.       *)
LEMMA PublishFailsStep ==
  ASSUME IInv, NEW p \in Relays, PublishFails(p)
  PROVE  IInv'
<1> USE BoundsAssumption DEF IInv, TypeOK
<1>1. PICK e \in batch[p] \ (ok[p] \cup bad[p] \cup Poison), accepted \in {0, 1} :
        /\ sent' = [sent EXCEPT ![e] = @ + accepted]
        /\ bad' = [bad EXCEPT ![p] = @ \cup {e}]
  BY DEF PublishFails
<1>2. UNCHANGED <<stored, published, batch, pc, attempt, ok>>
  BY DEF PublishFails
<1>3. failures' = failures + 1 /\ failures < MaxFailures
  BY DEF PublishFails, Fault
<1>4. e \in Events /\ stored[e] = "committed" /\ e \notin published
  BY DEF BatchInv
<1>5. TypeOK'
  BY <1>1, <1>2, <1>3, <1>4
<1>6. \A f \in Events : sent'[f] \in {sent[f], sent[f] + 1} /\ (sent'[f] # sent[f] => f = e)
  BY <1>1, <1>4
<1>7. BatchInv' /\ IdleInv'
  BY <1>2, <1>6 DEF BatchInv, IdleInv
<1>8. NoPhantomMessage' /\ NothingLost'
  BY <1>2, <1>4, <1>6 DEF NoPhantomMessage, NothingLost
<1>9. \A f \in Events : Counted(f) = Counted(f)'
  BY <1>2 DEF Counted
<1>10. CountInv'
  BY <1>3, <1>6, <1>9 DEF CountInv
<1> QED
  BY <1>5, <1>7, <1>8, <1>10

(* The end of a transaction marks what it has sent, or is a fault.         *)
LEMMA EndStep ==
  ASSUME IInv, NEW p \in Relays, Release(p), UNCHANGED <<stored, sent>>,
         attempt' \in [Relays -> 1 .. MaxTxAttempts],
         pc' \in [Relays -> {"idle", "select", "publish", "commit"}],
         \A q \in Relays : q # p => pc'[q] = pc[q],
         failures' \in 0 .. MaxFailures,
         \/ published' = published \cup ok[p] /\ failures' >= failures
         \/ published' = published /\ failures' = failures + 1
  PROVE  IInv'
<1> USE DEF IInv, TypeOK
<1>1. /\ batch' = [batch EXCEPT ![p] = {}]
      /\ ok' = [ok EXCEPT ![p] = {}] /\ bad' = [bad EXCEPT ![p] = {}]
  BY DEF Release
<1>2. ok[p] \subseteq batch[p] /\ \A e \in ok[p] : sent[e] > 0
  BY DEF BatchInv
<1>3. TypeOK'
  BY <1>1
<1>4. BatchInv'
  BY <1>1, <1>2 DEF BatchInv
<1>5. IdleInv'
  BY <1>1 DEF IdleInv
<1>6. NoPhantomMessage' /\ NothingLost'
  BY <1>2 DEF NoPhantomMessage, NothingLost
<1>7. CountInv'
  <2> SUFFICES ASSUME NEW f \in Events
               PROVE  sent[f] <= failures' + (IF Counted(f)' THEN 1 ELSE 0)
    BY DEF CountInv
  <2>1. sent[f] <= failures + (IF Counted(f) THEN 1 ELSE 0)
    BY DEF CountInv
  <2>2. CASE published' = published \cup ok[p] /\ failures' >= failures
    <3>1. Counted(f) => Counted(f)'
      BY <2>2, <1>1 DEF Counted
    <3> QED
      BY <2>1, <2>2, <3>1
  <2>3. CASE published' = published /\ failures' = failures + 1
    BY <2>1, <2>3
  <2> QED
    BY <2>2, <2>3
<1> QED
  BY <1>3, <1>4, <1>5, <1>6, <1>7

(* Every other step only moves a relay that has no business with rows.     *)
LEMMA MoveStep ==
  ASSUME IInv, NEW p \in Relays, Call(p) \/ Record(p)
  PROVE  IInv'
<1> USE DEF IInv, TypeOK
<1>1. UNCHANGED <<stored, published, batch, sent, attempt, ok, bad, failures>>
  BY DEF Call, Record
<1>2. TypeOK' /\ IdleInv'
  BY <1>1 DEF Call, Record, Goto, IdleInv
<1> QED
  BY <1>1, <1>2 DEF BatchInv, NoPhantomMessage, NothingLost, CountInv, Counted

(* All steps.                                                              *)
LEMMA Step == IInv /\ [Next]_vars => IInv'
<1> SUFFICES ASSUME IInv, [Next]_vars PROVE IInv'
  OBVIOUS
<1> USE BoundsAssumption
<1>1. ASSUME NEW e \in Events, Append(e) \/ EndProducer(e) PROVE IInv'
  BY <1>1, ProducerStep
<1>2. ASSUME NEW p \in Relays, Call(p) \/ Record(p) PROVE IInv'
  BY <1>2, MoveStep
<1>3. ASSUME NEW p \in Relays, Select(p) PROVE IInv'
  BY <1>3, SelectStep
<1>4. ASSUME NEW p \in Relays, Publish(p) PROVE IInv'
  BY <1>4, PublishStep
<1>5. ASSUME NEW p \in Relays, PublishFails(p) PROVE IInv'
  BY <1>5, PublishFailsStep
<1>6. ASSUME NEW p \in Relays, Commit(p) PROVE IInv'
  <2>1. attempt' \in [Relays -> 1 .. MaxTxAttempts] /\ pc' = [pc EXCEPT ![p] = "idle"]
    BY <1>6 DEF Commit, EndCall, Goto, IInv, TypeOK
  <2> QED
    BY <1>6, <2>1, EndStep DEF Commit, Markable, IInv, TypeOK
<1>7. ASSUME NEW p \in Relays, TxFails(p) \/ CommitUnknown(p) PROVE IInv'
  <2>1. Retry(p) /\ failures' = failures + 1 /\ failures < MaxFailures
    BY <1>7 DEF TxFails, CommitUnknown, Fault
  <2>2. /\ attempt' \in [Relays -> 1 .. MaxTxAttempts]
        /\ \E label \in {"idle", "select"} : pc' = [pc EXCEPT ![p] = label]
    BY <2>1 DEF Retry, AttemptsLeft, EndCall, Goto, IInv, TypeOK
  <2>3. Release(p) /\ UNCHANGED <<stored, sent>> /\ published' \in {published, published \cup ok[p]}
    BY <1>7, <2>1 DEF TxFails, CommitUnknown, Retry, Markable
  <2> QED
    BY <2>1, <2>2, <2>3, EndStep DEF IInv, TypeOK
<1>8. ASSUME NEW p \in Relays, CallFails(p) PROVE IInv'
  <2>1. failures' = failures + 1 /\ failures < MaxFailures
    BY <1>8 DEF CallFails, Fault
  <2>2. attempt' \in [Relays -> 1 .. MaxTxAttempts] /\ pc' = [pc EXCEPT ![p] = "idle"]
    BY <1>8 DEF CallFails, EndCall, Goto, IInv, TypeOK
  <2> QED
    BY <1>8, <2>1, <2>2, EndStep DEF CallFails, IInv, TypeOK
<1>9. CASE UNCHANGED vars
  BY <1>9 DEF vars, IInv, TypeOK, BatchInv, IdleInv, NoPhantomMessage, NothingLost, CountInv, Counted
<1> QED
  BY <1>1, <1>2, <1>3, <1>4, <1>5, <1>6, <1>7, <1>8, <1>9 DEF Next, Relay

(* The inductive invariant holds whatever producers, relays and faults do  *)
(* (outbox.go, ClaimBatch under database.InTx).                            *)
THEOREM OutboxInvariance == Spec => []IInv
  BY InitHolds, Step, PTL DEF Spec

(* No message without its aggregate: relays take committed rows only, and  *)
(* a row that has committed stays so (outbox.go:114-123).                  *)
THEOREM NoPhantom == Spec => []NoPhantomMessage
<1>1. IInv => NoPhantomMessage
  BY DEF IInv
<1> QED
  BY <1>1, OutboxInvariance, PTL

(* published_at is set only for events the queue accepted: marks are made  *)
(* by the transaction that saw the acceptance (outbox.go:136-158).         *)
THEOREM AtLeastOnce == Spec => []NothingLost
<1>1. IInv => NothingLost
  BY DEF IInv
<1> QED
  BY <1>1, OutboxInvariance, PTL

(* Relays exclude each other on rows, so only a fault makes a duplicate    *)
(* (outbox.go:120, FOR UPDATE SKIP LOCKED).                                *)
THEOREM DuplicatesAreFaults == Spec => []DuplicatesNeedFaults
<1>1. IInv => DuplicatesNeedFaults
  BY DEF IInv, TypeOK, CountInv, DuplicatesNeedFaults
<1> QED
  BY <1>1, OutboxInvariance, PTL

-----------------------------------------------------------------------------
(* Outbox implements Delivery.                                             *)

(* The events that are due.                                                *)
Due == {e \in Events : stored[e] = "committed"}

(* What a relay has claimed and not yet sent is due, and whatever was sent *)
(* of it before was sent for a fault.                                      *)
LEMMA ClaimedIsDue ==
  ASSUME IInv, NEW p \in Relays, NEW e \in batch[p], e \notin ok[p]
  PROVE  e \in Due \ published /\ sent[e] <= failures
<1> USE DEF IInv, TypeOK
<1>1. e \in Due \ published
  BY DEF BatchInv, Due
<1>2. ~Counted(e)
  <2>1. \A q \in Relays : q # p => e \notin ok[q]
    BY DEF BatchInv
  <2> QED
    BY <1>1, <2>1 DEF Counted
<1> QED
  BY <1>1, <1>2 DEF CountInv, Due

(* What a commit marks is due and has been sent.                           *)
LEMMA MarkedIsSent ==
  ASSUME IInv, NEW p \in Relays, published' = published \cup Markable(p), UNCHANGED <<stored, sent>>
  PROVE  Queue!Settle(Markable(p))
<1> USE DEF IInv, TypeOK
<1>1. Markable(p) \subseteq Due \ published /\ \A e \in Markable(p) : sent[e] > 0
  BY DEF BatchInv, Markable, Due
<1> QED
  BY <1>1 DEF Queue!Settle, Due

(* A message that the queue accepts is a delivery.                         *)
LEMMA AcceptedIsDelivered ==
  ASSUME IInv, NEW p \in Relays, NEW e \in batch[p], e \notin ok[p],
         sent' = [sent EXCEPT ![e] = @ + 1], UNCHANGED <<stored, published>>
  PROVE  e \in Events /\ Queue!Deliver(e)
<1>1. e \in Due \ published /\ sent[e] <= failures
  BY ClaimedIsDue
<1> QED
  BY <1>1 DEF Due, Queue!Deliver

(* Every step is a step of the abstract delivery, or a stutter.            *)
LEMMA DeliveryStep ==
  ASSUME IInv, [Next]_vars
  PROVE  [Queue!DeliveryNext]_Queue!deliveryVars
<1> DEFINE Still == UNCHANGED <<stored, published, sent>>
<1>1. ASSUME NEW e \in Events, Append(e) \/ EndProducer(e)
      PROVE  Queue!BecomeDue(e) \/ Due' = Due
  BY <1>1 DEF IInv, TypeOK, Append, EndProducer, Queue!BecomeDue, Due
<1>2. ASSUME NEW p \in Relays, Publish(p)
      PROVE  (\E e \in Events : Queue!Deliver(e)) \/ Still
  <2>1. PICK e \in batch[p] \ (ok[p] \cup bad[p]) :
          IF e \in Poison
          THEN bad' = [bad EXCEPT ![p] = @ \cup {e}] /\ UNCHANGED <<sent, ok>>
          ELSE /\ sent' = [sent EXCEPT ![e] = @ + 1]
               /\ ok' = [ok EXCEPT ![p] = @ \cup {e}]
               /\ UNCHANGED bad
    BY <1>2 DEF Publish
  <2>2. UNCHANGED <<stored, published>>
    BY <1>2 DEF Publish
  <2> QED
    BY <2>1, <2>2, AcceptedIsDelivered
<1>3. ASSUME NEW p \in Relays, PublishFails(p)
      PROVE  (\E e \in Events : Queue!Deliver(e)) \/ Still
  <2>1. PICK e \in batch[p] \ (ok[p] \cup bad[p] \cup Poison), accepted \in {0, 1} :
          sent' = [sent EXCEPT ![e] = @ + accepted]
    BY <1>3 DEF PublishFails
  <2>2. UNCHANGED <<stored, published>>
    BY <1>3 DEF PublishFails
  <2>3. CASE accepted = 1
    BY <2>1, <2>2, <2>3, AcceptedIsDelivered
  <2>4. CASE accepted = 0
    <3>1. e \in Events /\ sent \in [Events -> Nat]
      BY DEF IInv, TypeOK
    <3>2. sent' = sent
      BY <2>1, <2>4, <3>1
    <3> QED
      BY <2>2, <3>2
  <2> QED
    BY <2>3, <2>4
<1>4. ASSUME NEW p \in Relays, Commit(p) \/ CommitUnknown(p)
      PROVE  \E done \in SUBSET Events : Queue!Settle(done)
  <2>1. published' = published \cup Markable(p) /\ UNCHANGED <<stored, sent>>
    BY <1>4 DEF Commit, CommitUnknown
  <2>2. Markable(p) \in SUBSET Events
    BY DEF IInv, TypeOK, Markable
  <2> QED
    BY <2>1, <2>2, MarkedIsSent
<1>5. ASSUME NEW p \in Relays,
             Call(p) \/ Select(p) \/ Record(p) \/ TxFails(p) \/ CallFails(p)
      PROVE  Still
  BY <1>5 DEF Call, Select, Record, TxFails, CallFails
<1>6. ASSUME Still
      PROVE  \E done \in SUBSET Events : Queue!Settle(done)
  <2>1. Queue!Settle({})
    BY <1>6 DEF Queue!Settle
  <2> QED
    BY <2>1
<1>7. failures' \in {failures, failures + 1}
  BY DEF Next, vars, Relay, Append, EndProducer, Call, Select, Publish, Record, Commit,
         PublishFails, TxFails, CommitUnknown, CallFails, Fault
<1>8. CASE UNCHANGED vars
  BY <1>8 DEF vars, Queue!deliveryVars
<1>9. ASSUME NEW e \in Events, Append(e) \/ EndProducer(e), Due' = Due
      PROVE  UNCHANGED Queue!deliveryVars
  BY <1>9 DEF Append, EndProducer, Queue!deliveryVars, Due
<1>10. CASE Next
  <2>1. \/ \E e \in Events : Append(e) \/ EndProducer(e)
        \/ (\E e \in Events : Queue!Deliver(e)) \/ Still
        \/ \E done \in SUBSET Events : Queue!Settle(done)
    BY <1>2, <1>3, <1>4, <1>5, <1>10 DEF Next, Relay
  <2> QED
    BY <1>1, <1>6, <1>7, <1>9, <2>1 DEF Queue!DeliveryNext
<1> QED
  BY <1>8, <1>10

(* ClaimBatch under InTx's retries, with any number of relays, implements  *)
(* delivery at least once: only what has committed is delivered, nothing   *)
(* is delivered once it is marked, nothing is marked undelivered, and a    *)
(* second delivery needs a fault that came first.                          *)
THEOREM DeliveryRefinement == Spec => ImplementsDelivery
<1>1. Init => Queue!DeliveryInit
  BY DEF Init, Queue!DeliveryInit
<1>2. IInv /\ [Next]_vars => [Queue!DeliveryNext]_Queue!deliveryVars
  BY DeliveryStep
<1> QED
  BY <1>1, <1>2, OutboxInvariance, PTL DEF Spec, ImplementsDelivery, Queue!DeliverySpec
=============================================================================
