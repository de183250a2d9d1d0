------------------------------ MODULE Delivery ------------------------------
(***************************************************************************)
(* What outbox/ promises, whatever tables, batches, locks and retries      *)
(* implement it: delivery at least once.  An event is due once its         *)
(* aggregate has committed; a due event is delivered until it is settled   *)
(* and never after, settled only when it has been delivered, and delivered *)
(* more than once only for a fault that has happened.                      *)
(***************************************************************************)
EXTENDS Naturals

CONSTANT Events

VARIABLES due, settled, sent, faults

deliveryVars == <<due, settled, sent, faults>>

DeliveryInit == /\ due = {} /\ settled = {}
                /\ sent = [e \in Events |-> 0]
                /\ faults = 0

(* Append, in a transaction that commits.                                  *)
BecomeDue(e) == /\ e \notin due
                /\ due' = due \cup {e}
                /\ UNCHANGED <<settled, sent>>

(* The queue accepts e: once, and once more for every fault so far.        *)
Deliver(e) == /\ e \in due \ settled
              /\ sent[e] <= faults
              /\ sent' = [sent EXCEPT ![e] = @ + 1]
              /\ UNCHANGED <<due, settled>>

(* The events of a batch are marked together.                              *)
Settle(batch) == /\ batch \subseteq due \ settled
                 /\ \A e \in batch : sent[e] > 0
                 /\ settled' = settled \cup batch
                 /\ UNCHANGED <<due, sent>>

(* Any step may be a fault; the fault that does nothing settles nothing.   *)
DeliveryNext == /\ \/ \E e \in Events : BecomeDue(e) \/ Deliver(e)
                   \/ \E batch \in SUBSET Events : Settle(batch)
                /\ faults' \in {faults, faults + 1}

DeliverySpec == DeliveryInit /\ [][DeliveryNext]_deliveryVars
=============================================================================
