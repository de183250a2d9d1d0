------------------------- MODULE IdempotentRequests -------------------------
(***************************************************************************)
(* idempotency.Middleware before Begin: a request is recognised by the     *)
(* RequestHash of its payload.  Idempotency takes the digests as given;    *)
(* here they are computed, and its answers are judged by what the clients  *)
(* sent instead of by digests.                                             *)
(***************************************************************************)
EXTENDS RequestHash, Idempotency

CONSTANTS
  Payload,   \* Payload[r]: actor, route and body of request r
  Payloads   \* a sample of payloads, to compare digests with meanings on

ASSUME PayloadAssumption ==
  /\ HashOf = [r \in Requests |-> RequestHash(Payload[r])]
  /\ \A r \in Requests : IsBody(Payload[r].body)
ASSUME PayloadsAssumption == \A p \in Payloads : IsBody(p.body)

Same(r, s) == SameRequest(Payload[r], Payload[s])

(* A digest stands for the meaning of a payload, no more and no less:      *)
(* order of keys, blanks and repeated keys do not change it (store.go:     *)
(* "regardless of key ordering or insignificant whitespace"), and payloads *)
(* that mean different things have different digests.  Only numbers beyond *)
(* the exact range of float64 are confused with their neighbours.  The two *)
(* sides of an approval agree on the body alone.                           *)
DigestsAgree == \A p, q \in Payloads :
  /\ RequestHash(p) = RequestHash(q) <=> SameRequest(p, q)
  /\ CanonicalHash(p.body) = CanonicalHash(q.body) <=> SameBody(p.body, q.body, FALSE)
  /\ PrecisePayload(p) /\ PrecisePayload(q)
       => (RequestHash(p) = RequestHash(q) <=> IdenticalRequest(p, q))

(* It says nothing of the state, and is looked at before anything happens. *)
DigestIsMeaning == row = NoRow /\ now = 0 => DigestsAgree

(* A replayed answer is the complete response of an execution of the same  *)
(* request, never another body's.  It is empty only for a response above   *)
(* maxStoredBody, which the code records as completed without its body.    *)
ReplaysOwnAnswer == \A r \in Requests :
  answer[r].kind = "replay" =>
    \/ answer[r].body \in Requests /\ Same(r, answer[r].body)
    \/ answer[r].body = None /\ \E s \in LargeBodies : Same(r, s)

(* A retry that is spelled differently is never refused as "already used   *)
(* with a different request body": somebody did use the key for another    *)
(* request, and began before this one was refused.                         *)
CopiesNeverConflict == \A r \in Requests :
  answer[r].kind = "conflict" =>
    \E s \in Requests : ~Same(r, s) /\ pc[s] # "idle" /\ answer[s].kind # "refused"
=============================================================================
