--------------------------- MODULE IdempotencyKey ---------------------------
(***************************************************************************)
(* What idempotency/ promises about one key, whatever tables, locks and    *)
(* retries implement it: at any moment the key is free, held by exactly    *)
(* one request, or done, and only the request that holds it may finish or  *)
(* release it.  The lifetime of a record (expires_at) appears only as a    *)
(* lapse back to free.                                                     *)
(***************************************************************************)
CONSTANTS Requests, None

VARIABLES phase, holder

keyVars == <<phase, holder>>

KeyInit == phase = "free" /\ holder = None

Acquire(r) == /\ phase = "free"
              /\ phase' = "held"
              /\ holder' = r

Finish(r) == /\ phase = "held" /\ holder = r
             /\ phase' = "done"
             /\ UNCHANGED holder

Release(r) == /\ phase = "held" /\ holder = r
              /\ phase' = "free"
              /\ holder' = None

Lapse == /\ phase \in {"held", "done"}
         /\ phase' = "free"
         /\ holder' = None

KeyNext == Lapse \/ \E r \in Requests : Acquire(r) \/ Finish(r) \/ Release(r)

KeySpec == KeyInit /\ [][KeyNext]_keyVars
=============================================================================
