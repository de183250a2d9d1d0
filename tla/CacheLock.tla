----------------------------- MODULE CacheLock -----------------------------
(***************************************************************************)
(* cache.Client.AcquireLock (cache/cache.go): workers that take a single-  *)
(* flight lock with SET NX and a time to live, work, and release it with a *)
(* compare-and-delete of their token.  A worker may overrun the time to    *)
(* live, fail, or die while it holds the lock.  The key's time to live is  *)
(* kept as the ticks it has left, so time is unbounded.                    *)
(***************************************************************************)
EXTENDS Naturals

CONSTANTS
  Workers,
  TTL,       \* the ttl the workers pass
  Faults,    \* "lost": a command fails or its answer is lost; "crash"
  None       \* the key is absent

ASSUME WorkersAssumption == None \notin Workers
ASSUME TTLAssumption == TTL \in Nat \ {0}

VARIABLES
  lock,    \* the token stored under the key: tokens name their workers
  left,    \* ticks until the key expires
  pc,      \* idle, working, releasing or dead
  since    \* ticks since the worker's SET NX, while it works

vars == <<lock, left, pc, since>>

Init == /\ lock = None /\ left = 0
        /\ pc = [w \in Workers |-> "idle"]
        /\ since = [w \in Workers |-> 0]

Goto(w, label) == pc' = [pc EXCEPT ![w] = label]

(* Mutant: SET without NX.                                                 *)
FreeAlways == TRUE
Free == lock = None

SetNX(w) == lock' = w /\ left' = TTL

(* SET NX EX answers true, and the caller goes to work.                    *)
Acquire(w) == /\ pc[w] = "idle" /\ Free
              /\ SetNX(w)
              /\ since' = [since EXCEPT ![w] = 0]
              /\ Goto(w, "working")

(* SET NX answers false, or the command fails: the caller has no lock, yet *)
(* a lost answer may leave its token under the key.                        *)
Denied(w) == /\ pc[w] = "idle" /\ ~Free
             /\ UNCHANGED vars

AcquireFails(w) == /\ "lost" \in Faults
                   /\ pc[w] = "idle" /\ Free
                   /\ SetNX(w)
                   /\ UNCHANGED <<pc, since>>

WorkDone(w) == /\ pc[w] = "working"
               /\ Goto(w, "releasing")
               /\ UNCHANGED <<lock, left, since>>

(* Mutant: DEL without the comparison.                                     *)
DeletableAlways(w) == lock # None
(* The script's test: the key still holds the caller's token.              *)
Deletable(w) == lock = w

(* release runs the script; when the command fails the key stays until it  *)
(* expires, and the error is dropped.                                      *)
Release(w) == /\ pc[w] = "releasing"
              /\ lock' = IF Deletable(w) THEN None ELSE lock
              /\ left' = IF Deletable(w) THEN 0 ELSE left
              /\ since' = [since EXCEPT ![w] = 0]
              /\ Goto(w, "idle")

ReleaseFails(w) == /\ "lost" \in Faults
                   /\ pc[w] = "releasing"
                   /\ since' = [since EXCEPT ![w] = 0]
                   /\ Goto(w, "idle")
                   /\ UNCHANGED <<lock, left>>

Crash(w) == /\ "crash" \in Faults
            /\ pc[w] \in {"working", "releasing"}
            /\ since' = [since EXCEPT ![w] = 0]
            /\ Goto(w, "dead")
            /\ UNCHANGED <<lock, left>>

(* Mutant: SET NX without a time to live.                                  *)
ElapsedNever(n) == n
Elapsed(n) == n - 1

Older(n) == IF n < TTL THEN n + 1 ELSE n

(* Time passes and the key expires, whether or not its worker is done.     *)
Tick == /\ left' = IF lock = None THEN 0 ELSE Elapsed(left)
        /\ lock' = IF left' = 0 THEN None ELSE lock
        /\ since' = [w \in Workers |->
             IF pc[w] \in {"working", "releasing"} THEN Older(since[w]) ELSE 0]
        /\ UNCHANGED pc

Worker(w) == Acquire(w) \/ WorkDone(w) \/ Release(w)

Next == \/ Tick
        \/ \E w \in Workers : \/ Worker(w) \/ Denied(w) \/ AcquireFails(w)
                              \/ ReleaseFails(w) \/ Crash(w)

Spec == Init /\ [][Next]_vars

(* Time passes.  Nothing is assumed of the workers.                        *)
FairSpec == Spec /\ WF_vars(Tick)

-----------------------------------------------------------------------------
(* Properties.                                                             *)

(* Types; a key that is there has time left.                               *)
TypeOK == /\ lock \in Workers \cup {None}
          /\ left \in IF lock = None THEN {0} ELSE 1 .. TTL
          /\ pc \in [Workers -> {"idle", "working", "releasing", "dead"}]
          /\ since \in [Workers -> 0 .. TTL]

Busy == {w \in Workers : pc[w] \in {"working", "releasing"}}

(* Nobody works beside a worker that is within its ttl, whatever fails and *)
(* whoever else has overrun.                                               *)
SingleFlight == \A v, w \in Busy : since[v] < TTL /\ since[w] < TTL => v = w

(* A release frees no lock but the caller's own ("an expired lock held by  *)
(* another worker is never released by this one"), also when the caller    *)
(* has overrun its ttl and another works under a later lock.               *)
ReleasesOwnLockOnly ==
  [][\A v, w \in Workers : pc[w] = "releasing" /\ pc'[w] = "idle" /\ lock = v /\ v # w
       => lock' = v]_vars

(* A lock whose holder died, or whose release was lost, becomes free.      *)
LockIsFreed == lock # None ~> lock = None
=============================================================================
