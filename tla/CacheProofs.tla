---------------------------- MODULE CacheProofs ----------------------------
(***************************************************************************)
(* What expires: CacheLock for every set of workers and every time to      *)
(* live, SecretCache for every set of readers, every time to live, every   *)
(* latency of the store and every history of the secret.                   *)
(***************************************************************************)
EXTENDS CacheLock, SecretCache, TLAPS

-----------------------------------------------------------------------------
(* The lock.                                                               *)

(* While a busy worker is within its ttl its token is under the key, and   *)
(* the key has exactly the time left that the worker has.                  *)
Holds(w) == lock = w /\ left + since[w] = TTL

(* The inductive invariant: a worker within its ttl holds the key.         *)
LockInv == TypeOK /\ \A w \in Busy : since[w] < TTL => Holds(w)

(* Nobody is busy at first.                                                *)
LEMMA LockInitHolds == Init => LockInv
  BY TTLAssumption DEF Init, LockInv, TypeOK, Busy

(* Every step keeps the types; Tick needs the arithmetic.                  *)
LEMMA LockTypesStep == TypeOK /\ [Next]_vars => TypeOK'
<1> SUFFICES ASSUME TypeOK, [Next]_vars PROVE TypeOK'
  OBVIOUS
<1> USE WorkersAssumption, TTLAssumption DEF TypeOK
<1>1. CASE Tick
  <2>1. left \in 0 .. TTL
    BY SMT
  <2>2. lock = None => left' = 0 /\ lock' = None
    BY <1>1 DEF Tick
  <2>3. lock # None => left' = left - 1 /\ left \in 1 .. TTL
    BY <1>1 DEF Tick, Elapsed
  <2>4. lock' \in Workers \cup {None} /\ left' \in (IF lock' = None THEN {0} ELSE 1 .. TTL)
    BY <2>1, <2>2, <2>3, <1>1 DEF Tick
  <2>5. since' \in [Workers -> 0 .. TTL]
    BY <1>1 DEF Tick, Older
  <2> QED
    BY <2>4, <2>5, <1>1 DEF Tick
<1>2. ASSUME NEW w \in Workers,
             Worker(w) \/ AcquireFails(w) \/ ReleaseFails(w) \/ Crash(w)
      PROVE  TypeOK'
  BY <1>2 DEF Worker, Acquire, WorkDone, Release, AcquireFails, ReleaseFails, Crash,
              SetNX, Goto, Deletable
<1>3. ASSUME UNCHANGED vars PROVE TypeOK'
  BY <1>3 DEF vars
<1> QED
  BY <1>1, <1>2, <1>3 DEF Next, Denied

(* A worker becomes busy only by taking a free key; then the key and the   *)
(* worker's ttl run down together, and nobody else writes the key.         *)
LEMMA LockStep == LockInv /\ [Next]_vars => LockInv'
<1> SUFFICES ASSUME LockInv, [Next]_vars, NEW v \in Busy', since'[v] < TTL
             PROVE  Holds(v)'
  BY LockTypesStep DEF LockInv
<1> USE WorkersAssumption, TTLAssumption DEF LockInv, TypeOK, Busy, Holds
<1>1. CASE Tick
  <2>1. v \in Busy /\ since[v] \in 0 .. TTL
    BY <1>1 DEF Tick
  <2>2. since'[v] = since[v] + 1 /\ since[v] + 1 < TTL
    BY <2>1, <1>1 DEF Tick, Older
  <2>3. lock = v /\ left + since[v] = TTL
    BY <2>1, <2>2
  <2>4. lock # None /\ left \in 1 .. TTL
    BY <2>3
  <2>5. left' = left - 1
    BY <2>4, <1>1 DEF Tick, Elapsed
  <2>6. lock' = lock
    BY <2>1, <2>2, <2>3, <2>4, <2>5, <1>1 DEF Tick
  <2> QED
    BY <2>1, <2>2, <2>3, <2>4, <2>5, <2>6
<1>2. ASSUME NEW w \in Workers, Acquire(w) PROVE Holds(v)'
  <2>1. CASE v = w
    BY <2>1, <1>2 DEF Acquire, SetNX
  <2>2. CASE v # w
    <3>1. v \in Busy /\ since[v] < TTL
      BY <2>2, <1>2 DEF Acquire, Goto
    <3>2. lock = v /\ lock = None
      BY <3>1, <1>2 DEF Acquire, Free
    <3> QED
      BY <3>2
  <2> QED
    BY <2>1, <2>2
<1>3. ASSUME NEW w \in Workers, WorkDone(w) PROVE Holds(v)'
  <2>1. v \in Busy
    BY <1>3 DEF WorkDone, Goto
  <2> QED
    BY <2>1, <1>3 DEF WorkDone
<1>4. ASSUME NEW w \in Workers, Release(w) PROVE Holds(v)'
  <2>1. v \in Busy /\ v # w /\ since[v] < TTL
    BY <1>4 DEF Release, Goto
  <2>2. lock = v
    BY <2>1
  <2>3. UNCHANGED <<lock, left>> /\ since'[v] = since[v]
    BY <2>1, <2>2, <1>4 DEF Release, Deletable
  <2> QED
    BY <2>1, <2>3
<1>5. ASSUME NEW w \in Workers, AcquireFails(w) PROVE Holds(v)'
  <2>1. v \in Busy /\ since[v] < TTL /\ lock = None
    BY <1>5 DEF AcquireFails, Free
  <2>2. lock = v
    BY <2>1
  <2> QED
    BY <2>1, <2>2
<1>6. ASSUME NEW w \in Workers, ReleaseFails(w) \/ Crash(w) PROVE Holds(v)'
  <2>1. v \in Busy /\ v # w
    BY <1>6 DEF ReleaseFails, Crash, Goto
  <2> QED
    BY <2>1, <1>6 DEF ReleaseFails, Crash
<1>7. CASE UNCHANGED vars
  BY <1>7 DEF vars
<1> QED
  BY <1>1, <1>2, <1>3, <1>4, <1>5, <1>6, <1>7 DEF Next, Worker, Denied

(* The inductive invariant holds in every behaviour of the lock: callers   *)
(* of AcquireLock that are within their ttl have the time the key has.     *)
THEOREM LockInvariance == Spec => []LockInv
  BY LockInitHolds, LockStep, PTL DEF Spec

(* Work within the ttl is single-flight, whatever commands are lost and    *)
(* whichever workers die or overrun (cache.go, AcquireLock).               *)
THEOREM LockExcludes == Spec => []SingleFlight
<1>1. LockInv => SingleFlight
  BY DEF LockInv, SingleFlight, Holds, Busy
<1> QED
  BY <1>1, LockInvariance, PTL

(* release deletes no lock but its caller's, whether or not the caller has *)
(* overrun the ttl (cache.go, the compare-and-delete script).              *)
THEOREM ReleaseIsOwn == Spec => ReleasesOwnLockOnly
<1>1. TypeOK /\ [Next]_vars =>
        [\A v, w \in Workers : pc[w] = "releasing" /\ pc'[w] = "idle" /\ lock = v /\ v # w
           => lock' = v]_vars
  <2> SUFFICES ASSUME TypeOK, Next, NEW v \in Workers, NEW w \in Workers,
                      pc[w] = "releasing", pc'[w] = "idle", lock = v, v # w
               PROVE  lock' = v
    OBVIOUS
  <2>1. \/ Release(w) \/ ReleaseFails(w)
    <3>1. ~Tick /\ ~UNCHANGED pc
      BY DEF Tick
    <3>2. PICK u \in Workers : Worker(u) \/ AcquireFails(u) \/ ReleaseFails(u) \/ Crash(u)
      BY <3>1 DEF Next, Denied, vars
    <3>3. Release(u) \/ ReleaseFails(u)
      BY <3>2, <3>1 DEF Worker, Acquire, WorkDone, AcquireFails, Crash, Goto, TypeOK
    <3>4. u = w
      BY <3>3 DEF Release, ReleaseFails, Goto, TypeOK
    <3> QED
      BY <3>3, <3>4
  <2> QED
    BY <2>1 DEF Release, ReleaseFails, Deletable
<1>2. LockInv => TypeOK
  BY DEF LockInv
<1> QED
  BY <1>1, <1>2, LockInvariance, PTL DEF Spec, ReleasesOwnLockOnly

-----------------------------------------------------------------------------
(* The secret.                                                             *)

(* What the store holds, or will hold, has not been replaced.              *)
ContentInv == \A c \in Contents : c >= content => replaced[c] = 0

(* An answer on its way is no older than the request for it.               *)
AnswerInv == \A r \in Readers :
  reader[r] = "told" => told[r] \in 1 .. content /\ replaced[told[r]] <= waiting[r]

(* The age of a value in the cache and what is left of its life add up.    *)
EntryInv == entry.left > 0 =>
  /\ entry.value \in 1 .. content /\ entry.value \notin Empty
  /\ replaced[entry.value] + entry.left <= SecretTTL + Latency

SecretInv == SecretTypeOK /\ ContentInv /\ AnswerInv /\ EntryInv

(* The cache is empty at first, and nobody asks.                           *)
LEMMA SecretInitHolds == SecretInit => SecretInv
  BY SecretTTLAssumption, ContentsAssumption
  DEF SecretInit, SecretInv, SecretTypeOK, ContentInv, AnswerInv, EntryInv, Contents, AgeLimit

(* Rotate: the content that is replaced is not older for that.             *)
LEMMA RotateStep == SecretInv /\ Rotate => SecretInv'
  BY SecretTTLAssumption, ContentsAssumption
  DEF Rotate, SecretInv, SecretTypeOK, ContentInv, AnswerInv, EntryInv, Contents

(* Time ages contents, answers and the entry alike.                        *)
LEMMA SecretTickStep ==
  ASSUME SecretInv, SecretTick
  PROVE  SecretInv'
<1> USE SecretTTLAssumption, ContentsAssumption DEF SecretInv, SecretTypeOK, Contents, AgeLimit
<1>1. UNCHANGED <<content, reader, told>>
  BY DEF SecretTick
<1>2. /\ replaced' \in [Contents -> 0 .. AgeLimit]
      /\ \A c \in Contents : /\ replaced'[c] <= replaced[c] + 1
                             /\ c >= content => replaced'[c] = replaced[c]
  BY DEF SecretTick
<1>3. /\ waiting' \in [Readers -> 0 .. Latency]
      /\ \A r \in Readers : reader[r] # "idle" => waiting'[r] = waiting[r] + 1
  BY DEF SecretTick
<1>4. /\ entry' \in [value : 0 .. MaxContents, left : 0 .. SecretTTL]
      /\ entry'.value = entry.value
      /\ entry'.left > 0 => entry.left = entry'.left + 1
  <2>1. entry' = [entry EXCEPT !.left = IF @ > 0 THEN @ - 1 ELSE 0]
    BY DEF SecretTick
  <2>2. entry.left \in 0 .. SecretTTL /\ entry.value \in 0 .. MaxContents
    OBVIOUS
  <2>3. entry'.value = entry.value /\ entry'.left = IF entry.left > 0 THEN entry.left - 1 ELSE 0
    BY <2>1
  <2>4. entry'.left \in 0 .. SecretTTL
    BY <2>2, <2>3
  <2>5. entry' = [value |-> entry'.value, left |-> entry'.left]
    BY <2>1
  <2> QED
    BY <2>2, <2>3, <2>4, <2>5
<1>5. SecretTypeOK' /\ ContentInv'
  BY <1>1, <1>2, <1>3, <1>4 DEF ContentInv
<1>6. AnswerInv'
  <2> SUFFICES ASSUME NEW r \in Readers, reader[r] = "told"
               PROVE  told[r] \in 1 .. content /\ replaced'[told[r]] <= waiting'[r]
    BY <1>1 DEF AnswerInv
  <2>1. told[r] \in 1 .. content /\ replaced[told[r]] <= waiting[r]
    BY DEF AnswerInv
  <2>2. told[r] \in Contents
    BY <2>1
  <2>3. replaced'[told[r]] <= replaced[told[r]] + 1 /\ waiting'[r] = waiting[r] + 1
    BY <1>2, <1>3, <2>2
  <2>4. /\ replaced[told[r]] \in Nat /\ replaced'[told[r]] \in Nat /\ waiting[r] \in Nat
    BY <1>2, <2>2
  <2> QED
    BY <2>1, <2>3, <2>4
<1>7. EntryInv'
  <2> SUFFICES ASSUME entry'.left > 0
               PROVE  /\ entry.value \in 1 .. content /\ entry.value \notin Empty
                      /\ replaced'[entry.value] + entry'.left <= SecretTTL + Latency
    BY <1>1, <1>4 DEF EntryInv
  <2>1. entry.left = entry'.left + 1
    BY <1>4
  <2>2. entry.left \in Nat /\ entry'.left \in Nat
    BY <1>4
  <2>3. /\ entry.value \in 1 .. content /\ entry.value \notin Empty
        /\ replaced[entry.value] + entry.left <= SecretTTL + Latency
    BY <2>1, <2>2 DEF EntryInv
  <2>4. entry.value \in Contents
    BY <2>3
  <2>5. /\ replaced'[entry.value] <= replaced[entry.value] + 1
        /\ replaced[entry.value] \in Nat /\ replaced'[entry.value] \in Nat
    BY <1>2, <2>4
  <2>6. replaced'[entry.value] + entry'.left <= replaced[entry.value] + entry.left
    BY <2>1, <2>2, <2>5
  <2>7. replaced'[entry.value] + entry'.left <= SecretTTL + Latency
    BY <2>2, <2>3, <2>5, <2>6
  <2> QED
    BY <2>3, <2>7
<1> QED
  BY <1>5, <1>6, <1>7

(* A reader asks, hears or gives up: the entry is as it was.               *)
LEMMA ReaderStep ==
  ASSUME SecretInv, NEW r \in Readers,
         Hit(r) \/ Miss(r) \/ StoreAnswers(r) \/ NotFound(r) \/ AskFails(r)
  PROVE  SecretInv'
<1> USE SecretTTLAssumption, ContentsAssumption DEF SecretInv, SecretTypeOK, Contents, AgeLimit
<1>1. UNCHANGED <<content, replaced, entry>>
  BY DEF Hit, Miss, StoreAnswers, NotFound, AskFails, AfterHit
<1>2. ContentInv' /\ EntryInv'
  BY <1>1 DEF ContentInv, EntryInv
<1>3. CASE Hit(r)
  BY <1>1, <1>2, <1>3 DEF Hit, AnswerInv
<1>4. CASE Miss(r)
  BY <1>1, <1>2, <1>4 DEF Miss, AnswerInv
<1>5. CASE StoreAnswers(r)
  <2>1. told'[r] = content /\ replaced[content] = 0 /\ waiting[r] \in Nat
    BY <1>5 DEF StoreAnswers, ContentInv
  <2>2. \A s \in Readers : s # r => told'[s] = told[s] /\ reader'[s] = reader[s]
    BY <1>5 DEF StoreAnswers
  <2>3. SecretTypeOK'
    BY <1>1, <1>5 DEF StoreAnswers
  <2>4. AnswerInv'
    BY <1>1, <1>5, <2>1, <2>2 DEF StoreAnswers, AnswerInv
  <2> QED
    BY <1>2, <2>3, <2>4
<1>6. CASE NotFound(r) \/ AskFails(r)
  <2>1. Forget(r)
    BY <1>6 DEF NotFound, AskFails
  <2>2. SecretTypeOK'
    BY <1>1, <2>1 DEF Forget
  <2>3. AnswerInv'
    BY <1>1, <2>1 DEF Forget, AnswerInv
  <2> QED
    BY <1>2, <2>2, <2>3
<1> QED
  BY <1>3, <1>4, <1>5, <1>6

(* A value is put with a full life, and has waited no longer than Latency. *)
LEMMA PutStep ==
  ASSUME SecretInv, NEW r \in Readers, Put(r)
  PROVE  SecretInv'
<1> USE SecretTTLAssumption, ContentsAssumption DEF SecretInv, SecretTypeOK, Contents, AgeLimit
<1>1. UNCHANGED <<content, replaced>>
  BY DEF Put
<1>2. /\ told[r] \in 1 .. content /\ told[r] \notin Empty
      /\ replaced[told[r]] <= waiting[r] /\ waiting[r] <= Latency
  BY DEF Put, Usable, AnswerInv
<1>3. entry'.value = told[r] /\ entry'.left = SecretTTL
  BY DEF Put, Stored
<1>4. SecretTypeOK' /\ ContentInv'
  BY <1>1, <1>2 DEF Put, Stored, Forget, ContentInv
<1>5. AnswerInv'
  BY <1>1 DEF Put, Forget, AnswerInv
<1>6. EntryInv'
  BY <1>1, <1>2, <1>3 DEF EntryInv
<1> QED
  BY <1>4, <1>5, <1>6

(* All steps.                                                              *)
LEMMA SecretStep == SecretInv /\ [SecretNext]_secretVars => SecretInv'
<1> SUFFICES ASSUME SecretInv, [SecretNext]_secretVars PROVE SecretInv'
  OBVIOUS
<1>1. CASE UNCHANGED secretVars
  BY <1>1 DEF secretVars, SecretInv, SecretTypeOK, ContentInv, AnswerInv, EntryInv
<1> QED
  BY <1>1, RotateStep, SecretTickStep, ReaderStep, PutStep DEF SecretNext, Get

(* For every interleaving of rotations, slow answers, failures and time,   *)
(* a hit serves what was the secret less than ttl and one request ago      *)
(* (secrets.go, ttlCache.get and put).                                     *)
THEOREM StalenessIsBounded == SecretSpec => []BoundedStaleness
<1>1. SecretSpec => []SecretInv
  BY SecretInitHolds, SecretStep, PTL DEF SecretSpec
<1>2. SecretInv => BoundedStaleness
  BY SecretTTLAssumption, ContentsAssumption
  DEF SecretInv, SecretTypeOK, EntryInv, BoundedStaleness, Valid, Contents
<1> QED
  BY <1>1, <1>2, PTL
=============================================================================
