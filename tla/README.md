# moribox-shared: specifications

TLA+ modules of the stateful packages of `moribox-shared`, the TLC models that
check them on small instances, and TLAPS proofs about the ones that matter
most. Paths below are relative to `src/`. `PROJECT.json` lists the runs, the
lines every definition stands for, the hazards, and one mutant of the code per
property.

    tlasany Idempotency.tla                            parse a module
    tlc -workers 2 -config IdemSafety.cfg MCIdempotency   check a run
    tlapm IdempotencyProofs.tla                        check the proofs of a module

## 1. The system

`moribox-shared` is a library: packages that a service links, with no process
of its own. State lives in MySQL rows, in a Redis-compatible cache, at an OAuth2
endpoint, in a queue, and in a few mutex-protected structs of each process.
Concurrency comes from HTTP requests, from replicas of the service, and from
background jobs (relay, reconciler, health evaluator).

| Component | State | Operations | Interacts with |
|---|---|---|---|
| `database` | pools; per call an attempt counter | `InTx`, `runTx`, `IsRetryable` | MySQL: row locks, deadlock detection, COMMIT |
| `idempotency` | table `idempotency_records` | `Begin`, `Complete`, `CompleteTx`, `Fail`, `Purge`, `Middleware` | `database.InTx`; wraps a handler and its business transaction |
| `audit` | `audit_events`, `audit_chain_head` | `Append`, `AppendStandalone`, `VerifyChain`, `List` | runs inside the caller's `*sql.Tx`; `ids.Opt` |
| `outbox` | `outbox_events` | `Append`, `ClaimBatch`, `Lag` | producer's transaction; relay replicas; callback `fn` to the queue |
| `providers` | breaker state, failure list, cached token | `Allow`, `RecordSuccess`, `RecordFailure`, `Do`, `Token`, callback verification | token endpoint, provider, `rate.Limiter` |
| `health` | checks, verdict, `started`, `draining` | `Register`, `Start`, `evaluate`, `Ready`, `Snapshot`, handlers | dependencies through `Probe` callbacks |
| `ratelimit` | counters in cache and table | `Allow`, `increment`, `incrementDB`, `Cleanup` | `cache.IncrementWindow`, MySQL |
| `cache` | keys with a time to live | `IncrementWindow`, `AcquireLock`, `Get`, `Set`, `Delete` | the cache server |
| `httpx` | semaphore, in-flight gauge, a response and its header map | middleware, problem documents, JSON | the service's handler, net/http |
| `money` | a decimal | `FromString`, arithmetic, SQL and JSON forms | DECIMAL(20,8) columns, clients |
| `secrets` | `ttlCache`: values with a fixed time to live | `get`, `put`, `Get` of two providers, resolvers | secret stores |
| `ids`, `telegram`, `oci`, `observability` | none, or SDK set-up | conversions, verification, set-up | |

What is hard, and what each part must guarantee:

- `idempotency`: copies of a request, crashes, timeouts, lost commit answers
  and a cleanup job race on one row through an autocommit INSERT, a locking
  SELECT and unguarded UPDATEs. At most one request executes at a time; one
  effect per record, unless the answer to its COMMIT is lost; a stored answer is final
  and replayed to nobody else;
  a retry is recognised however it is spelled; everyone is answered.
- `database`: deadlocks, cancellation, panics, retries, COMMITs of unknown
  outcome. Writes are all or nothing, a nil result means once, no lock stays.
- `audit`: concurrent appends to one hash chain. The chain never breaks by
  itself, breaks when tampered with, and agrees with the mutations.
- `outbox`: at-least-once delivery by replicas. Nothing unborn is sent, nothing
  is lost, duplicates have a cause, progress despite refused events.
- `providers`: calls that answer late, are abandoned, or queue for a token. One
  probe at a time, the breaker neither stuck nor too lenient, no token that
  dies in use.
- `health`: reads of flags and verdict interleave with evaluation rounds.
- `ratelimit`: two stores that each see a part of the calls.
- `cache`: locks that expire under their holder.
- `secrets`: readers that miss ask concurrently, and a slow one may put back what
  a quick one had replaced. Nothing outlives its time by more than one request.
- `httpx`: panics and refusals unwind through layers in some order, all of which
  write into one header map. Slots come back, every end is reported, an answer
  carries what the layers outside of its origin put on it.
- `money`: nothing is rounded.

## 2. Modules

| Module | Models | Notes |
|---|---|---|
| `Idempotency` | `idempotency/store.go`, `middleware.go` and the InTx loop around Begin | refines `IdempotencyKey` |
| `IdempotencyKey` | what the table promises | free, held, done; only the holder finishes or releases |
| `RequestHash` | `RequestHash`, `CanonicalHash`, `canonicalJSON`, `writeCanonical` (`idempotency/store.go`) | pure, with a reference meaning of documents beside it |
| `IdempotentRequests` | the middleware's use of the hash | EXTENDS `Idempotency` and `RequestHash`: the composition |
| `InTx` | `InTx`, `runTx`, error classes (`database/database.go`) | row locks, deadlock cycles of two and three |
| `AuditChain` | `Append`, `AppendStandalone`, `VerifyChain` (`audit/audit.go`) | retry loop, `ids.Opt.Value`; refines `AuditLog` |
| `AuditLog` | what the audit trail promises | a log that only grows, at its end, by one mutation at a time |
| `Outbox` | `Writer.Append`, `Store.ClaimBatch` (`outbox/outbox.go`) | replicas, SKIP LOCKED; refines `Delivery` |
| `Delivery` | what the outbox promises | at least once, and more than once only for a fault |
| `CircuitBreaker` | `providers/circuit.go` and the calls Do makes on it | |
| `ProviderClient` | `Client.Do`, `TokenSource.Token` (`providers/client.go`) | EXTENDS `CircuitBreaker`: the composition |
| `Health` | `health/health.go` | |
| `RateLimit` | `ratelimit/ratelimit.go` over `cache.IncrementWindow` | |
| `CacheLock` | `cache.AcquireLock` | |
| `SecretCache` | `ttlCache` and its readers (`secrets/secrets.go`, `ocivault.go`) | |
| `HttpChain` | RequestContext, AccessLog, Recoverer, Concurrency, MaxBody, PrivateCache, CORS, WriteProblem | the order of the layers is a parameter |
| `Money` | `money/money.go` | decimals `[c, e]` |
| `MC...` | model values and instances for TLC | |
| `...Proofs` | theorems, checked by TLAPS | |

How state and actions correspond to the code:

**Idempotency.** `row` is the committed row of one key (rows of different keys
share nothing), `lock` the InnoDB row lock. A transaction's uncommitted writes
stay in its `pc` until CommitClaim, so nobody reads them. `begunAt` is the one
clock reading of Begin; `owned` and `record` are its closure variables, which
retries do not reset. InsertWins and InsertDuplicate are the autocommit INSERT,
TxRead the locking SELECT with its decision, TxOwn and TxInsert the UPDATE and
the INSERT of the slow path, CommitClaim and CommitFound the end of Begin.
The handler runs its business transaction by an InTx of its own, with CompleteTx in it
when AtomicHandlers holds: EffectCommit is an attempt that commits, EffectUnknown one
that commits while the answer to COMMIT is lost, EffectRetries one that is rolled back;
after the last two the body runs again (RetryEffect), as often as InTx allows.
`attempt` is the loop variable of Begin's InTx, then of the handler's; Leave forgets it.
Complete and Fail are the UPDATEs afterwards, StoreFails
the case that they fail and the error is logged. The other failures: TxTransient (a
rollback; at a COMMIT with a claim only under the fault "commitLost"),
CommitUnknown, InsertUnknown, BeginFails, HandlerPanics, Crash.
`effects` lists the effects of the present record: whose, and whether InTx heard of
the COMMIT. A body is identified with the request that produced it; a body beyond
maxStoredBody is stored as None. The answer "error" stands for a 500 and for a
connection that ends without an answer.

**RequestHash, IdempotentRequests.** A body is the document it spells, blank, or
text that json.Unmarshal refuses (no JSON, a number beyond float64's range, too deep),
with or without insignificant blanks. `Canonical` is
decoding (a repeated key counts with its last value, numbers become float64) and
writeCanonical (keys sorted) at once; a digest is the sequence that is digested.
`Float` is a parameter of which only one thing is assumed, that numbers up to
`Precision` (2^53 in the code) are decoded exactly; MCIdempotency gives it rounding
to even. `SameDoc` says beside it, without any canonical form, when two documents mean
the same. Idempotency takes digests as a constant; IdempotentRequests computes them from
payloads and judges the answers by what the clients meant.

**InTx.** A call has a plan, the rows it locks in order; Execute takes the next,
Deadlocked is the server's detection, Retryable what InTx does with an error,
RollBack the deferred function of runTx. `applied` counts durable runs of the
body, `doubt` those whose answer was lost.

**AuditChain.** `rows` maps sequence numbers to committed events, `head` is the
head row and `headLock` its lock; numbers come from a counter that rollbacks do
not give back. A digest is modelled by the tuple of what it covers, a time by
a counter of half microseconds: Truncate and Column, the rounding of the column,
are what they do to it. VerifyChain finds the first row whose link or
digest does not hold. `AuditLog` keeps the committed rows and the head: all the rows of
a transaction appear in one step, linked from the old head to the new one.

**Outbox.** `stored` follows a producer's transaction. A relay's `batch` is what
it has selected and locked; Publish calls fn for one event of it, Record
writes the marks, Commit ends the transaction. `sent` counts deliveries. In `Delivery` an
event is due when its row has committed and settled when published_at has; the
selecting, the locks and the rollbacks are gone, and `failures` are its faults.

**CircuitBreaker, ProviderClient.** Instants are kept as ages up to the
threshold at which the code stops telling them apart, so time is unbounded.
A caller is idle, waiting (Allow passed, the limiter not yet) or calling;
within calling it locks the token mutex, mints or reuses, and uses. AbortCall is
each return of Do between Allow and the request, which records nothing.

**Health.** A round copies the checks, probes them one by one, and publishes; a
readiness request reads the flags, the verdict and the list in three steps.

**RateLimit.** A call goes through the rules that have a key; each increments
in the cache, or in the table, or nowhere. The table takes three steps: ReadClock picks
the window (`held`), InsertCounter inserts its row or increments it, SelectCounter reads
it, each statement a transaction of its own. Between any two of them time may pass and
Cleanup run, which deletes `CleanupLimit` of the old rows at most (5000 in the code),
whichever they are; `forgotten` remembers those deleted under a call that has read the
clock and not yet inserted.

**CacheLock.** The key, its remaining time, and workers who know nothing of it.

**SecretCache.** One reference. The contents of the secret are numbered as the store
had them; `entry` is the cached value with what is left of its life, `told[r]` the
store's answer on its way to reader r. Hit and Miss are `get`, StoreAnswers the moment
the store reads, and then the answer is put, or not when it is empty or an error.

**HttpChain.** `at` is the layer a request is about to enter or leave,
`panicking` says which of the two ways of leaving it takes. `header` is the one
header map of its answer; the first WriteHeader freezes it into `sent`. A layer
that answers itself (503, 413, a preflight) turns the request round.

**Money.** `exact` is the amount in exact units; Store and Send/Receive are the
SQL and the JSON round trip.

## 3. Runs

Every property has a mutant of the code in `PROJECT.json` that violates it in the
same run. Times are for two cores.

| Run | Instance | Shows |
|---|---|---|
| `IdemSafety` | 3 requests (one spelled in two ways, one with another body), TTL 1, clock to 2, 2 attempts, all faults but commitLost; digests of all documents of depth two | OneExecutor, EffectOnce, ReplaysOwnAnswer, CopiesNeverConflict, DigestIsMeaning, AnswerIsFinal, EveryRequestAnswered, refinement of IdempotencyKey |
| `IdemStaleOwned` | 3 copies, rollbacks, at COMMIT too | violation of RunsOnOwnClaim |
| `InTx` | 3 calls, 2 rows in opposite orders, 2 attempts | ExactlyOnce, NoLockLeaks, EveryCallReturns |
| `AuditSafety` | 2 transactions with 2 and 1 appends, zero and proper ids, 2 attempts | NoFalseAlarm, TamperingDetected, ExactlyOneEvent, AppendReturns, refinement of AuditLog |
| `Outbox` | 2 relays, 3 events, batches of 2, 1 poisoned event, 2 faults | NothingLost, DuplicatesNeedFaults, EventuallyPublished, refinement of Delivery |
| `ProviderClient` | 3 callers, threshold, window and cooldown 2, three kinds of token | OneProbe, ClosedBelowThreshold, NeverExpiresMidFlight, MintsOnlyWhenStale, OpenResolves, CallReturns |
| `BreakerStuck` | 2 callers | violation of HalfOpenResolves |
| `Health` | a critical and an uncritical check, 1 request, 2 flips | ReadyMeansHealthy, ReadyIsEarned, ChangesAreNoticed |
| `RateLimit` | 2 calls, windows of 2 and 3 ticks, clock to 5, cache and table failing | SlidingQuota, AlignedQuota, AdmittedMeansCounted |
| `CacheLock` | 3 workers, ttl 3; beside it 3 readers of a secret, ttl 2, latency 2, 3 contents, one of them empty | SingleFlight, ReleasesOwnLockOnly, LockIsFreed, BoundedStaleness |
| `HttpSafety` | 3 requests (one preflight, one oversized), 1 slot, all orders of the 4 layers that hold or refuse, all chains of up to 3 of the 7 | NothingLeaks, ShedsOnlyWhenFull, EveryEndIsReported, AnswersAreLabelled |
| `MoneyWire` | scale 3, two places shown | violation of AmountIsExact |

**Bounds and why they are enough.** `IdemSafety`: two copies and one other body
are all the roles a key knows (executor, replay, conflict), and a clock to
TTL + 1 lets a record expire once and be taken over or purged; two attempts
make one retry and one exhaustion. Documents: leaves, arrays and objects of up to
two members over two keys, nested once, so that order, repetition, nesting and
kinds can each make the only difference; Precision 4 with the numbers 1, 4 and 5 has
numbers on both sides of the exact range, two of which float64 confuses. `InTx`: two calls form a deadlock, the third
keeps waiting meanwhile. `AuditSafety`: two writers and three events give an
event before, between and after. `Outbox`: a batch smaller than the events, two
replicas, a fault for each. `ProviderClient`: a caller holding the mutex, one
waiting, one late; grants shorter than the margin, longer than it, and without
a declared life. `RateLimit`: the clock passes a boundary of each window; limit
1 makes the second call the interesting one, CleanupLimit 1 a cleanup incomplete. `CacheLock`: holder, successor,
bystander; a slow reader, a quick one, one that hits. The lock and the secrets share
no state: MCCacheLock lets a behaviour be about one of the two, so that their
states add up. `HttpSafety`: one holds the slot, one is shed, one has an oversized
body or is a preflight; no property relates more than three layers, and the
slot and the gauge are only touched by two of the four that hold or refuse.
`MaxTime`, `MaxFlips`, `MaxFailures`, `MaxExact`, `MaxContents` and `MaxTxAttempts` (a constant of
the code, 4 there, 2 in the models) are the only caps; `CircuitBreaker`,
`ProviderClient` and `CacheLock` have none, their ages saturate.

**Deadlock.** All runs check it. Where a system is really finished, an explicit
`Finished` stutters.

**Fairness.** Weak fairness of a goroutine's own next step: Go schedules runnable
goroutines, MySQL grants locks to waiters and resolves deadlocks, handlers and
probes end with their contexts. Arrivals, faults, the clock of `Idempotency`, the
cleanup job, producers and dependencies are never fair. Exceptions: time passes
(`Tick` of CacheLock, `Elapse` of ProviderClient), calls keep arriving
in ProviderClient (`AskAllow`; without traffic an open breaker has nobody to
admit), and `sync.Mutex` hands itself to each waiter in the end (strong fairness
of `Hit \/ Miss`; since Go 1.9 the mutex has a starvation mode). The fairness of
`CacheLock` does not include the workers: a dead one frees nothing.

**Assumptions that are part of a run.** `Bounded` (IdemSafety and the
proofs): a request ends within the life of the record it claimed. httpx.Timeout ends
requests in seconds to minutes, and records live for hours by default; the code itself does not check
it, and Complete (store.go:201) would write into somebody else's record.
`AtomicHandlers`: handlers call CompleteTx in their business transaction, as its
documentation asks; without it EffectOnce claims nothing. `commitLost` is excluded from IdemSafety because
IdemStaleOwned shows what it does. `NeverExpiresMidFlight` is checked for grants
that live longer than a call's timeout and a margin of at least twice that timeout.

## 4. Findings

Three runs end in a violation of what the code's own comments say.

1. `IdemStaleOwned`: `owned` (store.go:94) survives the retries of InTx. When
   COMMIT fails with an error IsRetryable accepts and the server rolled back, and
   meanwhile another copy claims and completes the key, the next attempt finds
   COMPLETED, yet Begin returns nil because `owned` is still true: the handler
   runs a second time.
2. `BreakerStuck`: Client.Do returns after Allow without recording an outcome when
   limiter.Wait, the encoding or NewRequest fails (client.go:186, 200, 210). If
   that call was the probe, the breaker stays half open and refuses for ever.
3. `MoneyWire`: amounts with three to eight places are accepted and stored
   but rounded by MarshalJSON (money.go:121, 183).

Divergences met while modelling, built into the models as the code has them
(a property names the exception where there is one), without a run of their own:

- idempotency/middleware.go:172 stores a large response COMPLETED with an empty
  body and replays the emptiness; 78-80 says it is not stored and a retry
  re-executes. (ReplaysOwnAnswer)
- idempotency/store.go:201: Complete stores the response a second time after CompleteTx
  has, and empties a large one that CompleteTx had stored whole
  (middleware.go:172-175), against 199 "so that a retry replays it verbatim".
  (AnswerIsFinal names this one writer)
- idempotency/store.go:214: CompleteTx does not look at the state, and the handler's
  InTx repeats its body after a COMMIT whose answer was lost (database.go:320), so
  the effect is committed again under the same key, against 212-213 and
  database.go:191-193. (EffectOnce excepts effects after an unheard one)
- idempotency/store.go:284: numbers decode as float64, so bodies that differ in an
  integer beyond 2^53 share a hash, against 244-246. (DigestIsMeaning claims
  identity to the last digit only within the exact range)
- idempotency/middleware.go:181: Fail uses the request's context, which has ended
  when the handler timed out; the key stays IN_PROGRESS until it expires,
  against store.go:223-224.
- database/database.go:320: mysql.ErrInvalidConn at COMMIT counts as retryable,
  so writes can be applied twice, against 191-193 and 311. (ExactlyOnce,
  ExactlyOneEvent count the lost answers)
- database/database.go:209: the backoff is slept after the last attempt too.
- audit/audit.go:299-332: the removal of the last rows is not noticed, against 5-6,
  since the head row is not read. (TamperingDetected)
- audit/audit.go:170: an Opt that is present but zero is hashed as a value and stored
  as NULL (ids/ids.go:149), which breaks the chain at that row. (NoFalseAlarm)
- audit/audit.go:161: metadata and the trace id are not part of the digest.
- outbox/outbox.go:144: fn runs inside a body that InTx may repeat, against
  database.go:191-193; outbox.go:162: what a repeated body counted is added up.
- outbox/outbox.go:118: refused events are selected first each time; as many
  of them as a batch holds stop the relay. (EventuallyPublished)
- providers/circuit.go:91: a late success of a call admitted before the trip closes
  the breaker, against 23-25. providers/client.go:290: Healthy is true when half open.
- providers/client.go:315: waiting for the token mutex ignores the context.
- health/health.go:104: checks of one name overwrite each other, against 123;
  157: the body may list a later verdict than the status code, against 153.
- ratelimit/ratelimit.go:89: the bucket does not name the rule, so rules of one
  dimension share a counter, against 37. (quotas speak of dimensions with one rule)
- ratelimit/ratelimit.go:154: Cleanup goes by the age of a window's start, and a call that
  read the clock in the window (127) may insert (136) after its row is gone: the count
  starts again at 1, and the window admits more than its limit. (AlignedQuota excepts the windows whose row was
  deleted under such a call; PromptCallsKeepTheQuota says when there is none)
- cache/cache.go:146: EXPIRE at every INCR makes the window a sliding one,
  against 138-139.
- httpx/middleware.go:188: a panic after the first byte appends a problem document
  to the body, against 170; 127: AccessLog inside Recoverer loses the line of a
  panicking request, against 118 (EveryEndIsReported); 180: the error given to
  errors.Is wraps nothing, so http.ErrAbortHandler is answered like any panic.
- httpx/middleware.go:260: PrivateCache sets Vary where CORS, outside of it, has
  added "Origin": answers that depend on the origin no longer say so.
  (AnswersAreLabelled)
- money/money.go:100 accepts exactly 10^12, which DECIMAL(20,8) cannot hold.

## 5. Proofs

All hold for every value of the constants that satisfies the modules' named
assumptions (finite, non-zero or disjoint where the code makes them so).

**IdempotencyProofs.** TypeCorrect needs no further assumption. The other theorems about
the protocol assume Bounded and no commitLost. OneExecutor is not inductive: nothing in it says
why a second request cannot get past Begin. The invariant `IInv` adds
- LockInv: the lock is held exactly by transactions between SELECT and COMMIT,
  and the row they decided to take stays claimable meanwhile;
- OwnedInv: `owned` is set only by an attempt that commits, or has committed;
- ExecInv: who executes holds the row's claim: hash, expiry and claimant;
- EffectInv: effect and COMPLETED appear together, and an InTx that still runs has
  heard of none of its effects;
- ClockInv: nobody is older than the record it would claim (from Bounded).

One lemma per action shows that it is kept. MutualExclusion and AtMostOneEffect
follow at once. RowSteps then reduces every step to four things it can do to the
row (claim, store, lapse, nothing), from which StoredAnswerIsFinal and
KeyRefinement follow. ClaimIsOwn is the other side of the run IdemStaleOwned: without a
rolled back COMMIT a request enters the handler on its own durable claim.

Three theorems are about IdempotentRequests, hence about what clients meant. They are
for every set of documents that is `Nested`: each document has a depth, and what it
contains a smaller one. All documents are, being finite; it is a hypothesis because the
provers have no axiom of foundation to derive it from.

DigestMeansRequest is DigestIsMeaning: two digests are equal exactly when the requests
mean the same. TLA+ defines a recursive function as *some* function that satisfies its
equation, so that first one has to exist:
- Recursion: over a well-founded relation an equation whose right-hand side looks only
  at predecessors has a solution. At each element, partial solutions agree
  (OneSolution) and can be put together (Glue). From it CanonicalForm, SameDocSays and
  PreciseWithin, the equations of Canonical, SameDoc and Precise. Their definitions
  are expanded in these three lemmas and nowhere else;
- PartsFirst: what a document inherits from its parts holds of all;
- SortedKeysList, ValueIsLast: keys have exactly one increasing enumeration, and the
  last member with a key is the one ValueOf picks;
- SameIsWrittenAlike: what says the same is written in the same way;
- WrittenAlikeIsSame, the converse, is proved for canonical forms that only *start*
  two equal sequences, as the parts of a document do. Decodable: two flattened lists
  followed by a closing mark are equal only item by item, if no item starts with
  that mark (NoClosing) and an item at the start of a sequence is determined by it;
- ExactSame: up to Precision, what float64 has the same is the same to the last digit;
- BodyTells and HashTells take this from documents to bodies and payloads.

ReplayIsOwnAnswer (under the protocol's assumptions too) follows a stored body: in the
row (StoredInv), in Begin's hands (FoundInv), in the answer (ReplayInv) it belongs to a
request of the same digest, hence of the same meaning, or is empty for one too long to
store. ConflictNamesAnother needs neither Bounded nor any limit on faults: the digest of
a row, also of one that has been taken over, is that of a request that was let in
(DigestInv), so whoever is told "conflict" has met another one.

**ProviderClientProofs.** First the breaker by itself, for every number of callers, with
aborted calls too: SingleProbe (the slot is taken while there is a probe, and a trip or
a success leaves none) and ThresholdHonoured (pruning and appending keep the list below
the threshold, or trip). Then ClientUsesBreaker: every behaviour of the client is one
of the breaker, so ClientSingleProbe is inherited. MintingIsExclusive: who
mints holds the mutex, which is taken only when the token is stale; nobody else
writes the token, and time only makes it staler.

TokensOutliveCalls adds NeverExpiresMidFlight for every configuration that is
`Punctual`: tokens outlive a call, expires_in does not overstate that, and the margin
is at least twice the timeout. Its invariant: what a token in a caller's hands has
left and what the call has used of its deadline add up to more than the
timeout, and the cached token's expiresAt is at most one timeout too late, the
time its reply can have been under way.

**CacheProofs.** The lock: LockExcludes (a worker within its ttl holds the key, and
the time left to the key and the time since SET NX add up to the ttl) and ReleaseIsOwn. The secrets: StalenessIsBounded: an answer on its way is no older than
the request for it, and the age of a cached content and the time its entry has left
add up to at most the time to live and one latency.

**InTxProofs.** `Account`: a call has a result when it is done, and what it has
made durable is its result and the commits it was not told of. ResultsTellTheTruth
and LocksEndWithTheTransaction follow; the steps reduce to a few kinds (a call moves,
locks a row, ends retryably, fails, commits), one lemma each.

**OutboxProofs.** The invariant is `BatchInv` (the batches
are disjoint, committed and unmarked, and what will be marked was sent) and
`CountInv` (every message beyond the one that is or will be marked has a fault).
From them NoPhantom, AtLeastOnce and DuplicatesAreFaults.
DeliveryRefinement takes the steps one by one: a producer's commit makes an event due,
Publish delivers, Commit settles a batch, and all others stutter but for the faults.
The batch a relay settles is due and sent (BatchInv), and what it publishes has been sent
at most once per fault (CountInv).

**AuditChainProofs.** The invariant adds to HeadIsLast:
- NumberInv: uncommitted numbers are above all committed ones, although rolled back
  transactions leave gaps;
- LockInv: who does not hold the head row has written nothing;
- WriterInv: who does knows the end of its chain, committed or its own;
- ChainInv: committed rows are a chain from the genesis hash, uncommitted ones
  continue it from the head.

Two lemmas about tables carry it: a chain with a row at its end is a chain
(ChainExtends), and so are two that meet (ChainsJoin); LeastExists and GreatestIs
supply the minima and maxima from the library's well-founded order of
finite subsets. HeadNamesLast and NeverAFalseAlarm follow, and LogRefinement: what a commit
adds is above every committed row (NumberInv), linked one to the next
(LinkedToPredecessor) and to the head (WriterInv). EventsMatchMutations counts:
`CountInv` says that pending rows are as many as appends and carry the writer's name,
and that a writer's committed rows are Appends times its commits.

TamperingIsSeen rests on `IdInv`: a digest carries an identifier of its own, the writer,
the append and the attempt that made it. Identifiers are distinct because pending rows
are of the running attempt and committed ones of an earlier attempt or a finished
transaction. So no row but the removed one has the hash its successor
names (RemovalBreaks), an edited row's hash is not that of its content (EditBreaks), and
VerifyChain, which walks the rows in order, stops at the first such link (VerifyFinds).

**HttpChainProofs.** For any requests, any limit and every order of the layers. `Places`
ties pc to a place in the chain; a step either keeps a request on the same side of
every layer or takes it past one (DescendCounts, AscendCounts), so slots and gauge are
the numbers of requests under their layers (CountersAreExact), and a full
semaphore is full of others (ShedsAtTheLimit). `Report` says how far a request has come,
what its panic has unwound and what its answer and its line are by then
(EndsAreReported); `Labels`, that what is due is in the header map, and in what was sent
once the answer has begun (LabelsSurvive). Both are about one request, which is enough
as a step leaves the entries of all others alone (OnlyR).

**AdmissionProofs.** Health, for any number of checks and requests. ReadinessIsTheLastRound:
a round's statuses say of every check it has probed what its Probe said, and the
published verdict is that of the last complete round. ReadyAnswersAreEarned: what a
request has read so far of flags and verdict was true at a moment since it came. Both
assume `DistinctNames`, since the statuses of checks that share a name
overwrite each other (health.go:104).

RateLimit, for any rules, calls and clock. `BaseInv` is the type, the place of a call in the
loop over the rules (LoopInv), no counting in the future (PastInv), and the window a
call in incrementDB has in hand (HeldInv). AdmissionIsCounted follows: failing closed, an
admitted call has been counted for each of its rules. CacheKeepsTheQuota: the counter outlives
what it has counted by a window and has counted all that is younger (CacheInv), so no
stretch as long as the window lets more than the limit pass (SlidingInv). TableKeepsTheQuota:
a row has counted the calls of its window until Cleanup removes it (TableInv), hence
AlignedInv; it assumes `ExpiredOnly`, that Cleanup is called with an age of at least
the window, as its purpose ("removes expired database counters") requires, and its property
excepts the windows in `forgotten`. PromptCallsKeepTheQuota removes the exception: if Cleanup
spares windows for p ticks after their end and no call takes longer than p from its clock
reading to its INSERT (`Prompt`; the code gives the two statements 500ms), no such row is
ever deleted.
FailoverIsBounded joins the two stores: however often the calls change over between
them, a stretch of one window that meets no forgotten row admits at most three times the limit.
No run has it: its bound follows from the two quotas.

**Types.** TypeOK is the type invariant of each module. It costs no run of its own:
it is proved for Idempotency (TypeCorrect) and part of the proved invariants of
CacheLock, Health, Outbox, RateLimit and SecretCache; AuditChainProofs, HttpChainProofs,
InTxProofs and ProviderClientProofs prove the shapes they need.

Only model-checked: every liveness property (fairness and ENABLED are beyond
the prover), and Money, whose one property the code violates. Every safety invariant,
every action property and every refinement that a passing run checks is a theorem.

## 6. Not modelled

- In RequestHash: fractions, negative numbers and invalid UTF-8. They are leaves like
  the others, or I/O of the decoder. Of SHA-256 nothing but that it is taken to be
  injective, and of the two zero bytes between actor, route and body that none occurs
  in an actor or a route.
- Callback verification and telegram: checks of one input against a key and a
  clock. They keep nothing between calls but a key set in an OIDC library, and what
  could be wrong in them is cryptography and parsing.
- secrets: EnvProvider, Resolve and the construction of clients keep nothing.
  oci: SDK set-up.
- cache Get/Set/Delete: single commands without state here.
- httpx: Timeout (it only bounds the handler's context; a handler that returns
  late or early is one that returns), SecurityHeaders (fixed headers nobody else writes), JSON and
  parameter helpers (conversions of one request; DecodeJSON's `dec.More()` lets a
  stray closing bracket after the document pass).
- database pools, null helpers and PrefixColumns; ids; observability: I/O or
  conversions that keep nothing between calls.
- audit List, HashOf and the redaction of metadata; providers' headers, body limits
  and parseRetryAfter; the rate.Limiter, of which only the waiting is kept.
- Informational (1xx) statuses in HttpChain: responseWriter takes the first WriteHeader
  for the final one; no code of the repository sends any.
- Response headers of replays, metrics, logging, the wording of errors.

## 7. Plan

Done: the inventory, the modules of section 2, their runs, and the proofs of section 5.

Left, in the order of what it would add:

1. Money: that AmountIsExact holds when no amount has more places than String shows,
   which would say that MoneyWire has no other cause. Recursion gives Pow10 its equation.
2. Begin and Append as instances of InTx instead of modules that repeat its loop; InTx
   counts what a call has made durable, which neither of them does, so they would need
   history variables for it.
