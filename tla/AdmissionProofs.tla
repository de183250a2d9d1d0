-------------------------- MODULE AdmissionProofs --------------------------
(***************************************************************************)
(* What is let in: the readiness of Health for every set of checks and of  *)
(* requests, the quotas of RateLimit for every set of calls, all rules and *)
(* all keys.                                                               *)
(***************************************************************************)
EXTENDS Health, RateLimit, FiniteSetTheorems, WellFoundedInduction,
        TLAPS

-----------------------------------------------------------------------------
(* Health.                                                                 *)

(* No two checks share a name, so no status replaces another's.            *)
DistinctNames == \A c, d \in Checks : NameOf[c] = NameOf[d] => c = d

(* Every status says of its check what the set of failing checks says, and *)
(* every failing check has a status.                                       *)
Reports(s, failing) == /\ \A e \in s : e.healthy <=> e.check \notin failing
                       /\ \A c \in failing : \E e \in s : e.check = c

Once(s) == \A i, j \in DOMAIN s : s[i] = s[j] => i = j

Handler == [pc : {"idle", "flags", "verdict", "list", "answered"},
            ready : BOOLEAN, listed : SUBSET Status, drained : BOOLEAN, good : BOOLEAN]

Shape == /\ checks \in Seq(Checks) /\ left \in Seq(Checks)
         /\ status \subseteq Status /\ results \subseteq Status
         /\ round \subseteq Checks /\ failed \subseteq Checks
         /\ started \in BOOLEAN /\ draining \in BOOLEAN /\ answered \in BOOLEAN
         /\ handler \in [Requests -> Handler]

(* A round probes each check once: what is left has no status yet.         *)
RoundInv == /\ Once(checks) /\ Once(left)
            /\ \A i \in DOMAIN left : \A e \in results : e.check # left[i]
            /\ Reports(results, round)

(* A published verdict is that of one round.                               *)
VerdictInv == Reports(status, failed)

(* What a request that has arrived knows of drain and verdict.             *)
HandlerInv == \A q \in Requests :
  LET h == handler[q] IN
  /\ h.pc # "idle" /\ Good(failed) => h.good
  /\ h.drained => draining
  /\ h.pc = "verdict" => ~h.drained
  /\ h.pc \in {"idle", "flags", "verdict"} => ~h.ready
  /\ h.ready => ~h.drained /\ h.good

HealthInv == Shape /\ RoundInv /\ VerdictInv /\ HandlerInv

(* The loop of Ready and the round's failures say the same.                *)
LEMMA VerdictIsFailures ==
  ASSUME NEW s \in SUBSET Status, NEW failing \in SUBSET Checks, Reports(s, failing)
  PROVE  CriticalHealthy(s) <=> Good(failing)
  BY CriticalAssumption DEF Reports, CriticalHealthy, Good, Status

LEMMA HealthInitHolds == HealthInit => HealthInv
<1> SUFFICES ASSUME HealthInit PROVE HealthInv
  OBVIOUS
<1>1. Shape
  <2>1. [pc |-> "idle", ready |-> FALSE, listed |-> {}, drained |-> FALSE, good |-> FALSE]
          \in Handler
    BY DEF Handler
  <2>2. handler \in [Requests -> Handler]
    BY <2>1 DEF HealthInit
  <2>3. <<>> \in Seq(Checks)
    OBVIOUS
  <2> QED
    BY <2>2, <2>3 DEF HealthInit, Shape, Status
<1>2. RoundInv /\ VerdictInv
  BY DEF HealthInit, RoundInv, VerdictInv, Reports, Once
<1>3. HandlerInv
  BY DEF HealthInit, HandlerInv
<1> QED
  BY <1>1, <1>2, <1>3 DEF HealthInv

(* Register puts a check at the end that was not there.                    *)
LEMMA RegisterStep == ASSUME HealthInv, NEW c \in Checks, Register(c) PROVE HealthInv'
<1>1. checks \in Seq(Checks) /\ checks' = Append(checks, c)
  BY DEF HealthInv, Shape, Register
<1>2. /\ checks' \in Seq(Checks) /\ DOMAIN checks' = 1 .. Len(checks) + 1
      /\ \A i \in DOMAIN checks' : checks'[i] = IF i = Len(checks) + 1 THEN c ELSE checks[i]
      /\ DOMAIN checks = 1 .. Len(checks) /\ Len(checks) \in Nat
  BY <1>1
<1>3. \A i \in DOMAIN checks : checks[i] # c
  BY DEF Register, ToSet
<1>4. Once(checks')
  BY <1>2, <1>3 DEF Once, HealthInv, RoundInv
<1> QED
  BY <1>2, <1>4 DEF HealthInv, Shape, RoundInv, VerdictInv, HandlerInv, Register, Reports,
     evaluator, environment, flags, Good

LEMMA BeginRoundStep == HealthInv /\ BeginRound => HealthInv'
  BY DEF HealthInv, Shape, RoundInv, VerdictInv, HandlerInv, BeginRound, Reports, Once,
     environment, flags, Good

(* A probe takes the head of what is left, which has no status yet; no     *)
(* other check has its name.                                               *)
LEMMA ProbeStep == ASSUME DistinctNames, HealthInv, Probe PROVE HealthInv'
<1> DEFINE c == Head(left)
<1>1. /\ c \in Checks /\ left[1] = c /\ 1 \in DOMAIN left
      /\ left' \in Seq(Checks)
      /\ \A i \in DOMAIN left' : i + 1 \in DOMAIN left /\ i + 1 # 1 /\ left'[i] = left[i + 1]
  BY DEF Probe, HealthInv, Shape
<1>2. \A i \in DOMAIN left' : left'[i] # c
  BY <1>1 DEF HealthInv, RoundInv, Once
<1>3. PICK healthy \in BOOLEAN :
        /\ results' = Record(results, [check |-> c, healthy |-> healthy])
        /\ round' = IF healthy THEN round ELSE round \cup {c}
        /\ answered' = (answered \/ healthy)
  BY Zenon DEF Probe
<1> DEFINE e == [check |-> c, healthy |-> healthy]
<1>4. e \in Status /\ e.check = c /\ e.healthy = healthy
  BY <1>1 DEF Status
<1>5. \A d \in results : d.check \in Checks /\ d.check # c
  BY <1>1 DEF HealthInv, Shape, RoundInv, Status
<1>6. results' = results \cup {e}
  BY <1>1, <1>3, <1>4, <1>5 DEF Record, DistinctNames
<1>7. c \notin round
  BY <1>5 DEF HealthInv, RoundInv, Reports
<1>8. Once(left')
  BY <1>1 DEF HealthInv, RoundInv, Once
<1>9. \A i \in DOMAIN left' : \A d \in results' : d.check # left'[i]
  BY <1>1, <1>2, <1>4, <1>6 DEF HealthInv, RoundInv
<1>10. Reports(results', round')
  <2> HIDE DEF e, c
  <2>1. Reports(results, round)
    BY DEF HealthInv, RoundInv
  <2> QED
    BY <2>1, <1>3, <1>4, <1>5, <1>6, <1>7 DEF Reports
<1>11. UNCHANGED <<checks, status, phase, failed, flags, handler>>
  BY DEF Probe
<1>12. Shape'
  BY <1>1, <1>3, <1>4, <1>6, <1>11 DEF HealthInv, Shape, flags
<1>13. RoundInv'
  BY <1>8, <1>9, <1>10, <1>11 DEF HealthInv, RoundInv
<1> QED
  BY <1>11, <1>12, <1>13 DEF HealthInv, VerdictInv, HandlerInv, Good, flags

(* A request that waits has seen the new verdict in force.                 *)
LEMMA PublishStep == HealthInv /\ Publish => HealthInv'
<1> SUFFICES ASSUME HealthInv, Publish PROVE HealthInv'
  OBVIOUS
<1>1. /\ status' = results /\ failed' = round
      /\ UNCHANGED <<checks, left, results, round, answered, flags>>
  BY DEF Publish, Published
<1>2. /\ handler' \in [Requests -> Handler]
      /\ \A q \in Requests :
           /\ handler'[q].good <=> handler[q].good \/ Good(round)
           /\ handler'[q].pc = handler[q].pc /\ handler'[q].ready = handler[q].ready
           /\ handler'[q].drained = handler[q].drained
  BY DEF Publish, HealthInv, Shape, Handler
<1>3. Shape'
  BY <1>1, <1>2 DEF HealthInv, Shape, flags
<1>4. RoundInv' /\ VerdictInv'
  BY <1>1 DEF HealthInv, RoundInv, VerdictInv
<1>5. HandlerInv'
  BY <1>1, <1>2 DEF HealthInv, HandlerInv, flags
<1> QED
  BY <1>3, <1>4, <1>5 DEF HealthInv

(* The steps of flags and environment.                                     *)
LEMMA FlagsStep ==
  ASSUME HealthInv,
         MarkStarted \/ StopEvaluating \/ BeginDraining \/ ContextEnds
           \/ (\E c \in Checks : Flip(c)) \/ UNCHANGED healthVars
  PROVE  HealthInv'
<1>1. /\ UNCHANGED <<checks, left, status, results, round, failed, answered, handler>>
      /\ started' \in BOOLEAN /\ draining' \in BOOLEAN /\ (draining => draining')
  BY DEF MarkStarted, StopEvaluating, BeginDraining, ContextEnds, Flip, healthVars,
     evaluator, flags, HealthInv, Shape
<1> QED
  BY <1>1 DEF HealthInv, Shape, RoundInv, VerdictInv, HandlerInv, Reports, Once, Good

(* A request moves: only its own entry changes.                            *)
LEMMA HandlerStep ==
  ASSUME HealthInv, NEW q \in Requests,
         Request(q) \/ ReadFlags(q) \/ ReadVerdict(q) \/ ListChecks(q)
  PROVE  HealthInv'
<1>1. UNCHANGED <<checks, evaluator, flags>>
  BY DEF Request, ReadFlags, ReadVerdict, ListChecks
<1>2. UNCHANGED <<left, status, results, round, failed, answered, started, draining>>
  BY <1>1 DEF evaluator, flags
<1>3. CriticalHealthy(status) <=> Good(failed)
  BY VerdictIsFailures DEF HealthInv, Shape, VerdictInv
<1>4. /\ handler \in [Requests -> Handler] /\ handler[q] \in Handler
      /\ DOMAIN handler = Requests
  BY DEF HealthInv, Shape
<1>5. PICK h \in Handler :
        /\ handler' = [handler EXCEPT ![q] = h]
        /\ h.pc # "idle" /\ Good(failed) => h.good
        /\ h.drained => draining
        /\ h.pc = "verdict" => ~h.drained
        /\ h.pc \in {"idle", "flags", "verdict"} => ~h.ready
        /\ h.ready => ~h.drained /\ h.good
  <2> USE <1>4 DEF Handler, Move, HealthInv, Shape, HandlerInv
  <2>1. CASE Request(q)
    <3> DEFINE h == [handler[q] EXCEPT !.pc = "flags", !.drained = draining, !.good = Good(failed)]
    <3>1. h \in Handler
      BY DEF Good
    <3> QED
      BY <2>1, <3>1 DEF Request
  <2>2. CASE ReadFlags(q)
    <3> DEFINE h == [handler[q] EXCEPT !.pc = IF Serving THEN "verdict" ELSE "list"]
    <3>1. h \in Handler
      OBVIOUS
    <3> QED
      BY <2>2, <3>1 DEF ReadFlags, Serving
  <2>3. CASE ReadVerdict(q)
    <3> DEFINE h == [handler[q] EXCEPT !.pc = "list", !.ready = CriticalHealthy(status)]
    <3>1. h \in Handler
      BY DEF CriticalHealthy
    <3> QED
      BY <2>3, <3>1, <1>3 DEF ReadVerdict
  <2>4. CASE ListChecks(q)
    <3> DEFINE h == [handler[q] EXCEPT !.pc = "answered", !.listed = status]
    <3>1. h \in Handler
      OBVIOUS
    <3> QED
      BY <2>4, <3>1 DEF ListChecks
  <2> QED
    BY <2>1, <2>2, <2>3, <2>4
<1>6. handler' \in [Requests -> Handler]
  BY <1>4, <1>5
<1>7. Shape' /\ RoundInv' /\ VerdictInv'
  BY <1>1, <1>2, <1>6 DEF HealthInv, Shape, RoundInv, VerdictInv, Reports, Once
<1>8. HandlerInv'
  BY <1>2, <1>4, <1>5 DEF HealthInv, HandlerInv, Good
<1> QED
  BY <1>7, <1>8 DEF HealthInv

LEMMA HealthStep == DistinctNames /\ HealthInv /\ [HealthNext]_healthVars => HealthInv'
  BY RegisterStep, BeginRoundStep, ProbeStep, PublishStep, FlagsStep, HandlerStep
  DEF HealthNext

LEMMA HealthInvariance == ASSUME DistinctNames PROVE HealthSpec => []HealthInv
<1>1. HealthInv /\ [HealthNext]_healthVars => HealthInv'
  BY HealthStep
<1> QED
  BY HealthInitHolds, <1>1, PTL DEF HealthSpec

(* For any checks with names of their own, registered at any time: Ready   *)
(* answers what the last complete round found (health.go, evaluate and     *)
(* Ready).                                                                 *)
THEOREM ReadinessIsTheLastRound ==
  ASSUME DistinctNames PROVE HealthSpec => []ReadyMeansHealthy
<1>1. HealthInv => ReadyMeansHealthy
  BY VerdictIsFailures DEF HealthInv, Shape, VerdictInv, ReadyMeansHealthy, Ready
<1> QED
  BY <1>1, HealthInvariance, PTL

(* For any number of requests to the readiness endpoint: none is answered  *)
(* "ready" that arrived after BeginDraining, or that no good verdict was   *)
(* in force for (health.go, ReadinessHandler).                             *)
THEOREM ReadyAnswersAreEarned ==
  ASSUME DistinctNames PROVE HealthSpec => []ReadyIsEarned
<1>1. HealthInv => ReadyIsEarned
  BY DEF HealthInv, HandlerInv, ReadyIsEarned
<1> QED
  BY <1>1, HealthInvariance, PTL

-----------------------------------------------------------------------------
(* RateLimit: definitions.                                                 *)

(* c is counted by the counter b for rule i.                               *)
On(c, i, b) == i \in Applicable(c, 1) /\ Bucket(c, i) = b

(* Rule i alone uses the counter b.                                        *)
Own(i, b) == i \in DOMAIN Rules /\ b[1] = Rules[i].dim /\ Alone(i)

CountedBy(i, b, store, span) ==
  {c \in Calls : /\ On(c, i, b)
                 /\ counted[c][i].by = store /\ counted[c][i].at \in span}

(* The calls among them that rule i has let pass.                          *)
Passed(i, b, store, span) ==
  {c \in CountedBy(i, b, store, span) : /\ decision[c] \in {"pending", "allowed"}
                                        /\ ~(pc[c] = "select" /\ rule[c] = i)}

(* A call in the loop is at a rule that applies to it, and every such rule *)
(* before it has counted it, if uncountable calls are refused.             *)
LoopInv == \A c \in Calls :
  /\ pc[c] \in {"cache", "db", "insert", "select"} => rule[c] \in Applicable(c, 1)
  /\ pc[c] = "select" => counted[c][rule[c]].by = "db"
  /\ FailClosed => \A i \in Applicable(c, 1) :
       \/ decision[c] = "allowed"
       \/ decision[c] = "pending" /\ pc[c] # "idle" /\ i < rule[c]
       => counted[c][i].by # "none"

(* Nothing is counted in the future.                                       *)
PastInv == \A c \in Calls, i \in DOMAIN Rules : counted[c][i].at <= now

Recent(i, b) == CountedBy(i, b, "cache", now - Rules[i].window + 1 .. now)

(* A counter of the cache outlives what it has counted by a window, and    *)
(* has counted at least what is younger than that.                         *)
CacheInv(i, b) ==
  /\ \A c \in CountedBy(i, b, "cache", 0 .. MaxTime) :
       counted[c][i].at + Rules[i].window <= cache[b].expires
  /\ Cardinality(Recent(i, b)) <= IF Live(b) THEN cache[b].count ELSE 0

Span(i, t) == t - Rules[i].window + 1 .. t
SlidingInv(i, b) == \A t \in 0 .. MaxTime :
  Cardinality(Passed(i, b, "cache", Span(i, t))) <= Rules[i].limit

(* What incrementDB has read from the clock, and has counted under it.     *)
HeldInv == \A c \in Calls :
  /\ pc[c] \in {"insert", "select"} => held[c] <= now
  /\ pc[c] = "select" => counted[c][rule[c]].at = held[c]

(* The row of a window that is over is gone, and nobody will write it.     *)
Closed(i, b, w) == /\ table[b][w] = 0 /\ w + Rules[i].window <= now
                   /\ \A c \in Calls : ~InHand(c, <<b, w>>)

(* A row has counted at least the calls of its window, until Cleanup       *)
(* deletes it when that is over.                                           *)
TableInv(i, b) == \A w \in Starts(i) :
  \/ <<b, w>> \in forgotten
  \/ table[b][w] >= Cardinality(CountedBy(i, b, "db", Window(i, w)))
  \/ Closed(i, b, w)

AlignedInv(i, b) == \A w \in Starts(i) :
  \/ <<b, w>> \in forgotten
  \/ Cardinality(Passed(i, b, "db", Window(i, w))) <= Rules[i].limit

BaseInv == TypeOK /\ LoopInv /\ PastInv /\ HeldInv
CacheQuota == \A i \in DOMAIN Rules, b \in Buckets :
  Own(i, b) => CacheInv(i, b) /\ SlidingInv(i, b)
TableQuota == \A i \in DOMAIN Rules, b \in Buckets :
  Own(i, b) => TableInv(i, b) /\ AlignedInv(i, b)

(* Cleanup is asked to delete windows that are over.                       *)
ExpiredOnly == \A i \in DOMAIN Rules : Retention >= Rules[i].window - 1

-----------------------------------------------------------------------------
(* Sets of calls and of rules.                                             *)

LEMMA Smaller ==
  ASSUME NEW S \in SUBSET Calls, NEW T \in SUBSET Calls, S \subseteq T
  PROVE  Cardinality(S) \in Nat /\ Cardinality(T) \in Nat /\ Cardinality(S) <= Cardinality(T)
<1>1. IsFiniteSet(S) /\ IsFiniteSet(T)
  BY CallsAssumption, FS_Subset
<1> QED
  BY <1>1, FS_Subset, FS_CardinalityType

LEMMA OneMore ==
  ASSUME NEW S \in SUBSET Calls, NEW T \in SUBSET Calls, NEW c \in Calls,
         S \subseteq T \cup {c}
  PROVE  Cardinality(S) \in Nat /\ Cardinality(T) \in Nat
         /\ Cardinality(S) <= Cardinality(T) + 1
<1>1. IsFiniteSet(S) /\ IsFiniteSet(T)
  BY CallsAssumption, FS_Subset
<1>2. /\ IsFiniteSet(T \cup {c})
      /\ Cardinality(T \cup {c}) = IF c \in T THEN Cardinality(T) ELSE Cardinality(T) + 1
  BY <1>1, FS_AddElement
<1>3. Cardinality(S) <= Cardinality(T \cup {c})
  BY <1>2, FS_Subset
<1> QED
  BY <1>1, <1>2, <1>3, FS_CardinalityType

(* A non-empty bounded set of numbers has a minimum.                       *)
LEMMA LeastExists ==
  ASSUME NEW n \in Nat, NEW S, S \subseteq 0 .. n, S # {}
  PROVE  Min(S) \in S /\ \A x \in S : Min(S) <= x
<1> DEFINE B(x) == {y \in S : y < x}
           T == {B(x) : x \in S}
<1>1. IsFiniteSet(S)
  <2>1. IsFiniteSet(0 .. n) /\ S \in SUBSET (0 .. n)
    BY FS_Interval
  <2> QED
    BY <2>1, FS_Subset
<1>2. T \subseteq FiniteSubsetsOf(S) /\ T # {}
  <2>1. \A x \in S : B(x) \in SUBSET S
    OBVIOUS
  <2>2. \A x \in S : IsFiniteSet(B(x))
    BY <1>1, <2>1, FS_Subset
  <2> QED
    BY <2>1, <2>2 DEF FiniteSubsetsOf
<1>3. PICK b \in T : \A c \in T : ~(<<c, b>> \in StrictSubsetOrdering(S))
  BY <1>2, FS_StrictSubsetOrderingWellFounded, WFMin
<1>4. PICK m \in S : b = B(m)
  OBVIOUS
<1>5. \A y \in S : m <= y
  <2> SUFFICES ASSUME NEW y \in S, y < m PROVE FALSE
    OBVIOUS
  <2>1. B(y) \subseteq B(m) /\ y \in B(m) /\ y \notin B(y)
    <3>1. y \in Int /\ m \in Int /\ \A z \in S : z \in Int
      OBVIOUS
    <3>2. \A z \in Int : z < y => z < m
      BY <3>1
    <3>3. \A z \in S : z < y => z < m
      BY <3>1, <3>2
    <3>4. y \in B(m) /\ y \notin B(y)
      BY <3>1
    <3> QED
      BY <3>3, <3>4
  <2>2. B(y) \in SUBSET S /\ B(m) \in SUBSET S /\ B(y) # B(m)
    BY <2>1
  <2>3. <<B(y), B(m)>> \in StrictSubsetOrdering(S)
    BY <2>1, <2>2 DEF StrictSubsetOrdering
  <2> QED
    BY <2>3, <1>3, <1>4
<1> QED
  BY <1>5 DEF Min

(* A call goes on with the first rule that applies.                        *)
LEMMA FirstApplicable ==
  ASSUME NEW c \in Calls, NEW i \in Nat \ {0}, Applicable(c, i) # {}
  PROVE  /\ Min(Applicable(c, i)) \in Applicable(c, i)
         /\ \A j \in Applicable(c, i) : Min(Applicable(c, i)) <= j
<1>1. Applicable(c, i) \subseteq 0 .. Len(Rules) /\ Len(Rules) \in Nat
  BY RulesAssumption DEF Applicable
<1> QED
  BY <1>1, LeastExists

(* The multiples of W are what Truncate leaves alone.                      *)
LEMMA Multiple ==
  ASSUME NEW W \in Nat \ {0}, NEW w \in Nat
  PROVE  w % W = 0 <=> \E k \in Nat : w = W * k
<1>1. w % W = 0 => \E k \in Nat : w = W * k
  <2>1. w = W * (w \div W) + (w % W) /\ w \div W \in Int
    OBVIOUS
  <2>2. w \div W \in Nat
    OBVIOUS
  <2> QED
    BY <2>1, <2>2
<1>2. ASSUME NEW k \in Nat, w = W * k PROVE w % W = 0
  <2>1. w = W * (w \div W) + (w % W) /\ w \div W \in Int /\ w % W \in 0 .. W - 1
    OBVIOUS
  <2> DEFINE q == w \div W
             r == w % W
  <2>2. W * (k - q) = r
    BY <2>1, <1>2
  <2> QED
    BY <1>2
<1> QED
  BY <1>1, <1>2

LEMMA Between ==
  ASSUME NEW W \in Nat \ {0}, NEW j \in Nat, NEW k \in Nat, W * j < W * k + W
  PROVE  j <= k
<1> SUFFICES ASSUME j >= k + 1 PROVE FALSE
  OBVIOUS
<1>1. PICK d \in Nat : j = k + 1 + d
  OBVIOUS
<1>2. W * j = W * k + W + W * d
  BY <1>1
<1>3. W * d \in Nat
  OBVIOUS
<1> QED
  BY <1>2, <1>3

(* The aligned window an instant lies in is the one Truncate finds.        *)
LEMMA Aligned ==
  ASSUME NEW n \in Nat, NEW W \in Nat \ {0}
  PROVE  /\ n - (n % W) \in 0 .. n /\ (n - (n % W)) % W = 0 /\ n < n - (n % W) + W
         /\ \A w \in Nat : w % W = 0 /\ w <= n /\ n < w + W => w = n - (n % W)
<1>1. n % W \in 0 .. W - 1 /\ n \div W \in Nat /\ n = W * (n \div W) + (n % W)
  OBVIOUS
<1>2. n - (n % W) = W * (n \div W) /\ n - (n % W) \in 0 .. n /\ n < n - (n % W) + W
  BY <1>1
<1>3. (n - (n % W)) % W = 0
  <2> DEFINE m == n - (n % W)
  <2>1. m \in Nat /\ m = W * (n \div W)
    BY <1>2
  <2> HIDE DEF m
  <2>2. m % W = 0
    BY <1>1, <2>1, Multiple
  <2> QED
    BY <2>2 DEF m
<1>4. ASSUME NEW w \in Nat, w % W = 0, w <= n, n < w + W PROVE w = n - (n % W)
  <2>1. PICK k \in Nat : w = W * k
    BY <1>4, Multiple
  <2>2. W * k < W * (n \div W) + W /\ W * (n \div W) < W * k + W
    BY <1>1, <1>2, <1>4, <2>1
  <2>3. k = n \div W
    BY <1>1, <2>2, Between
  <2> QED
    BY <1>2, <2>1, <2>3
<1> QED
  BY <1>2, <1>3, <1>4

-----------------------------------------------------------------------------
(* The loop of Allow.                                                      *)

InLoop(c) == pc[c] \in {"cache", "db", "insert", "select"}

(* A step of one call leaves the others where they are.                    *)
OnlyCall(c) == \A d \in Calls \ {c} :
  /\ pc'[d] = pc[d] /\ rule'[d] = rule[d] /\ decision'[d] = decision[d]
  /\ held'[d] = held[d] /\ counted'[d] = counted[d]

(* What Proceed, Decide and a change of the store do to the call.          *)
GoesOn(c, i) ==
  \/ /\ Applicable(c, i) = {}
     /\ pc'[c] = "done" /\ decision'[c] = "allowed" /\ rule'[c] = rule[c]
  \/ /\ rule'[c] \in Applicable(c, i) /\ \A j \in Applicable(c, i) : rule'[c] <= j
     /\ pc'[c] \in {"cache", "db"} /\ decision'[c] = decision[c]
Refused(c) == /\ pc'[c] = "done" /\ decision'[c] \in {"limited", "unavailable"}
              /\ rule'[c] = rule[c]
Stays(c) == /\ pc'[c] \in {"db", "insert", "select"}
            /\ rule'[c] = rule[c] /\ decision'[c] = decision[c]
Typed == /\ pc' \in [Calls -> {"idle", "cache", "db", "insert", "select", "done"}]
         /\ rule' \in [Calls -> DOMAIN Rules \cup {1}]
         /\ decision' \in [Calls -> {"pending", "allowed", "limited", "unavailable"}]

LEMMA Proceeds ==
  ASSUME TypeOK, NEW c \in Calls, NEW i \in Nat \ {0}, Proceed(c, i)
  PROVE  /\ GoesOn(c, i) /\ Typed
         /\ \A d \in Calls \ {c} :
              pc'[d] = pc[d] /\ rule'[d] = rule[d] /\ decision'[d] = decision[d]
<1>1. CASE Applicable(c, i) = {}
  BY <1>1 DEF Proceed, Decide, GoesOn, Typed, TypeOK
<1>2. CASE Applicable(c, i) # {}
  <2>1. /\ Min(Applicable(c, i)) \in Applicable(c, i)
        /\ \A j \in Applicable(c, i) : Min(Applicable(c, i)) <= j
    BY <1>2, FirstApplicable
  <2>2. Min(Applicable(c, i)) \in DOMAIN Rules
    <3>1. i .. Len(Rules) \subseteq 1 .. Len(Rules)
      BY RulesAssumption
    <3>2. Applicable(c, i) \subseteq DOMAIN Rules
      BY <3>1, RulesAssumption DEF Applicable
    <3> QED
      BY <2>1, <3>2
  <2>3. FirstStore \in {"cache", "db"}
    BY DEF FirstStore
  <2>4. /\ pc' = [pc EXCEPT ![c] = FirstStore] /\ decision' = decision
        /\ rule' = [rule EXCEPT ![c] = Min(Applicable(c, i))]
    BY <1>2 DEF Proceed
  <2> QED
    BY <2>1, <2>2, <2>3, <2>4 DEF GoesOn, Typed, TypeOK
<1> QED
  BY <1>1, <1>2

LEMMA Decides ==
  ASSUME TypeOK, NEW c \in Calls, NEW v \in {"limited", "unavailable"}, Decide(c, v)
  PROVE  /\ Refused(c) /\ Typed
         /\ \A d \in Calls \ {c} :
              pc'[d] = pc[d] /\ rule'[d] = rule[d] /\ decision'[d] = decision[d]
  BY DEF Decide, Refused, Typed, TypeOK

(* A call in the loop is at a rule of its own.                             *)
LEMMA AtRule ==
  ASSUME BaseInv, NEW c \in Calls, InLoop(c)
  PROVE  /\ rule[c] \in DOMAIN Rules /\ rule[c] \in Applicable(c, 1)
         /\ rule[c] + 1 \in Nat \ {0} /\ rule[c] \in Nat \ {0}
         /\ BucketOf(c) \in Buckets /\ BucketOf(c) = Bucket(c, rule[c])
         /\ Rule(c).window \in Nat \ {0} /\ decision[c] = "pending"
<1>1. rule[c] \in Applicable(c, 1)
  BY DEF BaseInv, LoopInv, InLoop
<1>2. rule[c] \in DOMAIN Rules /\ rule[c] \in Nat \ {0}
  BY <1>1, RulesAssumption DEF Applicable
<1>3. BucketOf(c) \in Buckets
  BY <1>1 DEF Buckets, BucketOf
<1> QED
  BY <1>1, <1>2, <1>3, RulesAssumption DEF BucketOf, Rule, BaseInv, TypeOK, InLoop

(* Where a call goes that is judged, or that no store could count.         *)
LEMMA Judged ==
  ASSUME BaseInv, NEW c \in Calls, InLoop(c), NEW n \in Nat, Judge(c, n)
  PROVE  /\ Refused(c) \/ (GoesOn(c, rule[c] + 1) /\ n <= Rule(c).limit)
         /\ Typed
         /\ \A d \in Calls \ {c} :
              pc'[d] = pc[d] /\ rule'[d] = rule[d] /\ decision'[d] = decision[d]
<1>1. Rule(c).limit \in Nat
  BY AtRule, RulesAssumption DEF Rule
<1> QED
  BY <1>1, AtRule, Proceeds, Decides DEF Judge, Exceeds, BaseInv

LEMMA NotCounted ==
  ASSUME BaseInv, NEW c \in Calls, InLoop(c), Uncountable(c)
  PROVE  /\ Refused(c) \/ (GoesOn(c, rule[c] + 1) /\ ~FailClosed)
         /\ Typed
         /\ \A d \in Calls \ {c} :
              pc'[d] = pc[d] /\ rule'[d] = rule[d] /\ decision'[d] = decision[d]
  BY AtRule, Proceeds, Decides, FailClosedAssumption DEF Uncountable, BaseInv

(* The ways of a call through the loop.                                    *)
LEMMA LoopMoves ==
  ASSUME BaseInv, NEW c \in Calls, OnlyCall(c),
         \A j \in DOMAIN Rules \ {rule[c]} : counted'[c][j] = counted[c][j],
         \/ pc[c] = "idle" /\ GoesOn(c, 1)
         \/ InLoop(c) /\ Refused(c)
         \/ /\ InLoop(c) /\ GoesOn(c, rule[c] + 1)
            /\ FailClosed => counted'[c][rule[c]].by # "none"
         \/ /\ InLoop(c) /\ Stays(c)
            /\ pc'[c] = "select" => counted'[c][rule[c]].by = "db"
  PROVE  LoopInv'
<1> SUFFICES ASSUME NEW d \in Calls
             PROVE  /\ pc'[d] \in {"cache", "db", "insert", "select"} => rule'[d] \in Applicable(d, 1)
                    /\ pc'[d] = "select" => counted'[d][rule'[d]].by = "db"
                    /\ FailClosed => \A i \in Applicable(d, 1) :
                         \/ decision'[d] = "allowed"
                         \/ decision'[d] = "pending" /\ pc'[d] # "idle" /\ i < rule'[d]
                         => counted'[d][i].by # "none"
  BY DEF LoopInv
<1>1. CASE d # c
  BY <1>1 DEF OnlyCall, BaseInv, LoopInv
<1>2. ASSUME d = c, pc[c] = "idle", GoesOn(c, 1)
      PROVE  /\ pc'[c] \in {"cache", "db", "insert", "select"} => rule'[c] \in Applicable(c, 1)
             /\ pc'[c] = "select" => counted'[c][rule'[c]].by = "db"
             /\ \A i \in Applicable(c, 1) : decision'[c] # "allowed" /\ ~(i < rule'[c])
  <2>1. \A i \in Applicable(c, 1) : i \in Nat
    BY RulesAssumption DEF Applicable
  <2>2. decision[c] = "pending"
    BY <1>2 DEF BaseInv, TypeOK
  <2> QED
    BY <1>2, <2>1, <2>2 DEF GoesOn
<1>3. CASE d = c /\ InLoop(c) /\ Refused(c)
  BY <1>3 DEF Refused
<1>4. ASSUME d = c, InLoop(c), GoesOn(c, rule[c] + 1),
             FailClosed => counted'[c][rule[c]].by # "none"
      PROVE  /\ pc'[c] \in {"cache", "db", "insert", "select"} => rule'[c] \in Applicable(c, 1)
             /\ pc'[c] = "select" => counted'[c][rule'[c]].by = "db"
             /\ FailClosed => \A i \in Applicable(c, 1) :
                  \/ decision'[c] = "allowed"
                  \/ decision'[c] = "pending" /\ pc'[c] # "idle" /\ i < rule'[c]
                  => counted'[c][i].by # "none"
  <2>1. rule[c] \in DOMAIN Rules /\ decision[c] = "pending" /\ pc[c] # "idle"
    BY <1>4, AtRule DEF InLoop
  <2>2. Applicable(c, rule[c] + 1) = {i \in Applicable(c, 1) : i > rule[c]}
    BY <2>1, RulesAssumption DEF Applicable
  <2>3. \A i \in Applicable(c, 1) : i \in DOMAIN Rules /\ i \in Nat
    BY RulesAssumption DEF Applicable
  <2>4. ASSUME FailClosed, NEW i \in Applicable(c, 1), i <= rule[c]
        PROVE  counted'[c][i].by # "none"
    <3>1. CASE i = rule[c]
      BY <1>4, <2>4, <3>1
    <3>2. CASE i < rule[c]
      <4>1. counted[c][i].by # "none"
        BY <2>1, <2>4, <3>2 DEF BaseInv, LoopInv
      <4>2. i \in DOMAIN Rules \ {rule[c]}
        BY <2>1, <2>3, <3>2
      <4> QED
        BY <4>1, <4>2
    <3> QED
      BY <2>1, <2>3, <2>4, <3>1, <3>2, RulesAssumption
  <2>5. \A i \in Applicable(c, 1) :
          \/ decision'[c] = "allowed" \/ (decision'[c] = "pending" /\ i < rule'[c])
          => i <= rule[c]
    BY <1>4, <2>1, <2>2, <2>3, RulesAssumption DEF GoesOn
  <2> QED
    BY <1>4, <2>2, <2>4, <2>5 DEF GoesOn
<1>5. CASE d = c /\ InLoop(c) /\ Stays(c) /\ (pc'[c] = "select" => counted'[c][rule[c]].by = "db")
  <2>1. rule[c] \in Applicable(c, 1) /\ decision[c] = "pending" /\ pc[c] # "idle"
    BY <1>5, AtRule DEF InLoop
  <2>2. \A i \in Applicable(c, 1) : i < rule[c] => counted'[c][i] = counted[c][i]
    BY <2>1, RulesAssumption DEF Applicable
  <2> QED
    BY <1>5, <2>1, <2>2 DEF Stays, BaseInv, LoopInv
<1> QED
  BY <1>1, <1>2, <1>3, <1>4, <1>5

LEMMA PlacesAgree ==
  ASSUME BaseInv, NEW c \in Calls, OnlyCall(c),
         \/ pc[c] = "idle" /\ GoesOn(c, 1)
         \/ InLoop(c) /\ (Refused(c) \/ GoesOn(c, rule[c] + 1) \/ Stays(c)),
         NEW d \in Calls
  PROVE  pc'[d] = "done" <=> decision'[d] # "pending"
  BY DEF OnlyCall, GoesOn, Refused, Stays, InLoop, BaseInv, TypeOK

-----------------------------------------------------------------------------
(* What the stores do for a call.                                          *)

(* INCR and EXPIRE on the call's own counter.                              *)
LEMMA Increments ==
  ASSUME BaseInv, NEW c \in Calls, InLoop(c), NEW times \in {1, 2}, Increment(c, times)
  PROVE  /\ cache' \in [Buckets -> [count : Nat, expires : Nat]] /\ table' = table
         /\ cache'[BucketOf(c)].expires = now + Rule(c).window
         /\ cache'[BucketOf(c)].count
              = (IF Live(BucketOf(c)) THEN cache[BucketOf(c)].count ELSE 0) + times
         /\ \A b \in Buckets \ {BucketOf(c)} : cache'[b] = cache[b]
<1> DEFINE b == BucketOf(c)
           entry == [count |-> (IF Live(b) THEN cache[b].count ELSE 0) + times,
                     expires |-> Expiry(c)]
<1>1. b \in Buckets /\ Rule(c).window \in Nat \ {0}
  BY AtRule
<1>2. now \in Nat /\ cache[b] \in [count : Nat, expires : Nat]
  BY <1>1, TimeAssumption DEF BaseInv, TypeOK
<1>3. entry \in [count : Nat, expires : Nat]
  BY <1>1, <1>2 DEF Expiry
<1>4. cache' = [cache EXCEPT ![b] = entry] /\ table' = table
  BY DEF Increment
<1>5. cache \in [Buckets -> [count : Nat, expires : Nat]]
  BY DEF BaseInv, TypeOK
<1> HIDE DEF b
<1>6. cache'[b] = entry /\ \A a \in Buckets \ {b} : cache'[a] = cache[a]
  BY <1>1, <1>4, <1>5
<1>7. cache' \in [Buckets -> [count : Nat, expires : Nat]]
  BY <1>1, <1>3, <1>4, <1>5
<1> QED
  BY <1>4, <1>6, <1>7 DEF b, Expiry

(* The window of a clock reading.                                          *)
LEMMA Truncates ==
  ASSUME BaseInv, NEW c \in Calls, InLoop(c)
  PROVE  /\ WindowStart(c) \in Starts(rule[c]) /\ WindowStart(c) \in 0 .. MaxTime
         /\ held[c] \in Window(rule[c], WindowStart(c))
<1>1. Rule(c).window \in Nat \ {0}
  BY AtRule
<1>2. held[c] \in 0 .. MaxTime /\ held[c] \in Nat
  BY TimeAssumption DEF BaseInv, TypeOK
<1>3. /\ WindowStart(c) \in 0 .. held[c] /\ WindowStart(c) % Rule(c).window = 0
      /\ held[c] < WindowStart(c) + Rule(c).window
  BY <1>1, <1>2, Aligned DEF WindowStart
<1>4. WindowStart(c) \in 0 .. MaxTime
  BY <1>2, <1>3, TimeAssumption
<1> QED
  BY <1>1, <1>2, <1>3, <1>4 DEF Starts, Window, Rule

(* The row of the call's bucket and of the window it has read.             *)
LEMMA Inserts ==
  ASSUME BaseInv, NEW c \in Calls, InLoop(c), Insert(c)
  PROVE  /\ table' \in [Buckets -> [0 .. MaxTime -> Nat]] /\ cache' = cache
         /\ \A b \in Buckets, w \in 0 .. MaxTime : table'[b][w] =
              IF b = BucketOf(c) /\ w = WindowStart(c) THEN table[b][w] + 1 ELSE table[b][w]
<1>1. BucketOf(c) \in Buckets /\ cache' = cache
  BY AtRule DEF Insert
<1>2. table \in [Buckets -> [0 .. MaxTime -> Nat]]
  BY DEF BaseInv, TypeOK
<1>4. WindowStart(c) \in 0 .. MaxTime
  BY Truncates
<1> DEFINE b == BucketOf(c)
           w == WindowStart(c)
<1>6. b \in Buckets /\ w \in 0 .. MaxTime /\ table' = [table EXCEPT ![b][w] = @ + 1]
  BY <1>1, <1>4 DEF Insert
<1> HIDE DEF b, w
<1>7. table[b] \in [0 .. MaxTime -> Nat] /\ table[b][w] + 1 \in Nat
  <2>1. table[b] \in [0 .. MaxTime -> Nat]
    BY <1>2, <1>6
  <2>2. table[b][w] \in Nat
    BY <2>1, <1>6
  <2> QED
    BY <2>1, <2>2
<1>8. /\ table' \in [Buckets -> [0 .. MaxTime -> Nat]]
      /\ \A a \in Buckets, v \in 0 .. MaxTime : table'[a][v] =
           IF a = b /\ v = w THEN table[a][v] + 1 ELSE table[a][v]
  <2>1. table' = [table EXCEPT ![b] = [table[b] EXCEPT ![w] = table[b][w] + 1]]
    BY <1>6
  <2>2. [table[b] EXCEPT ![w] = table[b][w] + 1] \in [0 .. MaxTime -> Nat]
    BY <1>6, <1>7
  <2>3. table' \in [Buckets -> [0 .. MaxTime -> Nat]]
    BY <1>2, <1>6, <2>1, <2>2
  <2>4. table'[b] = [table[b] EXCEPT ![w] = table[b][w] + 1]
    BY <1>2, <1>6, <2>1
  <2>5. \A a \in Buckets \ {b} : table'[a] = table[a]
    BY <1>2, <2>1
  <2>6. \A v \in 0 .. MaxTime : table'[b][v] = IF v = w THEN table[b][v] + 1 ELSE table[b][v]
    BY <1>7, <2>4
  <2> QED
    BY <2>3, <2>5, <2>6
<1> QED
  BY <1>1, <1>8 DEF b, w

LEMMA Counts ==
  ASSUME BaseInv, NEW c \in Calls, InLoop(c), NEW store \in {"cache", "db"},
         NEW time \in 0 .. MaxTime, Count(c, store, time)
  PROVE  /\ counted' \in [Calls -> [DOMAIN Rules -> [by : {"none", "cache", "db"},
                                                    at : 0 .. MaxTime]]]
         /\ counted'[c][rule[c]].by = store /\ counted'[c][rule[c]].at = time
         /\ \A j \in DOMAIN Rules \ {rule[c]} : counted'[c][j] = counted[c][j]
         /\ \A d \in Calls \ {c} : counted'[d] = counted[d]
<1>1. rule[c] \in DOMAIN Rules
  BY AtRule
<1>2. [by |-> store, at |-> time] \in [by : {"none", "cache", "db"}, at : 0 .. MaxTime]
  OBVIOUS
<1> QED
  BY <1>1, <1>2 DEF Count, BaseInv, TypeOK

LEMMA Uncounts ==
  ASSUME BaseInv, NEW c \in Calls, InLoop(c), Uncount(c)
  PROVE  /\ counted' \in [Calls -> [DOMAIN Rules -> [by : {"none", "cache", "db"},
                                                    at : 0 .. MaxTime]]]
         /\ counted'[c][rule[c]].by = "none" /\ counted'[c][rule[c]].at = 0
         /\ \A j \in DOMAIN Rules \ {rule[c]} : counted'[c][j] = counted[c][j]
         /\ \A d \in Calls \ {c} : counted'[d] = counted[d]
<1>1. rule[c] \in DOMAIN Rules
  BY AtRule
<1>2. Uncounted \in [by : {"none", "cache", "db"}, at : 0 .. MaxTime]
  BY TimeAssumption DEF Uncounted
<1> QED
  BY <1>1, <1>2 DEF Uncount, Uncounted, BaseInv, TypeOK

-----------------------------------------------------------------------------
(* BaseInv is inductive.                                                   *)

StoresTyped == /\ cache' \in [Buckets -> [count : Nat, expires : Nat]]
               /\ table' \in [Buckets -> [0 .. MaxTime -> Nat]]
CountedTyped == counted' \in [Calls -> [DOMAIN Rules -> [by : {"none", "cache", "db"},
                                                       at : 0 .. MaxTime]]]

LEMMA CallStep ==
  ASSUME BaseInv, NEW c \in Calls, OnlyCall(c), Typed, StoresTyped, CountedTyped,
         now' = now, forgotten' = forgotten, held' \in [Calls -> 0 .. MaxTime],
         \A j \in DOMAIN Rules \ {rule[c]} : counted'[c][j] = counted[c][j],
         counted'[c] = counted[c] \/ counted'[c][rule[c]].at <= now,
         \/ pc[c] = "idle" /\ GoesOn(c, 1)
         \/ InLoop(c) /\ Refused(c)
         \/ /\ InLoop(c) /\ GoesOn(c, rule[c] + 1)
            /\ FailClosed => counted'[c][rule[c]].by # "none"
         \/ /\ InLoop(c) /\ Stays(c)
            /\ pc'[c] = "select" => counted'[c][rule[c]].by = "db",
         pc'[c] \in {"insert", "select"} => held'[c] <= now,
         pc'[c] = "select" => counted'[c][rule[c]].at = held'[c]
  PROVE  BaseInv'
<1>1. LoopInv'
  BY LoopMoves
<1>2. \A d \in Calls : pc'[d] = "done" <=> decision'[d] # "pending"
  BY PlacesAgree
<1>3. TypeOK'
  BY <1>2 DEF BaseInv, TypeOK, Typed, StoresTyped, CountedTyped
<1>4. PastInv'
  <2> SUFFICES ASSUME NEW d \in Calls, NEW i \in DOMAIN Rules PROVE counted'[d][i].at <= now
    BY DEF PastInv
  <2>1. counted[d][i].at <= now /\ now \in Nat
    BY TimeAssumption DEF BaseInv, PastInv, TypeOK
  <2> QED
    BY <2>1 DEF OnlyCall
<1>5. HeldInv'
  <2> SUFFICES ASSUME NEW d \in Calls
               PROVE  /\ pc'[d] \in {"insert", "select"} => held'[d] <= now
                      /\ pc'[d] = "select" => counted'[d][rule'[d]].at = held'[d]
    BY DEF HeldInv
  <2>1. CASE d # c
    BY <2>1 DEF OnlyCall, BaseInv, HeldInv
  <2>2. CASE d = c
    <3>1. pc'[c] = "select" => rule'[c] = rule[c]
      BY <2>2 DEF GoesOn, Refused, Stays
    <3> QED
      BY <2>2, <3>1
  <2> QED
    BY <2>1, <2>2
<1> QED
  BY <1>1, <1>3, <1>4, <1>5 DEF BaseInv

LEMMA ArriveBase == ASSUME BaseInv, NEW c \in Calls, Arrive(c) PROVE BaseInv'
<1>1. /\ pc[c] = "idle" /\ Proceed(c, 1) /\ UNCHANGED <<now, cache, table, held, counted, forgotten>>
      /\ TypeOK
  BY DEF Arrive, stores, BaseInv
<1>2. /\ GoesOn(c, 1) /\ Typed /\ OnlyCall(c)
  BY <1>1, Proceeds DEF OnlyCall
<1>3. StoresTyped /\ CountedTyped /\ held' \in [Calls -> 0 .. MaxTime]
  BY <1>1 DEF TypeOK, StoresTyped, CountedTyped
<1>4. pc'[c] \notin {"insert", "select"}
  BY <1>2 DEF GoesOn
<1> QED
  BY <1>1, <1>2, <1>3, <1>4, CallStep

(* The cache has counted: the step as the quotas see it.                   *)
LEMMA IncrementWindowDoes ==
  ASSUME BaseInv, NEW c \in Calls, IncrementWindow(c)
  PROVE  /\ InLoop(c) /\ OnlyCall(c) /\ Typed /\ Count(c, "cache", now)
         /\ UNCHANGED <<now, held, forgotten>>
         /\ \E times \in {1, 2} : Increment(c, times)
         /\ Refused(c) \/ (GoesOn(c, rule[c] + 1) /\ cache'[BucketOf(c)].count <= Rule(c).limit)
<1>1. InLoop(c) /\ Count(c, "cache", now) /\ UNCHANGED <<now, held, forgotten>>
  BY DEF IncrementWindow, InLoop
<1>2. PICK times \in {1, 2} : Increment(c, times) /\ Judge(c, cache'[BucketOf(c)].count)
  BY DEF IncrementWindow
<1>3. cache'[BucketOf(c)].count \in Nat
  <2>1. cache' \in [Buckets -> [count : Nat, expires : Nat]]
    BY <1>1, <1>2, Increments
  <2> QED
    BY <1>1, <2>1, AtRule
<1>5. now \in 0 .. MaxTime
  BY DEF BaseInv, TypeOK
<1>4. OnlyCall(c)
  BY <1>1, <1>2, <1>3, <1>5, Judged, Counts DEF OnlyCall
<1> QED
  BY <1>1, <1>2, <1>3, <1>4, Judged

LEMMA IncrementWindowBase ==
  ASSUME BaseInv, NEW c \in Calls, IncrementWindow(c) PROVE BaseInv'
<1>1. /\ InLoop(c) /\ OnlyCall(c) /\ Typed /\ Count(c, "cache", now)
      /\ UNCHANGED <<now, held, forgotten>>
      /\ Refused(c) \/ GoesOn(c, rule[c] + 1)
  BY IncrementWindowDoes
<1>2. PICK times \in {1, 2} : Increment(c, times)
  BY IncrementWindowDoes
<1>3. StoresTyped
  BY <1>1, <1>2, Increments DEF StoresTyped, BaseInv, TypeOK
<1>4. /\ CountedTyped
      /\ counted'[c][rule[c]].by = "cache" /\ counted'[c][rule[c]].at = now
      /\ \A j \in DOMAIN Rules \ {rule[c]} : counted'[c][j] = counted[c][j]
  BY <1>1, Counts DEF CountedTyped, BaseInv, TypeOK
<1>5. pc'[c] \notin {"insert", "select"} /\ now <= now /\ held' \in [Calls -> 0 .. MaxTime]
  BY <1>1, TimeAssumption DEF GoesOn, Refused, BaseInv, TypeOK
<1> QED
  BY <1>1, <1>3, <1>4, <1>5, CallStep

(* The cache fails, having counted or not.                                 *)
LEMMA CacheFailsDoes ==
  ASSUME BaseInv, NEW c \in Calls, CacheFails(c)
  PROVE  /\ InLoop(c) /\ pc[c] # "select" /\ OnlyCall(c) /\ Typed
         /\ UNCHANGED <<now, held, counted, forgotten>>
         /\ Increment(c, 1) \/ UNCHANGED stores
         /\ \/ Refused(c) \/ (GoesOn(c, rule[c] + 1) /\ ~FailClosed)
            \/ Stays(c) /\ pc'[c] = "db"
<1>1. /\ InLoop(c) /\ pc[c] = "cache" /\ UNCHANGED <<now, held, counted, forgotten>>
      /\ Increment(c, 1) \/ UNCHANGED stores
  BY DEF CacheFails, InLoop
<1>2. CASE "db" \in Stores
  BY <1>1, <1>2 DEF CacheFails, Typed, OnlyCall, Stays, BaseInv, TypeOK
<1>3. CASE "db" \notin Stores
  BY <1>1, <1>3, NotCounted DEF CacheFails, OnlyCall
<1> QED
  BY <1>1, <1>2, <1>3

LEMMA CacheFailsBase == ASSUME BaseInv, NEW c \in Calls, CacheFails(c) PROVE BaseInv'
<1>1. /\ InLoop(c) /\ OnlyCall(c) /\ Typed /\ UNCHANGED <<now, held, counted, forgotten>>
      /\ Increment(c, 1) \/ UNCHANGED stores
      /\ \/ Refused(c) \/ (GoesOn(c, rule[c] + 1) /\ ~FailClosed)
         \/ Stays(c) /\ pc'[c] = "db"
  BY CacheFailsDoes
<1>2. StoresTyped
  <2>1. CASE Increment(c, 1)
    BY <1>1, <2>1, Increments DEF StoresTyped, BaseInv, TypeOK
  <2>2. CASE UNCHANGED stores
    BY <2>2 DEF stores, StoresTyped, BaseInv, TypeOK
  <2> QED
    BY <1>1, <2>1, <2>2
<1>3. /\ CountedTyped /\ held' \in [Calls -> 0 .. MaxTime] /\ pc'[c] \notin {"insert", "select"}
  BY <1>1 DEF CountedTyped, BaseInv, TypeOK, Refused, GoesOn
<1> QED
  BY <1>1, <1>2, <1>3, CallStep

(* The clock reading.                                                      *)
LEMMA ReadClockDoes ==
  ASSUME BaseInv, NEW c \in Calls, ReadClock(c)
  PROVE  /\ InLoop(c) /\ pc[c] = "db" /\ OnlyCall(c) /\ Typed /\ Stays(c)
         /\ pc'[c] = "insert" /\ held'[c] = now /\ held' \in [Calls -> 0 .. MaxTime]
         /\ UNCHANGED <<now, cache, table, rule, decision, counted, forgotten>>
<1>1. /\ InLoop(c) /\ pc[c] = "db"
      /\ held' = [held EXCEPT ![c] = now] /\ pc' = [pc EXCEPT ![c] = "insert"]
      /\ UNCHANGED <<now, cache, table, rule, decision, counted, forgotten>>
  BY DEF ReadClock, InLoop, stores
<1> QED
  BY <1>1 DEF Typed, Stays, OnlyCall, BaseInv, TypeOK

LEMMA ReadClockBase == ASSUME BaseInv, NEW c \in Calls, ReadClock(c) PROVE BaseInv'
<1>1. /\ InLoop(c) /\ OnlyCall(c) /\ Typed /\ Stays(c)
      /\ pc'[c] = "insert" /\ held'[c] = now /\ held' \in [Calls -> 0 .. MaxTime]
      /\ UNCHANGED <<now, cache, table, rule, decision, counted, forgotten>>
  BY ReadClockDoes
<1>2. StoresTyped /\ CountedTyped /\ now <= now
  BY <1>1, TimeAssumption DEF StoresTyped, CountedTyped, BaseInv, TypeOK
<1> QED
  BY <1>1, <1>2, CallStep

(* The INSERT.                                                             *)
LEMMA InsertCounterDoes ==
  ASSUME BaseInv, NEW c \in Calls, InsertCounter(c)
  PROVE  /\ InLoop(c) /\ pc[c] = "insert" /\ OnlyCall(c) /\ Typed /\ Stays(c)
         /\ pc'[c] = "select" /\ Insert(c) /\ held[c] <= now
         /\ UNCHANGED <<now, cache, rule, held, decision, forgotten>>
         /\ CountedTyped
         /\ counted'[c][rule[c]].by = "db" /\ counted'[c][rule[c]].at = held[c]
         /\ \A j \in DOMAIN Rules \ {rule[c]} : counted'[c][j] = counted[c][j]
         /\ \A d \in Calls \ {c} : counted'[d] = counted[d]
<1>1. /\ InLoop(c) /\ pc[c] = "insert" /\ Count(c, "db", held[c]) /\ Insert(c)
      /\ pc' = [pc EXCEPT ![c] = "select"]
      /\ UNCHANGED <<now, cache, rule, held, decision, forgotten>>
  BY DEF InsertCounter, Insert, InLoop
<1>2. held[c] <= now /\ held[c] \in 0 .. MaxTime
  BY <1>1 DEF BaseInv, HeldInv, TypeOK
<1>3. /\ CountedTyped
      /\ counted'[c][rule[c]].by = "db" /\ counted'[c][rule[c]].at = held[c]
      /\ \A j \in DOMAIN Rules \ {rule[c]} : counted'[c][j] = counted[c][j]
      /\ \A d \in Calls \ {c} : counted'[d] = counted[d]
  BY <1>1, <1>2, Counts DEF CountedTyped
<1>4. Typed /\ Stays(c) /\ OnlyCall(c) /\ pc'[c] = "select"
  BY <1>1, <1>3 DEF Typed, Stays, OnlyCall, BaseInv, TypeOK
<1> QED
  BY <1>1, <1>2, <1>3, <1>4

LEMMA InsertCounterBase == ASSUME BaseInv, NEW c \in Calls, InsertCounter(c) PROVE BaseInv'
<1>1. /\ InLoop(c) /\ OnlyCall(c) /\ Typed /\ Stays(c)
      /\ pc'[c] = "select" /\ Insert(c) /\ held[c] <= now
      /\ UNCHANGED <<now, cache, rule, held, decision, forgotten>>
      /\ CountedTyped
      /\ counted'[c][rule[c]].by = "db" /\ counted'[c][rule[c]].at = held[c]
      /\ \A j \in DOMAIN Rules \ {rule[c]} : counted'[c][j] = counted[c][j]
  BY InsertCounterDoes
<1>2. StoresTyped /\ held' \in [Calls -> 0 .. MaxTime]
  BY <1>1, Inserts DEF StoresTyped, BaseInv, TypeOK
<1> QED
  BY <1>1, <1>2, CallStep

(* The SELECT finds a row or none.                                         *)
LEMMA SelectCounterDoes ==
  ASSUME BaseInv, NEW c \in Calls, SelectCounter(c)
  PROVE  /\ InLoop(c) /\ pc[c] = "select" /\ OnlyCall(c) /\ Typed
         /\ UNCHANGED <<now, cache, table, held, forgotten>>
         /\ \/ Uncount(c) /\ (Refused(c) \/ (GoesOn(c, rule[c] + 1) /\ ~FailClosed))
            \/ /\ counted' = counted /\ table[BucketOf(c)][WindowStart(c)] # 0
               /\ \/ Refused(c)
                  \/ /\ GoesOn(c, rule[c] + 1)
                     /\ table[BucketOf(c)][WindowStart(c)] <= Rule(c).limit
<1>1. /\ InLoop(c) /\ pc[c] = "select" /\ UNCHANGED <<now, cache, table, held, forgotten>>
  BY DEF SelectCounter, InLoop, stores
<1>2. table[BucketOf(c)][WindowStart(c)] \in Nat
  <2>1. BucketOf(c) \in Buckets
    BY <1>1, AtRule
  <2>2. table[BucketOf(c)] \in [0 .. MaxTime -> Nat] /\ WindowStart(c) \in 0 .. MaxTime
    BY <2>1, <1>1, Truncates DEF BaseInv, TypeOK
  <2> QED
    BY <2>2
<1>3. CASE table[BucketOf(c)][WindowStart(c)] = 0
  <2>1. Uncountable(c) /\ Uncount(c)
    BY <1>3 DEF SelectCounter
  <2> QED
    BY <1>1, <2>1, NotCounted, Uncounts DEF OnlyCall
<1>4. CASE table[BucketOf(c)][WindowStart(c)] # 0
  <2>1. Judge(c, table[BucketOf(c)][WindowStart(c)]) /\ counted' = counted
    BY <1>4 DEF SelectCounter
  <2> QED
    BY <1>1, <1>2, <1>4, <2>1, Judged DEF OnlyCall
<1> QED
  BY <1>3, <1>4

LEMMA SelectCounterBase == ASSUME BaseInv, NEW c \in Calls, SelectCounter(c) PROVE BaseInv'
<1>1. /\ InLoop(c) /\ pc[c] = "select" /\ OnlyCall(c) /\ Typed
      /\ UNCHANGED <<now, cache, table, held, forgotten>>
      /\ Refused(c) \/ GoesOn(c, rule[c] + 1)
      /\ \/ Uncount(c) /\ (Refused(c) \/ ~FailClosed)
         \/ counted' = counted
  BY SelectCounterDoes
<1>2. StoresTyped /\ held' \in [Calls -> 0 .. MaxTime] /\ pc'[c] \notin {"insert", "select"}
  BY <1>1 DEF StoresTyped, BaseInv, TypeOK, Refused, GoesOn
<1>3. counted[c][rule[c]].by = "db"
  BY <1>1 DEF BaseInv, LoopInv
<1>4. CASE counted' = counted
  BY <1>1, <1>2, <1>3, <1>4, CallStep DEF CountedTyped, BaseInv, TypeOK
<1>5. CASE Uncount(c) /\ (Refused(c) \/ ~FailClosed)
  <2>1. /\ CountedTyped /\ counted'[c][rule[c]].at = 0
        /\ \A j \in DOMAIN Rules \ {rule[c]} : counted'[c][j] = counted[c][j]
    BY <1>1, <1>5, Uncounts DEF CountedTyped
  <2>2. counted'[c][rule[c]].at <= now
    BY <2>1, TimeAssumption DEF BaseInv, TypeOK
  <2> QED
    BY <1>1, <1>2, <1>5, <2>1, <2>2, CallStep
<1> QED
  BY <1>1, <1>4, <1>5

(* A statement fails; the INSERT may have counted.                         *)
LEMMA DBFailsDoes ==
  ASSUME BaseInv, NEW c \in Calls, DBFails(c)
  PROVE  /\ InLoop(c) /\ OnlyCall(c) /\ Typed /\ Uncount(c)
         /\ UNCHANGED <<now, cache, held, forgotten>>
         /\ table' = table \/ (pc[c] = "insert" /\ Insert(c))
         /\ Refused(c) \/ (GoesOn(c, rule[c] + 1) /\ ~FailClosed)
<1>1. /\ InLoop(c) /\ Uncountable(c) /\ Uncount(c)
      /\ UNCHANGED <<now, cache, held, forgotten>>
      /\ table' = table \/ (pc[c] = "insert" /\ Insert(c))
  BY DEF DBFails, Insert, InLoop, stores
<1> QED
  BY <1>1, NotCounted, Uncounts DEF OnlyCall

LEMMA DBFailsBase == ASSUME BaseInv, NEW c \in Calls, DBFails(c) PROVE BaseInv'
<1>1. /\ InLoop(c) /\ OnlyCall(c) /\ Typed /\ Uncount(c)
      /\ UNCHANGED <<now, cache, held, forgotten>>
      /\ table' = table \/ (pc[c] = "insert" /\ Insert(c))
      /\ Refused(c) \/ (GoesOn(c, rule[c] + 1) /\ ~FailClosed)
  BY DBFailsDoes
<1>2. StoresTyped
  BY <1>1, Inserts DEF StoresTyped, BaseInv, TypeOK
<1>3. /\ CountedTyped /\ counted'[c][rule[c]].at = 0
      /\ \A j \in DOMAIN Rules \ {rule[c]} : counted'[c][j] = counted[c][j]
  BY <1>1, Uncounts DEF CountedTyped
<1>5. 0 <= now
  BY TimeAssumption DEF BaseInv, TypeOK
<1>4. held' \in [Calls -> 0 .. MaxTime] /\ pc'[c] \notin {"insert", "select"}
  BY <1>1 DEF BaseInv, TypeOK, Refused, GoesOn
<1> QED
  BY <1>1, <1>2, <1>3, <1>4, <1>5, CallStep

(* Cleanup, time and stuttering.                                           *)
LEMMA RestBase == ASSUME BaseInv, Cleanup \/ Tick \/ UNCHANGED vars PROVE BaseInv'
<1>1. /\ UNCHANGED <<cache, pc, rule, held, counted, decision>>
      /\ now' \in 0 .. MaxTime /\ now <= now'
      /\ table' \in [Buckets -> [0 .. MaxTime -> Nat]]
      /\ forgotten' \subseteq Buckets \X (0 .. MaxTime)
  <2>1. CASE Cleanup
    <3>1. PICK gone \in SUBSET Expired :
            /\ table' = [b \in Buckets |-> [w \in 0 .. MaxTime |->
                          IF <<b, w>> \in gone THEN 0 ELSE table[b][w]]]
            /\ forgotten' = forgotten \cup {k \in gone : \E c \in Calls : InHand(c, k)}
      BY <2>1 DEF Cleanup
    <3>3. forgotten' \subseteq Buckets \X (0 .. MaxTime)
      BY <3>1 DEF Expired, BaseInv, TypeOK
    <3>2. table' \in [Buckets -> [0 .. MaxTime -> Nat]]
      <4>1. \A b \in Buckets, w \in 0 .. MaxTime :
              (IF <<b, w>> \in gone THEN 0 ELSE table[b][w]) \in Nat
        BY DEF BaseInv, TypeOK
      <4> QED
        BY <3>1, <4>1
    <3> QED
      BY <2>1, <3>2, <3>3, TimeAssumption DEF Cleanup, BaseInv, TypeOK
  <2>2. CASE Tick \/ UNCHANGED vars
    BY <2>2, TimeAssumption DEF Tick, vars, stores, BaseInv, TypeOK
  <2> QED
    BY <2>1, <2>2
<1>2. TypeOK' /\ LoopInv' /\ HeldInv'
  <2>1. TypeOK'
    BY <1>1 DEF BaseInv, TypeOK
  <2>2. LoopInv'
    BY <1>1 DEF BaseInv, LoopInv
  <2>3. now \in Nat /\ now' \in Nat /\ \A c \in Calls : held[c] \in Nat
    BY <1>1, TimeAssumption DEF BaseInv, TypeOK
  <2>4. HeldInv'
    BY <1>1, <2>3 DEF BaseInv, HeldInv
  <2> QED
    BY <2>1, <2>2, <2>4
<1>3. PastInv'
  <2>1. \A c \in Calls, i \in DOMAIN Rules : counted[c][i].at \in 0 .. MaxTime
    BY DEF BaseInv, TypeOK
  <2> QED
    BY <1>1, <2>1, TimeAssumption DEF BaseInv, PastInv, TypeOK
<1> QED
  BY <1>2, <1>3 DEF BaseInv

LEMMA BaseInit == Init => BaseInv
<1> SUFFICES ASSUME Init PROVE BaseInv
  OBVIOUS
<1>1. TypeOK
  BY TimeAssumption DEF Init, TypeOK, Uncounted
<1>2. LoopInv /\ PastInv /\ HeldInv
  BY TimeAssumption DEF Init, LoopInv, PastInv, HeldInv, Uncounted
<1> QED
  BY <1>1, <1>2 DEF BaseInv

LEMMA BaseStep == BaseInv /\ [Next]_vars => BaseInv'
  BY ArriveBase, IncrementWindowBase, CacheFailsBase, ReadClockBase, InsertCounterBase, SelectCounterBase,
     DBFailsBase, RestBase
  DEF Next, Finished

(* For any calls, rules and keys: a limiter that fails closed admits a     *)
(* call only after every rule that applies to it has counted it            *)
(* (ratelimit.go, Allow).                                                  *)
THEOREM AdmissionIsCounted == Spec => []AdmittedMeansCounted
<1>1. BaseInv => AdmittedMeansCounted
  BY DEF BaseInv, LoopInv, AdmittedMeansCounted, Uncounted
<1> QED
  BY <1>1, BaseInit, BaseStep, PTL DEF Spec

-----------------------------------------------------------------------------
(* Steps that count nobody for a rule, or let nobody pass it.              *)

Cleared(d, i) == decision[d] \in {"pending", "allowed"} /\ ~(pc[d] = "select" /\ rule[d] = i)

Keeps(i, b, store) == \A d \in Calls :
  On(d, i, b) /\ counted'[d][i].by = store => counted'[d][i] = counted[d][i]
KeepsPassed(i, b, store) == \A d \in Calls :
  On(d, i, b) /\ counted'[d][i].by = store /\ Cleared(d, i)'
    => counted'[d][i] = counted[d][i] /\ Cleared(d, i)

LEMMA SlidingKept ==
  ASSUME NEW i \in DOMAIN Rules, NEW b, SlidingInv(i, b), KeepsPassed(i, b, "cache")
  PROVE  SlidingInv(i, b)'
<1> SUFFICES ASSUME NEW t \in 0 .. MaxTime
             PROVE  Cardinality(Passed(i, b, "cache", Span(i, t))') <= Rules[i].limit
  BY DEF SlidingInv, Span, Passed, CountedBy, On
<1> DEFINE S == Passed(i, b, "cache", Span(i, t))
<1>1. S' \subseteq S /\ S' \in SUBSET Calls /\ S \in SUBSET Calls
  BY DEF Passed, CountedBy, KeepsPassed, Cleared, Span, On
<1>2. Cardinality(S) <= Rules[i].limit
  BY DEF SlidingInv
<1> HIDE DEF S
<1> QED
  BY <1>1, <1>2, Smaller, RulesAssumption DEF S

LEMMA AlignedKept ==
  ASSUME NEW i \in DOMAIN Rules, NEW b, AlignedInv(i, b), KeepsPassed(i, b, "db"),
         forgotten \subseteq forgotten'
  PROVE  AlignedInv(i, b)'
<1> SUFFICES ASSUME NEW w \in Starts(i), <<b, w>> \notin forgotten
             PROVE  Cardinality(Passed(i, b, "db", Window(i, w))') <= Rules[i].limit
  BY DEF AlignedInv, Starts, Window, Passed, CountedBy, On
<1> DEFINE S == Passed(i, b, "db", Window(i, w))
<1>1. S' \subseteq S /\ S' \in SUBSET Calls /\ S \in SUBSET Calls
  BY DEF Passed, CountedBy, KeepsPassed, Cleared, Window, On
<1>2. Cardinality(S) <= Rules[i].limit
  BY DEF AlignedInv
<1> HIDE DEF S
<1> QED
  BY <1>1, <1>2, Smaller, RulesAssumption DEF S

(* The counter is not touched, or grows by more than it counts.            *)
LEMMA CacheKept ==
  ASSUME BaseInv, NEW i \in DOMAIN Rules, NEW b \in Buckets, CacheInv(i, b),
         Keeps(i, b, "cache"), now' = now, cache'[b] = cache[b]
  PROVE  CacheInv(i, b)'
<1>1. \A c \in CountedBy(i, b, "cache", 0 .. MaxTime)' :
        counted'[c][i].at + Rules[i].window <= cache'[b].expires
  BY DEF CacheInv, CountedBy, Keeps, On
<1> DEFINE S == Recent(i, b)
<1>2. S' \subseteq S /\ S' \in SUBSET Calls /\ S \in SUBSET Calls
  BY DEF Recent, CountedBy, Keeps, On
<1>3. /\ Cardinality(S) <= IF Live(b) THEN cache[b].count ELSE 0
      /\ cache[b].count \in Nat
      /\ Live(b)' <=> Live(b)
  BY DEF CacheInv, Live, BaseInv, TypeOK
<1> HIDE DEF S
<1>4. Cardinality(S') <= IF Live(b)' THEN cache'[b].count ELSE 0
  BY <1>2, <1>3, Smaller
<1> QED
  BY <1>1, <1>4 DEF CacheInv, S, On, CountedBy

-----------------------------------------------------------------------------
(* The cache counts.                                                       *)

(* Call c adds to the counter of rule i, and may be counted for that.      *)
Bumps(i, b, c) ==
  /\ now' = now /\ cache'[b].expires = now + Rules[i].window
  /\ cache'[b].count \in Nat
  /\ cache'[b].count >= (IF Live(b) THEN cache[b].count ELSE 0) + 1
  /\ \A d \in Calls : On(d, i, b) /\ counted'[d][i].by = "cache" =>
       counted'[d][i] = counted[d][i] \/ (d = c /\ counted'[d][i].at = now)

LEMMA RecentGrows ==
  ASSUME BaseInv, NEW i \in DOMAIN Rules, NEW b \in Buckets, CacheInv(i, b), NEW c \in Calls,
         Bumps(i, b, c)
  PROVE  /\ Recent(i, b)' \in SUBSET Calls
         /\ Cardinality(Recent(i, b)') \in Nat
         /\ Cardinality(Recent(i, b)') <= cache'[b].count
<1> DEFINE S == Recent(i, b)
<1>1. S' \subseteq S \cup {c} /\ S' \in SUBSET Calls /\ S \in SUBSET Calls
  BY DEF Recent, CountedBy, Bumps, On
<1>2. Cardinality(S) <= IF Live(b) THEN cache[b].count ELSE 0
  BY DEF CacheInv
<1>3. cache[b].count \in Nat /\ cache'[b].count \in Nat
      /\ cache'[b].count >= (IF Live(b) THEN cache[b].count ELSE 0) + 1
  BY DEF Bumps, BaseInv, TypeOK
<1> HIDE DEF S
<1>4. Cardinality(S') \in Nat /\ Cardinality(S) \in Nat /\ Cardinality(S') <= Cardinality(S) + 1
  BY <1>1, OneMore
<1>5. Cardinality(S') <= cache'[b].count
  BY <1>2, <1>3, <1>4
<1> QED
  BY <1>1, <1>4, <1>5 DEF S

LEMMA CacheBumped ==
  ASSUME BaseInv, NEW i \in DOMAIN Rules, NEW b \in Buckets, CacheInv(i, b), NEW c \in Calls,
         Bumps(i, b, c)
  PROVE  CacheInv(i, b)'
<1>1. now \in Nat /\ Rules[i].window \in Nat \ {0} /\ cache[b].count \in Nat
  BY TimeAssumption, RulesAssumption DEF BaseInv, TypeOK
<1>2. Live(b)'
  BY <1>1 DEF Live, Bumps
<1>3. \A d \in CountedBy(i, b, "cache", 0 .. MaxTime)' :
        counted'[d][i].at + Rules[i].window <= cache'[b].expires
  <2> SUFFICES ASSUME NEW d \in Calls, On(d, i, b), counted'[d][i].by = "cache"
               PROVE  counted'[d][i].at + Rules[i].window <= now + Rules[i].window
    BY DEF CountedBy, Bumps, On
  <2>1. counted[d][i].at \in 0 .. MaxTime /\ counted[d][i].at <= now
    BY DEF BaseInv, TypeOK, PastInv
  <2>2. counted'[d][i].at \in Nat /\ counted'[d][i].at <= now
    BY <1>1, <2>1, TimeAssumption DEF Bumps
  <2> QED
    BY <1>1, <2>2
<1>4. Cardinality(Recent(i, b)') <= IF Live(b)' THEN cache'[b].count ELSE 0
  BY <1>2, RecentGrows
<1> QED
  BY <1>3, <1>4 DEF CacheInv, On, CountedBy

(* A stretch with now in it reaches back no further than Recent, and the   *)
(* counter that has let the call pass has counted Recent.                  *)
LEMMA SlidingBumped ==
  ASSUME BaseInv, BaseInv', NEW i \in DOMAIN Rules, NEW b \in Buckets, NEW c \in Calls,
         CacheInv(i, b), SlidingInv(i, b), Bumps(i, b, c),
         \A d \in Calls : On(d, i, b) /\ Cleared(d, i)' =>
           \/ Cleared(d, i) /\ counted'[d][i] = counted[d][i]
           \/ counted'[d][i].at = now /\ cache'[b].count <= Rules[i].limit
  PROVE  SlidingInv(i, b)'
<1> SUFFICES ASSUME NEW t \in 0 .. MaxTime
             PROVE  Cardinality(Passed(i, b, "cache", Span(i, t))') <= Rules[i].limit
  BY DEF SlidingInv, Span, Passed, CountedBy, On
<1> DEFINE S == Passed(i, b, "cache", Span(i, t))
           R == Recent(i, b)
<1>1. S' \in SUBSET Calls /\ S \in SUBSET Calls /\ Rules[i].limit \in Nat
  BY RulesAssumption DEF Passed, CountedBy
<1>2. CASE S' \subseteq S
  <2>1. Cardinality(S) <= Rules[i].limit
    BY DEF SlidingInv
  <2> HIDE DEF S
  <2> QED
    BY <1>1, <1>2, <2>1, Smaller DEF S
<1>3. CASE ~(S' \subseteq S)
  <2>1. PICK d \in S' : d \notin S
    BY <1>3
  <2>2. /\ d \in Calls /\ On(d, i, b) /\ Cleared(d, i)' /\ counted'[d][i].by = "cache"
        /\ counted'[d][i].at \in Span(i, t)
    BY <2>1 DEF Passed, CountedBy, Cleared, On, Span
  <2>3. ~(Cleared(d, i) /\ counted'[d][i] = counted[d][i])
    BY <2>1, <2>2 DEF Passed, CountedBy, Cleared, On, Span
  <2>4. now \in Span(i, t) /\ cache'[b].count <= Rules[i].limit
    BY <2>2, <2>3
  <2>5. S' \subseteq R'
    <3> SUFFICES ASSUME NEW e \in S' PROVE e \in R'
      OBVIOUS
    <3>1. /\ e \in Calls /\ On(e, i, b) /\ counted'[e][i].by = "cache"
          /\ counted'[e][i].at \in Span(i, t)
      BY DEF Passed, CountedBy, On, Span
    <3>2. counted'[e][i].at <= now /\ now' = now
      BY <3>1 DEF BaseInv, PastInv, Bumps
    <3>3. now \in Int /\ t \in Int /\ Rules[i].window \in Nat
      <4>1. now \in 0 .. MaxTime
        BY DEF BaseInv, TypeOK
      <4> QED
        BY <4>1, RulesAssumption, TimeAssumption
    <3>4. counted'[e][i].at \in now - Rules[i].window + 1 .. now
      BY <2>4, <3>1, <3>2, <3>3 DEF Span
    <3> QED
      BY <3>1, <3>2, <3>4 DEF Recent, CountedBy, On
  <2>6. R' \in SUBSET Calls /\ Cardinality(R') <= cache'[b].count /\ cache'[b].count \in Nat
    BY RecentGrows DEF Bumps
  <2> HIDE DEF S, R
  <2>7. Cardinality(S') \in Nat /\ Cardinality(R') \in Nat /\ Cardinality(S') <= Cardinality(R')
    BY <1>1, <2>5, <2>6, Smaller
  <2> QED
    BY <1>1, <2>4, <2>6, <2>7 DEF S
<1> QED
  BY <1>2, <1>3

(* Time takes away from Recent what no longer counts.                      *)
LEMMA CacheTicked ==
  ASSUME BaseInv, NEW i \in DOMAIN Rules, NEW b \in Buckets, CacheInv(i, b), Tick
  PROVE  CacheInv(i, b)'
<1>1. /\ now' = now + 1 /\ UNCHANGED <<cache, counted>>
      /\ now \in Nat /\ Rules[i].window \in Nat \ {0}
      /\ cache[b].count \in Nat /\ cache[b].expires \in Nat
  BY TimeAssumption, RulesAssumption DEF Tick, stores, BaseInv, TypeOK
<1>2. \A c \in Calls : On(c, i, b) =>
        counted[c][i].at \in 0 .. MaxTime /\ counted[c][i].at <= now
  BY RulesAssumption DEF BaseInv, TypeOK, PastInv
<1>3. \A c \in CountedBy(i, b, "cache", 0 .. MaxTime)' :
        counted'[c][i].at + Rules[i].window <= cache'[b].expires
  BY <1>1 DEF CacheInv, CountedBy, On
<1> DEFINE S == Recent(i, b)
<1>4. S' \subseteq S /\ S' \in SUBSET Calls /\ S \in SUBSET Calls
  BY <1>1, <1>2 DEF Recent, CountedBy, On
<1>5. Live(b) /\ ~Live(b)' => S' = {}
  <2> SUFFICES ASSUME Live(b), ~Live(b)', NEW c \in S' PROVE FALSE
    OBVIOUS
  <2>1. cache[b].expires <= now + 1
    BY <1>1 DEF Live
  <2>2. /\ c \in Calls /\ On(c, i, b) /\ counted[c][i].by = "cache"
        /\ counted[c][i].at \in now + 1 - Rules[i].window + 1 .. now + 1
    BY <1>1 DEF Recent, CountedBy, On
  <2>3. counted[c][i].at + Rules[i].window <= cache[b].expires
    BY <1>2, <2>2 DEF CacheInv, CountedBy
  <2> QED
    BY <1>1, <1>2, <2>1, <2>2, <2>3, TimeAssumption
<1>6. Cardinality(S) <= IF Live(b) THEN cache[b].count ELSE 0
  BY DEF CacheInv
<1>7. Live(b)' => Live(b)
  BY <1>1 DEF Live
<1> HIDE DEF S
<1>8. Cardinality(S') <= IF Live(b)' THEN cache'[b].count ELSE 0
  <2>1. Cardinality(S') \in Nat /\ Cardinality(S) \in Nat /\ Cardinality(S') <= Cardinality(S)
    BY <1>4, Smaller
  <2>2. CASE Live(b)'
    BY <1>1, <1>6, <1>7, <2>1, <2>2
  <2>3. CASE ~Live(b)'
    BY <1>5, <1>6, <2>1, <2>3, FS_EmptySet
  <2> QED
    BY <2>2, <2>3
<1> QED
  BY <1>3, <1>8 DEF CacheInv, S, On, CountedBy

(* A step of c lets pass no other call, and c only by its SELECT.          *)
LEMMA ClearedBefore ==
  ASSUME BaseInv, NEW c \in Calls, OnlyCall(c), pc[c] = "idle" \/ InLoop(c),
         NEW d \in Calls, NEW i, Cleared(d, i)'
  PROVE  Cleared(d, i) \/ (d = c /\ pc[c] = "select" /\ rule[c] = i)
  BY DEF OnlyCall, Cleared, InLoop, BaseInv, TypeOK

(* The calls that use a counter of its own use it for the rule that owns   *)
(* it.                                                                     *)
LEMMA OwnRule ==
  ASSUME BaseInv, NEW i \in DOMAIN Rules, NEW b \in Buckets, Own(i, b),
         NEW c \in Calls, InLoop(c)
  PROVE  /\ BucketOf(c) = b => rule[c] = i /\ On(c, i, b) /\ Rule(c) = Rules[i]
         /\ On(c, i, b) /\ rule[c] = i => BucketOf(c) = b
<1>1. rule[c] \in DOMAIN Rules /\ rule[c] \in Applicable(c, 1)
  BY AtRule
<1>2. BucketOf(c) = b => Rules[rule[c]].dim = b[1]
  BY DEF BucketOf, Bucket
<1> QED
  BY <1>1, <1>2 DEF Own, Alone, On, BucketOf, Rule

(* The counters of the cache are inductive.                                *)
LEMMA CacheQuotaStep == BaseInv /\ BaseInv' /\ CacheQuota /\ [Next]_vars => CacheQuota'
<1> SUFFICES ASSUME BaseInv, BaseInv', CacheQuota, [Next]_vars,
                    NEW i \in DOMAIN Rules, NEW b \in Buckets, Own(i, b)
             PROVE  CacheInv(i, b)' /\ SlidingInv(i, b)'
  BY DEF CacheQuota, CacheInv, SlidingInv, Recent, Live, CountedBy, Passed, Span, On
<1>0. CacheInv(i, b) /\ SlidingInv(i, b)
  BY DEF CacheQuota
<1>1. ASSUME NEW c \in Calls, Arrive(c) PROVE CacheInv(i, b)' /\ SlidingInv(i, b)'
  <2>1. /\ pc[c] = "idle" /\ Proceed(c, 1) /\ UNCHANGED <<now, cache, table, held, counted, forgotten>>
        /\ TypeOK
    BY <1>1 DEF Arrive, stores, BaseInv
  <2>2. OnlyCall(c)
    BY <2>1, Proceeds DEF OnlyCall
  <2>3. Keeps(i, b, "cache") /\ KeepsPassed(i, b, "cache")
    BY <2>1, <2>2, ClearedBefore DEF Keeps, KeepsPassed
  <2> QED
    BY <1>0, <2>1, <2>3, CacheKept, SlidingKept
<1>2. ASSUME NEW c \in Calls, IncrementWindow(c) PROVE CacheInv(i, b)' /\ SlidingInv(i, b)'
  <2>1. /\ InLoop(c) /\ OnlyCall(c) /\ Count(c, "cache", now) /\ now' = now /\ pc[c] = "cache"
        /\ Refused(c) \/ cache'[BucketOf(c)].count <= Rule(c).limit
    BY <1>2, IncrementWindowDoes DEF IncrementWindow
  <2>2. PICK times \in {1, 2} : Increment(c, times)
    BY <1>2, IncrementWindowDoes
  <2>3. /\ counted'[c][rule[c]].by = "cache" /\ counted'[c][rule[c]].at = now
        /\ \A j \in DOMAIN Rules \ {rule[c]} : counted'[c][j] = counted[c][j]
        /\ \A d \in Calls \ {c} : counted'[d] = counted[d]
    BY <2>1, Counts DEF BaseInv, TypeOK
  <2>4. \A d \in Calls : Cleared(d, i)' => Cleared(d, i)
    BY <2>1, ClearedBefore
  <2>5. CASE BucketOf(c) = b
    <3>1. rule[c] = i /\ Rule(c) = Rules[i]
      BY <2>1, <2>5, OwnRule
    <3>2. /\ cache'[b].expires = now + Rules[i].window
          /\ cache'[b].count = (IF Live(b) THEN cache[b].count ELSE 0) + times
          /\ cache' \in [Buckets -> [count : Nat, expires : Nat]]
      BY <2>1, <2>2, <2>5, <3>1, Increments
    <3>3. cache[b].count \in Nat /\ cache'[b].count \in Nat
      BY <3>2 DEF BaseInv, TypeOK
    <3>4. Bumps(i, b, c)
      BY <2>1, <2>2, <2>3, <3>1, <3>2, <3>3 DEF Bumps
    <3>5. \A d \in Calls : On(d, i, b) /\ Cleared(d, i)' =>
            \/ Cleared(d, i) /\ counted'[d][i] = counted[d][i]
            \/ counted'[d][i].at = now /\ cache'[b].count <= Rules[i].limit
      BY <2>1, <2>3, <2>4, <2>5, <3>1 DEF Cleared, Refused
    <3> QED
      BY <1>0, <3>4, <3>5, CacheBumped, SlidingBumped
  <2>6. CASE BucketOf(c) # b
    <3>1. cache'[b] = cache[b]
      BY <2>1, <2>2, <2>6, Increments
    <3>2. Keeps(i, b, "cache") /\ KeepsPassed(i, b, "cache")
      BY <2>1, <2>3, <2>4, <2>6, OwnRule DEF Keeps, KeepsPassed
    <3> QED
      BY <1>0, <2>1, <3>1, <3>2, CacheKept, SlidingKept
  <2> QED
    BY <2>5, <2>6
<1>3. ASSUME NEW c \in Calls, CacheFails(c) PROVE CacheInv(i, b)' /\ SlidingInv(i, b)'
  <2>1. /\ InLoop(c) /\ pc[c] # "select" /\ OnlyCall(c) /\ UNCHANGED <<now, held, counted>>
        /\ Increment(c, 1) \/ UNCHANGED stores
    BY <1>3, CacheFailsDoes
  <2>2. Keeps(i, b, "cache") /\ KeepsPassed(i, b, "cache")
    BY <2>1, ClearedBefore DEF Keeps, KeepsPassed
  <2>3. CASE Increment(c, 1) /\ BucketOf(c) = b
    <3>1. Rule(c) = Rules[i]
      BY <2>1, <2>3, OwnRule
    <3>2. /\ cache'[b].expires = now + Rules[i].window
          /\ cache'[b].count = (IF Live(b) THEN cache[b].count ELSE 0) + 1
          /\ cache' \in [Buckets -> [count : Nat, expires : Nat]]
      BY <2>1, <2>3, <3>1, Increments
    <3>3. cache[b].count \in Nat /\ cache'[b].count \in Nat
      BY <3>2 DEF BaseInv, TypeOK
    <3>4. Bumps(i, b, c)
      BY <2>1, <3>2, <3>3 DEF Bumps
    <3> QED
      BY <1>0, <2>2, <3>4, CacheBumped, SlidingKept
  <2>4. CASE (Increment(c, 1) /\ BucketOf(c) # b) \/ UNCHANGED stores
    <3>1. cache'[b] = cache[b]
      BY <2>1, <2>4, Increments DEF stores
    <3> QED
      BY <1>0, <2>1, <2>2, <3>1, CacheKept, SlidingKept
  <2> QED
    BY <2>1, <2>3, <2>4
<1>4. ASSUME NEW c \in Calls, ReadClock(c) \/ InsertCounter(c) \/ SelectCounter(c) \/ DBFails(c)
      PROVE  CacheInv(i, b)' /\ SlidingInv(i, b)'
  <2>1. /\ InLoop(c) /\ OnlyCall(c) /\ UNCHANGED <<now, cache>>
        /\ \A j \in DOMAIN Rules \ {rule[c]} : counted'[c][j] = counted[c][j]
        /\ \A d \in Calls \ {c} : counted'[d] = counted[d]
        /\ counted'[c][rule[c]].by # "cache" \/ counted' = counted
        /\ pc[c] = "select" => counted'[c][rule[c]].by # "cache"
    <3>1. CASE ReadClock(c) \/ InsertCounter(c)
      BY <3>1, ReadClockDoes, InsertCounterDoes
    <3>2. CASE SelectCounter(c)
      <4>1. /\ InLoop(c) /\ pc[c] = "select" /\ OnlyCall(c) /\ UNCHANGED <<now, cache>>
            /\ Uncount(c) \/ counted' = counted
        BY <3>2, SelectCounterDoes
      <4>2. counted[c][rule[c]].by = "db"
        BY <4>1 DEF BaseInv, LoopInv
      <4> QED
        BY <4>1, <4>2, Uncounts
    <3>3. CASE DBFails(c)
      <4>1. InLoop(c) /\ OnlyCall(c) /\ UNCHANGED <<now, cache>> /\ Uncount(c)
        BY <3>3, DBFailsDoes
      <4> QED
        BY <4>1, Uncounts
    <3> QED
      BY <1>4, <3>1, <3>2, <3>3
  <2>2. Keeps(i, b, "cache") /\ KeepsPassed(i, b, "cache")
    BY <2>1, ClearedBefore DEF Keeps, KeepsPassed
  <2> QED
    BY <1>0, <2>1, <2>2, CacheKept, SlidingKept
<1>5. CASE Cleanup \/ Tick \/ UNCHANGED vars
  <2>1. UNCHANGED <<cache, counted, pc, rule, decision>> /\ (now' = now \/ Tick)
    BY <1>5 DEF Cleanup, Tick, vars, stores
  <2>2. Keeps(i, b, "cache") /\ KeepsPassed(i, b, "cache")
    BY <2>1 DEF Keeps, KeepsPassed, Cleared
  <2> QED
    BY <1>0, <2>1, <2>2, CacheKept, CacheTicked, SlidingKept
<1> QED
  BY <1>1, <1>2, <1>3, <1>4, <1>5 DEF Next, Finished

(* Nothing is counted at first.                                            *)
LEMMA QuotaInit == Init => CacheQuota /\ TableQuota
<1> SUFFICES ASSUME Init, NEW i \in DOMAIN Rules, NEW b \in Buckets
             PROVE  /\ CacheInv(i, b) /\ SlidingInv(i, b)
                    /\ TableInv(i, b) /\ AlignedInv(i, b)
  BY DEF CacheQuota, TableQuota
<1>1. \A store \in {"cache", "db"} : \A span :
        CountedBy(i, b, store, span) = {} /\ Passed(i, b, store, span) = {}
  BY DEF Init, CountedBy, Passed, Uncounted
<1>2. Rules[i].limit \in Nat /\ Cardinality({}) = 0
  BY RulesAssumption, FS_EmptySet
<1>3. CacheInv(i, b) /\ SlidingInv(i, b)
  <2>1. Recent(i, b) = {} /\ CountedBy(i, b, "cache", 0 .. MaxTime) = {}
    BY <1>1 DEF Recent
  <2>2. 0 <= IF Live(b) THEN cache[b].count ELSE 0
    BY DEF Init, Live
  <2>3. CacheInv(i, b)
    BY <1>2, <2>1, <2>2 DEF CacheInv
  <2>4. \A t \in 0 .. MaxTime : Passed(i, b, "cache", Span(i, t)) = {}
    BY <1>1
  <2> QED
    BY <1>2, <2>3, <2>4 DEF SlidingInv
<1>4. TableInv(i, b) /\ AlignedInv(i, b)
  <2>1. \A w \in Starts(i) : /\ CountedBy(i, b, "db", Window(i, w)) = {}
                             /\ Passed(i, b, "db", Window(i, w)) = {}
                             /\ table[b][w] = 0
    BY <1>1 DEF Init, Starts
  <2> QED
    BY <1>2, <2>1 DEF TableInv, AlignedInv
<1> QED
  BY <1>3, <1>4

(* The calls a quota speaks of were let pass; a counter of another         *)
(* dimension counts none of them.                                          *)
LEMMA AdmittedPassed ==
  ASSUME BaseInv, NEW i \in DOMAIN Rules, NEW b, NEW store, NEW span
  PROVE  /\ Admitted(b, i, store, span) \subseteq Passed(i, b, store, span)
         /\ Alone(i) /\ Admitted(b, i, store, span) # {} => Own(i, b)
  BY DEF BaseInv, TypeOK, Admitted, Passed, CountedBy, On, Own, Bucket

(* For any calls, rules and keys, and for whatever the stores lose or      *)
(* repeat: the cache admits no more than the limit in a stretch as long    *)
(* as the window (ratelimit.go, Rule; cache.go, IncrementWindow).          *)
THEOREM CacheKeepsTheQuota == Spec => []SlidingQuota
<1>1. BaseInv /\ CacheQuota => SlidingQuota
  <2> SUFFICES ASSUME BaseInv, CacheQuota, NEW i \in DOMAIN Rules, NEW b \in Buckets,
                      NEW t \in 0 .. MaxTime, Alone(i)
               PROVE  Cardinality(Admitted(b, i, "cache", Span(i, t))) <= Rules[i].limit
    BY DEF SlidingQuota, Span
  <2> DEFINE A == Admitted(b, i, "cache", Span(i, t))
             P == Passed(i, b, "cache", Span(i, t))
  <2>1. Rules[i].limit \in Nat
    BY RulesAssumption
  <2>2. CASE Own(i, b)
    <3>1. /\ A \subseteq P /\ A \in SUBSET Calls /\ P \in SUBSET Calls
          /\ Cardinality(P) <= Rules[i].limit
      BY <2>2, AdmittedPassed DEF CacheQuota, SlidingInv, Admitted, Passed, CountedBy
    <3> HIDE DEF A, P
    <3> QED
      BY <2>1, <3>1, Smaller DEF A
  <2>3. CASE ~Own(i, b)
    BY <2>1, <2>3, AdmittedPassed, FS_EmptySet
  <2> QED
    BY <2>2, <2>3
<1>2. BaseInv /\ CacheQuota /\ [Next]_vars => (BaseInv /\ CacheQuota)'
  BY BaseStep, CacheQuotaStep
<1> QED
  BY <1>1, <1>2, BaseInit, QuotaInit, PTL DEF Spec

-----------------------------------------------------------------------------
(* The table counts.                                                       *)

LEMMA OneWindow ==
  ASSUME NEW i \in DOMAIN Rules, NEW v \in Starts(i), NEW w \in Starts(i),
         NEW n \in Nat, n \in Window(i, v), n \in Window(i, w)
  PROVE  v = w
<1>1. Rules[i].window \in Nat \ {0}
  BY RulesAssumption
<1>2. /\ v \in Nat /\ v % Rules[i].window = 0 /\ v <= n /\ n < v + Rules[i].window
      /\ w \in Nat /\ w % Rules[i].window = 0 /\ w <= n /\ n < w + Rules[i].window
  BY <1>1, TimeAssumption DEF Starts, Window
<1> QED
  BY <1>1, <1>2, Aligned

(* Only a clock reading puts a window into a call's hand, and that window  *)
(* is not over.                                                            *)
LEMMA HandsKept ==
  ASSUME BaseInv, NEW i \in DOMAIN Rules, NEW b \in Buckets, Own(i, b),
         NEW c \in Calls, pc[c] = "idle" \/ InLoop(c), OnlyCall(c),
         \/ pc'[c] # "insert"
         \/ pc'[c] = "insert" /\ InLoop(c) /\ rule'[c] = rule[c] /\ held'[c] = now,
         NEW w \in Starts(i), w + Rules[i].window <= now,
         \A d \in Calls : ~InHand(d, <<b, w>>)
  PROVE  \A d \in Calls : ~InHand(d, <<b, w>>)'
<1> SUFFICES ASSUME NEW d \in Calls, InHand(d, <<b, w>>)' PROVE FALSE
  OBVIOUS
<1>1. pc'[d] = "insert" /\ BucketOf(d)' = b /\ WindowStart(d)' = w
  BY DEF InHand
<1>2. CASE d # c
  <2>1. BucketOf(d)' = BucketOf(d) /\ WindowStart(d)' = WindowStart(d) /\ pc'[d] = pc[d]
    BY <1>2 DEF OnlyCall, BucketOf, WindowStart, Rule
  <2> QED
    BY <1>1, <2>1 DEF InHand
<1>3. CASE d = c
  <2>1. InLoop(c) /\ rule'[c] = rule[c] /\ held'[c] = now
    BY <1>1, <1>3
  <2>2. BucketOf(c) = b /\ w = now - (now % Rule(c).window)
    BY <1>1, <1>3, <2>1 DEF BucketOf, WindowStart, Rule
  <2>3. Rule(c) = Rules[i] /\ Rules[i].window \in Nat \ {0} /\ now \in Nat
    <3>1. Rule(c) = Rules[i]
      BY <2>1, <2>2, OwnRule
    <3> QED
      BY <3>1, RulesAssumption, TimeAssumption DEF BaseInv, TypeOK
  <2>4. now < w + Rules[i].window /\ w \in Nat
    BY <2>2, <2>3, Aligned
  <2> QED
    BY <2>3, <2>4
<1> QED
  BY <1>2, <1>3

(* Rows grow, and those that are over stay away once they are gone.        *)
LEMMA TableKept ==
  ASSUME BaseInv, NEW i \in DOMAIN Rules, NEW b \in Buckets, TableInv(i, b), BaseInv',
         Keeps(i, b, "db"), forgotten \subseteq forgotten',
         \A w \in Starts(i) : table'[b][w] >= table[b][w] /\ (Closed(i, b, w) => Closed(i, b, w)')
  PROVE  TableInv(i, b)'
<1> SUFFICES ASSUME NEW w \in Starts(i), <<b, w>> \notin forgotten
             PROVE  \/ table'[b][w] >= Cardinality(CountedBy(i, b, "db", Window(i, w))')
                    \/ Closed(i, b, w)'
  BY DEF TableInv, Starts, Window, CountedBy, On
<1> DEFINE S == CountedBy(i, b, "db", Window(i, w))
<1>1. S' \subseteq S /\ S' \in SUBSET Calls /\ S \in SUBSET Calls
  BY DEF CountedBy, Keeps, Window, On
<1>2. table[b][w] >= Cardinality(S) \/ Closed(i, b, w)
  BY DEF TableInv
<1>3. table[b][w] \in Nat /\ table'[b][w] \in Nat
  <2>1. table[b] \in [0 .. MaxTime -> Nat] /\ table'[b] \in [0 .. MaxTime -> Nat]
    BY DEF BaseInv, TypeOK
  <2> QED
    BY <2>1 DEF Starts
<1> HIDE DEF S
<1>4. Cardinality(S') \in Nat /\ Cardinality(S) \in Nat /\ Cardinality(S') <= Cardinality(S)
  BY <1>1, Smaller
<1>5. table'[b][w] >= Cardinality(S') \/ Closed(i, b, w)'
  BY <1>2, <1>3, <1>4
<1> QED
  BY <1>5 DEF S

(* The row and the window that c has read count one more.                  *)
LEMMA TableInserted ==
  ASSUME BaseInv, NEW i \in DOMAIN Rules, NEW b \in Buckets, TableInv(i, b),
         NEW c \in Calls, NEW v \in Starts(i), InHand(c, <<b, v>>), held[c] \in Window(i, v),
         forgotten' = forgotten,
         \A w \in Starts(i) : /\ table'[b][w] = IF w = v THEN table[b][w] + 1 ELSE table[b][w]
                              /\ Closed(i, b, w) => Closed(i, b, w)',
         \A d \in Calls : On(d, i, b) /\ counted'[d][i].by = "db" =>
           counted'[d][i] = counted[d][i] \/ (d = c /\ counted'[d][i].at = held[c])
  PROVE  TableInv(i, b)'
<1> SUFFICES ASSUME NEW w \in Starts(i), <<b, w>> \notin forgotten
             PROVE  \/ table'[b][w] >= Cardinality(CountedBy(i, b, "db", Window(i, w))')
                    \/ Closed(i, b, w)'
  BY DEF TableInv, Starts, Window, CountedBy, On
<1> DEFINE S == CountedBy(i, b, "db", Window(i, w))
<1>1. S' \in SUBSET Calls /\ S \in SUBSET Calls
  BY DEF CountedBy
<1>2. table[b][w] >= Cardinality(S) \/ Closed(i, b, w)
  BY DEF TableInv
<1>3. held[c] \in Nat /\ table[b][w] \in Nat
  <2>1. held[c] \in 0 .. MaxTime /\ table[b] \in [0 .. MaxTime -> Nat]
    BY DEF BaseInv, TypeOK
  <2> QED
    BY <2>1, TimeAssumption DEF Starts
<1>4. CASE w = v
  <2>1. S' \subseteq S \cup {c}
    BY DEF CountedBy, Window, On
  <2>2. ~Closed(i, b, w)
    BY <1>4 DEF Closed
  <2> HIDE DEF S
  <2>3. Cardinality(S') \in Nat /\ Cardinality(S) \in Nat /\ Cardinality(S') <= Cardinality(S) + 1
    BY <1>1, <2>1, OneMore
  <2>4. table'[b][w] >= Cardinality(S')
    BY <1>2, <1>3, <1>4, <2>2, <2>3
  <2> QED
    BY <2>4 DEF S
<1>5. CASE w # v
  <2>1. held[c] \notin Window(i, w)
    BY <1>3, <1>5, OneWindow
  <2>2. S' \subseteq S
    BY <2>1 DEF CountedBy, Window, On
  <2> HIDE DEF S
  <2>3. Cardinality(S') \in Nat /\ Cardinality(S) \in Nat /\ Cardinality(S') <= Cardinality(S)
    BY <1>1, <2>2, Smaller
  <2>4. table'[b][w] >= Cardinality(S') \/ Closed(i, b, w)'
    BY <1>2, <1>3, <1>5, <2>3
  <2> QED
    BY <2>4 DEF S
<1> QED
  BY <1>4, <1>5

(* A row that has let a call pass has counted its window.                  *)
LEMMA AlignedSelected ==
  ASSUME BaseInv, NEW i \in DOMAIN Rules, NEW b \in Buckets, TableInv(i, b), AlignedInv(i, b),
         NEW c \in Calls, pc[c] = "select", rule[c] = i, counted' = counted,
         table[b][WindowStart(c)] # 0, table[b][WindowStart(c)] <= Rules[i].limit,
         forgotten' = forgotten,
         \A d \in Calls : Cleared(d, i)' => Cleared(d, i) \/ d = c
  PROVE  AlignedInv(i, b)'
<1> SUFFICES ASSUME NEW w \in Starts(i), <<b, w>> \notin forgotten
             PROVE  Cardinality(Passed(i, b, "db", Window(i, w))') <= Rules[i].limit
  BY DEF AlignedInv, Starts, Window, Passed, CountedBy, On
<1> DEFINE S == Passed(i, b, "db", Window(i, w))
           T == CountedBy(i, b, "db", Window(i, w))
<1>1. /\ S' \in SUBSET Calls /\ S \in SUBSET Calls /\ T \in SUBSET Calls
      /\ Rules[i].limit \in Nat /\ S' \subseteq T
  BY RulesAssumption DEF Passed, CountedBy, On
<1>2. CASE S' \subseteq S
  <2>1. Cardinality(S) <= Rules[i].limit
    BY DEF AlignedInv
  <2> HIDE DEF S, T
  <2> QED
    BY <1>1, <1>2, <2>1, Smaller DEF S
<1>3. CASE ~(S' \subseteq S)
  <2>1. c \in S'
    BY <1>3 DEF Passed, CountedBy, Cleared, On, Window
  <2>2. counted[c][i].at \in Window(i, w)
    BY <2>1 DEF Passed, CountedBy, On, Window
  <2>3. WindowStart(c) \in Starts(i) /\ counted[c][i].at \in Window(i, WindowStart(c))
    <3>1. InLoop(c) /\ counted[c][i].at = held[c]
      BY DEF InLoop, BaseInv, HeldInv
    <3> QED
      BY <3>1, Truncates
  <2>4. counted[c][i].at \in Nat
    BY TimeAssumption DEF BaseInv, TypeOK
  <2>5. w = WindowStart(c)
    BY <2>2, <2>3, <2>4, OneWindow
  <2>6. Cardinality(T) <= table[b][w] /\ table[b][w] \in Nat
    <3>1. table[b] \in [0 .. MaxTime -> Nat] /\ w \in 0 .. MaxTime
      BY DEF BaseInv, TypeOK, Starts
    <3> QED
      BY <2>5, <3>1 DEF TableInv, Closed
  <2> HIDE DEF S, T
  <2>7. Cardinality(S') \in Nat /\ Cardinality(T) \in Nat /\ Cardinality(S') <= Cardinality(T)
    BY <1>1, Smaller
  <2> QED
    BY <1>1, <2>5, <2>6, <2>7 DEF S
<1> QED
  BY <1>2, <1>3

(* The rows of the table are inductive.                                    *)
LEMMA TableQuotaStep ==
  ASSUME ExpiredOnly, BaseInv, BaseInv', TableQuota, [Next]_vars
  PROVE  TableQuota'
<1> SUFFICES ASSUME NEW i \in DOMAIN Rules, NEW b \in Buckets, Own(i, b)
             PROVE  TableInv(i, b)' /\ AlignedInv(i, b)'
  BY DEF TableQuota, TableInv, AlignedInv, Closed, InHand, BucketOf, Bucket, WindowStart, Rule,
     Starts, Window, CountedBy, Passed, On
<1>0. /\ TableInv(i, b) /\ AlignedInv(i, b)
      /\ now \in Nat /\ \A w \in Starts(i) : table[b][w] \in Nat /\ w \in Nat
      /\ Rules[i].window \in Nat \ {0}
  <2>1. table[b] \in [0 .. MaxTime -> Nat]
    BY DEF BaseInv, TypeOK
  <2> QED
    BY <2>1, RulesAssumption, TimeAssumption DEF TableQuota, Starts, BaseInv, TypeOK
(* A step of one call leaves closed what is closed, if it writes no other  *)
(* row than the one it has in hand.                                        *)
<1>8. ASSUME NEW c \in Calls, pc[c] = "idle" \/ InLoop(c), OnlyCall(c), now' = now,
             \/ pc'[c] # "insert"
             \/ pc'[c] = "insert" /\ InLoop(c) /\ rule'[c] = rule[c] /\ held'[c] = now,
             table' = table \/ (pc[c] = "insert" /\ Insert(c))
      PROVE  \A w \in Starts(i) : table'[b][w] >= table[b][w] /\ (Closed(i, b, w) => Closed(i, b, w)')
  <2>1. \A w \in Starts(i) : table'[b][w] >= table[b][w]
                             /\ (table'[b][w] = table[b][w] \/ InHand(c, <<b, w>>))
    <3>1. CASE table' = table
      BY <1>0, <3>1
    <3>2. CASE pc[c] = "insert" /\ Insert(c)
      <4>1. \A w \in 0 .. MaxTime : table'[b][w] =
              IF b = BucketOf(c) /\ w = WindowStart(c) THEN table[b][w] + 1 ELSE table[b][w]
        BY <3>2, Inserts DEF InLoop
      <4>2. \A w \in Starts(i) : w \in 0 .. MaxTime
        BY DEF Starts
      <4> QED
        BY <1>0, <3>2, <4>1, <4>2 DEF InHand
    <3> QED
      BY <1>8, <3>1, <3>2
  <2>2. ASSUME NEW w \in Starts(i), Closed(i, b, w) PROVE Closed(i, b, w)'
    <3>1. \A d \in Calls : ~InHand(d, <<b, w>>)'
      BY <1>8, <2>2, HandsKept DEF Closed
    <3>2. table'[b][w] = 0 /\ w + Rules[i].window <= now'
      BY <1>8, <2>1, <2>2 DEF Closed
    <3> QED
      BY <3>1, <3>2 DEF Closed
  <2> QED
    BY <2>1, <2>2
<1>1. ASSUME NEW c \in Calls, Arrive(c) PROVE TableInv(i, b)' /\ AlignedInv(i, b)'
  <2>1. /\ pc[c] = "idle" /\ Proceed(c, 1) /\ UNCHANGED <<now, cache, table, held, counted, forgotten>>
        /\ TypeOK
    BY <1>1 DEF Arrive, stores, BaseInv
  <2>2. OnlyCall(c)
    BY <2>1, Proceeds DEF OnlyCall
  <2>3. Keeps(i, b, "db") /\ KeepsPassed(i, b, "db")
    BY <2>1, <2>2, ClearedBefore DEF Keeps, KeepsPassed
  <2>4. pc'[c] # "insert"
    BY <2>1, Proceeds DEF GoesOn
  <2> QED
    BY <1>0, <1>8, <2>1, <2>2, <2>3, <2>4, TableKept, AlignedKept
<1>2. ASSUME NEW c \in Calls, IncrementWindow(c) \/ CacheFails(c) \/ ReadClock(c)
      PROVE  TableInv(i, b)' /\ AlignedInv(i, b)'
  <2>1. /\ InLoop(c) /\ pc[c] # "select" /\ OnlyCall(c) /\ UNCHANGED <<now, table, forgotten>>
        /\ counted' = counted \/ Count(c, "cache", now)
        /\ \/ pc'[c] # "insert"
           \/ pc'[c] = "insert" /\ rule'[c] = rule[c] /\ held'[c] = now
    <3>1. CASE IncrementWindow(c)
      BY <3>1, IncrementWindowDoes, Increments DEF IncrementWindow, GoesOn, Refused
    <3>2. CASE CacheFails(c)
      BY <3>2, CacheFailsDoes, Increments DEF stores, GoesOn, Refused
    <3>3. CASE ReadClock(c)
      BY <3>3, ReadClockDoes
    <3> QED
      BY <1>2, <3>1, <3>2, <3>3
  <2>2. \A d \in Calls : counted'[d][i] = counted[d][i] \/ counted'[d][i].by = "cache"
    <3>1. CASE counted' = counted
      BY <3>1
    <3>2. CASE Count(c, "cache", now)
      <4>1. now \in 0 .. MaxTime
        BY DEF BaseInv, TypeOK
      <4>2. /\ counted'[c][rule[c]].by = "cache"
            /\ \A j \in DOMAIN Rules \ {rule[c]} : counted'[c][j] = counted[c][j]
            /\ \A d \in Calls \ {c} : counted'[d] = counted[d]
        BY <2>1, <3>2, <4>1, Counts
      <4> QED
        BY <4>2
    <3> QED
      BY <2>1, <3>1, <3>2
  <2>3. Keeps(i, b, "db") /\ KeepsPassed(i, b, "db")
    BY <2>1, <2>2, ClearedBefore DEF Keeps, KeepsPassed
  <2> QED
    BY <1>0, <1>8, <2>1, <2>3, TableKept, AlignedKept
<1>3. ASSUME NEW c \in Calls, InsertCounter(c) PROVE TableInv(i, b)' /\ AlignedInv(i, b)'
  <2>1. /\ InLoop(c) /\ pc[c] = "insert" /\ OnlyCall(c) /\ pc'[c] = "select" /\ Insert(c)
        /\ UNCHANGED <<now, cache, rule, held, decision, forgotten>>
        /\ counted'[c][rule[c]].by = "db" /\ counted'[c][rule[c]].at = held[c]
        /\ \A j \in DOMAIN Rules \ {rule[c]} : counted'[c][j] = counted[c][j]
        /\ \A d \in Calls \ {c} : counted'[d] = counted[d]
    BY <1>3, InsertCounterDoes
  <2>2. \A w \in 0 .. MaxTime : table'[b][w] =
          IF b = BucketOf(c) /\ w = WindowStart(c) THEN table[b][w] + 1 ELSE table[b][w]
    BY <2>1, Inserts
  <2>3. \A w \in Starts(i) : w \in 0 .. MaxTime
    BY DEF Starts
  <2>4. \A w \in Starts(i) : table'[b][w] >= table[b][w] /\ (Closed(i, b, w) => Closed(i, b, w)')
    BY <1>8, <2>1
  <2>5. KeepsPassed(i, b, "db")
    BY <2>1, ClearedBefore DEF KeepsPassed, Cleared
  <2>6. CASE BucketOf(c) = b
    <3>1. rule[c] = i
      BY <2>1, <2>6, OwnRule
    <3> DEFINE v == WindowStart(c)
    <3>2. v \in Starts(i) /\ held[c] \in Window(i, v) /\ InHand(c, <<b, v>>)
      BY <2>1, <2>6, <3>1, Truncates DEF InHand
    <3>3. \A w \in Starts(i) : table'[b][w] = IF w = v THEN table[b][w] + 1 ELSE table[b][w]
      BY <2>2, <2>3, <2>6
    <3>4. \A d \in Calls : On(d, i, b) /\ counted'[d][i].by = "db" =>
            counted'[d][i] = counted[d][i] \/ (d = c /\ counted'[d][i].at = held[c])
      BY <2>1, <3>1
    <3>5. forgotten' = forgotten
      BY <2>1
    <3> HIDE DEF v
    <3>6. TableInv(i, b)'
      BY <1>0, <2>4, <3>2, <3>3, <3>4, <3>5, TableInserted
    <3> QED
      BY <1>0, <2>5, <3>5, <3>6, AlignedKept
  <2>7. CASE BucketOf(c) # b
    <3>1. Keeps(i, b, "db")
      BY <2>1, <2>7, OwnRule DEF Keeps
    <3> QED
      BY <1>0, <2>1, <2>4, <2>5, <3>1, TableKept, AlignedKept
  <2> QED
    BY <2>6, <2>7
<1>4. ASSUME NEW c \in Calls, SelectCounter(c) PROVE TableInv(i, b)' /\ AlignedInv(i, b)'
  <2>1. /\ InLoop(c) /\ pc[c] = "select" /\ OnlyCall(c) /\ UNCHANGED <<now, table, forgotten>>
        /\ pc'[c] # "insert"
        /\ \/ Uncount(c)
           \/ /\ counted' = counted /\ table[BucketOf(c)][WindowStart(c)] # 0
              /\ Refused(c) \/ table[BucketOf(c)][WindowStart(c)] <= Rule(c).limit
    BY <1>4, SelectCounterDoes DEF GoesOn, Refused
  <2>2. \A d \in Calls : counted'[d][i] = counted[d][i] \/ counted'[d][i].by = "none"
    BY <2>1, Uncounts
  <2>3. TableInv(i, b)'
    <3>1. Keeps(i, b, "db")
      BY <2>2 DEF Keeps
    <3> QED
      BY <1>0, <1>8, <2>1, <3>1, TableKept
  <2>4. \A d \in Calls : Cleared(d, i)' => Cleared(d, i) \/ (d = c /\ rule[c] = i)
    BY <2>1, ClearedBefore
  <2>5. CASE BucketOf(c) = b /\ counted' = counted /\ ~Refused(c)
    <3>1. rule[c] = i /\ Rule(c) = Rules[i]
      BY <2>1, <2>5, OwnRule
    <3>2. pc[c] = "select" /\ table[b][WindowStart(c)] # 0 /\ table[b][WindowStart(c)] <= Rules[i].limit
      <4>1. counted[c][rule[c]].by = "db"
        BY <2>1 DEF BaseInv, LoopInv
      <4>2. ~Uncount(c)
        BY <2>1, <2>5, <4>1, Uncounts
      <4> QED
        BY <2>1, <2>5, <3>1, <4>2
    <3> QED
      BY <1>0, <2>1, <2>3, <2>4, <2>5, <3>1, <3>2, AlignedSelected
  <2>6. CASE BucketOf(c) # b \/ Refused(c) \/ Uncount(c)
    <3>1. KeepsPassed(i, b, "db")
      <4>1. CASE BucketOf(c) # b
        BY <2>1, <2>2, <2>4, <4>1, OwnRule DEF KeepsPassed
      <4>2. CASE Refused(c)
        BY <2>2, <2>4, <4>2 DEF KeepsPassed, Refused, Cleared
      <4>3. CASE Uncount(c)
        BY <2>1, <2>2, <2>4, <4>3, Uncounts DEF KeepsPassed
      <4> QED
        BY <2>6, <4>1, <4>2, <4>3
    <3> QED
      BY <1>0, <2>1, <2>3, <3>1, AlignedKept
  <2> QED
    BY <2>1, <2>5, <2>6
<1>5. ASSUME NEW c \in Calls, DBFails(c) PROVE TableInv(i, b)' /\ AlignedInv(i, b)'
  <2>1. /\ InLoop(c) /\ OnlyCall(c) /\ Uncount(c) /\ UNCHANGED <<now, forgotten>>
        /\ table' = table \/ (pc[c] = "insert" /\ Insert(c))
        /\ pc'[c] # "insert"
    BY <1>5, DBFailsDoes DEF GoesOn, Refused
  <2>2. /\ counted'[c][rule[c]].by = "none"
        /\ \A j \in DOMAIN Rules \ {rule[c]} : counted'[c][j] = counted[c][j]
        /\ \A d \in Calls \ {c} : counted'[d] = counted[d]
    BY <2>1, Uncounts
  <2>3. Keeps(i, b, "db") /\ KeepsPassed(i, b, "db")
    BY <2>1, <2>2, ClearedBefore DEF Keeps, KeepsPassed
  <2> QED
    BY <1>0, <1>8, <2>1, <2>3, TableKept, AlignedKept
<1>6. CASE Cleanup
  <2>1. PICK gone \in SUBSET Expired :
          /\ table' = [d \in Buckets |-> [w \in 0 .. MaxTime |->
                        IF <<d, w>> \in gone THEN 0 ELSE table[d][w]]]
          /\ forgotten' = forgotten \cup {k \in gone : \E c \in Calls : InHand(c, k)}
    BY <1>6 DEF Cleanup
  <2>2. UNCHANGED <<now, pc, rule, held, counted, decision>> /\ forgotten \subseteq forgotten'
    BY <1>6, <2>1 DEF Cleanup
  <2>3. KeepsPassed(i, b, "db")
    BY <2>2 DEF KeepsPassed, Cleared
  <2>4. \A c \in Calls : \A k : InHand(c, k)' <=> InHand(c, k)
    BY <2>2 DEF InHand, BucketOf, WindowStart, Rule
  <2>5. TableInv(i, b)'
    <3> SUFFICES ASSUME NEW w \in Starts(i), <<b, w>> \notin forgotten'
                 PROVE  \/ table'[b][w] >= Cardinality(CountedBy(i, b, "db", Window(i, w)))
                        \/ Closed(i, b, w)'
      BY <2>2 DEF TableInv, Starts, Window, CountedBy, On
    <3>1. w \in 0 .. MaxTime /\ <<b, w>> \notin forgotten
      BY <2>2 DEF Starts
    <3>2. CASE <<b, w>> \notin gone
      <4>1. table'[b][w] = table[b][w]
        BY <2>1, <3>1, <3>2
      <4> QED
        BY <1>0, <2>2, <2>4, <3>1, <4>1 DEF TableInv, Closed
    <3>3. CASE <<b, w>> \in gone
      <4>1. table'[b][w] = 0 /\ \A c \in Calls : ~InHand(c, <<b, w>>)
        BY <2>1, <3>1, <3>3
      <4>2. w < now - Retention
        BY <3>3 DEF Expired
      <4>3. w + Rules[i].window <= now
        BY <1>0, <4>2, TimeAssumption DEF ExpiredOnly
      <4> QED
        BY <2>2, <2>4, <4>1, <4>3 DEF Closed
    <3> QED
      BY <3>2, <3>3
  <2> QED
    BY <1>0, <2>2, <2>3, <2>5, AlignedKept
<1>7. CASE Tick \/ UNCHANGED vars
  <2>1. UNCHANGED <<table, counted, pc, rule, held, decision, forgotten>> /\ now <= now'
    BY <1>0, <1>7 DEF Tick, vars, stores
  <2>2. Keeps(i, b, "db") /\ KeepsPassed(i, b, "db")
    BY <2>1 DEF Keeps, KeepsPassed, Cleared
  <2>3. now' \in Nat
    BY TimeAssumption DEF BaseInv, TypeOK
  <2>4. \A w \in Starts(i) : table'[b][w] >= table[b][w] /\ (Closed(i, b, w) => Closed(i, b, w)')
    BY <1>0, <2>1, <2>3 DEF Closed, InHand, BucketOf, WindowStart, Rule
  <2> QED
    BY <1>0, <2>1, <2>2, <2>4, TableKept, AlignedKept
<1> QED
  BY <1>1, <1>2, <1>3, <1>4, <1>5, <1>6, <1>7 DEF Next, Finished

LEMMA TableInvariance == ASSUME ExpiredOnly PROVE Spec => [](BaseInv /\ TableQuota)
<1>1. BaseInv /\ TableQuota /\ [Next]_vars => (BaseInv /\ TableQuota)'
  BY BaseStep, TableQuotaStep
<1> QED
  BY <1>1, BaseInit, QuotaInit, PTL DEF Spec

(* For any calls, rules and keys, whatever statements fail and however     *)
(* long a call stays between its clock reading, its INSERT and its SELECT: *)
(* the table admits no more than the limit in each of its windows, as long *)
(* as Cleanup is only asked to delete windows that are over and deletes    *)
(* none that a call has read the clock in and is still to count in         *)
(* (ratelimit.go, incrementDB and Cleanup).                                *)
THEOREM TableKeepsTheQuota == ASSUME ExpiredOnly PROVE Spec => []AlignedQuota
<1>1. BaseInv /\ TableQuota => AlignedQuota
  <2> SUFFICES ASSUME BaseInv, TableQuota, NEW i \in DOMAIN Rules, NEW b \in Buckets,
                      NEW w \in Starts(i), Alone(i), <<b, w>> \notin forgotten
               PROVE  Cardinality(Admitted(b, i, "db", Window(i, w))) <= Rules[i].limit
    BY DEF AlignedQuota
  <2> DEFINE A == Admitted(b, i, "db", Window(i, w))
             P == Passed(i, b, "db", Window(i, w))
  <2>1. Rules[i].limit \in Nat
    BY RulesAssumption
  <2>2. CASE Own(i, b)
    <3>1. /\ A \subseteq P /\ A \in SUBSET Calls /\ P \in SUBSET Calls
          /\ Cardinality(P) <= Rules[i].limit
      BY <2>2, AdmittedPassed DEF TableQuota, AlignedInv, Admitted, Passed, CountedBy
    <3> HIDE DEF A, P
    <3> QED
      BY <2>1, <3>1, Smaller DEF A
  <2>3. CASE ~Own(i, b)
    BY <2>1, <2>3, AdmittedPassed, FS_EmptySet
  <2> QED
    BY <2>2, <2>3
<1> QED
  BY <1>1, TableInvariance, PTL

(* No call takes longer than p from its clock reading to its INSERT.       *)
Prompt(p) == \A c \in Calls : pc[c] = "insert" => now <= held[c] + p
Remembers == forgotten = {}
EveryWindowKept == \A i \in DOMAIN Rules, b \in Buckets : \A w \in Starts(i) :
  Alone(i) => Cardinality(Admitted(b, i, "db", Window(i, w))) <= Rules[i].limit

(* For any calls, rules and keys: if Cleanup is asked for what is older    *)
(* than a window and the time a call may take to insert (incrementDB waits *)
(* 500ms for the writer), it never deletes a row under such a call, and    *)
(* the table keeps the quota in each of its windows, without exception     *)
(* (ratelimit.go, incrementDB and Cleanup).                                *)
THEOREM PromptCallsKeepTheQuota ==
  ASSUME NEW p \in Nat, \A i \in DOMAIN Rules : Retention >= Rules[i].window - 1 + p
  PROVE  Spec /\ []Prompt(p) => []EveryWindowKept
<1>1. Init => Remembers
  BY DEF Init, Remembers
<1>2. BaseInv /\ Prompt(p) /\ Remembers /\ [Next]_vars => Remembers'
  <2> SUFFICES ASSUME BaseInv, Prompt(p), forgotten = {}, [Next]_vars PROVE forgotten' = {}
    BY DEF Remembers
  <2>1. ASSUME NEW k \in Expired, NEW c \in Calls PROVE ~InHand(c, k)
    <3> SUFFICES ASSUME InHand(c, k) PROVE FALSE
      OBVIOUS
    <3>1. /\ pc[c] = "insert" /\ k[2] = WindowStart(c) /\ k[2] < now - Retention
          /\ now <= held[c] + p
      BY DEF InHand, Expired, Prompt
    <3>2. rule[c] \in DOMAIN Rules
      BY <3>1, AtRule DEF InLoop
    <3>3. /\ Rule(c).window \in Nat \ {0} /\ held[c] \in Nat /\ now \in Nat /\ Retention \in Nat
          /\ Retention >= Rule(c).window - 1 + p
      BY <3>2, RulesAssumption, TimeAssumption DEF Rule, BaseInv, TypeOK
    <3>4. held[c] < WindowStart(c) + Rule(c).window /\ WindowStart(c) \in Nat
      BY <3>3, Aligned DEF WindowStart
    <3> QED
      BY <3>1, <3>3, <3>4
  <2>2. CASE Cleanup
    BY <2>1, <2>2 DEF Cleanup
  <2>3. CASE ~Cleanup
    BY <2>3 DEF Next, Arrive, IncrementWindow, CacheFails, ReadClock, InsertCounter,
       SelectCounter, DBFails, Tick, Finished, vars
  <2> QED
    BY <2>2, <2>3
<1>3. Spec => []BaseInv
  <2>1. BaseInv /\ [Next]_vars => BaseInv'
    BY BaseStep
  <2> QED
    BY <2>1, BaseInit, PTL DEF Spec
<1>4. AlignedQuota /\ Remembers => EveryWindowKept
  BY DEF AlignedQuota, Remembers, EveryWindowKept
<1>5. Spec => []AlignedQuota
  <2>1. ExpiredOnly
    BY RulesAssumption, TimeAssumption DEF ExpiredOnly
  <2> QED
    BY <2>1, TableKeepsTheQuota
<1> QED
  BY <1>1, <1>2, <1>3, <1>4, <1>5, PTL DEF Spec

-----------------------------------------------------------------------------
(* Both stores together.                                                   *)

(* The table has lost count of no window that the stretch meets.           *)
Remembered(i, b, t) == \A w \in Starts(i) :
  <<b, w>> \in forgotten => Span(i, t) \cap Window(i, w) = {}

(* Whatever store counts a call, and however often calls change over from  *)
(* one to the other: a stretch as long as the window sees at most three    *)
(* times the limit, once from the cache and once from each of the two      *)
(* aligned windows it can touch (ratelimit.go, increment).                 *)
FailoverQuota == \A i \in DOMAIN Rules, b \in Buckets, t \in 0 .. MaxTime :
  Alone(i) /\ Remembered(i, b, t)
    => Cardinality(UNION {Admitted(b, i, store, Span(i, t)) : store \in {"cache", "db"}})
         <= 3 * Rules[i].limit

LEMMA UnionBound ==
  ASSUME NEW S \in SUBSET Calls, NEW T \in SUBSET Calls
  PROVE  /\ Cardinality(S \cup T) \in Nat /\ Cardinality(S) \in Nat /\ Cardinality(T) \in Nat
         /\ Cardinality(S \cup T) <= Cardinality(S) + Cardinality(T)
<1>1. IsFiniteSet(S) /\ IsFiniteSet(T)
  BY CallsAssumption, FS_Subset
<1>2. /\ IsFiniteSet(S \cup T) /\ IsFiniteSet(S \cap T)
      /\ Cardinality(S \cup T) = Cardinality(S) + Cardinality(T) - Cardinality(S \cap T)
  BY <1>1, FS_Union, FS_Intersection
<1> QED
  BY <1>1, <1>2, FS_CardinalityType

(* A stretch lies in the aligned window of its end and the one before.     *)
LEMMA TwoWindows ==
  ASSUME NEW i \in DOMAIN Rules, NEW t \in 0 .. MaxTime
  PROVE  \E v, u \in Starts(i) : \A n \in Span(i, t) :
           n \in Nat => n \in Window(i, v) \/ n \in Window(i, u)
<1> DEFINE W == Rules[i].window
           v == t - (t % W)
<1>1. W \in Nat \ {0} /\ t \in Nat
  BY RulesAssumption, TimeAssumption
<1>2. v \in 0 .. t /\ v % W = 0 /\ t < v + W
  BY <1>1, Aligned
<1>3. v \in Starts(i)
  BY <1>1, <1>2, TimeAssumption DEF Starts
<1>6. \E k \in Nat : v = W * k
  <2>1. v \in Nat /\ v % W = 0
    BY <1>1, <1>2
  <2> HIDE DEF v, W
  <2> QED
    BY <1>1, <2>1, Multiple
<1> HIDE DEF v
<1>4. CASE v >= W
  <2>1. PICK k \in Nat : v = W * k
    BY <1>6
  <2>2. k # 0
    BY <1>1, <1>4, <2>1
  <2>3. v - W = W * (k - 1) /\ k - 1 \in Nat /\ v - W \in Nat
    BY <1>1, <1>2, <1>4, <2>1, <2>2
  <2>4. (v - W) % W = 0
    BY <1>1, <2>3, Multiple
  <2>5. v - W \in Starts(i)
    BY <1>1, <1>2, <2>3, <2>4, TimeAssumption DEF Starts
  <2>6. \A n \in Span(i, t) : n \in Nat => n \in Window(i, v) \/ n \in Window(i, v - W)
    BY <1>1, <1>2 DEF Span, Window
  <2> QED
    BY <1>3, <2>5, <2>6
<1>5. CASE v < W
  <2>1. v = 0
    <3>1. PICK k \in Nat : v = W * k
      BY <1>6
    <3>2. k <= 0
      BY <1>1, <1>5, <3>1, Between
    <3> QED
      BY <1>1, <3>1, <3>2
  <2>2. \A n \in Span(i, t) : n \in Nat => n \in Window(i, v)
    BY <1>1, <1>2, <2>1 DEF Span, Window
  <2> QED
    BY <1>3, <2>2
<1> QED
  BY <1>1, <1>2, <1>4, <1>5

(* SlidingQuota and AlignedQuota together.                                 *)
LEMMA QuotasAddUp ==
  ASSUME BaseInv, SlidingQuota, AlignedQuota
  PROVE  FailoverQuota
<1> SUFFICES ASSUME NEW i \in DOMAIN Rules, NEW b \in Buckets, NEW t \in 0 .. MaxTime, Alone(i),
                    Remembered(i, b, t)
             PROVE  Cardinality(UNION {Admitted(b, i, store, Span(i, t)) :
                                         store \in {"cache", "db"}}) <= 3 * Rules[i].limit
  BY DEF FailoverQuota
<1>1. PICK v, u \in Starts(i) : \A n \in Span(i, t) :
        n \in Nat => n \in Window(i, v) \/ n \in Window(i, u)
  BY TwoWindows
<1> DEFINE C == Admitted(b, i, "cache", Span(i, t))
           D == Admitted(b, i, "db", Span(i, t))
           V == D \cap Admitted(b, i, "db", Window(i, v))
           U == D \cap Admitted(b, i, "db", Window(i, u))
<1>2. C \in SUBSET Calls /\ D \in SUBSET Calls /\ V \in SUBSET Calls /\ U \in SUBSET Calls
  BY DEF Admitted
<1>3. D \subseteq V \cup U
  <2> SUFFICES ASSUME NEW c \in D PROVE c \in V \cup U
    OBVIOUS
  <2>1. i \in DOMAIN Rules /\ counted[c][i].at \in Nat
    BY TimeAssumption DEF Admitted, BaseInv, TypeOK
  <2> QED
    BY <1>1, <2>1 DEF Admitted
<1>4. Cardinality(C) <= Rules[i].limit
  BY DEF SlidingQuota, Span
<1>5. Cardinality(V) <= Rules[i].limit /\ Cardinality(U) <= Rules[i].limit
  <2> SUFFICES ASSUME NEW w \in Starts(i)
               PROVE  Cardinality(D \cap Admitted(b, i, "db", Window(i, w))) <= Rules[i].limit
    OBVIOUS
  <2> DEFINE A == Admitted(b, i, "db", Window(i, w))
  <2>1. Rules[i].limit \in Nat
    BY RulesAssumption
  <2>2. CASE <<b, w>> \in forgotten
    <3>1. D \cap A = {}
      BY <2>2 DEF Remembered, Admitted
    <3> QED
      BY <2>1, <3>1, FS_EmptySet
  <2>3. CASE <<b, w>> \notin forgotten
    <3>1. Cardinality(A) <= Rules[i].limit
      BY <2>3 DEF AlignedQuota
    <3>2. D \cap A \in SUBSET Calls /\ A \in SUBSET Calls
      BY DEF Admitted
    <3> HIDE DEF A, D
    <3>3. Cardinality(D \cap A) \in Nat /\ Cardinality(A) \in Nat
          /\ Cardinality(D \cap A) <= Cardinality(A)
      BY <3>2, Smaller
    <3> QED
      BY <2>1, <3>1, <3>3 DEF A
  <2> QED
    BY <2>2, <2>3
<1>6. UNION {Admitted(b, i, store, Span(i, t)) : store \in {"cache", "db"}} = C \cup D
  OBVIOUS
<1> DEFINE L == Rules[i].limit
<1>7. L \in Nat
  BY RulesAssumption
<1> HIDE DEF C, D, V, U, L
<1>8. /\ Cardinality(V \cup U) \in Nat /\ Cardinality(V) \in Nat /\ Cardinality(U) \in Nat
      /\ Cardinality(V \cup U) <= Cardinality(V) + Cardinality(U)
  BY <1>2, UnionBound
<1>9. /\ Cardinality(C \cup D) \in Nat /\ Cardinality(C) \in Nat
      /\ Cardinality(C \cup D) <= Cardinality(C) + Cardinality(D)
  BY <1>2, UnionBound
<1>10. Cardinality(D) \in Nat /\ Cardinality(D) <= Cardinality(V \cup U)
  <2>1. V \cup U \in SUBSET Calls
    BY <1>2
  <2> QED
    BY <1>2, <1>3, <2>1, Smaller
<1>11. Cardinality(C) <= L /\ Cardinality(V) <= L /\ Cardinality(U) <= L
  BY <1>4, <1>5 DEF L
<1>12. Cardinality(C \cup D) <= 3 * L
  BY <1>7, <1>8, <1>9, <1>10, <1>11
<1> QED
  BY <1>6, <1>12 DEF L

(* For any calls, rules and keys: however the calls are spread over the    *)
(* two stores, their quotas add up to three limits at most, in a stretch   *)
(* in which Cleanup has not made the table forget a window (ratelimit.go,  *)
(* increment).                                                             *)
THEOREM FailoverIsBounded == ASSUME ExpiredOnly PROVE Spec => []FailoverQuota
<1>1. BaseInv /\ SlidingQuota /\ AlignedQuota => FailoverQuota
  BY QuotasAddUp
<1>2. Spec => [](BaseInv /\ TableQuota)
  BY TableInvariance
<1> QED
  BY <1>1, <1>2, CacheKeepsTheQuota, TableKeepsTheQuota, PTL
=============================================================================
