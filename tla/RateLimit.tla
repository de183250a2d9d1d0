----------------------------- MODULE RateLimit -----------------------------
(***************************************************************************)
(* ratelimit.Limiter (ratelimit/ratelimit.go) over the counters of         *)
(* cache.IncrementWindow (cache/cache.go) and of the rate_limit_counters   *)
(* table: concurrent calls of Allow, each taking its rules in order, with  *)
(* the fallback from the cache to the database, stores that fail, Cleanup, *)
(* and time in ticks. The route is one; a bucket is a dimension with the   *)
(* caller's value for it.                                                  *)
(***************************************************************************)
EXTENDS Integers, Sequences, FiniteSets, FiniteSetsExt

CONSTANTS
  Calls,       \* calls of Allow, each made once
  Rules,       \* a sequence of [dim, limit, window]
  KeyOf,       \* KeyOf[c][d]: the value call c supplies for dimension d
  None,        \* no value supplied
  Stores,      \* the configured counter stores, of "cache" and "db"
  FailClosed,
  Retention,   \* the olderThan Cleanup is called with
  CleanupLimit, \* the rows one Cleanup deletes at most: 5000
  Faults,      \* stores that may fail
  MaxTime      \* bound: the clock

ASSUME StoresAssumption == Stores \cup Faults \subseteq {"cache", "db"}
ASSUME FailClosedAssumption == FailClosed \in BOOLEAN
ASSUME CallsAssumption == IsFiniteSet(Calls)
ASSUME RulesAssumption == /\ Len(Rules) \in Nat /\ DOMAIN Rules = 1 .. Len(Rules)
                          /\ \A i \in DOMAIN Rules : /\ Rules[i].limit \in Nat
                                                     /\ Rules[i].window \in Nat \ {0}
ASSUME TimeAssumption == Retention \in Nat /\ MaxTime \in Nat
ASSUME LimitAssumption == CleanupLimit \in Nat \ {0}

Bucket(c, i) == <<Rules[i].dim, KeyOf[c][Rules[i].dim]>>
(* The rules, from the i-th on, whose dimension has a key.                 *)
Applicable(c, i) == {j \in i .. Len(Rules) : KeyOf[c][Rules[j].dim] # None}
Buckets == UNION {{Bucket(c, i) : i \in Applicable(c, 1)} : c \in Calls}

VARIABLES
  now,
  cache,      \* cache[b]: the counter of b and when it expires
  table,      \* table[b][w]: the counter of b for the window that starts at w
  pc,         \* place of each call
  rule,       \* index of the rule at hand
  held,       \* the clock reading incrementDB takes windowStart from
  decision,   \* pending, allowed, limited or unavailable
  counted,    \* ghost: counted[c][i]: the store that counted c for rule i, and the
              \* time it did so by its own clock, or for the table by the reading
  forgotten   \* ghost: the rows that were deleted under a call about to count there

stores == <<cache, table>>
vars == <<now, stores, pc, rule, held, decision, counted, forgotten>>

Uncounted == [by |-> "none", at |-> 0]

Init == /\ now = 0
        /\ cache = [b \in Buckets |-> [count |-> 0, expires |-> 0]]
        /\ table = [b \in Buckets |-> [w \in 0 .. MaxTime |-> 0]]
        /\ pc = [c \in Calls |-> "idle"]
        /\ rule = [c \in Calls |-> 1]
        /\ held = [c \in Calls |-> 0]
        /\ counted = [c \in Calls |-> [i \in DOMAIN Rules |-> Uncounted]]
        /\ decision = [c \in Calls |-> "pending"]
        /\ forgotten = {}

Rule(c) == Rules[rule[c]]
BucketOf(c) == Bucket(c, rule[c])

-----------------------------------------------------------------------------
(* increment tries the cache when there is one, then the database.         *)
FirstStore == IF "cache" \in Stores THEN "cache" ELSE "db"

Decide(c, verdict) == /\ pc' = [pc EXCEPT ![c] = "done"]
                      /\ decision' = [decision EXCEPT ![c] = verdict]
                      /\ UNCHANGED rule

(* The loop goes on with the next applicable rule, or allows.              *)
Proceed(c, i) ==
  IF Applicable(c, i) = {} THEN Decide(c, "allowed")
  ELSE /\ pc' = [pc EXCEPT ![c] = FirstStore]
       /\ rule' = [rule EXCEPT ![c] = Min(Applicable(c, i))]
       /\ UNCHANGED decision

Exceeds(c, count) == count > Rule(c).limit

Judge(c, count) == IF Exceeds(c, count) THEN Decide(c, "limited")
                   ELSE Proceed(c, rule[c] + 1)

(* Mutant: an uncountable request passes the rule.                         *)
UncountableAlways(c) == Proceed(c, rule[c] + 1)
(* No store counted the request.                                           *)
Uncountable(c) == IF FailClosed THEN Decide(c, "unavailable")
                  ELSE Proceed(c, rule[c] + 1)

Count(c, store, time) ==
  counted' = [counted EXCEPT ![c][rule[c]] = [by |-> store, at |-> time]]
Uncount(c) == counted' = [counted EXCEPT ![c][rule[c]] = Uncounted]

-----------------------------------------------------------------------------
Arrive(c) == /\ pc[c] = "idle"
             /\ Proceed(c, 1)
             /\ UNCHANGED <<now, stores, held, counted, forgotten>>

Live(b) == cache[b].count > 0 /\ now < cache[b].expires

(* Mutant: the window is passed in the wrong unit and rounds to nothing.   *)
ExpiryForgotten(c) == now
(* EXPIRE restarts the window at every increment.                          *)
Expiry(c) == now + Rule(c).window

(* The transaction INCR, EXPIRE, TTL; go-redis may have to send it twice.  *)
Increment(c, times) ==
  LET b == BucketOf(c) IN
  /\ cache' = [cache EXCEPT ![b] =
       [count |-> (IF Live(b) THEN @.count ELSE 0) + times, expires |-> Expiry(c)]]
  /\ UNCHANGED table

IncrementWindow(c) ==
  /\ pc[c] = "cache"
  /\ \E times \in {1} \cup (IF "cache" \in Faults THEN {2} ELSE {}) :
       /\ Increment(c, times)
       /\ Judge(c, cache'[BucketOf(c)].count)
  /\ Count(c, "cache", now)
  /\ UNCHANGED <<now, held, forgotten>>

(* An error of the cache, with the counter incremented or not.             *)
CacheFails(c) ==
  /\ pc[c] = "cache" /\ "cache" \in Faults
  /\ Increment(c, 1) \/ UNCHANGED stores
  /\ IF "db" \in Stores THEN pc' = [pc EXCEPT ![c] = "db"] /\ UNCHANGED <<rule, decision>>
                        ELSE Uncountable(c)
  /\ UNCHANGED <<now, held, counted, forgotten>>

(* Truncate: windows are aligned, so that processes agree on them.         *)
WindowStart(c) == held[c] - (held[c] % Rule(c).window)

(* incrementDB reads the clock; any time may pass before it inserts.       *)
ReadClock(c) ==
  /\ pc[c] = "db"
  /\ held' = [held EXCEPT ![c] = now]
  /\ pc' = [pc EXCEPT ![c] = "insert"]
  /\ UNCHANGED <<now, stores, rule, decision, counted, forgotten>>

Insert(c) == /\ table' = [table EXCEPT ![BucketOf(c)][WindowStart(c)] = @ + 1]
             /\ UNCHANGED cache

(* The two statements on the writer, each its own transaction.             *)
InsertCounter(c) ==
  /\ pc[c] = "insert"
  /\ Insert(c)
  /\ pc' = [pc EXCEPT ![c] = "select"]
  /\ Count(c, "db", held[c])
  /\ UNCHANGED <<now, rule, held, decision, forgotten>>

(* Scan finds no row when Cleanup has deleted it.                          *)
SelectCounter(c) ==
  /\ pc[c] = "select"
  /\ LET counter == table[BucketOf(c)][WindowStart(c)] IN
       IF counter = 0 THEN Uncountable(c) /\ Uncount(c)
                      ELSE Judge(c, counter) /\ UNCHANGED counted
  /\ UNCHANGED <<now, stores, held, forgotten>>

(* An error or the 500ms timeout of either statement; the INSERT may have  *)
(* taken effect.                                                           *)
DBFails(c) ==
  /\ pc[c] \in {"insert", "select"} /\ "db" \in Faults
  /\ UNCHANGED stores \/ (pc[c] = "insert" /\ Insert(c))
  /\ Uncountable(c)
  /\ Uncount(c)
  /\ UNCHANGED <<now, held, forgotten>>

(* Mutant: Cleanup takes windows that have only begun.                     *)
ExpiredAtOnce == {k \in Buckets \X (0 .. MaxTime) : k[2] < now /\ table[k[1]][k[2]] > 0}
(* The rows of windows that started longer than Retention ago.             *)
Expired == {k \in Buckets \X (0 .. MaxTime) :
              k[2] < now - Retention /\ table[k[1]][k[2]] > 0}

(* A call that has read the clock is about to count in row k.              *)
InHand(c, k) == pc[c] = "insert" /\ <<BucketOf(c), WindowStart(c)>> = k

(* The reconciler deletes them, or any CleanupLimit of them: the DELETE    *)
(* has a LIMIT and no order.                                               *)
Cleanup == /\ "db" \in Stores
           /\ \E gone \in SUBSET Expired :
                /\ Cardinality(gone) = Min({CleanupLimit, Cardinality(Expired)})
                /\ table' = [b \in Buckets |-> [w \in 0 .. MaxTime |->
                               IF <<b, w>> \in gone THEN 0 ELSE table[b][w]]]
                /\ forgotten' = forgotten \cup {k \in gone : \E c \in Calls : InHand(c, k)}
           /\ UNCHANGED <<now, cache, pc, rule, held, counted, decision>>

Tick == /\ now < MaxTime
        /\ now' = now + 1
        /\ UNCHANGED <<stores, pc, rule, held, counted, decision, forgotten>>

Finished == now = MaxTime /\ (\A c \in Calls : pc[c] = "done") /\ UNCHANGED vars

Next == \/ \E c \in Calls : \/ Arrive(c) \/ IncrementWindow(c) \/ CacheFails(c)
                            \/ ReadClock(c) \/ InsertCounter(c) \/ SelectCounter(c)
                            \/ DBFails(c)
        \/ Cleanup \/ Tick \/ Finished

Spec == Init /\ [][Next]_vars

-----------------------------------------------------------------------------
(* Properties.                                                             *)

(* Types.                                                                  *)
TypeOK == /\ now \in 0 .. MaxTime
          /\ cache \in [Buckets -> [count : Nat, expires : Nat]]
          /\ table \in [Buckets -> [0 .. MaxTime -> Nat]]
          /\ pc \in [Calls -> {"idle", "cache", "db", "insert", "select", "done"}]
          /\ rule \in [Calls -> DOMAIN Rules \cup {1}]
          /\ held \in [Calls -> 0 .. MaxTime]
          /\ counted \in [Calls -> [DOMAIN Rules -> [by : {"none", "cache", "db"},
                                                    at : 0 .. MaxTime]]]
          /\ decision \in [Calls -> {"pending", "allowed", "limited", "unavailable"}]
          /\ \A c \in Calls : pc[c] = "done" <=> decision[c] # "pending"
          /\ forgotten \subseteq Buckets \X (0 .. MaxTime)

(* The calls admitted on bucket b that the store counted for rule i within *)
(* a span of time.                                                         *)
Admitted(b, i, store, span) ==
  {c \in Calls : /\ decision[c] = "allowed"
                 /\ i \in Applicable(c, 1) /\ Bucket(c, i) = b
                 /\ counted[c][i].by = store /\ counted[c][i].at \in span}

(* Rules of one dimension share their counters, and none of them is kept.  *)
Alone(i) == \A j \in DOMAIN Rules : Rules[j].dim = Rules[i].dim => i = j

(* "at most Limit events per Window on a dimension", in any stretch of     *)
(* time as long as the window, of the calls the cache counted: whatever    *)
(* calls fail over to the table meanwhile or are counted twice.            *)
SlidingQuota == \A i \in DOMAIN Rules, b \in Buckets, t \in 0 .. MaxTime :
  Alone(i) => Cardinality(Admitted(b, i, "cache", t - Rules[i].window + 1 .. t))
                <= Rules[i].limit

(* The windows of rule i that start in the clock's range.                  *)
Starts(i) == {n \in 0 .. MaxTime : n % Rules[i].window = 0}
Window(i, w) == w .. w + Rules[i].window - 1

(* The table, whose windows are aligned, keeps the quota in each of them   *)
(* ("concurrent processes agree on the bucket"), although the clock, the   *)
(* INSERT and the SELECT are three steps and Cleanup may run between any   *)
(* two of them: the only windows it may lose count of are those whose row  *)
(* Cleanup deletes while a call that read the clock in the window has yet  *)
(* to insert.                                                              *)
AlignedQuota == \A i \in DOMAIN Rules, b \in Buckets : \A w \in Starts(i) :
  Alone(i) /\ <<b, w>> \notin forgotten
    => Cardinality(Admitted(b, i, "db", Window(i, w))) <= Rules[i].limit

(* A limiter that fails closed admits no call that a rule did not count.   *)
AdmittedMeansCounted == FailClosed =>
  \A c \in Calls : decision[c] = "allowed" =>
    \A i \in Applicable(c, 1) : counted[c][i] # Uncounted
=============================================================================
