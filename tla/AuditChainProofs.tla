-------------------------- MODULE AuditChainProofs --------------------------
(***************************************************************************)
(* AuditChain for every set of writers, every number of appends, every     *)
(* choice of timestamps and identifiers, and every limit of VerifyChain.   *)
(***************************************************************************)
EXTENDS AuditChain, FiniteSetTheorems, WellFoundedInduction, TLAPS

-----------------------------------------------------------------------------
(* Least and greatest sequence numbers.                                    *)

(* A finite set of numbers has a least element: the one with the fewest    *)
(* below it.                                                               *)
LEMMA LeastExists ==
  ASSUME NEW n \in Nat, NEW S, S \subseteq 0 .. n, S # {}
  PROVE  Min(S) \in S /\ \A x \in S : Min(S) <= x
<1> DEFINE B(x) == {y \in S : y < x}
           T == {B(x) : x \in S}
<1>1. IsFiniteSet(S)
  <2>1. IsFiniteSet(0 .. n) /\ S \in SUBSET (0 .. n)
    BY FS_Interval
  <2> QED
    BY <2>1, FS_Subset
<1>2. T \subseteq FiniteSubsetsOf(S) /\ T # {}
  <2>1. \A x \in S : B(x) \in SUBSET S
    OBVIOUS
  <2>2. \A x \in S : IsFiniteSet(B(x))
    BY <1>1, <2>1, FS_Subset
  <2> QED
    BY <2>1, <2>2 DEF FiniteSubsetsOf
<1>3. PICK b \in T : \A c \in T : ~(<<c, b>> \in StrictSubsetOrdering(S))
  BY <1>2, FS_StrictSubsetOrderingWellFounded, WFMin
<1>4. PICK m \in S : b = B(m)
  OBVIOUS
<1>5. \A y \in S : m <= y
  <2> SUFFICES ASSUME NEW y \in S, y < m PROVE FALSE
    OBVIOUS
  <2>1. B(y) \subseteq B(m) /\ y \in B(m) /\ y \notin B(y)
    <3>1. y \in Int /\ m \in Int /\ \A z \in S : z \in Int
      OBVIOUS
    <3>2. \A z \in Int : z < y => z < m
      BY <3>1
    <3>3. \A z \in S : z < y => z < m
      BY <3>1, <3>2
    <3>4. y \in B(m) /\ y \notin B(y)
      BY <3>1
    <3> QED
      BY <3>3, <3>4
  <2>2. B(y) \in SUBSET S /\ B(m) \in SUBSET S /\ B(y) # B(m)
    BY <2>1
  <2>3. <<B(y), B(m)>> \in StrictSubsetOrdering(S)
    BY <2>1, <2>2 DEF StrictSubsetOrdering
  <2> QED
    BY <2>3, <1>3, <1>4
<1> QED
  BY <1>5 DEF Min

(* And a greatest one.                                                     *)
LEMMA GreatestExists ==
  ASSUME NEW n \in Nat, NEW S, S \subseteq 0 .. n, S # {}
  PROVE  Max(S) \in S /\ \A x \in S : x <= Max(S)
<1> DEFINE T == {n - x : x \in S}
<1>1. T \subseteq 0 .. n /\ T # {}
  <2>1. \A x \in S : n - x \in 0 .. n
    OBVIOUS
  <2> QED
    BY <2>1
<1>2. PICK m \in T : \A y \in T : m <= y
  <2> HIDE DEF T
  <2>1. Min(T) \in T /\ \A y \in T : Min(T) <= y
    BY <1>1, LeastExists
  <2> QED
    BY <2>1
<1>3. PICK x \in S : m = n - x
  OBVIOUS
<1>4. \A y \in S : y <= x
  <2> SUFFICES ASSUME NEW y \in S PROVE y <= x
    OBVIOUS
  <2>1. n - y \in T
    OBVIOUS
  <2>2. n - x <= n - y
    BY <2>1, <1>2, <1>3
  <2> HIDE DEF T
  <2> QED
    BY <2>2
<1>5. \E z \in S : \A y \in S : z >= y
  BY <1>4
<1> HIDE DEF T
<1>6. \A y \in S : Max(S) \in S /\ Max(S) >= y
  BY <1>5 DEF Max
<1> QED
  BY <1>6

(* Whatever is greater than the rest is the greatest.                      *)
LEMMA GreatestIs ==
  ASSUME NEW S, S \subseteq Nat, NEW m \in S, \A x \in S : x <= m
  PROVE  Max(S) = m
<1>1. \A z \in S : (\A y \in S : z >= y) => z = m
  OBVIOUS
<1> QED
  BY <1>1 DEF Max

-----------------------------------------------------------------------------
(* Chains.                                                                 *)

(* The rows of a table are linked, the first one to `first', and digests   *)
(* cover what the rows hold, except of a zero identifier.                  *)
Link(table, s, first) ==
  IF Earlier(table, s) = {} THEN first ELSE table[Max(Earlier(table, s))].hash
Sealed(row) == row.hash = EntryHash(row) \/ row.hash[2] = "zero"
Chained(table, first) == \A s \in DOMAIN table :
  table[s].prev = Link(table, s, first) /\ Sealed(table[s])

(* Truncated to microseconds, a timestamp survives the column.             *)
LEMMA ColumnKeeps == \A t \in Nat : Column(Truncate(t)) = Truncate(t)
<1> SUFFICES ASSUME NEW t \in Nat PROVE Column(Truncate(t)) = Truncate(t)
  OBVIOUS
<1>1. \A k \in Nat : (k * 2 + 1) \div 2 = k
  OBVIOUS
<1>2. t \div 2 \in Nat
  OBVIOUS
<1> QED
  BY <1>1, <1>2 DEF Column, Truncate

(* The row that Append leaves is sealed.                                   *)
LEMMA RowIsSealed ==
  ASSUME NEW w, NEW target, NEW t \in Nat
  PROVE  LET row == RowOf(EventOf(w, target, t))
         IN  Sealed(row) /\ row.prev = previous[w] /\ row.hash = EntryHash(EventOf(w, target, t))
<1> DEFINE e == EventOf(w, target, t)
           row == RowOf(e)
<1>1. /\ e.target = target /\ e.created = Truncate(t) /\ e.prev = previous[w]
  BY DEF EventOf
<1>2. /\ row.id = e.id /\ row.prev = e.prev /\ row.hash = EntryHash(e)
      /\ row.target = OptValue(target) /\ row.created = Truncate(t)
  BY <1>1, ColumnKeeps DEF RowOf
<1>3. EntryHash(e) = <<e.id, target, Truncate(t), e.prev>>
  BY <1>1 DEF EntryHash
<1>4. EntryHash(row) = <<e.id, OptValue(target), Truncate(t), e.prev>>
  BY <1>2 DEF EntryHash
<1>5. CASE target = "zero"
  BY <1>2, <1>3, <1>5, <1>1 DEF Sealed
<1>6. CASE target # "zero"
  BY <1>1, <1>2, <1>3, <1>4, <1>6 DEF Sealed, OptValue
<1> QED
  BY <1>5, <1>6

(* The table with a row under a number of its own.                         *)
With(table, n, row) == [s \in DOMAIN table \cup {n} |-> IF s = n THEN row ELSE table[s]]
(* The row can follow the last one of a chain.                             *)
Follows(row, table, first) ==
  Sealed(row) /\ row.prev = IF DOMAIN table = {} THEN first ELSE Last(table)

(* A row numbered above the rest extends a chain it is linked to.          *)
LEMMA ChainExtends ==
  ASSUME NEW n \in Nat, NEW table, NEW first, NEW row,
         DOMAIN table \subseteq 1 .. n - 1, Chained(table, first), Follows(row, table, first)
  PROVE  Chained(With(table, n, row), first) /\ Last(With(table, n, row)) = row.hash
<1> DEFINE new == With(table, n, row)
<1>0. /\ new = [s \in DOMAIN table \cup {n} |-> IF s = n THEN row ELSE table[s]]
      /\ Sealed(row) /\ row.prev = IF DOMAIN table = {} THEN first ELSE Last(table)
  BY DEF With, Follows
<1> HIDE DEF new
<1>1. DOMAIN new = DOMAIN table \cup {n} /\ new[n] = row /\ n \notin DOMAIN table
  BY <1>0
<1>2. \A s \in DOMAIN table : new[s] = table[s]
  BY <1>0, <1>1
<1>3. Earlier(new, n) = DOMAIN table
  <2>1. ~(n < n) /\ \A q \in DOMAIN table : q < n
    OBVIOUS
  <2> QED
    BY <1>1, <2>1 DEF Earlier
<1>4. \A s \in DOMAIN table : Earlier(new, s) = Earlier(table, s)
  BY <1>1 DEF Earlier
<1>5. \A S : S \subseteq DOMAIN table /\ S # {} => Max(S) \in DOMAIN table
  <2> SUFFICES ASSUME NEW S, S \subseteq DOMAIN table, S # {} PROVE Max(S) \in S
    OBVIOUS
  <2>1. S \subseteq 0 .. n
    OBVIOUS
  <2> QED
    BY <2>1, GreatestExists
<1>6. \A s \in DOMAIN table : Earlier(table, s) \subseteq DOMAIN table
  BY DEF Earlier
<1>7. \A s \in DOMAIN table : Link(new, s, first) = Link(table, s, first)
  BY <1>2, <1>4, <1>5, <1>6 DEF Link
<1>8. Link(new, n, first) = row.prev
  BY <1>0, <1>2, <1>3, <1>5 DEF Link, Last
<1>9. Max(DOMAIN new) = n
  <2>1. DOMAIN new \subseteq Nat /\ n \in DOMAIN new /\ \A x \in DOMAIN new : x <= n
    BY <1>1
  <2> QED
    BY <2>1, GreatestIs
<1>10. Chained(new, first)
  BY <1>0, <1>1, <1>2, <1>7, <1>8 DEF Chained
<1>11. Last(new) = row.hash
  BY <1>1, <1>9 DEF Last
<1> QED
  BY <1>10, <1>11 DEF new

(* Two tables in one, and when the second can follow the first.            *)
Join(front, back) == [s \in DOMAIN front \cup DOMAIN back |->
                        IF s \in DOMAIN front THEN front[s] ELSE back[s]]
Continues(front, back) ==
  /\ DOMAIN back # {} /\ \A q \in DOMAIN front, s \in DOMAIN back : q < s
  /\ Chained(front, Genesis) /\ Chained(back, Last(front))

(* A chain that begins where another ends, with higher numbers, joins it.  *)
LEMMA ChainsJoin ==
  ASSUME NEW n \in Nat, NEW front, NEW back, Continues(front, back),
         DOMAIN front \subseteq 1 .. n, DOMAIN back \subseteq 1 .. n
  PROVE  Chained(Join(front, back), Genesis) /\ Last(Join(front, back)) = Last(back)
<1> DEFINE new == Join(front, back)
<1>0. /\ new = [s \in DOMAIN front \cup DOMAIN back |->
                  IF s \in DOMAIN front THEN front[s] ELSE back[s]]
      /\ DOMAIN back # {} /\ \A q \in DOMAIN front, s \in DOMAIN back : q < s
      /\ Chained(front, Genesis) /\ Chained(back, Last(front))
  BY DEF Join, Continues
<1> HIDE DEF new
<1>1. /\ DOMAIN new = DOMAIN front \cup DOMAIN back
      /\ \A s \in DOMAIN front : new[s] = front[s] /\ s \notin DOMAIN back
      /\ \A s \in DOMAIN back : new[s] = back[s]
  <2>1. \A s \in DOMAIN front : s \notin DOMAIN back
    <3>1. \A s \in 1 .. n : ~(s < s)
      OBVIOUS
    <3> QED
      BY <1>0, <3>1
  <2> QED
    BY <1>0, <2>1
<1>2. \A S : S \subseteq 1 .. n /\ S # {} => Max(S) \in S /\ \A x \in S : x <= Max(S)
  <2> SUFFICES ASSUME NEW S, S \subseteq 1 .. n, S # {}
               PROVE  Max(S) \in S /\ \A x \in S : x <= Max(S)
    OBVIOUS
  <2>1. S \subseteq 0 .. n
    OBVIOUS
  <2> QED
    BY <2>1, GreatestExists
<1>3. \A S : S \subseteq DOMAIN back /\ S # {} => Max(DOMAIN front \cup S) = Max(S)
  <2> SUFFICES ASSUME NEW S, S \subseteq DOMAIN back, S # {}
               PROVE  Max(DOMAIN front \cup S) = Max(S)
    OBVIOUS
  <2>1. S \subseteq 1 .. n
    OBVIOUS
  <2>2. Max(S) \in S /\ \A x \in S : x <= Max(S)
    BY <1>2, <2>1
  <2>3. \A x \in DOMAIN front : x < Max(S)
    BY <1>0, <2>2
  <2>4. /\ DOMAIN front \cup S \subseteq Nat
        /\ \A x \in DOMAIN front \cup S : x <= Max(S)
    BY <2>1, <2>2, <2>3
  <2> QED
    BY <2>2, <2>4, GreatestIs
<1>4. ASSUME NEW s \in DOMAIN front
      PROVE  Link(new, s, Genesis) = Link(front, s, Genesis)
  <2>1. Earlier(new, s) = Earlier(front, s)
    <3>1. \A q \in DOMAIN back : ~(q < s)
      BY <1>0
    <3> QED
      BY <1>1, <3>1 DEF Earlier
  <2>2. Earlier(front, s) \subseteq DOMAIN front
    BY DEF Earlier
  <2>3. Earlier(front, s) # {} => Max(Earlier(front, s)) \in DOMAIN front
    BY <2>2, <1>2
  <2> QED
    BY <1>1, <2>1, <2>3 DEF Link
<1>5. ASSUME NEW s \in DOMAIN back
      PROVE  Link(new, s, Genesis) = Link(back, s, Last(front))
  <2>1. Earlier(new, s) = DOMAIN front \cup Earlier(back, s)
    BY <1>0, <1>1 DEF Earlier
  <2>2. Earlier(back, s) \subseteq DOMAIN back
    BY DEF Earlier
  <2>3. CASE Earlier(back, s) # {}
    <3>1. Max(Earlier(new, s)) = Max(Earlier(back, s))
      BY <2>1, <2>2, <2>3, <1>3
    <3>2. Max(Earlier(back, s)) \in DOMAIN back
      BY <2>2, <2>3, <1>2
    <3> QED
      BY <1>1, <2>1, <2>3, <3>1, <3>2 DEF Link
  <2>4. CASE Earlier(back, s) = {} /\ DOMAIN front # {}
    <3>1. Max(DOMAIN front) \in DOMAIN front
      BY <2>4, <1>2
    <3> QED
      BY <1>1, <2>1, <2>4, <3>1 DEF Link, Last
  <2>5. CASE Earlier(back, s) = {} /\ DOMAIN front = {}
    BY <2>1, <2>5 DEF Link, Last
  <2> QED
    BY <2>3, <2>4, <2>5
<1>6. Chained(new, Genesis)
  BY <1>0, <1>1, <1>4, <1>5 DEF Chained
<1>7. Max(DOMAIN new) = Max(DOMAIN back) /\ Max(DOMAIN back) \in DOMAIN back
  BY <1>0, <1>1, <1>2, <1>3
<1>8. Last(new) = Last(back)
  BY <1>1, <1>7 DEF Last
<1> QED
  BY <1>6, <1>8 DEF new

-----------------------------------------------------------------------------
(* The inductive invariant.                                                *)

(* Values of the right shape; the rest of the types is not needed.         *)
Shapes == /\ nextSeq \in Nat \ {0}
          /\ pc \in [Writers -> {"read", "write", "commit", "done"}]
          /\ appended \in [Writers -> Nat]
          /\ previous = [w \in Writers |-> previous[w]]
          /\ pending = [w \in Writers |-> pending[w]]
          /\ newHead = [w \in Writers |-> newHead[w]]

(* Rows carry numbers that have been drawn, uncommitted ones higher        *)
(* numbers than committed ones.                                            *)
NumberInv == /\ DOMAIN rows \subseteq 1 .. nextSeq - 1
             /\ \A w \in Writers :
                  /\ DOMAIN pending[w] \subseteq 1 .. nextSeq - 1
                  /\ \A q \in DOMAIN rows, s \in DOMAIN pending[w] : q < s

(* Without the lock of the head row a transaction has written nothing.     *)
LockInv == \A w \in Writers : headLock # w =>
  appended[w] = 0 /\ DOMAIN pending[w] = {} /\ pc[w] \in {"read", "done"}

(* With it, it knows the end of its own chain.                             *)
KnowsEnd(w) ==
  /\ IF appended[w] = 0 THEN DOMAIN pending[w] = {}
     ELSE DOMAIN pending[w] # {} /\ newHead[w] = Last(pending[w])
  /\ pc[w] = "write" => previous[w] = HeadSeenBy(w)
  /\ pc[w] = "commit" => appended[w] > 0
WriterInv == \A w \in Writers : KnowsEnd(w)

(* Committed rows are a chain, and uncommitted ones continue it.           *)
ChainInv == Chained(rows, Genesis) /\ \A w \in Writers : Chained(pending[w], head)

IInv == Shapes /\ NumberInv /\ LockInv /\ WriterInv /\ ChainInv /\ HeadIsLast

(* An empty trail, of which the head row says so.                          *)
LEMMA InitHolds == Init => IInv
<1> SUFFICES ASSUME Init PROVE IInv
  OBVIOUS
<1>1. DOMAIN NoRows = {}
  BY DEF NoRows
<1> QED
  BY <1>1, WritersAssumption
  DEF Init, IInv, Shapes, NumberInv, LockInv, WriterInv, KnowsEnd, ChainInv, HeadIsLast, Chained, Last

(* The lock is free or the reader's: nobody else has written anything.     *)
LEMMA ReadStep ==
  ASSUME IInv, NEW w \in Writers, ReadHead(w)
  PROVE  IInv'
<1> USE DEF IInv, Shapes
<1>1. UNCHANGED <<rows, head, nextSeq, appended, pending, newHead>>
  BY DEF ReadHead, chain
<1>2. /\ pc[w] = "read" /\ headLock \in {None, w} /\ headLock' = w
      /\ previous' = [previous EXCEPT ![w] = HeadSeenBy(w)]
      /\ pc' = [pc EXCEPT ![w] = "write"]
  BY DEF ReadHead, Goto
<1>3. Shapes' /\ NumberInv' /\ ChainInv' /\ HeadIsLast'
  BY <1>1, <1>2 DEF NumberInv, ChainInv, HeadIsLast, Chained, Link, Earlier, Last
<1>4. LockInv'
  BY <1>1, <1>2, WritersAssumption DEF LockInv
<1>5. WriterInv'
  BY <1>1, <1>2 DEF WriterInv, KnowsEnd, HeadSeenBy, Last
<1> QED
  BY <1>3, <1>4, <1>5

(* The event's number is above all others, and its link is the end of the  *)
(* writer's chain.                                                         *)
LEMMA WriteStep ==
  ASSUME IInv, NEW w \in Writers, NEW target, NEW t \in Nat, WriteEvent(w, target, t)
  PROVE  IInv'
<1> USE DEF IInv, Shapes
<1> DEFINE e == EventOf(w, target, t)
           new == With(pending[w], nextSeq, RowOf(e))
<1>1. UNCHANGED <<rows, head, headLock, previous>> /\ nextSeq' = nextSeq + 1
  BY DEF WriteEvent, chain
<1>2. /\ pc[w] = "write" /\ pending' = [pending EXCEPT ![w] = new]
      /\ newHead' = [newHead EXCEPT ![w] = EntryHash(e)]
      /\ appended' = [appended EXCEPT ![w] = @ + 1]
      /\ pc' = [pc EXCEPT ![w] = IF appended[w] + 1 < Appends[w] THEN "read" ELSE "commit"]
  BY DEF WriteEvent, Advance, Goto, With
<1>3. Sealed(RowOf(e)) /\ RowOf(e).prev = previous[w] /\ RowOf(e).hash = EntryHash(e)
  BY RowIsSealed
<1>4. previous[w] = IF DOMAIN pending[w] = {} THEN head ELSE Last(pending[w])
  BY <1>2 DEF WriterInv, KnowsEnd, HeadSeenBy
<1>5. DOMAIN pending[w] \subseteq 1 .. nextSeq - 1 /\ Chained(pending[w], head)
  BY DEF NumberInv, ChainInv
<1> HIDE DEF e
<1>6. Chained(new, head) /\ Last(new) = EntryHash(e) /\ DOMAIN new = DOMAIN pending[w] \cup {nextSeq}
  <2>1. Follows(RowOf(e), pending[w], head) /\ nextSeq \in Nat
    BY <1>3, <1>4 DEF Follows
  <2>2. Chained(new, head) /\ Last(new) = RowOf(e).hash
    BY <1>5, <2>1, ChainExtends
  <2> QED
    BY <1>3, <2>2 DEF With
<1> HIDE DEF new
<1>7. /\ pending'[w] = new /\ newHead'[w] = EntryHash(e) /\ appended'[w] = appended[w] + 1
      /\ \A v \in Writers : v # w => /\ pending'[v] = pending[v] /\ newHead'[v] = newHead[v]
                                     /\ appended'[v] = appended[v] /\ pc'[v] = pc[v]
  BY <1>2
<1>8. Shapes'
  <2>1. pending' = [v \in Writers |-> pending'[v]]
    BY <1>2
  <2>2. newHead' = [v \in Writers |-> newHead'[v]]
    BY <1>2
  <2>3. /\ appended' \in [Writers -> Nat]
        /\ pc' \in [Writers -> {"read", "write", "commit", "done"}]
    BY <1>2
  <2> QED
    BY <1>1, <2>1, <2>2, <2>3
<1>9. NumberInv'
  <2>1. DOMAIN rows \subseteq 1 .. nextSeq /\ \A q \in DOMAIN rows : q < nextSeq
    BY DEF NumberInv
  <2>2. \A v \in Writers : DOMAIN pending'[v] \subseteq 1 .. nextSeq
    BY <1>6, <1>7 DEF NumberInv
  <2>3. \A v \in Writers : \A q \in DOMAIN rows, s \in DOMAIN pending'[v] : q < s
    BY <2>1, <1>6, <1>7 DEF NumberInv
  <2> QED
    BY <1>1, <2>1, <2>2, <2>3 DEF NumberInv
<1>10. headLock = w
  BY <1>2 DEF LockInv
<1>11. LockInv'
  BY <1>1, <1>7, <1>10 DEF LockInv
<1>12. WriterInv'
  <2>1. KnowsEnd(w)'
    <3>1. appended'[w] # 0 /\ appended'[w] > 0 /\ DOMAIN pending'[w] # {}
      BY <1>6, <1>7
    <3>2. newHead'[w] = Last(pending'[w])
      BY <1>6, <1>7
    <3>3. Last(pending[w])' = Last(pending'[w])
      BY DEF Last
    <3>4. pc'[w] # "write"
      BY <1>2
    <3> QED
      BY <3>1, <3>2, <3>3, <3>4 DEF KnowsEnd
  <2>2. \A v \in Writers : v # w => KnowsEnd(v)'
    BY <1>1, <1>7 DEF WriterInv, KnowsEnd, HeadSeenBy, Last
  <2> QED
    BY <2>1, <2>2 DEF WriterInv
<1>13. ChainInv' /\ HeadIsLast'
  BY <1>1, <1>6, <1>7 DEF ChainInv, HeadIsLast
<1> QED
  BY <1>8, <1>9, <1>11, <1>12, <1>13

(* What every end of a transaction does, whatever becomes of its rows.     *)
Ends(w) == /\ Forget(w) /\ Unlock(w) /\ UNCHANGED nextSeq
           /\ \E label \in {"read", "done"} : pc' = [pc EXCEPT ![w] = label]

(* It leaves the others alone and the writer with nothing.                 *)
LEMMA EndKeeps ==
  ASSUME IInv, NEW w \in Writers, Ends(w)
  PROVE  /\ Shapes' /\ LockInv'
         /\ appended'[w] = 0 /\ DOMAIN pending'[w] = {} /\ pc'[w] \in {"read", "done"}
         /\ \A v \in Writers : v # w =>
              /\ pending'[v] = pending[v] /\ newHead'[v] = newHead[v]
              /\ previous'[v] = previous[v] /\ appended'[v] = appended[v] /\ pc'[v] = pc[v]
<1> USE DEF IInv, Shapes
<1>1. /\ appended' = [appended EXCEPT ![w] = 0] /\ previous' = [previous EXCEPT ![w] = Genesis]
      /\ pending' = [pending EXCEPT ![w] = NoRows] /\ newHead' = [newHead EXCEPT ![w] = Genesis]
      /\ headLock' = IF headLock = w THEN None ELSE headLock
      /\ nextSeq' = nextSeq
  BY DEF Ends, Forget, Unlock
<1>2. PICK label \in {"read", "done"} : pc' = [pc EXCEPT ![w] = label]
  BY DEF Ends
<1>3. DOMAIN NoRows = {}
  BY DEF NoRows
<1>4. /\ appended'[w] = 0 /\ DOMAIN pending'[w] = {} /\ pc'[w] \in {"read", "done"}
      /\ \A v \in Writers : v # w =>
           /\ pending'[v] = pending[v] /\ newHead'[v] = newHead[v]
           /\ previous'[v] = previous[v] /\ appended'[v] = appended[v] /\ pc'[v] = pc[v]
  BY <1>1, <1>2, <1>3
<1>5. Shapes'
  <2>1. /\ pending' = [v \in Writers |-> pending'[v]] /\ newHead' = [v \in Writers |-> newHead'[v]]
        /\ previous' = [v \in Writers |-> previous'[v]]
    BY <1>1
  <2>2. appended' \in [Writers -> Nat] /\ pc' \in [Writers -> {"read", "write", "commit", "done"}]
    BY <1>1, <1>2
  <2> QED
    BY <1>1, <2>1, <2>2
<1>6. LockInv'
  BY <1>1, <1>4 DEF LockInv
<1> QED
  BY <1>4, <1>5, <1>6

(* Rolled back, the trail is as it was.                                    *)
LEMMA RollBackStep ==
  ASSUME IInv, NEW w \in Writers, Ends(w), UNCHANGED chain
  PROVE  IInv'
<1> USE EndKeeps
<1>1. UNCHANGED <<rows, head, nextSeq>>
  BY DEF chain, Ends
<1>2. NumberInv'
  BY <1>1 DEF IInv, NumberInv
<1>3. WriterInv'
  BY <1>1 DEF IInv, WriterInv, KnowsEnd, HeadSeenBy, Last
<1>4. ChainInv' /\ HeadIsLast'
  BY <1>1 DEF IInv, ChainInv, HeadIsLast, Chained
<1> QED
  BY <1>2, <1>3, <1>4 DEF IInv

(* Committed, the writer's rows follow what was last; nobody else has any. *)
LEMMA CommitStep ==
  ASSUME IInv, NEW w \in Writers, pc[w] = "commit", MakeDurable(w), Ends(w)
  PROVE  IInv'
<1> USE EndKeeps
<1>1. rows' = Join(rows, pending[w]) /\ head' = newHead[w] /\ nextSeq' = nextSeq
  BY DEF MakeDurable, Join, Ends
<1>2. headLock = w /\ appended[w] > 0 /\ appended[w] \in Nat
  BY DEF IInv, LockInv, WriterInv, KnowsEnd, Shapes
<1>3. DOMAIN pending[w] # {} /\ newHead[w] = Last(pending[w])
  BY <1>2 DEF IInv, WriterInv, KnowsEnd
<1>4. /\ nextSeq - 1 \in Nat
      /\ DOMAIN rows \subseteq 1 .. nextSeq - 1 /\ DOMAIN pending[w] \subseteq 1 .. nextSeq - 1
  BY DEF IInv, NumberInv, Shapes
<1>5. Continues(rows, pending[w])
  BY <1>3 DEF IInv, NumberInv, ChainInv, HeadIsLast, Continues
<1>6. Chained(rows', Genesis) /\ Last(rows') = head'
  BY <1>1, <1>3, <1>4, <1>5, ChainsJoin
<1>7. \A v \in Writers : DOMAIN pending'[v] = {} /\ appended'[v] = 0 /\ pc'[v] \in {"read", "done"}
  BY <1>2 DEF IInv, LockInv
<1>8. NumberInv'
  <2>1. DOMAIN rows' = DOMAIN rows \cup DOMAIN pending[w]
    BY <1>1 DEF Join
  <2> QED
    BY <1>1, <1>4, <1>7, <2>1 DEF NumberInv
<1>9. WriterInv'
  BY <1>7 DEF WriterInv, KnowsEnd
<1>10. ChainInv'
  BY <1>6, <1>7 DEF ChainInv, Chained
<1>11. HeadIsLast'
  <2>1. Last(rows)' = Last(rows')
    BY DEF Last
  <2> QED
    BY <1>6, <2>1 DEF HeadIsLast
<1> QED
  BY <1>8, <1>9, <1>10, <1>11 DEF IInv

(* All steps.                                                              *)
LEMMA AuditStep == IInv /\ [Next]_vars => IInv'
<1> SUFFICES ASSUME IInv, [Next]_vars PROVE IInv'
  OBVIOUS
<1>1. ASSUME NEW w \in Writers, ReadHead(w) PROVE IInv'
  BY <1>1, ReadStep
<1>2. ASSUME NEW w \in Writers, NEW target \in Targets, NEW t \in Clock, WriteEvent(w, target, t)
      PROVE  IInv'
  <2>1. t \in Nat
    BY ClockAssumption
  <2> QED
    BY <1>2, <2>1, WriteStep
<1>3. ASSUME NEW w \in Writers, Commit(w) PROVE IInv'
  BY <1>3, CommitStep DEF Commit, Return, Goto, Ends
<1>4. ASSUME NEW w \in Writers, Abort(w) PROVE IInv'
  BY <1>4, RollBackStep DEF Abort, Return, Goto, Ends
<1>5. ASSUME NEW w \in Writers, Transient(w) PROVE IInv'
  <2>1. Ends(w) /\ UNCHANGED chain
    BY <1>5 DEF Transient, RollBack, Retry, Return, Goto, Ends
  <2> QED
    BY <2>1, RollBackStep
<1>6. ASSUME NEW w \in Writers, CommitUnknown(w) PROVE IInv'
  <2>1. Ends(w) /\ pc[w] = "commit" /\ MakeDurable(w)
    BY <1>6 DEF CommitUnknown, Retry, Return, Goto, Ends
  <2> QED
    BY <2>1, CommitStep
<1>7. ASSUME UNCHANGED vars PROVE IInv'
  <2>1. Shapes' /\ NumberInv' /\ LockInv'
    BY <1>7 DEF vars, IInv, Shapes, NumberInv, LockInv
  <2>2. WriterInv'
    BY <1>7 DEF vars, IInv, WriterInv, KnowsEnd, HeadSeenBy
  <2>3. ChainInv'
    BY <1>7 DEF vars, IInv, ChainInv
  <2>4. HeadIsLast'
    BY <1>7 DEF vars, IInv, HeadIsLast
  <2> QED
    BY <2>1, <2>2, <2>3, <2>4 DEF IInv
<1> QED
  BY <1>1, <1>2, <1>3, <1>4, <1>5, <1>6, <1>7 DEF Next, Step, Finished

(* The inductive invariant holds for all interleavings of transactions,    *)
(* their retries and lost answers (audit.go, Append under database.InTx).  *)
THEOREM AuditInvariance == Spec => []IInv
  BY InitHolds, AuditStep, PTL DEF Spec

(* The head row always names the last entry (audit.go:104-151).            *)
THEOREM HeadNamesLast == Spec => []HeadIsLast
<1>1. IInv => HeadIsLast
  BY DEF IInv
<1> QED
  BY <1>1, AuditInvariance, PTL

(* VerifyChain, with whatever limit, never reports a link the code itself  *)
(* has broken, unless an identifier was present but zero (audit.go:301).   *)
THEOREM NeverAFalseAlarm == Spec => []NoFalseAlarm
<1>1. IInv => NoFalseAlarm
  <2> SUFFICES ASSUME IInv, NEW limit \in Nat
               PROVE  VerifyChain(rows, limit).brokenAt \in ZeroIds \cup {0}
    BY DEF NoFalseAlarm
  <2> DEFINE walked == {s \in DOMAIN rows : Cardinality(Earlier(rows, s)) < limit}
             broken == {s \in walked : ~LinkHolds(rows, s)}
  <2>1. broken \subseteq DOMAIN rows
    OBVIOUS
  <2>2. \A s \in broken : s \in ZeroIds
    <3> SUFFICES ASSUME NEW s \in DOMAIN rows, ~LinkHolds(rows, s) PROVE s \in ZeroIds
      BY <2>1
    <3>1. rows[s].prev = ExpectedPrevious(rows, s) /\ Sealed(rows[s])
      BY DEF IInv, ChainInv, Chained, Link, ExpectedPrevious
    <3> QED
      BY <3>1 DEF LinkHolds, Sealed, ZeroIds
  <2>3. broken # {} => Min(broken) \in broken
    <3>1. nextSeq \in Nat /\ DOMAIN rows \subseteq 0 .. nextSeq
      BY DEF IInv, NumberInv, Shapes
    <3>2. broken \subseteq 0 .. nextSeq
      BY <2>1, <3>1
    <3> HIDE DEF broken
    <3> QED
      BY <3>1, <3>2, LeastExists
  <2>4. VerifyChain(rows, limit).brokenAt = IF broken = {} THEN 0 ELSE Min(broken)
    BY DEF VerifyChain
  <2> HIDE DEF broken
  <2> QED
    BY <2>2, <2>3, <2>4
<1> QED
  BY <1>1, AuditInvariance, PTL

-----------------------------------------------------------------------------
(* As many events as appends.                                              *)

(* What a transaction has written and not committed are its own events,    *)
(* one per append, and it commits after the last append.                   *)
Draft(w) == /\ IsFiniteSet(DOMAIN pending[w])
            /\ Cardinality(DOMAIN pending[w]) = appended[w]
            /\ \A s \in DOMAIN pending[w] : pending[w][s].by = w
Quota(w) == /\ pc[w] = "commit" => appended[w] = Appends[w]
            /\ pc[w] \in {"read", "write"} => appended[w] < Appends[w]
            /\ pc[w] # "done" => result[w] = "none"

(* Commits of w: those its caller was told of and those whose answer was   *)
(* lost.                                                                   *)
Commits(w) == doubt[w] + (IF result[w] = "ok" THEN 1 ELSE 0)
Books(w) == /\ IsFiniteSet(EventsBy(w))
            /\ Cardinality(EventsBy(w)) = Appends[w] * Commits(w)

CountTypes == /\ doubt \in [Writers -> Nat]
              /\ result \in [Writers -> {"none", "ok", "error"}]

CountInv == CountTypes /\ \A w \in Writers : Draft(w) /\ Quota(w) /\ Books(w)

LEMMA CountInit == Init => CountInv
<1> SUFFICES ASSUME Init, NEW w \in Writers PROVE Draft(w) /\ Quota(w) /\ Books(w)
  BY DEF Init, CountInv, CountTypes
<1>1. DOMAIN NoRows = {}
  BY DEF NoRows
<1>2. EventsBy(w) = {} /\ DOMAIN pending[w] = {}
  BY <1>1 DEF Init, EventsBy
<1>3. Appends[w] \in Nat \ {0}
  BY WritersAssumption
<1>4. Commits(w) = 0
  BY DEF Init, Commits
<1>5. Cardinality(EventsBy(w)) = Appends[w] * Commits(w)
  BY <1>2, <1>3, <1>4, FS_EmptySet
<1> QED
  BY <1>2, <1>3, <1>5, FS_EmptySet DEF Init, Draft, Quota, Books

(* A step of w leaves the others' events alone.                            *)
Alone(w) == \A v \in Writers : v # w =>
  /\ pending'[v] = pending[v] /\ appended'[v] = appended[v] /\ pc'[v] = pc[v]
  /\ result'[v] = result[v] /\ doubt'[v] = doubt[v] /\ EventsBy(v)' = EventsBy(v)

LEMMA CountKept ==
  ASSUME CountInv, NEW w \in Writers, Alone(w), CountTypes',
         Draft(w)', Quota(w)', Books(w)'
  PROVE  CountInv'
<1>1. ASSUME NEW v \in Writers, v # w PROVE Draft(v)' /\ Quota(v)' /\ Books(v)'
  <2>1. Draft(v) /\ Quota(v) /\ Books(v)
    BY DEF CountInv
  <2>2. /\ pending'[v] = pending[v] /\ appended'[v] = appended[v] /\ pc'[v] = pc[v]
        /\ result'[v] = result[v] /\ doubt'[v] = doubt[v] /\ EventsBy(v)' = EventsBy(v)
    BY <1>1 DEF Alone
  <2>3. Draft(v)'
    BY <2>1, <2>2 DEF Draft
  <2>4. Quota(v)'
    BY <2>1, <2>2 DEF Quota
  <2>5. Books(v)'
    BY <2>1, <2>2 DEF Books, Commits
  <2> QED
    BY <2>3, <2>4, <2>5
<1> QED
  BY <1>1 DEF CountInv

LEMMA CountRead ==
  ASSUME IInv, CountInv, NEW w \in Writers, ReadHead(w)
  PROVE  CountInv'
<1>1. UNCHANGED <<rows, pending, appended, result, doubt>> /\ pc[w] = "read"
  BY DEF ReadHead, chain
<1>2. pc' = [pc EXCEPT ![w] = "write"] /\ pc'[w] = "write"
  BY DEF ReadHead, Goto, IInv, Shapes
<1>3. Alone(w)
  BY <1>1, <1>2 DEF Alone, EventsBy
<1>4. Draft(w)' /\ Quota(w)' /\ Books(w)'
  BY <1>1, <1>2 DEF CountInv, Draft, Quota, Books, Commits, EventsBy
<1>5. CountTypes'
  BY <1>1 DEF CountInv, CountTypes
<1> QED
  BY <1>3, <1>4, <1>5, CountKept

(* The number drawn for the event is a new one.                            *)
LEMMA CountWrite ==
  ASSUME IInv, CountInv, NEW w \in Writers, NEW target, NEW t \in Nat, WriteEvent(w, target, t)
  PROVE  CountInv'
<1> DEFINE row == RowOf(EventOf(w, target, t))
<1>1. UNCHANGED <<rows, result, doubt>> /\ pc[w] = "write"
  BY DEF WriteEvent, chain
<1>2. /\ pending' = [pending EXCEPT ![w] = With(pending[w], nextSeq, row)]
      /\ appended' = [appended EXCEPT ![w] = @ + 1]
      /\ pc' = [pc EXCEPT ![w] = IF appended[w] + 1 < Appends[w] THEN "read" ELSE "commit"]
  BY DEF WriteEvent, Goto, With
<1>3. row.by = w
  BY DEF RowOf, EventOf
<1> HIDE DEF row
<1>4. /\ pending'[w] = With(pending[w], nextSeq, row) /\ appended'[w] = appended[w] + 1
      /\ pc'[w] = IF appended[w] + 1 < Appends[w] THEN "read" ELSE "commit"
  BY <1>2 DEF IInv, Shapes
<1>5. nextSeq \notin DOMAIN pending[w]
  BY DEF IInv, NumberInv, Shapes
<1>6. appended[w] \in Nat /\ Appends[w] \in Nat /\ appended[w] < Appends[w] /\ result[w] = "none"
  BY <1>1, WritersAssumption DEF IInv, Shapes, CountInv, Quota
<1>7. Draft(w)'
  <2>1. DOMAIN pending'[w] = DOMAIN pending[w] \cup {nextSeq}
    BY <1>4 DEF With
  <2>2. IsFiniteSet(DOMAIN pending[w]) /\ Cardinality(DOMAIN pending[w]) = appended[w]
    BY DEF CountInv, Draft
  <2>3. IsFiniteSet(DOMAIN pending'[w]) /\ Cardinality(DOMAIN pending'[w]) = appended'[w]
    BY <1>4, <1>5, <2>1, <2>2, FS_AddElement
  <2>4. \A s \in DOMAIN pending'[w] : pending'[w][s].by = w
    BY <1>3, <1>4, <2>1 DEF With, CountInv, Draft
  <2> QED
    BY <2>3, <2>4 DEF Draft
<1>8. Quota(w)'
  BY <1>1, <1>4, <1>6 DEF Quota
<1>9. Books(w)' /\ CountTypes'
  BY <1>1 DEF CountInv, CountTypes, Books, Commits, EventsBy
<1>10. Alone(w)
  BY <1>1, <1>2 DEF Alone, EventsBy, IInv, Shapes
<1> QED
  BY <1>7, <1>8, <1>9, <1>10, CountKept

(* How a transaction can end for its caller: told, to run again, given up. *)
Verdict(w) == \/ pc'[w] = "done" /\ \E r \in {"ok", "error"} : result' = [result EXCEPT ![w] = r]
              \/ pc'[w] = "read" /\ UNCHANGED result

LEMMA EndCounts ==
  ASSUME IInv, CountInv, NEW w \in Writers, pc[w] # "done", Ends(w), Verdict(w)
  PROVE  /\ Draft(w)' /\ Quota(w)' /\ result' \in [Writers -> {"none", "ok", "error"}]
         /\ \A v \in Writers : v # w => result'[v] = result[v]
<1>1. appended'[w] = 0 /\ DOMAIN pending'[w] = {} /\ pc'[w] \in {"read", "done"}
  BY EndKeeps
<1>2. Draft(w)'
  BY <1>1, FS_EmptySet DEF Draft
<1>3. result' \in [Writers -> {"none", "ok", "error"}]
      /\ \A v \in Writers : v # w => result'[v] = result[v]
  BY DEF Verdict, CountInv, CountTypes
<1>4. pc'[w] = "read" => result'[w] = "none"
  BY DEF Verdict, CountInv, Quota
<1>5. Quota(w)'
  BY <1>1, <1>4, WritersAssumption DEF Quota
<1> QED
  BY <1>2, <1>3, <1>5

(* Rolled back, it leaves what it had left before: nothing of this attempt. *)
LEMMA CountRollBack ==
  ASSUME IInv, CountInv, NEW w \in Writers, pc[w] # "done", Ends(w), Verdict(w),
         UNCHANGED <<rows, doubt>>, result'[w] # "ok"
  PROVE  CountInv'
<1>1. /\ Draft(w)' /\ Quota(w)' /\ result' \in [Writers -> {"none", "ok", "error"}]
      /\ \A v \in Writers : v # w => result'[v] = result[v]
  BY EndCounts
<1>2. \A v \in Writers : EventsBy(v)' = EventsBy(v)
  BY DEF EventsBy
<1>3. Books(w)'
  <2>1. result[w] = "none"
    BY DEF CountInv, Quota
  <2>2. Commits(w)' = Commits(w)
    BY <2>1 DEF Commits
  <2> QED
    BY <1>2, <2>2 DEF CountInv, Books
<1>4. Alone(w)
  BY <1>1, <1>2, EndKeeps DEF Alone
<1>5. CountTypes'
  BY <1>1 DEF CountInv, CountTypes
<1> QED
  BY <1>1, <1>3, <1>4, <1>5, CountKept

(* Committed, it leaves one more set of its events.                        *)
LEMMA CountCommit ==
  ASSUME IInv, CountInv, NEW w \in Writers, pc[w] = "commit", MakeDurable(w),
         Ends(w), Verdict(w), doubt' \in [Writers -> Nat],
         \A v \in Writers : v # w => doubt'[v] = doubt[v],
         Commits(w)' = Commits(w) + 1
  PROVE  CountInv'
<1>1. /\ Draft(w)' /\ Quota(w)' /\ result' \in [Writers -> {"none", "ok", "error"}]
      /\ \A v \in Writers : v # w => result'[v] = result[v]
  BY EndCounts
<1>2. rows' = Join(rows, pending[w])
  BY DEF MakeDurable, Join
<1>3. \A s \in DOMAIN pending[w] : s \notin DOMAIN rows
  <2>1. /\ \A q \in DOMAIN rows, s \in DOMAIN pending[w] : q < s
        /\ DOMAIN pending[w] \subseteq 1 .. nextSeq - 1
    BY DEF IInv, NumberInv
  <2> QED
    BY <2>1
<1>4. /\ DOMAIN rows' = DOMAIN rows \cup DOMAIN pending[w]
      /\ \A s \in DOMAIN rows : rows'[s] = rows[s]
      /\ \A s \in DOMAIN pending[w] : rows'[s] = pending[w][s]
  BY <1>2, <1>3 DEF Join
<1>5. Draft(w) /\ Quota(w) /\ Books(w)
  BY DEF CountInv
<1>6. EventsBy(w)' = EventsBy(w) \cup DOMAIN pending[w] /\ EventsBy(w) \cap DOMAIN pending[w] = {}
  BY <1>3, <1>4, <1>5 DEF EventsBy, Draft
<1>7. \A v \in Writers : v # w => EventsBy(v)' = EventsBy(v)
  BY <1>4, <1>5 DEF EventsBy, Draft
<1>8. Books(w)'
  <2>1. /\ IsFiniteSet(EventsBy(w)) /\ IsFiniteSet(DOMAIN pending[w])
        /\ Cardinality(EventsBy(w)) = Appends[w] * Commits(w)
        /\ Cardinality(DOMAIN pending[w]) = Appends[w]
    BY <1>5 DEF Books, Draft, Quota
  <2>2. Appends[w] \in Nat /\ Commits(w) \in Nat
    BY WritersAssumption DEF CountInv, CountTypes, Commits
  <2>3. /\ IsFiniteSet(EventsBy(w) \cup DOMAIN pending[w])
        /\ Cardinality(EventsBy(w) \cup DOMAIN pending[w])
             = Cardinality(EventsBy(w)) + Cardinality(DOMAIN pending[w])
    <3>1. Cardinality(EventsBy(w) \cap DOMAIN pending[w]) = 0
      BY <1>6, FS_EmptySet
    <3>2. /\ Cardinality(EventsBy(w)) \in Nat /\ Cardinality(DOMAIN pending[w]) \in Nat
      BY <2>1, FS_CardinalityType
    <3>3. /\ IsFiniteSet(EventsBy(w) \cup DOMAIN pending[w])
          /\ Cardinality(EventsBy(w) \cup DOMAIN pending[w])
               = Cardinality(EventsBy(w)) + Cardinality(DOMAIN pending[w])
                   - Cardinality(EventsBy(w) \cap DOMAIN pending[w])
      BY <2>1, FS_Union
    <3> QED
      BY <3>1, <3>2, <3>3
  <2>4. Appends[w] * Commits(w) + Appends[w] = Appends[w] * (Commits(w) + 1)
    BY <2>2
  <2> QED
    BY <1>6, <2>1, <2>3, <2>4 DEF Books
<1>9. Alone(w)
  BY <1>1, <1>7, EndKeeps DEF Alone
<1>10. CountTypes'
  BY <1>1 DEF CountTypes
<1> QED
  BY <1>1, <1>8, <1>9, <1>10, CountKept

LEMMA CountStep == IInv /\ CountInv /\ [Next]_vars => CountInv'
<1> SUFFICES ASSUME IInv, CountInv, [Next]_vars PROVE CountInv'
  OBVIOUS
<1>0. CountTypes /\ pc \in [Writers -> {"read", "write", "commit", "done"}]
  BY DEF CountInv, IInv, Shapes
<1>1. ASSUME NEW w \in Writers, ReadHead(w) PROVE CountInv'
  BY <1>1, CountRead
<1>2. ASSUME NEW w \in Writers, NEW target \in Targets, NEW t \in Clock, WriteEvent(w, target, t)
      PROVE  CountInv'
  <2>1. t \in Nat
    BY ClockAssumption
  <2> QED
    BY <1>2, <2>1, CountWrite
<1>3. ASSUME NEW w \in Writers, Commit(w) PROVE CountInv'
  <2>1. pc[w] = "commit" /\ MakeDurable(w) /\ Ends(w) /\ Verdict(w) /\ UNCHANGED doubt
    BY <1>0, <1>3 DEF Commit, Return, Goto, Ends, Verdict
  <2>2. result[w] = "none" /\ result'[w] = "ok"
    BY <1>0, <1>3 DEF Commit, Return, CountInv, CountTypes, Quota
  <2>3. Commits(w)' = Commits(w) + 1
    BY <1>0, <2>1, <2>2 DEF Commits, CountTypes
  <2> QED
    BY <1>0, <2>1, <2>3, CountCommit DEF CountTypes
<1>4. ASSUME NEW w \in Writers, Abort(w) PROVE CountInv'
  <2>1. pc[w] # "done" /\ Ends(w) /\ Verdict(w) /\ UNCHANGED <<rows, doubt>> /\ result'[w] # "ok"
    BY <1>0, <1>4 DEF Abort, Return, Goto, Ends, Verdict, CountTypes, chain
  <2> QED
    BY <2>1, CountRollBack
<1>5. ASSUME NEW w \in Writers, Transient(w) PROVE CountInv'
  <2>1. pc[w] # "done" /\ Ends(w) /\ Verdict(w) /\ UNCHANGED <<rows, doubt>>
    BY <1>0, <1>5 DEF Transient, RollBack, Retry, Return, Goto, Ends, Verdict, chain
  <2>2. result'[w] # "ok"
    <3>1. result[w] = "none"
      BY <2>1 DEF CountInv, Quota
    <3> QED
      BY <1>0, <1>5, <3>1 DEF Transient, Retry, Return, CountTypes
  <2> QED
    BY <2>1, <2>2, CountRollBack
<1>6. ASSUME NEW w \in Writers, CommitUnknown(w) PROVE CountInv'
  <2>1. pc[w] = "commit" /\ MakeDurable(w) /\ Ends(w) /\ Verdict(w)
    BY <1>0, <1>6 DEF CommitUnknown, Retry, Return, Goto, Ends, Verdict
  <2>2. doubt' \in [Writers -> Nat] /\ doubt'[w] = doubt[w] + 1
        /\ \A v \in Writers : v # w => doubt'[v] = doubt[v]
    BY <1>0, <1>6 DEF CommitUnknown, CountTypes
  <2>3. result[w] = "none" /\ result'[w] # "ok"
    <3>1. result[w] = "none"
      BY <2>1 DEF CountInv, Quota
    <3> QED
      BY <1>0, <1>6, <3>1 DEF CommitUnknown, Retry, Return, CountTypes
  <2>4. Commits(w)' = Commits(w) + 1
    BY <1>0, <2>2, <2>3 DEF Commits, CountTypes
  <2> QED
    BY <2>1, <2>2, <2>4, CountCommit
<1>7. ASSUME UNCHANGED vars PROVE CountInv'
  <2>1. UNCHANGED <<rows, pending, appended, pc, result, doubt>>
    BY <1>7 DEF vars
  <2>2. ASSUME NEW w \in Writers PROVE Draft(w)' /\ Quota(w)' /\ Books(w)'
    BY <2>1 DEF CountInv, Draft, Quota, Books, Commits, EventsBy
  <2> QED
    BY <1>0, <2>1, <2>2 DEF CountInv, CountTypes
<1> QED
  BY <1>1, <1>2, <1>3, <1>4, <1>5, <1>6, <1>7 DEF Next, Step, Finished

(* A mutation leaves the events it appended once per commit, and none if   *)
(* it failed, whatever was retried, rolled back or lost (audit.go, Append  *)
(* in the caller's transaction; AppendStandalone).                         *)
THEOREM EventsMatchMutations == Spec => []ExactlyOneEvent
<1>1. CountInv => ExactlyOneEvent
  BY DEF CountInv, Books, Commits, ExactlyOneEvent
<1>2. IInv /\ CountInv /\ [Next]_vars => (IInv /\ CountInv)'
  BY AuditStep, CountStep
<1> QED
  BY <1>1, <1>2, InitHolds, CountInit, PTL DEF Spec

-----------------------------------------------------------------------------
(* Tampering.                                                              *)

(* A digest holds the time the row shows, and the identifier the event was *)
(* given, which tells writers, attempts and appends apart.                 *)
Id(row) == row.hash[1]
Dated(row) == /\ {"created", "hash"} \subseteq DOMAIN row
              /\ row.created \in Nat /\ row.hash[3] = row.created /\ row.hash # Genesis
Distinct(table) == \A s, q \in DOMAIN table : s # q => Id(table[s]) # Id(table[q])

(* Uncommitted events are of the running attempt, committed ones of an     *)
(* earlier attempt or of a transaction that is done.                       *)
Running(row, w, try, written) ==
  Id(row)[1] = w /\ Id(row)[3] = try /\ Id(row)[2] \in 0 .. written - 1
Past(row, try, place) ==
  /\ Id(row)[1] \in Writers
  /\ \/ Id(row)[3] \in Nat /\ Id(row)[3] < try[Id(row)[1]]
     \/ place[Id(row)[1]] = "done"

DraftIds(w) == /\ Distinct(pending[w])
               /\ \A s \in DOMAIN pending[w] :
                    Dated(pending[w][s]) /\ Running(pending[w][s], w, attempt[w], appended[w])
RowIds == Distinct(rows) /\ \A s \in DOMAIN rows : Dated(rows[s]) /\ Past(rows[s], attempt, pc)

IdInv == attempt \in [Writers -> Nat] /\ RowIds /\ \A w \in Writers : DraftIds(w)

LEMMA IdInit == Init => IdInv
<1>1. DOMAIN NoRows = {}
  BY DEF NoRows
<1> QED
  BY <1>1 DEF Init, IdInv, RowIds, DraftIds, Distinct

(* Attempts only grow, and a transaction that is done stays so.            *)
Onwards == \A v \in Writers : /\ attempt[v] <= attempt'[v]
                              /\ pc[v] = "done" => pc'[v] = "done"

LEMMA PastStays ==
  ASSUME IdInv, Onwards, attempt' \in [Writers -> Nat], NEW row, Past(row, attempt, pc)
  PROVE  Past(row, attempt', pc')
<1>1. Id(row)[1] \in Writers
  BY DEF Past
<1>2. attempt[Id(row)[1]] \in Nat /\ attempt'[Id(row)[1]] \in Nat
  BY <1>1 DEF IdInv
<1> QED
  BY <1>1, <1>2 DEF Past, Onwards, Id

LEMMA IdRead ==
  ASSUME IInv, IdInv, NEW w \in Writers, ReadHead(w)
  PROVE  IdInv'
<1>1. UNCHANGED <<rows, pending, appended, attempt>>
  BY DEF ReadHead, chain
<1>2. Onwards
  BY <1>1 DEF ReadHead, Goto, Onwards, IdInv, IInv, Shapes
<1>3. RowIds'
  BY <1>1, <1>2, PastStays DEF IdInv, RowIds
<1>4. \A v \in Writers : DraftIds(v)'
  BY <1>1 DEF IdInv, DraftIds, Running
<1> QED
  BY <1>1, <1>3, <1>4 DEF IdInv

LEMMA IdWrite ==
  ASSUME IInv, IdInv, NEW w \in Writers, NEW target, NEW t \in Nat, WriteEvent(w, target, t)
  PROVE  IdInv'
<1> DEFINE row == RowOf(EventOf(w, target, t))
<1>1. UNCHANGED <<rows, attempt>> /\ pc[w] = "write"
  BY DEF WriteEvent, chain
<1>2. /\ pending' = [pending EXCEPT ![w] = With(pending[w], nextSeq, row)]
      /\ appended' = [appended EXCEPT ![w] = @ + 1]
      /\ pc' = [pc EXCEPT ![w] = IF appended[w] + 1 < Appends[w] THEN "read" ELSE "commit"]
  BY DEF WriteEvent, Goto, With
<1>3. Id(row) = <<w, appended[w], attempt[w]>> /\ Dated(row)
  <2>1. row.created = Column(Truncate(t)) /\ row.hash[3] = Truncate(t)
        /\ row.hash[1] = <<w, appended[w], attempt[w]>> /\ row.hash # Genesis
        /\ {"created", "hash"} \subseteq DOMAIN row
    BY DEF RowOf, EventOf, EntryHash, Genesis
  <2>2. Truncate(t) \in Nat
    BY DEF Truncate
  <2> QED
    BY <2>1, <2>2, ColumnKeeps DEF Id, Dated
<1> HIDE DEF row
<1>4. /\ pending'[w] = With(pending[w], nextSeq, row) /\ appended'[w] = appended[w] + 1
      /\ appended[w] \in Nat
      /\ \A v \in Writers : v # w => pending'[v] = pending[v] /\ appended'[v] = appended[v]
  BY <1>2 DEF IInv, Shapes
<1>5. RowIds'
  <2>1. Onwards
    BY <1>1, <1>2 DEF Onwards, IdInv, IInv, Shapes
  <2> QED
    BY <1>1, <2>1, PastStays DEF IdInv, RowIds
<1>6. DraftIds(w)'
  <2>1. /\ DOMAIN pending'[w] = DOMAIN pending[w] \cup {nextSeq}
        /\ pending'[w][nextSeq] = row
        /\ \A s \in DOMAIN pending[w] : s # nextSeq => pending'[w][s] = pending[w][s]
    BY <1>4 DEF With
  <2>2. nextSeq \notin DOMAIN pending[w]
    BY DEF IInv, NumberInv, Shapes
  <2>3. \A s \in DOMAIN pending[w] : pending'[w][s] = pending[w][s]
    BY <2>1, <2>2
  <2>4. \A s \in DOMAIN pending[w] : Id(pending[w][s])[2] \in 0 .. appended[w] - 1
    BY DEF IdInv, DraftIds, Running
  <2>5. Distinct(pending'[w])
    <3>1. \A s \in DOMAIN pending[w] : Id(pending[w][s]) # Id(row)
      BY <1>3, <1>4, <2>4
    <3>2. Distinct(pending[w])
      BY DEF IdInv, DraftIds
    <3> QED
      BY <2>1, <2>3, <3>1, <3>2 DEF Distinct
  <2>6. ASSUME NEW s \in DOMAIN pending'[w]
        PROVE  Dated(pending'[w][s]) /\ Running(pending'[w][s], w, attempt'[w], appended'[w])
    <3>1. CASE s = nextSeq
      BY <1>1, <1>3, <1>4, <2>1, <3>1 DEF Running, Id
    <3>2. CASE s \in DOMAIN pending[w]
      BY <1>1, <1>4, <2>3, <3>2 DEF Running, Id, IdInv, DraftIds
    <3> QED
      BY <2>1, <3>1, <3>2
  <2> QED
    BY <2>5, <2>6 DEF DraftIds, Distinct, Dated, Id
<1>7. \A v \in Writers : v # w => DraftIds(v)'
  BY <1>1, <1>4 DEF IdInv, DraftIds, Running, Distinct, Dated, Id
<1> QED
  BY <1>1, <1>5, <1>6, <1>7 DEF IdInv

(* When a transaction ends, its attempt is over.                           *)
Over(w) == /\ attempt' \in [Writers -> Nat] /\ Onwards
           /\ \A v \in Writers : v # w => attempt'[v] = attempt[v]
           /\ pc'[w] = "done" \/ attempt[w] < attempt'[w]

LEMMA IdEnds ==
  ASSUME IInv, IdInv, NEW w \in Writers, Ends(w), Over(w)
  PROVE  \A v \in Writers : DraftIds(v)'
<1>1. DraftIds(w)'
  BY EndKeeps DEF DraftIds, Distinct
<1>2. ASSUME NEW v \in Writers, v # w PROVE DraftIds(v)'
  <2>1. pending'[v] = pending[v] /\ appended'[v] = appended[v] /\ attempt'[v] = attempt[v]
    BY <1>2, EndKeeps DEF Over
  <2> QED
    BY <2>1 DEF IdInv, DraftIds, Running, Distinct, Dated, Id
<1> QED
  BY <1>1, <1>2

LEMMA IdRollBack ==
  ASSUME IInv, IdInv, NEW w \in Writers, Ends(w), Over(w), UNCHANGED rows
  PROVE  IdInv'
<1>1. RowIds'
  BY PastStays DEF IdInv, RowIds, Over
<1> QED
  BY <1>1, IdEnds DEF IdInv, Over

LEMMA IdCommit ==
  ASSUME IInv, IdInv, NEW w \in Writers, pc[w] = "commit", MakeDurable(w), Ends(w), Over(w)
  PROVE  IdInv'
<1>1. rows' = Join(rows, pending[w])
  BY DEF MakeDurable, Join
<1>2. \A s \in DOMAIN pending[w] : s \notin DOMAIN rows
  BY DEF IInv, NumberInv
<1>3. /\ DOMAIN rows' = DOMAIN rows \cup DOMAIN pending[w]
      /\ \A s \in DOMAIN rows : rows'[s] = rows[s]
      /\ \A s \in DOMAIN pending[w] : rows'[s] = pending[w][s]
  BY <1>1, <1>2 DEF Join
<1>4. attempt[w] \in Nat /\ attempt'[w] \in Nat
  BY DEF IdInv, Over
<1>5. \A s \in DOMAIN pending[w] : Dated(pending[w][s]) /\ Past(pending[w][s], attempt', pc')
  BY <1>4 DEF IdInv, DraftIds, Running, Past, Over, Id
<1>6. \A s \in DOMAIN rows : Dated(rows[s]) /\ Past(rows[s], attempt', pc')
  BY PastStays DEF IdInv, RowIds, Over
<1>7. Distinct(rows) /\ Distinct(pending[w])
  BY DEF IdInv, RowIds, DraftIds
<1>8. \A s \in DOMAIN rows, q \in DOMAIN pending[w] : Id(rows[s]) # Id(pending[w][q])
  <2> SUFFICES ASSUME NEW s \in DOMAIN rows, NEW q \in DOMAIN pending[w],
                      Id(rows[s]) = Id(pending[w][q])
               PROVE  FALSE
    OBVIOUS
  <2>1. Past(rows[s], attempt, pc) /\ Running(pending[w][q], w, attempt[w], appended[w])
    BY DEF IdInv, RowIds, DraftIds
  <2> QED
    BY <1>4, <2>1 DEF Past, Running
<1>9. Distinct(rows')
  BY <1>3, <1>7, <1>8 DEF Distinct
<1>10. RowIds'
  <2>1. \A s \in DOMAIN rows' : Dated(rows'[s]) /\ Past(rows'[s], attempt', pc')
    BY <1>3, <1>5, <1>6 DEF Past, Id, Dated
  <2> QED
    BY <1>9, <2>1 DEF RowIds, Distinct, Dated, Id
<1> QED
  BY <1>10, IdEnds DEF IdInv, Over

LEMMA IdStep == IInv /\ IdInv /\ [Next]_vars => IdInv'
<1> SUFFICES ASSUME IInv, IdInv, [Next]_vars PROVE IdInv'
  OBVIOUS
<1>0. /\ attempt \in [Writers -> Nat]
      /\ pc \in [Writers -> {"read", "write", "commit", "done"}]
  BY DEF IdInv, IInv, Shapes
<1>1. ASSUME NEW w \in Writers, ReadHead(w) PROVE IdInv'
  BY <1>1, IdRead
<1>2. ASSUME NEW w \in Writers, NEW target \in Targets, NEW t \in Clock, WriteEvent(w, target, t)
      PROVE  IdInv'
  <2>1. t \in Nat
    BY ClockAssumption
  <2> QED
    BY <1>2, <2>1, IdWrite
<1>3. ASSUME NEW w \in Writers, Commit(w) PROVE IdInv'
  <2>1. pc[w] = "commit" /\ MakeDurable(w) /\ Ends(w)
    BY <1>3 DEF Commit, Return, Goto, Ends
  <2>2. Over(w)
    BY <1>0, <1>3 DEF Commit, Return, Goto, Over, Onwards
  <2> QED
    BY <2>1, <2>2, IdCommit
<1>4. ASSUME NEW w \in Writers, Abort(w) PROVE IdInv'
  <2>1. Ends(w) /\ UNCHANGED rows
    BY <1>4 DEF Abort, Return, Goto, Ends, chain
  <2>2. Over(w)
    BY <1>0, <1>4 DEF Abort, Return, Goto, Over, Onwards
  <2> QED
    BY <2>1, <2>2, IdRollBack
<1>5. ASSUME NEW w \in Writers, pc[w] # "done", Retry(w) PROVE Ends(w) /\ Over(w)
  <2>1. Ends(w)
    BY <1>5 DEF Retry, Return, Goto, Ends
  <2>2. Over(w)
    BY <1>0, <1>5 DEF Retry, Return, Goto, Over, Onwards
  <2> QED
    BY <2>1, <2>2
<1>6. ASSUME NEW w \in Writers, Transient(w) PROVE IdInv'
  BY <1>5, <1>6, IdRollBack DEF Transient, RollBack, chain
<1>7. ASSUME NEW w \in Writers, CommitUnknown(w) PROVE IdInv'
  BY <1>5, <1>7, IdCommit DEF CommitUnknown
<1>8. ASSUME UNCHANGED vars PROVE IdInv'
  <2>1. UNCHANGED <<rows, pending, appended, attempt, pc>>
    BY <1>8 DEF vars
  <2>2. RowIds'
    BY <2>1 DEF IdInv, RowIds
  <2>3. \A w \in Writers : DraftIds(w)'
    BY <2>1 DEF IdInv, DraftIds
  <2> QED
    BY <1>0, <2>1, <2>2, <2>3 DEF IdInv
<1> QED
  BY <1>1, <1>2, <1>3, <1>4, <1>6, <1>7, <1>8 DEF Next, Step, Finished

(* A walk that is long enough reports a broken link, or one before it.     *)
LEMMA VerifyFinds ==
  ASSUME NEW n \in Nat, NEW table, DOMAIN table \subseteq 1 .. n,
         NEW limit \in Nat, Cardinality(DOMAIN table) <= limit,
         NEW q \in DOMAIN table, ~LinkHolds(table, q)
  PROVE  VerifyChain(table, limit).brokenAt \in 1 .. q
<1> DEFINE walked == {s \in DOMAIN table : Cardinality(Earlier(table, s)) < limit}
           broken == {s \in walked : ~LinkHolds(table, s)}
<1>1. Cardinality(Earlier(table, q)) < limit
  <2>1. IsFiniteSet(DOMAIN table)
    <3>1. IsFiniteSet(1 .. n) /\ DOMAIN table \in SUBSET (1 .. n)
      BY FS_Interval
    <3> QED
      BY <3>1, FS_Subset
  <2>2. /\ IsFiniteSet(DOMAIN table \ {q})
        /\ Cardinality(DOMAIN table \ {q}) = Cardinality(DOMAIN table) - 1
    BY <2>1, FS_RemoveElement
  <2>3. Earlier(table, q) \in SUBSET (DOMAIN table \ {q})
    BY DEF Earlier
  <2>4. Cardinality(Earlier(table, q)) <= Cardinality(DOMAIN table \ {q})
    BY <2>2, <2>3, FS_Subset
  <2>5. /\ Cardinality(DOMAIN table) \in Nat
        /\ Cardinality(Earlier(table, q)) \in Nat
    BY <2>1, <2>2, <2>3, FS_Subset, FS_CardinalityType
  <2> QED
    BY <2>2, <2>4, <2>5
<1>2. q \in broken /\ broken \subseteq DOMAIN table
  BY <1>1
<1>3. VerifyChain(table, limit).brokenAt = IF broken = {} THEN 0 ELSE Min(broken)
  BY DEF VerifyChain
<1> HIDE DEF broken
<1>4. Min(broken) \in broken /\ \A x \in broken : Min(broken) <= x
  <2>1. broken \subseteq 0 .. n /\ broken # {}
    BY <1>2
  <2> QED
    BY <2>1, LeastExists
<1> QED
  BY <1>2, <1>3, <1>4

(* An edited column is missed by the digest of its row.                    *)
LEMMA EditBreaks ==
  ASSUME NEW s \in DOMAIN rows, Dated(rows[s])
  PROVE  LET edited == [rows EXCEPT ![s].created = @ + 2]
         IN  DOMAIN edited = DOMAIN rows /\ ~LinkHolds(edited, s)
<1> DEFINE edited == [rows EXCEPT ![s].created = @ + 2]
<1>1. edited[s] = [rows[s] EXCEPT !.created = @ + 2]
  OBVIOUS
<1>2. edited[s].created = rows[s].created + 2 /\ edited[s].hash = rows[s].hash
  BY <1>1 DEF Dated
<1>3. EntryHash(edited[s])[3] = edited[s].created
  BY DEF EntryHash
<1>4. EntryHash(edited[s]) # edited[s].hash
  BY <1>2, <1>3 DEF Dated
<1>5. DOMAIN edited = DOMAIN rows
  OBVIOUS
<1> QED
  BY <1>4, <1>5 DEF LinkHolds

(* A row that is missing is missed by the one that named it.               *)
LEMMA RemovalBreaks ==
  ASSUME NEW n \in Nat, DOMAIN rows \subseteq 1 .. n, Chained(rows, Genesis), Distinct(rows),
         NEW s \in DOMAIN rows, Dated(rows[s]), s # Max(DOMAIN rows)
  PROVE  LET without == Restrict(rows, DOMAIN rows \ {s})
         IN  /\ DOMAIN without = DOMAIN rows \ {s}
             /\ \E q \in DOMAIN without : ~LinkHolds(without, q)
<1> DEFINE without == Restrict(rows, DOMAIN rows \ {s})
           later == {q \in DOMAIN rows : q > s}
<1>1. /\ DOMAIN without = DOMAIN rows \ {s}
      /\ \A q \in DOMAIN rows \ {s} : without[q] = rows[q]
  BY DEF Restrict
<1>2. later # {}
  <2> SUFFICES ASSUME later = {} PROVE FALSE
    OBVIOUS
  <2>1. DOMAIN rows \subseteq Nat /\ \A x \in DOMAIN rows : x <= s
    OBVIOUS
  <2> QED
    BY <2>1, GreatestIs
<1>3. later \subseteq 0 .. n
  OBVIOUS
<1> DEFINE q == Min(later)
<1>4. q \in later /\ \A x \in later : q <= x
  <2> HIDE DEF later
  <2> QED
    BY <1>2, <1>3, LeastExists
<1>5. q \in DOMAIN rows /\ q > s /\ q # s
  BY <1>4
<1>6. rows[q].prev = rows[s].hash
  <2>1. s \in Earlier(rows, q) /\ Earlier(rows, q) \subseteq Nat
    BY <1>5 DEF Earlier
  <2>2. \A x \in Earlier(rows, q) : x <= s
    BY <1>4 DEF Earlier
  <2>3. Max(Earlier(rows, q)) = s
    BY <2>1, <2>2, GreatestIs
  <2> QED
    BY <1>5, <2>1, <2>3 DEF Chained, Link
<1> HIDE DEF q, without
<1>7. rows[s].hash # ExpectedPrevious(without, q)
  <2>1. CASE Earlier(without, q) = {}
    BY <2>1 DEF ExpectedPrevious, Dated
  <2>2. CASE Earlier(without, q) # {}
    <3>1. Earlier(without, q) \subseteq 0 .. n
      BY <1>1 DEF Earlier
    <3>2. Max(Earlier(without, q)) \in Earlier(without, q)
      BY <2>2, <3>1, GreatestExists
    <3>3. PICK p \in DOMAIN rows \ {s} : ExpectedPrevious(without, q) = rows[p].hash
      BY <1>1, <2>2, <3>2 DEF ExpectedPrevious, Earlier
    <3>4. Id(rows[p]) # Id(rows[s])
      BY DEF Distinct
    <3> QED
      BY <3>3, <3>4 DEF Id
  <2> QED
    BY <2>1, <2>2
<1>8. q \in DOMAIN without /\ ~LinkHolds(without, q)
  BY <1>1, <1>5, <1>6, <1>7 DEF LinkHolds
<1> QED
  BY <1>1, <1>8 DEF without

(* Whoever edits a row, or removes one that is not the last, breaks the    *)
(* chain where VerifyChain sees it (audit.go:299-332), in every trail that *)
(* concurrent appends and retries can have left.                           *)
THEOREM TamperingIsSeen == Spec => []TamperingDetected
<1>1. IInv /\ IdInv => TamperingDetected
  <2> SUFFICES ASSUME IInv, IdInv, NEW s \in DOMAIN rows
               PROVE  LET without == Restrict(rows, DOMAIN rows \ {s})
                          edited == [rows EXCEPT ![s].created = @ + 2]
                      IN  /\ s # Max(DOMAIN rows) =>
                               VerifyChain(without, Cardinality(DOMAIN rows)).brokenAt # 0
                          /\ VerifyChain(edited, Cardinality(DOMAIN rows)).brokenAt \in 1 .. s
    BY DEF TamperingDetected
  <2> DEFINE without == Restrict(rows, DOMAIN rows \ {s})
             edited == [rows EXCEPT ![s].created = @ + 2]
             n == nextSeq - 1
             limit == Cardinality(DOMAIN rows)
  <2>1. n \in Nat /\ DOMAIN rows \subseteq 1 .. n
    BY DEF IInv, Shapes, NumberInv
  <2> HIDE DEF n
  <2>2. IsFiniteSet(DOMAIN rows) /\ limit \in Nat
    <3>1. IsFiniteSet(1 .. n) /\ DOMAIN rows \in SUBSET (1 .. n)
      BY <2>1, FS_Interval
    <3> QED
      BY <3>1, FS_Subset, FS_CardinalityType
  <2>3. Dated(rows[s]) /\ Distinct(rows) /\ Chained(rows, Genesis)
    BY DEF IInv, ChainInv, IdInv, RowIds
  <2>4. VerifyChain(edited, limit).brokenAt \in 1 .. s
    <3>1. DOMAIN edited = DOMAIN rows /\ ~LinkHolds(edited, s)
      BY <2>3, EditBreaks
    <3> HIDE DEF edited
    <3>2. Cardinality(DOMAIN edited) <= limit
      BY <2>2, <3>1
    <3> HIDE DEF limit
    <3> QED
      BY <2>1, <2>2, <3>1, <3>2, VerifyFinds
  <2>5. ASSUME s # Max(DOMAIN rows) PROVE VerifyChain(without, limit).brokenAt # 0
    <3>1. DOMAIN without = DOMAIN rows \ {s} /\ \E q \in DOMAIN without : ~LinkHolds(without, q)
      BY <2>1, <2>3, <2>5, RemovalBreaks
    <3> HIDE DEF without
    <3>2. PICK q \in DOMAIN without : ~LinkHolds(without, q)
      BY <3>1
    <3>3. Cardinality(DOMAIN without) <= limit
      BY <2>2, <3>1, FS_RemoveElement
    <3>4. DOMAIN without \subseteq 1 .. n
      BY <2>1, <3>1
    <3> HIDE DEF limit
    <3>5. VerifyChain(without, limit).brokenAt \in 1 .. q
      BY <2>1, <2>2, <3>2, <3>3, <3>4, VerifyFinds
    <3> QED
      BY <2>1, <3>4, <3>5
  <2> QED
    BY <2>4, <2>5
<1>2. IInv /\ IdInv /\ [Next]_vars => (IInv /\ IdInv)'
  BY AuditStep, IdStep
<1> QED
  BY <1>1, <1>2, InitHolds, IdInit, PTL DEF Spec

-----------------------------------------------------------------------------
(* AuditChain implements AuditLog.                                         *)

(* In a chain, a row that is not the first is linked to its predecessor.   *)
LEMMA LinkedToPredecessor ==
  ASSUME NEW n \in Nat, NEW table, DOMAIN table \subseteq 1 .. n, NEW first,
         Chained(table, first), NEW s \in DOMAIN table
  PROVE  \/ (\A q \in DOMAIN table : s <= q) /\ table[s].prev = first
         \/ \E q \in DOMAIN table : Log!Succeeds(DOMAIN table, s, q) /\ table[s].prev = table[q].hash
<1>1. table[s].prev = Link(table, s, first)
  BY DEF Chained
<1>2. CASE Earlier(table, s) = {}
  <2>1. \A q \in DOMAIN table : s <= q
    BY <1>2 DEF Earlier
  <2> QED
    BY <1>1, <1>2, <2>1 DEF Link
<1>3. CASE Earlier(table, s) # {}
  <2> DEFINE q == Max(Earlier(table, s))
  <2>1. Earlier(table, s) \subseteq 0 .. n
    BY DEF Earlier
  <2>2. q \in Earlier(table, s) /\ \A r \in Earlier(table, s) : r <= q
    BY <1>3, <2>1, GreatestExists
  <2>3. table[s].prev = table[q].hash
    BY <1>1, <1>3 DEF Link
  <2> HIDE DEF q
  <2>4. q \in DOMAIN table /\ Log!Succeeds(DOMAIN table, s, q)
    BY <2>2 DEF Earlier, Log!Succeeds
  <2> QED
    BY <2>3, <2>4
<1> QED
  BY <1>2, <1>3

(* A commit records the writer's events, whether or not its answer is      *)
(* lost.                                                                   *)
LEMMA CommitRecords ==
  ASSUME IInv, CountInv, NEW w \in Writers, pc[w] = "commit", MakeDurable(w)
  PROVE  Log!Record(w)
<1> DEFINE new == DOMAIN pending[w]
<1>1. rows' = Join(rows, pending[w]) /\ head' = newHead[w]
  BY DEF MakeDurable, Join
<1>2. /\ new # {} /\ newHead[w] = Last(pending[w])
      /\ Cardinality(new) = Appends[w] /\ \A s \in new : pending[w][s].by = w
  <2>1. appended[w] > 0 /\ appended[w] = Appends[w]
    BY DEF IInv, WriterInv, KnowsEnd, CountInv, Quota
  <2> QED
    BY <2>1 DEF IInv, WriterInv, KnowsEnd, CountInv, Draft
<1>3. /\ nextSeq - 1 \in Nat /\ new \subseteq 1 .. nextSeq - 1
      /\ \A q \in DOMAIN rows, s \in new : q < s
      /\ \A s \in new : s \notin DOMAIN rows
  <2>1. nextSeq - 1 \in Nat /\ new \subseteq 1 .. nextSeq - 1 /\ \A q \in DOMAIN rows, s \in new : q < s
    BY DEF IInv, NumberInv, Shapes
  <2> QED
    BY <2>1
<1>4. /\ DOMAIN rows' = DOMAIN rows \cup new /\ DOMAIN rows' \ DOMAIN rows = new
      /\ \A s \in DOMAIN rows : rows'[s] = rows[s]
      /\ \A s \in new : rows'[s] = pending[w][s]
  BY <1>1, <1>3 DEF Join
<1>5. \A s \in new : \/ (\A q \in new : s <= q) /\ pending[w][s].prev = head
                     \/ \E q \in new : Log!Succeeds(new, s, q) /\ pending[w][s].prev = pending[w][q].hash
  <2>1. Chained(pending[w], head)
    BY DEF IInv, ChainInv
  <2> QED
    BY <1>3, <2>1, LinkedToPredecessor
<1>6. \E s \in new : (\A q \in new : q <= s) /\ newHead[w] = pending[w][s].hash
  <2>1. new \subseteq 0 .. nextSeq - 1
    BY <1>3
  <2>2. Max(new) \in new /\ \A q \in new : q <= Max(new)
    BY <1>2, <1>3, <2>1, GreatestExists
  <2> QED
    BY <1>2, <2>2 DEF Last
<1> HIDE DEF new
<1>7. Log!LinksEntries(new)
  BY <1>1, <1>4, <1>5, <1>6 DEF Log!LinksEntries
<1>8. Log!KeepsEntries
  BY <1>4 DEF Log!KeepsEntries
<1>9. Log!Cardinality(new) = Cardinality(new)
  BY DEF Log!Cardinality, Cardinality
<1> QED
  BY <1>2, <1>3, <1>4, <1>7, <1>8, <1>9 DEF Log!Record

(* Every step records the events of one mutation, or leaves the log alone. *)
LEMMA LogStep ==
  ASSUME IInv, CountInv, [Next]_vars
  PROVE  [Log!LogNext]_Log!logVars
<1>1. ASSUME NEW w \in Writers, Commit(w) \/ CommitUnknown(w) PROVE Log!Record(w)
  BY <1>1, CommitRecords DEF Commit, CommitUnknown
<1>2. ASSUME NEW w \in Writers, ReadHead(w) \/ Abort(w) \/ Transient(w) PROVE UNCHANGED Log!logVars
  BY <1>2 DEF ReadHead, Abort, Transient, RollBack, chain, Log!logVars
<1>3. ASSUME NEW w \in Writers, NEW target, NEW t, WriteEvent(w, target, t) PROVE UNCHANGED Log!logVars
  BY <1>3 DEF WriteEvent, chain, Log!logVars
<1>4. UNCHANGED vars => UNCHANGED Log!logVars
  BY DEF vars, chain, Log!logVars
<1> QED
  BY <1>1, <1>2, <1>3, <1>4 DEF Next, Step, Finished, Log!LogNext

(* Append under InTx, with any number of transactions, implements the      *)
(* abstract log: committed entries stay as they are, and a mutation adds   *)
(* all of its events at the end or none (audit.go:104-151).                *)
THEOREM LogRefinement == Spec => ImplementsLog
<1>1. Init => Log!LogInit
  BY DEF Init, NoRows, Genesis, Log!LogInit
<1>2. IInv /\ CountInv /\ [Next]_vars => (IInv /\ CountInv)'
  BY AuditStep, CountStep
<1>3. IInv /\ CountInv /\ [Next]_vars => [Log!LogNext]_Log!logVars
  BY LogStep
<1> QED
  BY <1>1, <1>2, <1>3, InitHolds, CountInit, PTL DEF Spec, ImplementsLog, Log!LogSpec
=============================================================================
