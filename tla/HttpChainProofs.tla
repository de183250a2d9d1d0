-------------------------- MODULE HttpChainProofs --------------------------
(***************************************************************************)
(* Proofs about HttpChain, for any requests, any limit and any orders of   *)
(* the layers.                                                             *)
(***************************************************************************)
EXTENDS HttpChain, FiniteSetTheorems, TLAPS

(* Where a request may be: at a layer of the chain while it goes down or   *)
(* up, behind the last one in the handler.                                 *)
PlaceOK(r) == /\ pc[r] = "new" => at[r] = 1
              /\ pc[r] \in {"down", "up"} => at[r] \in 1 .. Len(chain)
              /\ pc[r] = "handler" => at[r] = Len(chain) + 1

Places == /\ chain \in Chains
          /\ pc \in [Requests -> {"new", "down", "handler", "up", "done"}]
          /\ at \in [Requests -> Nat]
          /\ \A r \in Requests : PlaceOK(r)

(* The inductive invariant.                                                *)
IInv == Places /\ status \in [Requests -> Nat] /\ NothingLeaks

(* A chain is a non-empty sequence that has a layer in one place at most.  *)
LEMMA ChainFacts ==
  ASSUME Places
  PROVE  /\ Len(chain) \in Nat /\ Len(chain) # 0
         /\ DOMAIN chain = 1 .. Len(chain)
         /\ \A i, j \in DOMAIN chain : chain[i] = chain[j] => i = j
<1>1. chain \in Seq(Layers) /\ chain # <<>> /\ IsInjective(chain)
  BY ChainsAssumption DEF Places
<1>2. \A i, j \in DOMAIN chain : chain[i] = chain[j] => i = j
  BY <1>1 DEF IsInjective
<1>3. Len(chain) \in Nat /\ Len(chain) # 0 /\ DOMAIN chain = 1 .. Len(chain)
  BY <1>1
<1> QED
  BY <1>2, <1>3

(* Only r moves.                                                           *)
Moves(r, place, phase) == /\ at' = [at EXCEPT ![r] = place]
                          /\ pc' = [pc EXCEPT ![r] = phase]
                          /\ UNCHANGED chain

(* A request's place in a step of its own decides nothing about others.    *)
LEMMA OthersStay ==
  ASSUME Places, NEW r \in Requests, NEW place \in Nat,
         NEW phase \in {"new", "down", "handler", "up", "done"},
         Moves(r, place, phase), PlaceOK(r)'
  PROVE  Places' /\ \A layer : Under(layer)' \ {r} = Under(layer) \ {r}
<1>1. /\ chain' \in Chains
      /\ pc' \in [Requests -> {"new", "down", "handler", "up", "done"}]
      /\ at' \in [Requests -> Nat]
  BY DEF Places, Moves
<1>2. ASSUME NEW q \in Requests, q # r
      PROVE  at'[q] = at[q] /\ pc'[q] = pc[q]
  BY <1>2 DEF Places, Moves
<1>3. ASSUME NEW q \in Requests PROVE PlaceOK(q)'
  <2>1. CASE q = r
    BY <2>1
  <2>2. CASE q # r
    BY <1>2, <2>2 DEF Places, PlaceOK, Moves
  <2> QED
    BY <2>1, <2>2
<1>4. ASSUME NEW layer PROVE Under(layer)' \ {r} = Under(layer) \ {r}
  <2>1. ASSUME NEW q \in Requests, q # r
        PROVE  q \in Under(layer)' <=> q \in Under(layer)
    BY <1>2, <2>1 DEF Under, Moves
  <2> QED
    BY <2>1 DEF Under
<1> QED
  BY <1>1, <1>3, <1>4 DEF Places

(* A step that moves r and leaves it on the same side of every layer keeps *)
(* what is under them; one that takes it past a layer adds it there or     *)
(* removes it.                                                             *)
Same(layer) == Under(layer)' = Under(layer)
Joins(r, layer) == r \notin Under(layer) /\ Under(layer)' = Under(layer) \cup {r}
Parts(r, layer) == r \in Under(layer) /\ Under(layer)' = Under(layer) \ {r}

(* Entering a layer, and going on to the next one or the handler.          *)
LEMMA DescendCounts ==
  ASSUME Places, NEW r \in Requests, pc[r] = "down", Descend(r), UNCHANGED chain
  PROVE  Places' /\ \A layer : IF layer = chain[at[r]] THEN Joins(r, layer) ELSE Same(layer)
<1> DEFINE place == at[r] + 1
           phase == IF at[r] = Len(chain) THEN "handler" ELSE "down"
<1>1. at[r] \in 1 .. Len(chain) /\ place \in Nat
  BY DEF Places, PlaceOK
<1>2. Moves(r, place, phase)
  BY DEF Moves, Descend, Places
<1>3. at'[r] = place /\ pc'[r] = phase
  BY <1>2 DEF Moves, Places
<1>4. PlaceOK(r)'
  BY <1>1, <1>3, ChainFacts DEF PlaceOK
<1>5. Places' /\ \A layer : Under(layer)' \ {r} = Under(layer) \ {r}
  <2> HIDE DEF place, phase
  <2>1. phase \in {"new", "down", "handler", "up", "done"}
    BY DEF phase
  <2> QED
    BY <1>1, <1>2, <1>4, <2>1, OthersStay
<1>6. ASSUME NEW layer PROVE r \in Under(layer) <=> \E i \in DOMAIN chain : chain[i] = layer /\ i < at[r]
  BY DEF Under
<1>7. ASSUME NEW layer PROVE r \in Under(layer)' <=> \E i \in DOMAIN chain : chain[i] = layer /\ i < at[r] + 1
  BY <1>3 DEF Under
<1>8. ASSUME NEW layer
      PROVE  IF layer = chain[at[r]] THEN Joins(r, layer) ELSE Same(layer)
  <2>1. CASE layer = chain[at[r]]
    <3>1. r \notin Under(layer)
      BY <1>1, <1>6, <2>1, ChainFacts
    <3>2. r \in Under(layer)'
      BY <1>1, <1>7, <2>1, ChainFacts
    <3> QED
      BY <1>5, <2>1, <3>1, <3>2 DEF Joins
  <2>2. CASE layer # chain[at[r]]
    <3>1. r \in Under(layer)' <=> r \in Under(layer)
      BY <1>1, <1>6, <1>7, <2>2, ChainFacts
    <3> QED
      BY <1>5, <2>2, <3>1 DEF Same
  <2> QED
    BY <2>1, <2>2
<1> QED
  BY <1>5, <1>8

(* Returning from where r is to the layer outside: from a layer it has     *)
(* passed on its way up, from one that refused it, or from the handler.    *)
LEMMA AscendCounts ==
  ASSUME Places, NEW r \in Requests, pc[r] \in {"down", "handler", "up"}, Ascend(r), UNCHANGED chain
  PROVE  Places' /\ \A layer : IF pc[r] = "up" /\ layer = chain[at[r]]
                               THEN Parts(r, layer) ELSE Same(layer)
<1> DEFINE place == at[r] - 1
           phase == IF at[r] = 1 THEN "done" ELSE "up"
<1>1. at[r] \in 1 .. Len(chain) + 1 /\ place \in Nat /\ (pc[r] = "handler" <=> at[r] = Len(chain) + 1)
  BY ChainFacts DEF Places, PlaceOK
<1>2. Moves(r, place, phase)
  BY DEF Moves, Ascend, Places
<1>3. at'[r] = place /\ pc'[r] = phase
  BY <1>2 DEF Moves, Places
<1>4. PlaceOK(r)'
  BY <1>1, <1>3, ChainFacts DEF PlaceOK
<1>5. Places' /\ \A layer : Under(layer)' \ {r} = Under(layer) \ {r}
  <2> HIDE DEF place, phase
  <2>1. phase \in {"new", "down", "handler", "up", "done"}
    BY DEF phase
  <2> QED
    BY <1>1, <1>2, <1>4, <2>1, OthersStay
<1>6. ASSUME NEW layer
      PROVE  r \in Under(layer) <=> \E i \in DOMAIN chain :
               chain[i] = layer /\ (i < at[r] \/ (i = at[r] /\ pc[r] = "up"))
  BY DEF Under
<1>7. ASSUME NEW layer PROVE r \in Under(layer)' <=> \E i \in DOMAIN chain : chain[i] = layer /\ i < at[r]
  <2>1. r \in Under(layer)' <=> at[r] # 1 /\ \E i \in DOMAIN chain :
          chain[i] = layer /\ (i < at[r] - 1 \/ i = at[r] - 1)
    BY <1>3 DEF Under
  <2> QED
    BY <1>1, <2>1, ChainFacts
<1>8. ASSUME NEW layer
      PROVE  IF pc[r] = "up" /\ layer = chain[at[r]] THEN Parts(r, layer) ELSE Same(layer)
  <2>1. CASE pc[r] = "up" /\ layer = chain[at[r]]
    <3>1. r \notin Under(layer)'
      BY <1>1, <1>7, <2>1, ChainFacts
    <3>2. r \in Under(layer)
      BY <1>1, <1>6, <2>1, ChainFacts
    <3> QED
      BY <1>5, <2>1, <3>1, <3>2 DEF Parts
  <2>2. CASE ~(pc[r] = "up" /\ layer = chain[at[r]])
    <3>1. r \in Under(layer)' <=> r \in Under(layer)
      BY <1>1, <1>6, <1>7, <2>2, ChainFacts
    <3> QED
      BY <1>5, <2>2, <3>1 DEF Same
  <2> QED
    BY <2>1, <2>2
<1> QED
  BY <1>5, <1>8

(* A request that arrives is under no layer.                               *)
LEMMA ArriveCounts ==
  ASSUME Places, NEW r \in Requests, Arrive(r)
  PROVE  Places' /\ \A layer : Same(layer)
<1>1. at[r] = 1 /\ pc[r] = "new" /\ chain' = chain
  BY DEF Arrive, Places, PlaceOK, service
<1>2. Moves(r, 1, "down")
  BY <1>1 DEF Moves, Arrive, Places
<1>3. at'[r] = 1 /\ pc'[r] = "down"
  BY <1>2 DEF Moves, Places
<1>4. PlaceOK(r)'
  BY <1>1, <1>3, ChainFacts DEF PlaceOK
<1>5. Places' /\ \A layer : Under(layer)' \ {r} = Under(layer) \ {r}
  BY <1>2, <1>4, OthersStay
<1>6. ASSUME NEW layer PROVE r \notin Under(layer) /\ r \notin Under(layer)'
  BY <1>1, <1>3, ChainFacts DEF Under
<1> QED
  BY <1>5, <1>6 DEF Same

(* Counting: what joins adds one, what parts takes one off.                *)
LEMMA Counts ==
  ASSUME NEW layer
  PROVE  /\ Cardinality(Under(layer)) \in Nat
         /\ Same(layer) => Cardinality(Under(layer)') = Cardinality(Under(layer))
         /\ \A r : Joins(r, layer) => Cardinality(Under(layer)') = Cardinality(Under(layer)) + 1
         /\ \A r : Parts(r, layer) => Cardinality(Under(layer)') = Cardinality(Under(layer)) - 1
<1>1. IsFiniteSet(Under(layer))
  BY RequestsAssumption, FS_Subset DEF Under
<1> QED
  BY <1>1, FS_CardinalityType, FS_AddElement, FS_RemoveElement DEF Same, Joins, Parts

(* Whoever writes, a status is a number.                                   *)
Statuses == status \in [Requests -> Nat]

LEMMA StatusKept ==
  ASSUME Statuses, NEW r \in Requests,
         \/ UNCHANGED answer
         \/ \E h : SetHeader(r, h)
         \/ \E s \in Nat : \E h, by : Write(r, s, h, by)
  PROVE  Statuses'
  BY DEF Statuses, answer, SetHeader, Write

(* A step that changes neither the counters nor what is under their layers *)
(* keeps the two together.                                                 *)
LEMMA LeaksKept ==
  ASSUME NothingLeaks, Same("limit"), Same("log"), UNCHANGED counters
  PROVE  NothingLeaks'
  BY DEF NothingLeaks, Same, counters

(* A layer other than the two with a counter.                              *)
LEMMA EnterPlainly ==
  ASSUME IInv, NEW r \in Requests, NEW layer, Entering(r, layer), layer \notin {"limit", "log"},
         Descend(r) \/ Ascend(r), UNCHANGED counters
  PROVE  Places' /\ NothingLeaks'
<1>1. pc[r] = "down" /\ chain[at[r]] = layer /\ UNCHANGED chain
  BY DEF Entering, service
<1>2. Places' /\ Same("limit") /\ Same("log")
  BY <1>1, DescendCounts, AscendCounts DEF IInv
<1> QED
  BY <1>2, LeaksKept DEF IInv

LEMMA InvEnter ==
  ASSUME IInv, NEW r \in Requests, Enter(r)
  PROVE  IInv'
<1>1. CASE EnterContext(r)
  BY <1>1, EnterPlainly, StatusKept DEF IInv, EnterContext, Statuses
<1>2. CASE EnterLog(r)
  <2>1. pc[r] = "down" /\ chain[at[r]] = "log" /\ UNCHANGED chain /\ Descend(r)
    BY <1>2 DEF EnterLog, Entering, service
  <2>2. Places' /\ Joins(r, "log") /\ Same("limit")
    BY <2>1, DescendCounts DEF IInv
  <2>3. NothingLeaks'
    BY <1>2, <2>2, Counts DEF IInv, NothingLeaks, EnterLog
  <2> QED
    BY <1>2, <2>2, <2>3, StatusKept DEF IInv, EnterLog, Statuses
<1>3. CASE EnterRecover(r)
  BY <1>3, EnterPlainly, StatusKept DEF IInv, EnterRecover, Statuses
<1>4. CASE EnterLimit(r)
  <2>1. pc[r] = "down" /\ chain[at[r]] = "limit" /\ UNCHANGED chain /\ gauge' = gauge
    BY <1>4 DEF EnterLimit, Entering, service
  <2>2. CASE FreeSlot /\ slots' = slots + 1 /\ Descend(r) /\ UNCHANGED answer
    <3>1. Places' /\ Joins(r, "limit") /\ Same("log")
      BY <2>1, <2>2, DescendCounts DEF IInv
    <3>2. NothingLeaks'
      BY <2>1, <2>2, <3>1, Counts, LimitAssumption DEF IInv, NothingLeaks, FreeSlot
    <3> QED
      BY <2>2, <3>1, <3>2, StatusKept DEF IInv, Statuses
  <2>3. CASE ~FreeSlot /\ WriteProblem(r, 503) /\ Ascend(r) /\ UNCHANGED slots
    <3>1. Places' /\ Same("limit") /\ Same("log")
      BY <2>1, <2>3, AscendCounts DEF IInv
    <3>2. NothingLeaks'
      BY <2>1, <2>3, <3>1, LeaksKept DEF IInv, counters
    <3> QED
      BY <2>3, <3>1, <3>2, StatusKept DEF IInv, Statuses, WriteProblem
  <2> QED
    BY <1>4, <2>2, <2>3 DEF EnterLimit
<1>5. CASE EnterBody(r)
  <2>1. Places' /\ NothingLeaks'
    BY <1>5, EnterPlainly DEF EnterBody
  <2>2. Statuses'
    BY <1>5, StatusKept DEF IInv, EnterBody, Statuses, WriteProblem
  <2> QED
    BY <2>1, <2>2 DEF IInv, Statuses
<1>6. CASE EnterPrivate(r)
  BY <1>6, EnterPlainly, StatusKept DEF IInv, EnterPrivate, Statuses
<1>7. CASE EnterCORS(r)
  <2>1. Places' /\ NothingLeaks'
    BY <1>7, EnterPlainly DEF EnterCORS
  <2>2. Statuses'
    BY <1>7, StatusKept DEF IInv, EnterCORS, Statuses
  <2> QED
    BY <2>1, <2>2 DEF IInv, Statuses
<1> QED
  BY <1>1, <1>2, <1>3, <1>4, <1>5, <1>6, <1>7 DEF Enter

(* The handler moves away from behind the chain, under every layer of it.  *)
LEMMA InvHandle ==
  ASSUME IInv, NEW r \in Requests, Handle(r)
  PROVE  IInv'
<1>1. CASE HandlerWrites(r)
  <2>1. Places' /\ NothingLeaks'
    BY <1>1 DEF HandlerWrites, IInv, Places, PlaceOK, NothingLeaks, Under, service, counters
  <2>2. Statuses'
    BY <1>1, StatusKept DEF HandlerWrites, IInv, Statuses
  <2> QED
    BY <2>1, <2>2 DEF IInv, Statuses
<1>2. CASE HandlerReturns(r) \/ HandlerPanics(r)
  <2>1. pc[r] = "handler" /\ Ascend(r) /\ UNCHANGED chain /\ UNCHANGED counters /\ UNCHANGED answer
    BY <1>2 DEF HandlerReturns, HandlerPanics, service
  <2>2. Places' /\ Same("limit") /\ Same("log")
    BY <2>1, AscendCounts DEF IInv
  <2> QED
    BY <2>1, <2>2, LeaksKept, StatusKept DEF IInv, Statuses
<1> QED
  BY <1>1, <1>2 DEF Handle

LEMMA InvLeave ==
  ASSUME IInv, NEW r \in Requests, Leave(r)
  PROVE  IInv'
<1>1. ASSUME NEW layer, Leaving(r, layer)
      PROVE  Places' /\ \A l : IF l = layer THEN Parts(r, l) ELSE Same(l)
  <2>1. pc[r] = "up" /\ chain[at[r]] = layer /\ Ascend(r) /\ UNCHANGED chain
    BY <1>1 DEF Leaving, service
  <2> QED
    BY <2>1, AscendCounts DEF IInv
<1>2. CASE LeaveQuietly(r)
  BY <1>1, <1>2, LeaksKept, StatusKept DEF LeaveQuietly, IInv, Statuses
<1>3. CASE LeaveLog(r)
  <2>1. Places' /\ Parts(r, "log") /\ Same("limit")
    BY <1>1, <1>3 DEF LeaveLog
  <2>2. NothingLeaks'
    BY <1>3, <2>1, Counts DEF LeaveLog, IInv, NothingLeaks
  <2> QED
    BY <1>3, <2>1, <2>2, StatusKept DEF LeaveLog, IInv, Statuses
<1>4. CASE LeaveRecover(r)
  <2>1. Places' /\ Same("limit") /\ Same("log")
    BY <1>1, <1>4 DEF LeaveRecover
  <2>2. NothingLeaks'
    BY <1>4, <2>1, LeaksKept DEF LeaveRecover, IInv
  <2>3. Statuses'
    BY <1>4, StatusKept DEF LeaveRecover, Recovered, WriteProblem, IInv, Statuses
  <2> QED
    BY <2>1, <2>2, <2>3 DEF IInv, Statuses
<1>5. CASE LeaveLimit(r)
  <2>1. Places' /\ Parts(r, "limit") /\ Same("log")
    BY <1>1, <1>5 DEF LeaveLimit
  <2>2. NothingLeaks'
    BY <1>5, <2>1, Counts, LimitAssumption DEF LeaveLimit, SlotsAfter, IInv, NothingLeaks
  <2> QED
    BY <1>5, <2>1, <2>2, StatusKept DEF LeaveLimit, IInv, Statuses
<1> QED
  BY <1>2, <1>3, <1>4, <1>5 DEF Leave

LEMMA InvNext == IInv /\ [Next]_vars => IInv'
<1> SUFFICES ASSUME IInv, [Next]_vars PROVE IInv'
  OBVIOUS
<1>1. ASSUME NEW r \in Requests, Arrive(r) PROVE IInv'
  <2>1. Places' /\ Same("limit") /\ Same("log")
    BY <1>1, ArriveCounts DEF IInv
  <2> QED
    BY <1>1, <2>1, LeaksKept, StatusKept DEF Arrive, IInv, Statuses
<1>2. CASE UNCHANGED vars
  BY <1>2 DEF vars, service, counters, answer, IInv, Places, PlaceOK, NothingLeaks, Under
<1> QED
  BY <1>1, <1>2, InvEnter, InvHandle, InvLeave DEF Next, Finished

LEMMA InvInit == Init => IInv
<1> SUFFICES ASSUME Init PROVE IInv
  OBVIOUS
<1>1. Places
  BY DEF Init, Places, PlaceOK
<1>2. Cardinality({}) = 0
  BY FS_EmptySet
<1>3. Under("limit") = {} /\ Under("log") = {}
  BY DEF Init, Under
<1>4. slots = 0 /\ gauge = 0
  BY DEF Init
<1>5. NothingLeaks
  <2>1. slots = Cardinality(Under("limit")) /\ gauge = Cardinality(Under("log"))
    BY <1>2, <1>3, <1>4
  <2>2. slots <= Limit
    BY <1>4, LimitAssumption
  <2> QED
    BY <2>1, <2>2 DEF NothingLeaks
<1> QED
  BY <1>1, <1>5 DEF Init, IInv

(* Slots and the in-flight gauge count the requests under their layers,    *)
(* whatever panics, is refused or is answered on the way, in every order   *)
(* of the layers, and the limit is kept.                                   *)
THEOREM CountersAreExact == Spec => []NothingLeaks
<1>1. IInv => NothingLeaks
  BY DEF IInv
<1> QED
  BY <1>1, InvInit, InvNext, PTL DEF Spec

-----------------------------------------------------------------------------
(* A 503 comes from the semaphore's default.                               *)
Sheds(r) == status[r] = 0 /\ status'[r] = 503

LEMMA ShedHere ==
  ASSUME IInv, [Next]_vars, NEW r \in Requests, Sheds(r)
  PROVE  EnterLimit(r) /\ ~FreeSlot
<1>1. ~UNCHANGED status
  BY DEF Sheds
<1>2. ASSUME NEW q \in Requests, NEW s \in Nat, NEW h, NEW by, Write(q, s, h, by)
      PROVE  q = r /\ s = 503
  BY <1>2 DEF Write, Sheds, IInv
<1>3. ASSUME NEW q \in Requests, Enter(q)
      PROVE  EnterLimit(r) /\ ~FreeSlot
  <2>1. ~EnterContext(q) /\ ~EnterLog(q) /\ ~EnterRecover(q) /\ ~EnterPrivate(q)
    BY <1>1 DEF EnterContext, EnterLog, EnterRecover, EnterPrivate, SetHeader, answer
  <2>2. ~EnterBody(q)
    BY <1>1, <1>2 DEF EnterBody, WriteProblem, answer
  <2>3. ~EnterCORS(q)
    BY <1>1, <1>2 DEF EnterCORS, SetHeader
  <2>4. EnterLimit(q)
    BY <1>3, <2>1, <2>2, <2>3 DEF Enter
  <2> QED
    BY <1>1, <1>2, <2>4 DEF EnterLimit, WriteProblem, answer
<1>4. ASSUME NEW q \in Requests PROVE ~Arrive(q) /\ ~Handle(q) /\ ~Leave(q)
  <2>1. ~Arrive(q) /\ ~LeaveQuietly(q) /\ ~LeaveLog(q) /\ ~LeaveLimit(q)
        /\ ~HandlerReturns(q) /\ ~HandlerPanics(q)
    BY <1>1 DEF Arrive, LeaveQuietly, LeaveLog, LeaveLimit, HandlerReturns, HandlerPanics, answer
  <2>2. ~HandlerWrites(q)
    BY <1>2 DEF HandlerWrites
  <2>3. ~LeaveRecover(q)
    BY <1>1, <1>2 DEF LeaveRecover, Recovered, WriteProblem, answer
  <2> QED
    BY <2>1, <2>2, <2>3 DEF Handle, Leave
<1> QED
  BY <1>1, <1>3, <1>4 DEF Next, Finished, vars, answer

(* A request is shed only while as many other requests as the limit allows *)
(* hold a slot.                                                            *)
LEMMA ShedsWhenFull ==
  ASSUME IInv, [Next]_vars, NEW r \in Requests, Sheds(r)
  PROVE  Cardinality(Under("limit") \ {r}) = Limit
<1>1. EnterLimit(r) /\ ~FreeSlot
  BY ShedHere
<1>2. pc[r] = "down" /\ chain[at[r]] = "limit"
  BY <1>1 DEF EnterLimit, Entering
<1>3. r \notin Under("limit")
  BY <1>2, ChainFacts DEF Under, IInv, Places, PlaceOK
<1>4. Under("limit") \ {r} = Under("limit")
  BY <1>3
<1>5. Cardinality(Under("limit")) = Limit
  BY <1>1, Counts, LimitAssumption DEF IInv, NothingLeaks, FreeSlot
<1> QED
  BY <1>4, <1>5

(* "sheds load deterministically": never with a slot free.                 *)
THEOREM ShedsAtTheLimit == Spec => ShedsOnlyWhenFull
<1>1. IInv /\ [Next]_vars
        => [\A r \in Requests : status[r] = 0 /\ status'[r] = 503
              => Cardinality(Under("limit") \ {r}) = Limit]_vars
  BY ShedsWhenFull DEF Sheds
<1> QED
  BY <1>1, InvInit, InvNext, PTL DEF Spec, ShedsOnlyWhenFull

-----------------------------------------------------------------------------
(* What becomes of a request.  A step changes the entries of one request,  *)
(* so the argument is about one request at a time.                         *)
Types == /\ depth \in [Requests -> Nat]
         /\ panicking \in [Requests -> BOOLEAN]
         /\ panicked \in [Requests -> {"no", "early", "late"}]
         /\ header \in [Requests -> SUBSET Headers]
         /\ sent \in [Requests -> SUBSET Headers]
         /\ docs \in [Requests -> SUBSET {"handler", "problem", "nameless"}]
         /\ logged \in [Requests -> Seq(Nat)]

Step(r) == Arrive(r) \/ Enter(r) \/ Handle(r) \/ Leave(r)

Answers(r) == \/ UNCHANGED answer
              \/ \E h \in SUBSET Headers : SetHeader(r, h)
              \/ \E s \in Nat \ {0}, h \in SUBSET Headers,
                    by \in SUBSET {"handler", "problem", "nameless"} : Write(r, s, h, by)

(* The entries of the answer change for r alone.                           *)
LEMMA AnswerTypes ==
  ASSUME Types, Statuses, NEW r \in Requests, Answers(r)
  PROVE  /\ header' \in [Requests -> SUBSET Headers]
         /\ sent' \in [Requests -> SUBSET Headers]
         /\ docs' \in [Requests -> SUBSET {"handler", "problem", "nameless"}]
         /\ \A q \in Requests \ {r} : /\ header'[q] = header[q] /\ sent'[q] = sent[q]
                                      /\ docs'[q] = docs[q] /\ status'[q] = status[q]
<1>1. CASE UNCHANGED answer
  BY <1>1 DEF Types, answer
<1>2. ASSUME NEW h \in SUBSET Headers, SetHeader(r, h)
      PROVE  /\ header' \in [Requests -> SUBSET Headers]
             /\ UNCHANGED <<status, sent, docs>>
             /\ \A q \in Requests \ {r} : header'[q] = header[q]
  BY <1>2 DEF Types, SetHeader
<1>3. ASSUME NEW s \in Nat \ {0}, NEW h \in SUBSET Headers,
             NEW by \in SUBSET {"handler", "problem", "nameless"}, Write(r, s, h, by)
      PROVE  /\ header' \in [Requests -> SUBSET Headers]
             /\ sent' \in [Requests -> SUBSET Headers]
             /\ docs' \in [Requests -> SUBSET {"handler", "problem", "nameless"}]
             /\ \A q \in Requests \ {r} : /\ header'[q] = header[q] /\ sent'[q] = sent[q]
                                          /\ docs'[q] = docs[q] /\ status'[q] = status[q]
  <2>1. header' \in [Requests -> SUBSET Headers]
    BY <1>3 DEF Types, Write
  <2>2. sent' \in [Requests -> SUBSET Headers]
    BY <1>3 DEF Types, Write
  <2>3. docs' \in [Requests -> SUBSET {"handler", "problem", "nameless"}]
    <3>1. docs[r] \cup by \in SUBSET {"handler", "problem", "nameless"}
      BY DEF Types
    <3> QED
      BY <1>3, <3>1 DEF Types, Write
  <2>4. \A q \in Requests \ {r} : /\ header'[q] = header[q] /\ sent'[q] = sent[q]
                                  /\ docs'[q] = docs[q] /\ status'[q] = status[q]
    BY <1>3 DEF Types, Statuses, Write
  <2> QED
    BY <2>1, <2>2, <2>3, <2>4
<1> QED
  BY <1>1, <1>2, <1>3 DEF Answers, Types

(* What an answer gets is one of these.                                    *)
LEMMA StepAnswers ==
  ASSUME Types, NEW r \in Requests, Step(r)
  PROVE  Answers(r)
<1>0. header[r] \subseteq Headers
  BY DEF Types
<1>1. ASSUME NEW s \in {413, 500, 503}, WriteProblem(r, s) PROVE Answers(r)
  <2>1. header[r] \cup {"no-store"} \in SUBSET Headers
    BY <1>0 DEF Headers
  <2>2. {IF Named(r) THEN "problem" ELSE "nameless"} \in SUBSET {"handler", "problem", "nameless"}
    OBVIOUS
  <2>3. s \in Nat \ {0}
    OBVIOUS
  <2> QED
    BY <1>1, <2>1, <2>2, <2>3 DEF Answers, WriteProblem
<1>2. ASSUME Enter(r) PROVE Answers(r)
  <2>1. CASE EnterLog(r) \/ EnterRecover(r)
    BY <2>1 DEF EnterLog, EnterRecover, Answers
  <2>2. CASE EnterLimit(r) \/ EnterBody(r)
    BY <1>1, <2>2 DEF EnterLimit, EnterBody, Answers
  <2>3. CASE EnterContext(r)
    <3>1. header[r] \cup {"id"} \in SUBSET Headers
      BY <1>0 DEF Headers
    <3> QED
      BY <2>3, <3>1 DEF EnterContext, Answers
  <2>4. CASE EnterPrivate(r)
    <3>1. (header[r] \ {"vary origin"}) \cup {"no-store", "vary authorization"} \in SUBSET Headers
      BY <1>0 DEF Headers
    <3> QED
      BY <2>4, <3>1 DEF EnterPrivate, Answers
  <2>5. CASE EnterCORS(r)
    <3>1. CORSHeader(r) \in SUBSET Headers
      BY <1>0 DEF Headers, CORSHeader, Allowed
    <3>2. (IF origin[r] = "foreign" THEN 403 ELSE 204) \in Nat \ {0}
      OBVIOUS
    <3> QED
      BY <2>5, <3>1, <3>2 DEF EnterCORS, Answers
  <2> QED
    BY <1>2, <2>1, <2>2, <2>3, <2>4, <2>5 DEF Enter
<1>3. ASSUME Handle(r) PROVE Answers(r)
  BY <1>0, <1>3 DEF Handle, HandlerWrites, HandlerReturns, HandlerPanics, Answers
<1>4. ASSUME Leave(r) PROVE Answers(r)
  BY <1>1, <1>4 DEF Leave, LeaveQuietly, LeaveLog, LeaveRecover, Recovered, LeaveLimit, Answers
<1> QED
  BY <1>2, <1>3, <1>4 DEF Step, Arrive, Answers

(* The entries of a request that a step leaves alone.                      *)
Alone(q) == /\ UNCHANGED service
            /\ at'[q] = at[q] /\ pc'[q] = pc[q]
            /\ panicking'[q] = panicking[q] /\ panicked'[q] = panicked[q]
            /\ header'[q] = header[q] /\ status'[q] = status[q]
            /\ sent'[q] = sent[q] /\ docs'[q] = docs[q]
            /\ logged'[q] = logged[q] /\ depth'[q] = depth[q]

(* A step of r leaves all other requests alone.                            *)
LEMMA OnlyR ==
  ASSUME IInv, Types, NEW r \in Requests, Step(r)
  PROVE  Types' /\ \A q \in Requests \ {r} : Alone(q)
<1>1. UNCHANGED service
  BY DEF Step, Arrive, Enter, EnterContext, EnterLog, EnterRecover, EnterLimit, EnterBody,
         EnterPrivate, EnterCORS, Entering, Handle, HandlerWrites, HandlerReturns, HandlerPanics,
         Leave, LeaveQuietly, LeaveLog, LeaveRecover, LeaveLimit, Leaving
<1>2. \/ UNCHANGED <<pc, at>> \/ Descend(r) \/ Ascend(r)
      \/ pc' = [pc EXCEPT ![r] = "down"] /\ UNCHANGED at
  BY DEF Step, Arrive, Enter, EnterContext, EnterLog, EnterRecover, EnterLimit, EnterBody,
         EnterPrivate, EnterCORS, Handle, HandlerWrites, HandlerReturns, HandlerPanics,
         Leave, LeaveQuietly, LeaveLog, LeaveRecover, LeaveLimit, Leaving
<1>3. \A q \in Requests \ {r} : at'[q] = at[q] /\ pc'[q] = pc[q]
  BY <1>2 DEF Descend, Ascend, IInv, Places
<1>4. UNCHANGED depth \/ (pc[r] = "down" /\ depth' = [depth EXCEPT ![r] = at[r]])
  BY DEF Step, Arrive, Enter, EnterContext, EnterLog, EnterRecover, EnterLimit, EnterBody,
         EnterPrivate, EnterCORS, Entering, Handle, HandlerWrites, HandlerReturns, HandlerPanics,
         Leave, LeaveQuietly, LeaveLog, LeaveRecover, LeaveLimit, Leaving, ghosts
<1>5. depth' \in [Requests -> Nat] /\ \A q \in Requests \ {r} : depth'[q] = depth[q]
  BY <1>4 DEF Types, IInv, Places
<1>6. /\ \/ UNCHANGED panicking
         \/ panicking' = [panicking EXCEPT ![r] = TRUE]
         \/ panicking' = [panicking EXCEPT ![r] = FALSE]
      /\ \/ UNCHANGED panicked
         \/ \E p \in {"early", "late"} : panicked' = [panicked EXCEPT ![r] = p]
  BY DEF Step, Arrive, Enter, EnterContext, EnterLog, EnterRecover, EnterLimit, EnterBody,
         EnterPrivate, EnterCORS, Entering, Handle, HandlerWrites, HandlerReturns, HandlerPanics,
         Leave, LeaveQuietly, LeaveLog, LeaveRecover, Recovered, LeaveLimit, Leaving, ghosts
<1>7. /\ panicking' \in [Requests -> BOOLEAN] /\ panicked' \in [Requests -> {"no", "early", "late"}]
      /\ \A q \in Requests \ {r} : panicking'[q] = panicking[q] /\ panicked'[q] = panicked[q]
  BY <1>6 DEF Types
<1>8. UNCHANGED logged \/ logged' = [logged EXCEPT ![r] = Append(@, Sent(r))]
  BY DEF Step, Arrive, Enter, EnterContext, EnterLog, EnterRecover, EnterLimit, EnterBody,
         EnterPrivate, EnterCORS, Entering, Handle, HandlerWrites, HandlerReturns, HandlerPanics,
         Leave, LeaveQuietly, LeaveLog, Line, LeaveRecover, LeaveLimit, Leaving
<1>9. logged' \in [Requests -> Seq(Nat)] /\ \A q \in Requests \ {r} : logged'[q] = logged[q]
  <2>1. Sent(r) \in Nat
    BY DEF Sent, IInv
  <2>2. logged[r] \in Seq(Nat)
    BY DEF Types
  <2>3. Append(logged[r], Sent(r)) \in Seq(Nat)
    BY <2>1, <2>2
  <2> QED
    BY <1>8, <2>3 DEF Types
<1>10. Statuses
  BY DEF IInv, Statuses
<1> QED
  BY <1>1, <1>3, <1>5, <1>7, <1>9, <1>10, StepAnswers, AnswerTypes DEF Types, Alone

(* The log lies outside of the recoverer (Outside("log", "recover"), seen  *)
(* from the log's place i).                                                *)
Covers(i) == chain[i] = "log" /\ \E j \in DOMAIN chain : i < j /\ chain[j] = "recover"

(* How far a request has come: what it has entered, what its panic has     *)
(* unwound, what its answer and its line are by then.                      *)
Report(r) ==
  /\ depth[r] <= Len(chain)
  /\ pc[r] \in {"new", "down", "handler"} =>
       ~panicking[r] /\ panicked[r] = "no" /\ logged[r] = <<>>
  /\ pc[r] \in {"new", "down"} => depth[r] = at[r] - 1 /\ status[r] = 0
  /\ pc[r] = "handler" => depth[r] = Len(chain)
  /\ pc[r] = "up" => at[r] <= depth[r]
  /\ pc[r] = "done" => at[r] = 0
  /\ status[r] = 0 => docs[r] = {}
  /\ panicking[r] => \A j \in DOMAIN chain : chain[j] = "recover" => j <= at[r]
  /\ panicked[r] = "early" =>
       /\ "handler" \notin docs[r]
       /\ Has("recover") => status[r] = 500 \/ (panicking[r] /\ status[r] = 0)
  /\ pc[r] \in {"up", "done"} =>
       \A i \in DOMAIN chain : Covers(i) /\ i <= depth[r]
         => logged[r] = IF i <= at[r] THEN <<>> ELSE <<Sent(r)>>

LEMMA ReportAlone ==
  ASSUME NEW q, Report(q), Alone(q)
  PROVE  Report(q)'
<1>1. chain' = chain
  BY DEF Alone, service
<1>2. Has("recover")' = Has("recover")
  BY <1>1 DEF Has
<1>3. \A i \in DOMAIN chain : Covers(i)' <=> Covers(i)
  BY <1>1 DEF Covers
<1> QED
  BY <1>1, <1>2, <1>3 DEF Report, Alone, Sent

(* What is at r after it went on, or back.                                 *)
LEMMA Gone ==
  ASSUME IInv, NEW r \in Requests
  PROVE  /\ Descend(r) => /\ at'[r] = at[r] + 1
                          /\ pc'[r] = IF at[r] = Len(chain) THEN "handler" ELSE "down"
         /\ Ascend(r) => /\ at'[r] = at[r] - 1
                         /\ pc'[r] = IF at[r] = 1 THEN "done" ELSE "up"
  BY DEF IInv, Places, Descend, Ascend

LEMMA Written ==
  ASSUME IInv, Types, NEW r \in Requests, NEW s, NEW h, NEW by, Write(r, s, h, by)
  PROVE  /\ header'[r] = h
         /\ status'[r] = IF status[r] = 0 THEN s ELSE status[r]
         /\ sent'[r] = IF status[r] = 0 THEN h ELSE sent[r]
         /\ docs'[r] = docs[r] \cup by
  BY DEF IInv, Types, Write

Entered(r) == /\ pc[r] = "down" /\ UNCHANGED service
              /\ panicking' = panicking /\ logged' = logged /\ panicked' = panicked
              /\ depth' = [depth EXCEPT ![r] = at[r]]

(* On its way down a request has no answer yet.                            *)
LEMMA ReportDescends ==
  ASSUME IInv, Types, NEW r \in Requests, Report(r), Entered(r), Descend(r),
         UNCHANGED status, UNCHANGED docs
  PROVE  Report(r)'
<1>1. /\ at[r] \in 1 .. Len(chain) /\ depth'[r] = at[r] /\ chain' = chain
      /\ Len(chain) \in Nat
  BY ChainFacts DEF IInv, Places, PlaceOK, Entered, Types, service
<1>2. at'[r] = at[r] + 1 /\ pc'[r] = IF at[r] = Len(chain) THEN "handler" ELSE "down"
  BY Gone
<1>3. ~panicking'[r] /\ panicked'[r] = "no" /\ logged'[r] = <<>> /\ status'[r] = 0 /\ docs'[r] = {}
  BY DEF Report, Entered
<1> QED
  BY <1>1, <1>2, <1>3 DEF Report

(* A layer other than the log answers by itself.                           *)
LEMMA ReportRefuses ==
  ASSUME IInv, Types, NEW r \in Requests, Report(r), Entered(r), Ascend(r), chain[at[r]] # "log",
         NEW s \in Nat \ {0}, NEW h, NEW by, Write(r, s, h, by)
  PROVE  Report(r)'
<1>1. /\ at[r] \in 1 .. Len(chain) /\ depth'[r] = at[r] /\ chain' = chain
      /\ Len(chain) \in Nat /\ DOMAIN chain = 1 .. Len(chain)
  BY ChainFacts DEF IInv, Places, PlaceOK, Entered, Types, service
<1>2. at'[r] = at[r] - 1 /\ pc'[r] = IF at[r] = 1 THEN "done" ELSE "up"
  BY Gone
<1>3. ~panicking'[r] /\ panicked'[r] = "no" /\ logged'[r] = <<>>
  BY DEF Report, Entered
<1>4. status'[r] # 0
  BY Written DEF Report, Entered
<1>5. ASSUME NEW i \in DOMAIN chain, chain[i] = "log", i <= at[r] PROVE i <= at'[r]
  BY <1>1, <1>2, <1>5
<1>6. \A i \in DOMAIN chain : Covers(i)' => chain[i] = "log"
  BY <1>1 DEF Covers
<1> QED
  BY <1>1, <1>2, <1>3, <1>4, <1>5, <1>6 DEF Report

LEMMA ReportEnter ==
  ASSUME IInv, Types, NEW r \in Requests, Report(r), Enter(r)
  PROVE  Report(r)'
<1>1. \A layer : Entering(r, layer) => Entered(r) /\ chain[at[r]] = layer
  BY DEF Entering, Entered
<1>2. CASE EnterContext(r) \/ EnterLog(r) \/ EnterRecover(r) \/ EnterPrivate(r)
  <2>1. Entered(r) /\ Descend(r) /\ UNCHANGED status /\ UNCHANGED docs
    BY <1>1, <1>2 DEF EnterContext, EnterLog, EnterRecover, EnterPrivate, SetHeader, answer
  <2> QED
    BY <2>1, ReportDescends
<1>3. CASE EnterLimit(r)
  <2>1. Entered(r) /\ chain[at[r]] # "log"
    BY <1>1, <1>3 DEF EnterLimit
  <2>2. CASE Descend(r) /\ UNCHANGED answer
    BY <2>1, <2>2, ReportDescends DEF answer
  <2>3. CASE WriteProblem(r, 503) /\ Ascend(r)
    BY <2>1, <2>3, ReportRefuses DEF WriteProblem
  <2> QED
    BY <1>3, <2>2, <2>3 DEF EnterLimit
<1>4. CASE EnterBody(r)
  <2>1. Entered(r) /\ chain[at[r]] # "log"
    BY <1>1, <1>4 DEF EnterBody
  <2>2. CASE Descend(r) /\ UNCHANGED answer
    BY <2>1, <2>2, ReportDescends DEF answer
  <2>3. CASE WriteProblem(r, 413) /\ Ascend(r)
    BY <2>1, <2>3, ReportRefuses DEF WriteProblem
  <2> QED
    BY <1>4, <2>2, <2>3 DEF EnterBody
<1>5. CASE EnterCORS(r)
  <2>1. Entered(r) /\ chain[at[r]] # "log"
    BY <1>1, <1>5 DEF EnterCORS
  <2>2. CASE SetHeader(r, CORSHeader(r)) /\ Descend(r)
    BY <2>1, <2>2, ReportDescends DEF SetHeader
  <2>3. ASSUME Write(r, IF origin[r] = "foreign" THEN 403 ELSE 204, CORSHeader(r), {}), Ascend(r)
        PROVE  Report(r)'
    <3>1. (IF origin[r] = "foreign" THEN 403 ELSE 204) \in Nat \ {0}
      OBVIOUS
    <3> QED
      BY <2>1, <2>3, <3>1, ReportRefuses
  <2> QED
    BY <1>5, <2>2, <2>3 DEF EnterCORS
<1> QED
  BY <1>2, <1>3, <1>4, <1>5 DEF Enter

(* The handler's answer is the first; its panic passes every recoverer.    *)
LEMMA ReportHandle ==
  ASSUME IInv, Types, NEW r \in Requests, Report(r), Handle(r)
  PROVE  Report(r)'
<1>1. /\ pc[r] = "handler" /\ at[r] = Len(chain) + 1 /\ chain' = chain /\ depth' = depth /\ logged' = logged
      /\ Len(chain) \in Nat /\ Len(chain) # 0 /\ DOMAIN chain = 1 .. Len(chain)
  BY ChainFacts DEF IInv, Places, PlaceOK, Handle, HandlerWrites, HandlerReturns, HandlerPanics,
                    service, ghosts
<1>2. ~panicking[r] /\ panicked[r] = "no" /\ logged[r] = <<>> /\ depth[r] = Len(chain)
  BY <1>1 DEF Report
<1>3. CASE HandlerWrites(r)
  <2>1. status'[r] # 0 /\ pc'[r] = "handler" /\ at'[r] = at[r]
    BY <1>1, <1>3, Written DEF HandlerWrites
  <2>2. ~panicking'[r] /\ panicked'[r] = "no"
    BY <1>2, <1>3 DEF HandlerWrites, ghosts
  <2> QED
    BY <1>1, <1>2, <2>1, <2>2 DEF Report
<1>4. ASSUME HandlerReturns(r) \/ HandlerPanics(r)
      PROVE  at'[r] = Len(chain) /\ pc'[r] = "up" /\ status' = status /\ docs' = docs
  BY <1>1, <1>4, Gone DEF HandlerReturns, HandlerPanics, answer
<1>5. CASE HandlerReturns(r)
  <2>1. ~panicking'[r] /\ panicked'[r] = "no"
    BY <1>2, <1>5 DEF HandlerReturns, ghosts
  <2> QED
    BY <1>1, <1>2, <1>4, <1>5, <2>1 DEF Report
<1>6. CASE HandlerPanics(r)
  <2>1. panicking'[r] /\ panicked'[r] = IF status[r] = 0 THEN "early" ELSE "late"
    BY <1>6 DEF HandlerPanics, Types
  <2>2. panicked'[r] = "early" => status[r] = 0 /\ docs[r] = {}
    BY <2>1 DEF Report
  <2> QED
    BY <1>1, <1>2, <1>4, <1>6, <2>1, <2>2 DEF Report
<1> QED
  BY <1>3, <1>5, <1>6 DEF Handle

(* Leaving a layer that neither logs nor recovers.                         *)
LEMMA ReportPasses ==
  ASSUME IInv, Types, NEW r \in Requests, Report(r), pc[r] = "up", Ascend(r), UNCHANGED service,
         chain[at[r]] \notin {"log", "recover"},
         UNCHANGED <<panicking, panicked, status, docs, logged, depth>>
  PROVE  Report(r)'
<1>1. /\ at[r] \in 1 .. Len(chain) /\ chain' = chain /\ Len(chain) \in Nat
      /\ DOMAIN chain = 1 .. Len(chain) /\ depth[r] \in Nat
  BY ChainFacts DEF IInv, Places, PlaceOK, Types, service
<1>2. at'[r] = at[r] - 1 /\ pc'[r] = IF at[r] = 1 THEN "done" ELSE "up"
  BY Gone
<1>3. \A i \in DOMAIN chain : chain[i] \in {"log", "recover"} => (i <= at[r] <=> i <= at'[r])
  BY <1>1, <1>2
<1>4. \A i \in DOMAIN chain : (Covers(i)' <=> Covers(i)) /\ (Covers(i) => chain[i] = "log")
  BY <1>1 DEF Covers
<1>5. Sent(r)' = Sent(r) /\ Has("recover")' = Has("recover")
  BY <1>1 DEF Sent, Has
<1> QED
  BY <1>1, <1>2, <1>3, <1>4, <1>5 DEF Report

(* The line is written once, before any layer outside can answer.          *)
LEMMA ReportLog ==
  ASSUME IInv, Types, NEW r \in Requests, Report(r), LeaveLog(r)
  PROVE  Report(r)'
<1>1. /\ pc[r] = "up" /\ chain[at[r]] = "log" /\ Ascend(r) /\ chain' = chain
      /\ UNCHANGED <<panicking, panicked, status, docs, depth>>
  BY DEF LeaveLog, Leaving, service, ghosts, answer
<1>2. /\ at[r] \in 1 .. Len(chain) /\ Len(chain) \in Nat
      /\ DOMAIN chain = 1 .. Len(chain) /\ depth[r] \in Nat
  BY <1>1, ChainFacts DEF IInv, Places, PlaceOK, Types
<1>3. at'[r] = at[r] - 1 /\ pc'[r] = IF at[r] = 1 THEN "done" ELSE "up"
  BY <1>1, Gone
<1>4. \A i \in DOMAIN chain : (Covers(i)' <=> Covers(i)) /\ (Covers(i) => i = at[r])
  BY <1>1, <1>2, ChainFacts DEF Covers, IInv
<1>5. Sent(r)' = Sent(r) /\ Has("recover")' = Has("recover")
  BY <1>1 DEF Sent, Has
<1>6. Covers(at[r]) => ~panicking[r] /\ logged[r] = <<>>
  BY <1>1, <1>2 DEF Report, Covers
<1>7. Covers(at[r]) => logged'[r] = <<Sent(r)>>
  <2>1. ASSUME ~panicking[r], logged[r] = <<>> PROVE logged'[r] = <<Sent(r)>>
    BY <2>1 DEF LeaveLog, Line, Types
  <2> QED
    BY <1>6, <2>1
<1>8. \A j \in DOMAIN chain : chain[j] = "recover" => (j <= at[r] <=> j <= at'[r])
  BY <1>1, <1>2, <1>3
<1>9. \A i \in DOMAIN chain : Covers(i)' =>
         logged'[r] = IF i <= at'[r] THEN <<>> ELSE <<Sent(r)>>
  BY <1>2, <1>3, <1>4, <1>7
<1>10. pc'[r] \in {"up", "done"} /\ (pc'[r] = "up" => at'[r] <= depth[r]) /\ (pc'[r] = "done" => at'[r] = 0)
  BY <1>1, <1>2, <1>3 DEF Report
<1> QED
  BY <1>1, <1>5, <1>8, <1>9, <1>10 DEF Report

(* The recoverer ends the panic, before the line is written.               *)
LEMMA ReportRecovers ==
  ASSUME IInv, Types, NEW r \in Requests, Report(r), LeaveRecover(r)
  PROVE  Report(r)'
<1>1. /\ pc[r] = "up" /\ chain[at[r]] = "recover" /\ Ascend(r) /\ chain' = chain
      /\ UNCHANGED <<panicked, depth, logged>>
  BY DEF LeaveRecover, Leaving, service, ghosts
<1>2. /\ at[r] \in 1 .. Len(chain) /\ Len(chain) \in Nat
      /\ DOMAIN chain = 1 .. Len(chain) /\ depth[r] \in Nat
  BY <1>1, ChainFacts DEF IInv, Places, PlaceOK, Types
<1>3. at'[r] = at[r] - 1 /\ pc'[r] = IF at[r] = 1 THEN "done" ELSE "up"
  BY <1>1, Gone
<1>4. \A i \in DOMAIN chain : (Covers(i)' <=> Covers(i)) /\ (Covers(i) => i < at[r])
  BY <1>1, <1>2, ChainFacts DEF Covers, IInv
<1>5. Has("recover")' = Has("recover")
  BY <1>1 DEF Has
<1>6. ~panicking'[r]
  BY DEF LeaveRecover, Recovered, Types
<1>7. /\ "handler" \in docs'[r] => "handler" \in docs[r]
      /\ status'[r] = 0 => status[r] = 0 /\ docs'[r] = docs[r]
      /\ status'[r] = IF panicking[r] /\ status[r] = 0 THEN 500 ELSE status[r]
  <2>1. CASE panicking[r]
    <3>1. WriteProblem(r, 500)
      BY <2>1 DEF LeaveRecover, Recovered
    <3>2. /\ status'[r] = IF status[r] = 0 THEN 500 ELSE status[r]
          /\ docs'[r] = docs[r] \cup {IF Named(r) THEN "problem" ELSE "nameless"}
      BY <3>1, Written DEF WriteProblem
    <3> QED
      BY <2>1, <3>2
  <2>2. CASE ~panicking[r]
    BY <2>2 DEF LeaveRecover, Recovered, answer
  <2> QED
    BY <2>1, <2>2
<1>8. \A i \in DOMAIN chain : Covers(i)' => i <= at[r] /\ i <= at'[r]
  BY <1>2, <1>3, <1>4
<1>9. pc'[r] \in {"up", "done"} /\ (pc'[r] = "up" => at'[r] <= depth[r]) /\ (pc'[r] = "done" => at'[r] = 0)
  BY <1>1, <1>2, <1>3 DEF Report
<1>10. \A i \in DOMAIN chain : Covers(i)' /\ i <= depth[r] => logged[r] = <<>>
  BY <1>1, <1>4, <1>8 DEF Report
<1>11. panicked[r] = "early" => "handler" \notin docs'[r] /\ (Has("recover") => status'[r] = 500)
  BY <1>7 DEF Report
<1>12. status'[r] = 0 => docs'[r] = {}
  BY <1>7 DEF Report
<1> QED
  BY <1>1, <1>5, <1>6, <1>8, <1>9, <1>10, <1>11, <1>12 DEF Report

LEMMA ReportStep ==
  ASSUME IInv, Types, NEW r \in Requests, Report(r), Step(r)
  PROVE  Report(r)'
<1>1. CASE Arrive(r)
  <2>1. /\ pc[r] = "new" /\ pc'[r] = "down"
        /\ UNCHANGED <<chain, at, panicking, panicked, status, docs, logged, depth>>
    BY <1>1 DEF Arrive, service, answer, ghosts, IInv, Places
  <2> QED
    BY <2>1 DEF Report, Has
<1>2. CASE LeaveQuietly(r) \/ LeaveLimit(r)
  <2>1. /\ pc[r] = "up" /\ Ascend(r) /\ UNCHANGED service /\ chain[at[r]] \notin {"log", "recover"}
        /\ UNCHANGED <<panicking, panicked, status, docs, logged, depth>>
    BY <1>2 DEF LeaveQuietly, LeaveLimit, Leaving, answer, ghosts
  <2> QED
    BY <2>1, ReportPasses
<1> QED
  BY <1>1, <1>2, ReportEnter, ReportHandle, ReportLog, ReportRecovers DEF Step, Leave

Reports == \A r \in Requests : Report(r)

LEMMA ReportsNext == IInv /\ Types /\ Reports /\ [Next]_vars => (Types /\ Reports)'
<1> SUFFICES ASSUME IInv, Types, Reports, [Next]_vars PROVE (Types /\ Reports)'
  OBVIOUS
<1>1. ASSUME NEW r \in Requests, Step(r) PROVE (Types /\ Reports)'
  <2>1. Types' /\ \A q \in Requests \ {r} : Alone(q)
    BY <1>1, OnlyR
  <2>2. Report(r)'
    BY <1>1, ReportStep DEF Reports
  <2>3. ASSUME NEW q \in Requests, q # r PROVE Report(q)'
    BY <2>1, <2>3, ReportAlone DEF Reports
  <2> QED
    BY <2>1, <2>2, <2>3 DEF Reports
<1>2. CASE UNCHANGED vars
  <2>1. Types'
    BY <1>2 DEF vars, answer, ghosts, Types
  <2>2. ASSUME NEW q \in Requests PROVE Alone(q)
    BY <1>2 DEF vars, answer, ghosts, Alone
  <2> QED
    BY <2>1, <2>2, ReportAlone DEF Reports
<1> QED
  BY <1>1, <1>2 DEF Next, Finished, Step

LEMMA ReportsInit == Init => Types /\ Reports
<1> SUFFICES ASSUME Init PROVE Types /\ Reports
  OBVIOUS
<1>1. Types
  BY DEF Init, Types
<1>2. ASSUME NEW r \in Requests PROVE Report(r)
  <2>1. /\ pc[r] = "new" /\ at[r] = 1 /\ depth[r] = 0 /\ status[r] = 0 /\ docs[r] = {}
        /\ ~panicking[r] /\ panicked[r] = "no" /\ logged[r] = <<>>
    BY DEF Init
  <2>2. Len(chain) \in Nat
    BY InvInit, ChainFacts DEF IInv
  <2> QED
    BY <2>1, <2>2 DEF Report
<1> QED
  BY <1>1, <1>2 DEF Reports

(* Every request's end is in the log and, if it panicked before its answer *)
(* had begun, a 500 of the recoverer's at the client, in every order of    *)
(* the layers that has the log outside of the recoverer.                   *)
THEOREM EndsAreReported == Spec => []EveryEndIsReported
<1>1. ASSUME IInv, Types, Reports, NEW r \in Requests, pc[r] = "done"
      PROVE  EarlyPanicIsAnswered(r) /\ LoggedOnce(r)
  <2>1. Report(r) /\ at[r] = 0 /\ DOMAIN chain = 1 .. Len(chain)
    BY <1>1, ChainFacts DEF Reports, Report, IInv
  <2>2. EarlyPanicIsAnswered(r)
    <3>1. Has("recover") => \E j \in DOMAIN chain : chain[j] = "recover"
      BY DEF Has, ToSet
    <3>2. Has("recover") => ~panicking[r]
      BY <2>1, <3>1 DEF Report
    <3> QED
      BY <2>1, <3>2 DEF Report, EarlyPanicIsAnswered
  <2>3. ASSUME Reached(r, "log"), Outside("log", "recover")
        PROVE  logged[r] = <<Sent(r)>>
    <3>1. PICK k \in 1 .. depth[r] : chain[k] = "log"
      BY <2>3 DEF Reached
    <3>2. PICK i, j \in DOMAIN chain : i < j /\ chain[i] = "log" /\ chain[j] = "recover"
      BY <2>3 DEF Outside
    <3>3. depth[r] <= Len(chain) /\ Len(chain) \in Nat /\ depth[r] \in Nat
      BY <1>1, ChainFacts DEF Reports, Report, IInv, Types
    <3>4. k \in DOMAIN chain /\ k = i
      BY <1>1, <2>1, <3>1, <3>2, <3>3, ChainFacts DEF IInv
    <3>5. Covers(k)
      BY <3>2, <3>4 DEF Covers
    <3> QED
      BY <1>1, <2>1, <3>1, <3>4, <3>5 DEF Report
  <2> QED
    BY <2>2, <2>3 DEF LoggedOnce
<1>2. IInv /\ Types /\ Reports => EveryEndIsReported
  BY <1>1 DEF EveryEndIsReported
<1> QED
  BY <1>2, InvInit, InvNext, ReportsInit, ReportsNext, PTL DEF Spec

-----------------------------------------------------------------------------
(* The headers are on the answer from the layer that is to put them there  *)
(* on, and stay when the answer has begun.                                 *)
Labels(r) == /\ Due(r) \subseteq header[r]
             /\ status[r] # 0 => Due(r) \subseteq sent[r]
             /\ chain[1] = "context" => "nameless" \notin docs[r]

(* What is due is decided by how deep a request has come.                  *)
LEMMA DueStays ==
  ASSUME NEW r, UNCHANGED service, depth'[r] = depth[r]
  PROVE  Due(r)' = Due(r)
<1>1. \A layer : Reached(r, layer)' <=> Reached(r, layer)
  BY DEF Reached, service
<1>2. Outside("cors", "private")' <=> Outside("cors", "private")
  BY DEF Outside, service
<1> QED
  BY <1>1, <1>2 DEF Due, service

LEMMA LabelsAlone ==
  ASSUME NEW q, Labels(q), Alone(q)
  PROVE  Labels(q)'
<1>1. Due(q)' = Due(q)
  BY DueStays DEF Alone
<1> QED
  BY <1>1 DEF Labels, Alone, service

(* A problem document has a name under an outermost RequestContext.        *)
LEMMA ProblemsAreNamed ==
  ASSUME IInv, NEW r \in Requests, pc[r] \in {"down", "up"}, chain[at[r]] # "context",
         chain[1] = "context"
  PROVE  Named(r)
<1>1. at[r] \in 1 .. Len(chain) /\ at[r] # 1
  BY DEF IInv, Places, PlaceOK
<1>2. 1 \in 1 .. at[r] - 1
  BY <1>1, ChainFacts DEF IInv
<1> QED
  BY <1>2 DEF Named

(* Entering a layer makes what it puts on the answer due, and takes        *)
(* nothing away.                                                           *)
LEMMA DueGrows ==
  ASSUME IInv, Types, NEW r \in Requests, Report(r), Entered(r)
  PROVE  /\ chain[at[r]] = "context" => Due(r)' \subseteq Due(r) \cup {"id"}
         /\ chain[at[r]] \in {"log", "recover", "limit", "body"} => Due(r)' = Due(r)
         /\ chain[at[r]] = "private" =>
              Due(r)' \subseteq (Due(r) \ {"vary origin"}) \cup {"no-store", "vary authorization"}
         /\ chain[at[r]] = "cors" =>
              Due(r)' \subseteq IF origin[r] = "allowed" THEN Due(r) \cup {"origin", "vary origin"}
                                ELSE Due(r)
<1>1. /\ at[r] \in 1 .. Len(chain) /\ depth'[r] = at[r] /\ depth[r] = at[r] - 1
      /\ Len(chain) \in Nat /\ DOMAIN chain = 1 .. Len(chain) /\ UNCHANGED service
  BY ChainFacts DEF IInv, Places, PlaceOK, Entered, Types, Report
<1>2. chain' = chain /\ origin' = origin
  BY <1>1 DEF service
<1>3. ASSUME NEW layer
      PROVE  Reached(r, layer)' <=> Reached(r, layer) \/ layer = chain[at[r]]
  BY <1>1, <1>2 DEF Reached
<1>4. Outside("cors", "private")' <=> Outside("cors", "private")
  BY <1>2 DEF Outside
<1>5. Reached(r, "cors") /\ chain[at[r]] = "private" => Outside("cors", "private")
  <2>1. ASSUME NEW i \in 1 .. depth[r], chain[i] = "cors", chain[at[r]] = "private"
        PROVE  Outside("cors", "private")
    <3>1. i \in DOMAIN chain /\ at[r] \in DOMAIN chain /\ i < at[r]
      BY <1>1
    <3> QED
      BY <2>1, <3>1 DEF Outside
  <2> QED
    BY <2>1 DEF Reached
<1>6. CASE chain[at[r]] = "context"
  BY <1>2, <1>3, <1>4, <1>6 DEF Due
<1>7. CASE chain[at[r]] \in {"log", "recover", "limit", "body"}
  BY <1>2, <1>3, <1>4, <1>7 DEF Due
<1>8. CASE chain[at[r]] = "private"
  BY <1>2, <1>3, <1>4, <1>5, <1>8 DEF Due
<1>9. CASE chain[at[r]] = "cors"
  BY <1>2, <1>3, <1>4, <1>9 DEF Due
<1> QED
  BY <1>6, <1>7, <1>8, <1>9

(* A layer that lets the request on, with h as its headers.                *)
LEMMA LabelsOn ==
  ASSUME IInv, Types, NEW r \in Requests, Report(r), Labels(r), Entered(r),
         NEW h, Due(r)' \subseteq h, header'[r] = h, UNCHANGED <<status, sent, docs>>
  PROVE  Labels(r)'
  BY DEF Labels, Report, Entered, service

(* A layer that answers.                                                   *)
LEMMA LabelsAnswer ==
  ASSUME IInv, Types, NEW r \in Requests, Report(r), Labels(r), Entered(r),
         NEW s \in Nat \ {0}, NEW h, NEW by, Write(r, s, h, by), Due(r)' \subseteq h,
         chain[1] = "context" => "nameless" \notin by
  PROVE  Labels(r)'
<1>1. status[r] = 0 /\ chain' = chain
  BY DEF Report, Entered, service
<1> QED
  BY <1>1, Written DEF Labels

LEMMA LabelsEnter ==
  ASSUME IInv, Types, NEW r \in Requests, Report(r), Labels(r), Enter(r)
  PROVE  Labels(r)'
<1>1. \A layer : Entering(r, layer) => Entered(r) /\ chain[at[r]] = layer
  BY DEF Entering, Entered
<1>2. Due(r) \subseteq header[r]
  BY DEF Labels
<1>3. ASSUME NEW h, SetHeader(r, h) PROVE header'[r] = h /\ UNCHANGED <<status, sent, docs>>
  BY <1>3 DEF SetHeader, Types
<1>4. CASE EnterContext(r)
  <2>1. Entered(r) /\ chain[at[r]] = "context" /\ SetHeader(r, header[r] \cup {"id"})
    BY <1>1, <1>4 DEF EnterContext
  <2>2. Due(r)' \subseteq header[r] \cup {"id"}
    BY <1>2, <2>1, DueGrows
  <2> QED
    BY <1>3, <2>1, <2>2, LabelsOn
<1>5. CASE EnterLog(r) \/ EnterRecover(r)
  <2>1. Entered(r) /\ chain[at[r]] \in {"log", "recover", "limit", "body"} /\ UNCHANGED answer
    BY <1>1, <1>5 DEF EnterLog, EnterRecover
  <2> QED
    BY <1>2, <2>1, DueGrows, LabelsOn DEF answer
<1>6. ASSUME NEW s \in Nat \ {0}, WriteProblem(r, s), Entered(r), chain[at[r]] \in {"limit", "body"}
      PROVE  Labels(r)'
  <2>1. chain[1] = "context" => Named(r)
    BY <1>6, ProblemsAreNamed DEF Entered
  <2>2. chain[1] = "context" => "nameless" \notin {IF Named(r) THEN "problem" ELSE "nameless"}
    BY <2>1
  <2>3. Due(r)' \subseteq header[r] \cup {"no-store"}
    BY <1>2, <1>6, DueGrows
  <2> QED
    BY <1>6, <2>2, <2>3, LabelsAnswer DEF WriteProblem
<1>7. ASSUME UNCHANGED answer, Entered(r), chain[at[r]] \in {"limit", "body"}
      PROVE  Labels(r)'
  BY <1>2, <1>7, DueGrows, LabelsOn DEF answer
<1>8. CASE EnterLimit(r)
  <2>1. Entered(r) /\ chain[at[r]] = "limit" /\ (UNCHANGED answer \/ WriteProblem(r, 503))
    BY <1>1, <1>8 DEF EnterLimit
  <2> QED
    BY <1>6, <1>7, <2>1
<1>9. CASE EnterBody(r)
  <2>1. Entered(r) /\ chain[at[r]] = "body" /\ (UNCHANGED answer \/ WriteProblem(r, 413))
    BY <1>1, <1>9 DEF EnterBody
  <2> QED
    BY <1>6, <1>7, <2>1
<1>10. CASE EnterPrivate(r)
  <2> DEFINE h == (header[r] \ {"vary origin"}) \cup {"no-store", "vary authorization"}
  <2>1. Entered(r) /\ chain[at[r]] = "private" /\ SetHeader(r, h)
    BY <1>1, <1>10 DEF EnterPrivate
  <2>2. Due(r)' \subseteq h
    BY <1>2, <2>1, DueGrows
  <2> QED
    BY <1>3, <2>1, <2>2, LabelsOn
<1>11. CASE EnterCORS(r)
  <2>1. Entered(r) /\ chain[at[r]] = "cors"
    BY <1>1, <1>11 DEF EnterCORS
  <2>2. Due(r)' \subseteq CORSHeader(r)
    BY <1>2, <2>1, DueGrows DEF CORSHeader, Allowed
  <2>3. CASE SetHeader(r, CORSHeader(r))
    BY <1>3, <2>1, <2>2, <2>3, LabelsOn
  <2>4. ASSUME Write(r, IF origin[r] = "foreign" THEN 403 ELSE 204, CORSHeader(r), {})
        PROVE  Labels(r)'
    <3>1. (IF origin[r] = "foreign" THEN 403 ELSE 204) \in Nat \ {0}
      OBVIOUS
    <3> QED
      BY <2>1, <2>2, <2>4, <3>1, LabelsAnswer
  <2> QED
    BY <1>11, <2>3, <2>4 DEF EnterCORS
<1> QED
  BY <1>4, <1>5, <1>8, <1>9, <1>10, <1>11 DEF Enter

(* The handler and the layers a request leaves make nothing due.           *)
LEMMA LabelsStep ==
  ASSUME IInv, Types, NEW r \in Requests, Report(r), Labels(r), Step(r)
  PROVE  Labels(r)'
<1>1. CASE Enter(r)
  BY <1>1, LabelsEnter
<1>2. ASSUME UNCHANGED service, depth' = depth, UNCHANGED answer
      PROVE  Labels(r)'
  BY <1>2, DueStays DEF Labels, answer, service
<1>3. CASE Arrive(r) \/ HandlerReturns(r) \/ HandlerPanics(r) \/ LeaveQuietly(r) \/ LeaveLog(r)
           \/ LeaveLimit(r)
  BY <1>2, <1>3 DEF Arrive, HandlerReturns, HandlerPanics, LeaveQuietly, LeaveLog, LeaveLimit,
                    Leaving, ghosts
<1>4. ASSUME NEW s \in Nat \ {0}, NEW h, NEW by, Write(r, s, h, by), header[r] \subseteq h,
             UNCHANGED service, depth' = depth, chain[1] = "context" => "nameless" \notin by
      PROVE  Labels(r)'
  <2>1. Due(r)' = Due(r) /\ chain' = chain
    BY <1>4, DueStays DEF service
  <2> QED
    BY <1>4, <2>1, Written DEF Labels
<1>5. CASE HandlerWrites(r)
  <2>1. UNCHANGED service /\ depth' = depth /\ Write(r, 200, header[r], {"handler"})
    BY <1>5 DEF HandlerWrites, ghosts
  <2> QED
    BY <1>4, <2>1
<1>6. CASE LeaveRecover(r)
  <2>1. UNCHANGED service /\ depth' = depth /\ pc[r] = "up" /\ chain[at[r]] = "recover"
    BY <1>6 DEF LeaveRecover, Leaving, ghosts
  <2>2. CASE ~panicking[r]
    BY <1>2, <1>6, <2>1, <2>2 DEF LeaveRecover, Recovered
  <2>3. CASE panicking[r]
    <3>1. Write(r, 500, header[r] \cup {"no-store"}, {IF Named(r) THEN "problem" ELSE "nameless"})
      BY <1>6, <2>3 DEF LeaveRecover, Recovered, WriteProblem
    <3>2. chain[1] = "context" => Named(r)
      BY <2>1, ProblemsAreNamed
    <3>3. chain[1] = "context" => "nameless" \notin {IF Named(r) THEN "problem" ELSE "nameless"}
      BY <3>2
    <3> QED
      BY <1>4, <2>1, <3>1, <3>3
  <2> QED
    BY <2>2, <2>3
<1> QED
  BY <1>1, <1>3, <1>5, <1>6 DEF Step, Handle, Leave

AllLabels == \A r \in Requests : Labels(r)

LEMMA LabelsNext == IInv /\ Types /\ Reports /\ AllLabels /\ [Next]_vars => AllLabels'
<1> SUFFICES ASSUME IInv, Types, Reports, AllLabels, [Next]_vars PROVE AllLabels'
  OBVIOUS
<1>1. ASSUME NEW r \in Requests, Step(r) PROVE AllLabels'
  <2>1. \A q \in Requests \ {r} : Alone(q)
    BY <1>1, OnlyR
  <2>2. Labels(r)'
    BY <1>1, LabelsStep DEF Reports, AllLabels
  <2>3. ASSUME NEW q \in Requests, q # r PROVE Labels(q)'
    BY <2>1, <2>3, LabelsAlone DEF AllLabels
  <2> QED
    BY <2>2, <2>3 DEF AllLabels
<1>2. CASE UNCHANGED vars
  <2>1. ASSUME NEW q \in Requests PROVE Alone(q)
    BY <1>2 DEF vars, answer, ghosts, Alone
  <2> QED
    BY <2>1, LabelsAlone DEF AllLabels
<1> QED
  BY <1>1, <1>2 DEF Next, Finished, Step

LEMMA LabelsInit == Init => AllLabels
<1> SUFFICES ASSUME Init, NEW r \in Requests PROVE Labels(r)
  BY DEF AllLabels
<1>1. depth[r] = 0 /\ status[r] = 0 /\ docs[r] = {}
  BY DEF Init
<1>2. Due(r) = {}
  BY <1>1 DEF Due, Reached
<1> QED
  BY <1>1, <1>2 DEF Labels

(* Every answer carries what the layers its request has reached put on it, *)
(* whoever writes it, in every order of the layers.                        *)
THEOREM LabelsSurvive == Spec => []AnswersAreLabelled
<1>1. AllLabels => AnswersAreLabelled
  BY DEF AllLabels, Labels, AnswersAreLabelled, SentHeader
<1> QED
  BY <1>1, InvInit, InvNext, ReportsInit, ReportsNext, LabelsInit, LabelsNext, PTL DEF Spec

=============================================================================
