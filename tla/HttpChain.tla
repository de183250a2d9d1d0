----------------------------- MODULE HttpChain -----------------------------
(***************************************************************************)
(* The middleware of httpx/middleware.go that hold something for the time  *)
(* of a request, answer it themselves or put headers on its answer:        *)
(* RequestContext ("context"), AccessLog ("log"), Recoverer ("recover"),   *)
(* Concurrency ("limit"), MaxBody ("body"), PrivateCache ("private") and   *)
(* CORS ("cors").  The service puts them into an order of its own, so the  *)
(* order is a parameter.  Concurrent requests pass the layers on their way *)
(* down to the handler and, returning or panicking, on their way up again. *)
(*                                                                         *)
(* A request has one header map: every layer adds to it, and what it holds *)
(* at the first WriteHeader is sent.  Informational (1xx) answers, which   *)
(* responseWriter would take for the final one, are left out.              *)
(***************************************************************************)
EXTENDS Naturals, Sequences, FiniteSets, SequencesExt

CONSTANTS
  Requests,
  Oversized,  \* requests that announce a body beyond MaxBody's limit
  Preflights, \* OPTIONS requests
  Origins,    \* from where requests come: functions to "none", "allowed", "foreign"
  Chains,     \* orders of the layers, the outermost first
  Limit       \* Concurrency's limit

ASSUME RequestsAssumption == /\ IsFiniteSet(Requests)
                             /\ Oversized \subseteq Requests /\ Preflights \subseteq Requests
ASSUME OriginsAssumption == Origins \subseteq [Requests -> {"none", "allowed", "foreign"}]
ASSUME LimitAssumption == Limit \in Nat

Layers == {"context", "log", "recover", "limit", "body", "private", "cors"}
ASSUME ChainsAssumption == \A c \in Chains : c \in Seq(Layers) /\ c # <<>> /\ IsInjective(c)

VARIABLES
  chain,      \* the service's order
  origin,     \* where the requests come from
  slots,      \* the semaphore
  gauge,      \* observability.HTTPInFlight
  pc,         \* new, down, handler, up or done
  at,         \* the layer a request is about to enter or to leave
  panicking,  \* whether its stack is unwinding
  header,     \* what is in the header map of its answer
  status,     \* the status line sent to the client, 0 for none
  sent,       \* the headers that went with it
  docs,       \* whose body was written: "handler", "problem", or "nameless",
              \* a problem document without a request id
  logged,     \* the statuses of its access log lines
  panicked,   \* ghost: "no", or whether the handler panicked "early" or "late"
  depth       \* ghost: the innermost layer the request has entered

service == <<chain, origin>>
counters == <<slots, gauge>>
answer == <<header, status, sent, docs>>
ghosts == <<panicked, depth>>
vars == <<service, counters, pc, at, panicking, answer, logged, ghosts>>

Init == /\ chain \in Chains /\ origin \in Origins
        /\ slots = 0 /\ gauge = 0
        /\ pc = [r \in Requests |-> "new"]
        /\ at = [r \in Requests |-> 1]
        /\ panicking = [r \in Requests |-> FALSE]
        /\ header = [r \in Requests |-> {}]
        /\ status = [r \in Requests |-> 0]
        /\ sent = [r \in Requests |-> {}]
        /\ docs = [r \in Requests |-> {}]
        /\ logged = [r \in Requests |-> <<>>]
        /\ panicked = [r \in Requests |-> "no"]
        /\ depth = [r \in Requests |-> 0]

-----------------------------------------------------------------------------
Descend(r) == /\ at' = [at EXCEPT ![r] = @ + 1]
              /\ pc' = [pc EXCEPT ![r] = IF at[r] = Len(chain) THEN "handler" ELSE "down"]
Ascend(r) == /\ at' = [at EXCEPT ![r] = @ - 1]
             /\ pc' = [pc EXCEPT ![r] = IF at[r] = 1 THEN "done" ELSE "up"]

Entering(r, layer) == /\ pc[r] = "down" /\ chain[at[r]] = layer
                      /\ depth' = [depth EXCEPT ![r] = at[r]]
                      /\ UNCHANGED <<service, panicking, logged, panicked>>
Leaving(r, layer) == /\ pc[r] = "up" /\ chain[at[r]] = layer
                     /\ Ascend(r)
                     /\ UNCHANGED <<service, ghosts>>

(* The first WriteHeader decides, with the headers h; a body is appended   *)
(* to what is there.                                                       *)
Write(r, s, h, by) ==
  /\ header' = [header EXCEPT ![r] = h]
  /\ status' = [status EXCEPT ![r] = IF @ = 0 THEN s ELSE @]
  /\ sent' = [sent EXCEPT ![r] = IF status[r] = 0 THEN h ELSE @]
  /\ docs' = [docs EXCEPT ![r] = @ \cup by]

SetHeader(r, h) == /\ header' = [header EXCEPT ![r] = h]
                   /\ UNCHANGED <<status, sent, docs>>

(* The layer the request is at works with the context of a RequestContext  *)
(* outside of it.                                                          *)
Named(r) == \E i \in 1 .. at[r] - 1 : chain[i] = "context"

WriteProblem(r, s) == Write(r, s, header[r] \cup {"no-store"},
                            {IF Named(r) THEN "problem" ELSE "nameless"})

(* net/http sends 200 for a handler that wrote nothing.                    *)
Sent(r) == IF status[r] = 0 THEN 200 ELSE status[r]
SentHeader(r) == IF status[r] = 0 THEN header[r] ELSE sent[r]

-----------------------------------------------------------------------------
Arrive(r) == /\ pc[r] = "new"
             /\ pc' = [pc EXCEPT ![r] = "down"]
             /\ UNCHANGED <<service, counters, at, panicking, answer, logged, ghosts>>

EnterContext(r) == /\ Entering(r, "context")
                   /\ SetHeader(r, header[r] \cup {"id"})
                   /\ Descend(r)
                   /\ UNCHANGED counters

EnterLog(r) == /\ Entering(r, "log")
               /\ gauge' = gauge + 1
               /\ Descend(r)
               /\ UNCHANGED <<slots, answer>>

EnterRecover(r) == /\ Entering(r, "recover")
                   /\ Descend(r)
                   /\ UNCHANGED <<counters, answer>>

(* Mutant: one slot too many.                                              *)
FreeSlotOneMore == slots <= Limit
FreeSlot == slots < Limit

(* The select on the semaphore, whose default sheds the request.           *)
EnterLimit(r) ==
  /\ Entering(r, "limit")
  /\ \/ FreeSlot /\ slots' = slots + 1 /\ Descend(r) /\ UNCHANGED answer
     \/ ~FreeSlot /\ WriteProblem(r, 503) /\ Ascend(r) /\ UNCHANGED slots
  /\ UNCHANGED gauge

EnterBody(r) ==
  /\ Entering(r, "body")
  /\ \/ r \in Oversized /\ WriteProblem(r, 413) /\ Ascend(r)
     \/ r \notin Oversized /\ Descend(r) /\ UNCHANGED answer
  /\ UNCHANGED counters

(* Vary is set: what an outer layer has put there is gone.                 *)
EnterPrivate(r) == /\ Entering(r, "private")
                   /\ SetHeader(r, (header[r] \ {"vary origin"}) \cup {"no-store", "vary authorization"})
                   /\ Descend(r)
                   /\ UNCHANGED counters

(* Mutant: Vary is set where it is to be added to.                         *)
AllowedSetsVary(r) == (header[r] \ {"vary authorization"}) \cup {"origin", "vary origin"}
Allowed(r) == header[r] \cup {"origin", "vary origin"}
CORSHeader(r) == IF origin[r] = "allowed" THEN Allowed(r) ELSE header[r]

(* A preflight is answered here, from whatever origin.                     *)
EnterCORS(r) ==
  /\ Entering(r, "cors")
  /\ \/ /\ r \in Preflights
        /\ Write(r, IF origin[r] = "foreign" THEN 403 ELSE 204, CORSHeader(r), {})
        /\ Ascend(r)
     \/ r \notin Preflights /\ SetHeader(r, CORSHeader(r)) /\ Descend(r)
  /\ UNCHANGED counters

(* The handler: it starts its answer, returns or panics.                   *)
HandlerWrites(r) == /\ pc[r] = "handler" /\ docs[r] = {}
                    /\ Write(r, 200, header[r], {"handler"})
                    /\ UNCHANGED <<service, counters, pc, at, panicking, logged, ghosts>>

HandlerReturns(r) == /\ pc[r] = "handler"
                     /\ Ascend(r)
                     /\ UNCHANGED <<service, counters, panicking, answer, logged, ghosts>>

HandlerPanics(r) == /\ pc[r] = "handler"
                    /\ panicking' = [panicking EXCEPT ![r] = TRUE]
                    /\ panicked' = [panicked EXCEPT ![r] =
                         IF status[r] = 0 THEN "early" ELSE "late"]
                    /\ Ascend(r)
                    /\ UNCHANGED <<service, counters, answer, logged, depth>>

(* RequestContext, MaxBody, PrivateCache and CORS do nothing on the way up. *)
LeaveQuietly(r) == /\ \E layer \in {"context", "body", "private", "cors"} : Leaving(r, layer)
                   /\ UNCHANGED <<counters, panicking, answer, logged>>

(* The line and the metrics follow ServeHTTP, which a panic never leaves.  *)
Line(r) == IF panicking[r] THEN UNCHANGED logged
           ELSE logged' = [logged EXCEPT ![r] = Append(@, Sent(r))]

LeaveLog(r) == /\ Leaving(r, "log")
               /\ gauge' = gauge - 1
               /\ Line(r)
               /\ UNCHANGED <<slots, panicking, answer>>

(* Mutant: http.ErrAbortHandler and every other panic goes on.             *)
RecoveredNever(r) == UNCHANGED <<panicking, answer>>
(* Every panic is answered: the error that errors.Is is given wraps        *)
(* nothing, so http.ErrAbortHandler is not told apart.                     *)
Recovered(r) == IF panicking[r]
                THEN panicking' = [panicking EXCEPT ![r] = FALSE] /\ WriteProblem(r, 500)
                ELSE UNCHANGED <<panicking, answer>>

LeaveRecover(r) == /\ Leaving(r, "recover")
                   /\ Recovered(r)
                   /\ UNCHANGED <<counters, logged>>

(* Mutant: the slot is not released by a deferred function.                *)
SlotsAfterReturnOnly(r) == IF panicking[r] THEN slots ELSE slots - 1
SlotsAfter(r) == slots - 1

LeaveLimit(r) == /\ Leaving(r, "limit")
                 /\ slots' = SlotsAfter(r)
                 /\ UNCHANGED <<gauge, panicking, answer, logged>>

Finished == (\A r \in Requests : pc[r] = "done") /\ UNCHANGED vars

Enter(r) == \/ EnterContext(r) \/ EnterLog(r) \/ EnterRecover(r) \/ EnterLimit(r)
            \/ EnterBody(r) \/ EnterPrivate(r) \/ EnterCORS(r)
Leave(r) == LeaveQuietly(r) \/ LeaveLog(r) \/ LeaveRecover(r) \/ LeaveLimit(r)
Handle(r) == HandlerWrites(r) \/ HandlerReturns(r) \/ HandlerPanics(r)

Next == \/ \E r \in Requests : Arrive(r) \/ Enter(r) \/ Handle(r) \/ Leave(r)
        \/ Finished

Spec == Init /\ [][Next]_vars

-----------------------------------------------------------------------------
(* Properties.                                                             *)

(* Types.                                                                  *)
Headers == {"id", "no-store", "origin", "vary origin", "vary authorization"}
TypeOK == /\ chain \in Chains /\ origin \in Origins
          /\ slots \in 0 .. Limit /\ gauge \in 0 .. Cardinality(Requests)
          /\ pc \in [Requests -> {"new", "down", "handler", "up", "done"}]
          /\ at \in [Requests -> 0 .. Len(chain) + 1]
          /\ panicking \in [Requests -> BOOLEAN]
          /\ header \in [Requests -> SUBSET Headers] /\ sent \in [Requests -> SUBSET Headers]
          /\ status \in [Requests -> {0, 200, 204, 403, 413, 500, 503}]
          /\ docs \in [Requests -> SUBSET {"handler", "problem", "nameless"}]
          /\ \A r \in Requests : logged[r] \in Seq(Nat) /\ Len(logged[r]) <= 1
          /\ panicked \in [Requests -> {"no", "early", "late"}]
          /\ depth \in [Requests -> 0 .. Len(chain)]

Has(layer) == layer \in ToSet(chain)
Outside(outer, inner) == \E i, j \in DOMAIN chain :
                           i < j /\ chain[i] = outer /\ chain[j] = inner

(* The request has been let in by the layers outside of this one.          *)
Reached(r, layer) == \E i \in 1 .. depth[r] : chain[i] = layer

(* The requests that have entered a layer and not left it.                 *)
Under(layer) == {r \in Requests :
  /\ pc[r] \in {"down", "handler", "up"}
  /\ \E i \in DOMAIN chain : /\ chain[i] = layer
                             /\ i < at[r] \/ (i = at[r] /\ pc[r] = "up")}

(* Slots and the in-flight gauge count the requests under their layer:     *)
(* neither a refusal or a preflight answered further down nor a panic      *)
(* leaks or frees a slot twice, in whatever order the layers are, and      *)
(* Limit is not exceeded.                                                  *)
NothingLeaks == /\ slots = Cardinality(Under("limit")) /\ slots <= Limit
                /\ gauge = Cardinality(Under("log"))

(* Load is shed only while the limit's worth of other requests is being    *)
(* served ("sheds load deterministically").                                *)
ShedsOnlyWhenFull ==
  [][\A r \in Requests : status[r] = 0 /\ status'[r] = 503
       => Cardinality(Under("limit") \ {r}) = Limit]_vars

(* A panic before the answer has begun reaches the client as a 500, and    *)
(* nothing but a problem document.                                         *)
EarlyPanicIsAnswered(r) ==
  panicked[r] = "early" /\ Has("recover") => status[r] = 500 /\ "handler" \notin docs[r]

(* "records one structured line per request", with the status that was     *)
(* sent, for services that put AccessLog outside of Recoverer.             *)
LoggedOnce(r) ==
  Reached(r, "log") /\ Outside("log", "recover") => logged[r] = <<Sent(r)>>

(* Whatever becomes of a request, the client and the log hear of it, and   *)
(* of the same status.                                                     *)
EveryEndIsReported == \A r \in Requests :
  pc[r] = "done" => EarlyPanicIsAnswered(r) /\ LoggedOnce(r)

(* The headers a layer has put on the answer.  CORS's Vary survives only   *)
(* where PrivateCache, which overwrites it, is not inside.                 *)
Due(r) == (IF Reached(r, "context") THEN {"id"} ELSE {})
            \cup (IF Reached(r, "private") THEN {"no-store", "vary authorization"} ELSE {})
            \cup (IF Reached(r, "cors") /\ origin[r] = "allowed"
                  THEN {"origin"} \cup (IF Outside("cors", "private") THEN {} ELSE {"vary origin"})
                  ELSE {})

(* Every answer carries what the layers the request has reached put on it, *)
(* whichever layer writes it: a problem document of a layer further out,   *)
(* after a panic, is readable across origins and private like the          *)
(* handler's answer.  Under an outermost RequestContext no problem         *)
(* document lacks the request id.                                          *)
AnswersAreLabelled == \A r \in Requests :
  pc[r] = "done" => /\ Due(r) \subseteq SentHeader(r)
                    /\ chain[1] = "context" => "nameless" \notin docs[r]
=============================================================================
