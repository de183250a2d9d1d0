--------------------------- MODULE CircuitBreaker ---------------------------
(***************************************************************************)
(* providers/circuit.go and the way Client.Do (providers/client.go) uses   *)
(* it: concurrent callers ask Allow, wait for the rate limiter, call the   *)
(* provider and record the outcome, each breaker method under its mutex.   *)
(*                                                                         *)
(* Instants are kept as ages: openAge is time.Since(openedAt), failures    *)
(* holds the ages of the recorded failures.  An age is capped once no      *)
(* comparison can tell it from an older one, so time is unbounded.         *)
(*                                                                         *)
(* role is a history variable: the call a half-open breaker admitted is    *)
(* its probe for as long as the breaker stays half open.                   *)
(***************************************************************************)
EXTENDS Naturals, Sequences, FiniteSets

CONSTANTS
  Callers,    \* goroutines that call Client.Do
  Threshold,  \* NewCircuitBreaker's threshold
  Window,     \* its window
  Cooldown,   \* its cooldown
  Aborts      \* whether a call may end between Allow and the request

(* NewCircuitBreaker replaces what is not positive by its defaults.        *)
ASSUME BreakerAssumption == /\ Threshold \in Nat \ {0} /\ Window \in Nat \ {0}
                            /\ Cooldown \in Nat \ {0}
ASSUME CallersAssumption == IsFiniteSet(Callers) /\ Aborts \in BOOLEAN

VARIABLES state, failures, openAge, halfOpenUse, pc, role

breaker == <<state, failures, openAge, halfOpenUse>>
vars == <<state, failures, openAge, halfOpenUse, pc, role>>

States == {"closed", "open", "half_open"}

Init == /\ state = "closed" /\ failures = <<>>
        /\ openAge = 0 /\ halfOpenUse = FALSE
        /\ pc = [c \in Callers |-> "idle"]
        /\ role = [c \in Callers |-> "plain"]

-----------------------------------------------------------------------------
(* The breaker.                                                            *)

(* Mutant: the cooldown is never over.                                     *)
CooledDownNever == openAge > Cooldown
CooledDown == openAge >= Cooldown

(* Mutant: a half-open breaker admits everybody.                           *)
ProbeFreeAlways == TRUE
(* Nobody has been admitted since the breaker became half open.            *)
ProbeFree == state = "open" \/ ~halfOpenUse

(* Mutant: the threshold is passed, not reached.                           *)
TripsAbove(f) == state = "half_open" \/ Len(f) > Threshold
Trips(f) == state = "half_open" \/ Len(f) >= Threshold

(* t.After(now - window).  The list is in the order of time, so what the   *)
(* loop keeps is the list without its oldest entries.                      *)
Kept(f) == LET expired == {i \in 1 .. Len(f) : f[i] >= Window}
           IN  SubSeq(f, Cardinality(expired) + 1, Len(f))

(* When the breaker leaves half_open, a call still in flight is no longer  *)
(* its probe.                                                              *)
ForgetProbes == role' = [c \in Callers |-> "plain"]

RecordSuccess == /\ failures' = <<>>
                 /\ state' = "closed"
                 /\ ForgetProbes
                 /\ UNCHANGED <<openAge, halfOpenUse>>

RecordFailure ==
  LET f == Append(Kept(failures), 0)
  IN  /\ failures' = f
      /\ IF Trips(f)
         THEN /\ state' = "open" /\ openAge' = 0 /\ halfOpenUse' = FALSE
              /\ ForgetProbes
         ELSE UNCHANGED <<state, openAge, halfOpenUse, role>>

-----------------------------------------------------------------------------
(* Client.Do.                                                              *)

Goto(c, label) == pc' = [pc EXCEPT ![c] = label]

(* Allow answers true in the closed state.                                 *)
Admit(c) == /\ pc[c] = "idle"
            /\ state = "closed"
            /\ Goto(c, "waiting")
            /\ UNCHANGED <<breaker, role>>

(* Allow admits the probe: of a half-open breaker, or of an open one whose *)
(* cooldown is over.                                                       *)
AdmitProbe(c) == /\ pc[c] = "idle"
                 /\ state = "half_open" \/ (state = "open" /\ CooledDown)
                 /\ ProbeFree
                 /\ state' = "half_open" /\ halfOpenUse' = TRUE
                 /\ Goto(c, "waiting")
                 /\ role' = [role EXCEPT ![c] = "probe"]
                 /\ UNCHANGED <<failures, openAge>>

(* Allow answers false: ErrCircuitOpen, and the breaker is as it was.      *)
Reject(c) == /\ pc[c] = "idle"
             /\ \/ state = "open" /\ ~CooledDown
                \/ state = "half_open" /\ ~ProbeFree
             /\ UNCHANGED vars

(* limiter.Wait fails (the context ends), the body cannot be encoded or    *)
(* the request not be built: Do returns and records nothing.               *)
AbortCall(c) == /\ Aborts
                /\ pc[c] = "waiting"
                /\ Goto(c, "idle")
                /\ role' = [role EXCEPT ![c] = "plain"]
                /\ UNCHANGED breaker

Issue(c) == /\ pc[c] = "waiting"
            /\ Goto(c, "calling")
            /\ UNCHANGED <<breaker, role>>

(* Any answer but 429 and 5xx.                                             *)
CallSucceeds(c) == /\ pc[c] = "calling"
                   /\ RecordSuccess
                   /\ Goto(c, "idle")

(* No token, a transport error, a timeout, a truncated body, 429 or 5xx.   *)
CallFails(c) == /\ pc[c] = "calling"
                /\ RecordFailure
                /\ Goto(c, "idle")

Older(age, cap) == IF age < cap THEN age + 1 ELSE age

Tick == /\ openAge' = Older(openAge, Cooldown)
        /\ failures' = [i \in 1 .. Len(failures) |-> Older(failures[i], Window)]
        /\ UNCHANGED <<state, halfOpenUse, pc, role>>

Allow(c) == Admit(c) \/ AdmitProbe(c) \/ Reject(c)
Call(c)  == Issue(c) \/ CallSucceeds(c) \/ CallFails(c)

Next == Tick \/ \E c \in Callers : Allow(c) \/ AbortCall(c) \/ Call(c)

Spec == Init /\ [][Next]_vars

-----------------------------------------------------------------------------
(* Properties.                                                             *)

(* Types.  The failure list stays short: at most one entry per call in     *)
(* flight beyond the threshold, and one per probe the window has room for. *)
TypeOK == /\ state \in States
          /\ failures \in Seq(0 .. Window)
          /\ Len(failures) <= Threshold + Cardinality(Callers) + (Window \div Cooldown)
          /\ openAge \in 0 .. Cooldown
          /\ halfOpenUse \in BOOLEAN
          /\ pc \in [Callers -> {"idle", "waiting", "calling"}]
          /\ role \in [Callers -> {"plain", "probe"}]

Probes == {c \in Callers : role[c] = "probe"}

(* A half-open episode has at most one probe, whatever earlier calls and   *)
(* earlier probes answer meanwhile (Allow: "Exactly one probe is           *)
(* admitted").                                                             *)
OneProbe == /\ \A c, d \in Probes : c = d
            /\ Probes # {} => state = "half_open" /\ halfOpenUse

(* A closed breaker has fewer failures on record than the threshold, so    *)
(* Threshold consecutive failures within the window always trip it.        *)
ClosedBelowThreshold == state = "closed" => Len(failures) < Threshold

(* The breaker never stays half open: the probe it admitted decides        *)
(* (Allow: "its outcome decides the next state").                          *)
HalfOpenResolves == state = "half_open" ~> state # "half_open"

(* The breaker never stays open: after the cooldown a call is let through. *)
OpenResolves == state = "open" ~> state # "open"
=============================================================================
