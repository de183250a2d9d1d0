------------------------------- MODULE Health -------------------------------
(***************************************************************************)
(* health.Registry (health/health.go): the background evaluation of the    *)
(* dependency checks, the flags that gate readiness, and the readiness     *)
(* handler, whose reads of the flags, of the verdict and of the listed     *)
(* checks are separate steps.                                              *)
(*                                                                         *)
(* A verdict is the set of statuses of one round; the map keyed by name    *)
(* lets a status replace the one of an earlier check of that name.         *)
(***************************************************************************)
EXTENDS Naturals, Sequences, SequencesExt

CONSTANTS
  Checks,      \* checks that may be registered
  Critical,    \* the critical ones
  NameOf,      \* NameOf[c]: the name of check c
  Requests,    \* requests to the readiness endpoint
  Stops,       \* whether the context of Start may end
  MaxFlips     \* bound: how often a dependency fails or recovers

ASSUME CriticalAssumption == Critical \subseteq Checks
ASSUME FlipsAssumption == MaxFlips \in Nat /\ Stops \in BOOLEAN

VARIABLES
  checks,      \* r.checks
  status,      \* r.status: a set of [check, healthy], one per name
  started, draining,
  ctxDone,     \* the context of Start has ended
  phase,       \* evaluator: new, probing, ticking or stopped
  left,        \* checks of the round's copy still to be probed
  results,     \* the round's map
  up,          \* dependencies that answer
  flips,       \* changes of up so far
  round,       \* ghost: checks the running round found failing
  failed,      \* ghost: checks the last published round found failing
  answered,    \* ghost: some probe has succeeded
  handler      \* requests: their place, what they read, ghosts of their interval

evaluator == <<status, phase, left, results, round, failed, answered>>
environment == <<up, flips, ctxDone>>
flags == <<started, draining>>
healthVars == <<checks, evaluator, environment, flags, handler>>

Status == [check : Checks, healthy : BOOLEAN]

HealthInit == /\ checks = <<>> /\ status = {} /\ results = {} /\ left = <<>>
              /\ started = FALSE /\ draining = FALSE /\ ctxDone = FALSE
              /\ phase = "new"
              /\ up \in SUBSET Checks /\ flips = 0
              /\ round = {} /\ failed = {} /\ answered = FALSE
              /\ handler = [q \in Requests |->
                   [pc |-> "idle", ready |-> FALSE, listed |-> {},
                    drained |-> FALSE, good |-> FALSE]]

(* Mutant: any failing check takes readiness away.                         *)
EveryCheckHealthy(s) == \A e \in s : e.healthy
(* The loop of Ready.                                                      *)
CriticalHealthy(s) == \A e \in s : e.check \in Critical => e.healthy

Good(failing) == failing \cap Critical = {}

-----------------------------------------------------------------------------
(* Register, before or after Start.                                        *)
Register(c) == /\ c \notin ToSet(checks)
               /\ checks' = Append(checks, c)
               /\ UNCHANGED <<evaluator, environment, flags, handler>>

(* evaluate copies the checks under the read lock; Start makes the first   *)
(* call, a tick the others. A tick may still win the select against Done.  *)
BeginRound == /\ phase \in {"new", "ticking"}
              /\ phase' = "probing"
              /\ left' = checks /\ results' = {} /\ round' = {}
              /\ UNCHANGED <<checks, status, failed, answered, environment, flags, handler>>

(* results[c.Name] = st                                                    *)
Record(s, e) == {d \in s : NameOf[d.check] # NameOf[e.check]} \cup {e}

(* One probe, without the lock and under a timeout; after the end of the   *)
(* context it may fail whatever the dependency does.                       *)
Probe == /\ phase = "probing" /\ left # <<>>
         /\ \E healthy \in BOOLEAN :
              /\ (healthy <=> Head(left) \in up) \/ (ctxDone /\ ~healthy)
              /\ results' = Record(results, [check |-> Head(left), healthy |-> healthy])
              /\ round' = IF healthy THEN round ELSE round \cup {Head(left)}
              /\ answered' = (answered \/ healthy)
         /\ left' = Tail(left)
         /\ UNCHANGED <<checks, status, phase, failed, environment, flags, handler>>

(* Mutant: a failing check leaves no status.                               *)
HealthyOnly == {e \in results : e.healthy}
Published == results

(* The round's results replace the verdict under the write lock; the first *)
(* round is followed by started.Store and the goroutine.                   *)
Publish == /\ phase = "probing" /\ left = <<>>
           /\ status' = Published
           /\ failed' = round
           /\ phase' = IF started THEN "ticking" ELSE "starting"
           /\ handler' = [q \in Requests |->
                [handler[q] EXCEPT !.good = @ \/ Good(round)]]
           /\ UNCHANGED <<checks, left, results, round, answered, environment, flags>>

MarkStarted == /\ phase = "starting"
               /\ started' = TRUE /\ phase' = "ticking"
               /\ UNCHANGED <<checks, status, left, results, round, failed, answered,
                              environment, draining, handler>>

(* The goroutine returns on ctx.Done; the last verdict stays.              *)
StopEvaluating == /\ phase = "ticking" /\ ctxDone
                  /\ phase' = "stopped"
                  /\ UNCHANGED <<checks, status, left, results, round, failed, answered,
                                 environment, flags, handler>>

BeginDraining == /\ draining' = TRUE
                 /\ UNCHANGED <<checks, evaluator, environment, started, handler>>

ContextEnds == /\ Stops /\ ~ctxDone /\ ctxDone' = TRUE
               /\ UNCHANGED <<checks, evaluator, up, flips, flags, handler>>

(* A dependency fails or recovers.                                         *)
Flip(c) == /\ flips < MaxFlips /\ flips' = flips + 1
           /\ up' = IF c \in up THEN up \ {c} ELSE up \cup {c}
           /\ UNCHANGED <<checks, evaluator, ctxDone, flags, handler>>

-----------------------------------------------------------------------------
(* ReadinessHandler and Ready.                                             *)
Move(q, h) == handler' = [handler EXCEPT ![q] = h]

Request(q) == /\ handler[q].pc = "idle"
              /\ Move(q, [handler[q] EXCEPT !.pc = "flags", !.drained = draining,
                                            !.good = Good(failed)])
              /\ UNCHANGED <<checks, evaluator, environment, flags>>

(* Mutant: the drain flag is not consulted.                                *)
StartedOnly == started
Serving == ~draining /\ started

ReadFlags(q) == /\ handler[q].pc = "flags"
                /\ Move(q, [handler[q] EXCEPT !.pc = IF Serving THEN "verdict" ELSE "list"])
                /\ UNCHANGED <<checks, evaluator, environment, flags>>

ReadVerdict(q) == /\ handler[q].pc = "verdict"
                  /\ Move(q, [handler[q] EXCEPT !.pc = "list", !.ready = CriticalHealthy(status)])
                  /\ UNCHANGED <<checks, evaluator, environment, flags>>

(* Snapshot, under a read lock of its own, and the answer.                 *)
ListChecks(q) == /\ handler[q].pc = "list"
                 /\ Move(q, [handler[q] EXCEPT !.pc = "answered", !.listed = status])
                 /\ UNCHANGED <<checks, evaluator, environment, flags>>

HealthNext == \/ \E c \in Checks : Register(c) \/ Flip(c)
              \/ BeginRound \/ Probe \/ Publish \/ MarkStarted \/ StopEvaluating
              \/ BeginDraining \/ ContextEnds
              \/ \E q \in Requests : Request(q) \/ ReadFlags(q) \/ ReadVerdict(q) \/ ListChecks(q)

HealthSpec == HealthInit /\ [][HealthNext]_healthVars

(* The process calls Start, the ticker ticks, and every probe returns      *)
(* within its timeout.                                                     *)
FairHealthSpec == HealthSpec /\ WF_healthVars(BeginRound) /\ WF_healthVars(Probe)
                             /\ WF_healthVars(Publish) /\ WF_healthVars(MarkStarted)

-----------------------------------------------------------------------------
(* Properties.                                                             *)

Ready == Serving /\ CriticalHealthy(status)

(* Types; a verdict has one status per name.                               *)
HealthTypeOK == /\ checks \in Seq(Checks) /\ left \in Seq(Checks)
                /\ \A s \in {status, results} :
                     /\ s \subseteq Status
                     /\ \A d, e \in s : NameOf[d.check] = NameOf[e.check] => d = e
                /\ phase \in {"new", "probing", "starting", "ticking", "stopped"}
                /\ {started, draining, ctxDone, answered} \subseteq BOOLEAN
                /\ up \subseteq Checks /\ flips \in 0 .. MaxFlips
                /\ round \subseteq Checks /\ failed \subseteq Checks
                /\ \A q \in Requests :
                     /\ handler[q].pc \in {"idle", "flags", "verdict", "list", "answered"}
                     /\ handler[q].listed \subseteq Status

(* The registry reports readiness only when the last complete round found  *)
(* every critical dependency healthy: no round is seen half done, and no   *)
(* status of an earlier round survives.                                    *)
ReadyMeansHealthy == Serving => (Ready <=> Good(failed))

(* A request is answered "ready" only if draining had not begun when it    *)
(* arrived and a verdict in force since then was good, however the         *)
(* handler's reads interleave with rounds and with BeginDraining.          *)
ReadyIsEarned == \A q \in Requests :
                   handler[q].ready => ~handler[q].drained /\ handler[q].good

(* A critical dependency that stays down takes the pod out of rotation for *)
(* good, however the rounds and the changes of the others interleave, as   *)
(* long as the context of Start lives.                                     *)
OutageIsNoticed == \A c \in Critical :
  <>[](c \in ToSet(checks) /\ c \notin up /\ ~ctxDone) => <>[]~Ready

(* A pod whose critical dependencies stay up returns into rotation and     *)
(* stays there, unless it drains or its context ends.                      *)
RecoveryIsNoticed ==
  <>[](Critical \cap ToSet(checks) \subseteq up /\ ~draining /\ ~ctxDone) => <>[]Ready

(* Both: what lastingly changes in the critical dependencies, the          *)
(* readiness endpoint says in the end.                                     *)
ChangesAreNoticed == OutageIsNoticed /\ RecoveryIsNoticed
=============================================================================
