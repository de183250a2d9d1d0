--------------------------- MODULE ProviderClient ---------------------------
(***************************************************************************)
(* Client.Do with its circuit breaker and its TokenSource                  *)
(* (providers/client.go): callers the breaker lets through share one       *)
(* cached OAuth2 token behind a mutex that is held across the request to   *)
(* the token endpoint, then use the token until their call ends.  A call   *)
(* has one deadline, for the token and for the use of it; the mutex knows  *)
(* no deadline.  (A client without OAuthTokenURL is CircuitBreaker alone.) *)
(*                                                                         *)
(* Instants are kept as distances, as in CircuitBreaker: ticks until the   *)
(* token is dead or taken for dead, ticks since the call began.            *)
(***************************************************************************)
EXTENDS CircuitBreaker, Integers

CONSTANTS
  Grants,      \* what the token endpoint may answer: a life, and expires_in
  DefaultLife, \* the 300s assumed when expires_in is not positive
  Margin,      \* the minute by which Token refreshes early
  Timeout,     \* Client.timeout
  None         \* nobody

ASSUME NoneAssumption == None \notin Callers
ASSUME GrantsAssumption == Grants \subseteq [life : Nat \ {0}, says : Nat]
ASSUME TimesAssumption == {DefaultLife, Margin, Timeout} \subseteq Nat \ {0}

VARIABLES
  mutex,  \* who holds t.mu
  token,  \* t.token: ticks until the endpoint lets it die, and until expiresAt
  phase,  \* where a call is: lock, mint, reply, using or failed
  age,    \* ticks its deadline has run
  held    \* the token a caller uses, or the endpoint's reply

client  == <<mutex, token, phase, age, held>>
allVars == <<vars, client>>

Phases  == {"none", "lock", "mint", "reply", "using", "failed"}
NoToken == [dies |-> 0, expires |-> 0]
NoReply == [dies |-> 0, says |-> 0]

ClientInit == /\ Init
              /\ mutex = None /\ token = NoToken
              /\ phase = [c \in Callers |-> "none"]
              /\ age = [c \in Callers |-> 0]
              /\ held = [c \in Callers |-> NoReply]

Enter(c, label) == phase' = [phase EXCEPT ![c] = label]
Overdue(c) == age[c] >= Timeout

-----------------------------------------------------------------------------
(* Before the call: the breaker and the limiter.                           *)

AskAllow(c) == Allow(c) /\ UNCHANGED client
GiveUp(c) == AbortCall(c) /\ UNCHANGED client

(* context.WithTimeout, then Token locks the mutex.                        *)
Begin(c) == /\ Issue(c)
            /\ Enter(c, "lock")
            /\ age' = [age EXCEPT ![c] = 0]
            /\ UNCHANGED <<mutex, token, held>>

-----------------------------------------------------------------------------
(* TokenSource.Token.                                                      *)

(* Mutant: a token is used until it expires.                               *)
FreshToTheEnd == token.expires > 0
(* token != "" and time.Now before expiresAt - 1 minute.                   *)
Fresh == token.expires > Margin

(* Lock, a fresh token, Unlock.                                            *)
Hit(c) == /\ phase[c] = "lock" /\ mutex = None /\ Fresh
          /\ held' = [held EXCEPT ![c] = [dies |-> token.dies, says |-> 0]]
          /\ Enter(c, "using")
          /\ UNCHANGED <<vars, mutex, token, age>>

(* Mutant: the mutex is released around the request.                       *)
KeepMutexOpen(c) == UNCHANGED mutex
KeepMutex(c) == mutex' = c

Miss(c) == /\ phase[c] = "lock" /\ mutex = None /\ ~Fresh
           /\ KeepMutex(c)
           /\ Enter(c, "mint")
           /\ UNCHANGED <<vars, token, age, held>>

(* The endpoint grants a token.  A call past its deadline does not reach   *)
(* the endpoint.                                                           *)
Grant(c) == /\ phase[c] = "mint" /\ ~Overdue(c)
            /\ \E g \in Grants : held' = [held EXCEPT ![c] = [dies |-> g.life, says |-> g.says]]
            /\ Enter(c, "reply")
            /\ UNCHANGED <<vars, mutex, token, age>>

(* Mutant: an error path that forgets the mutex.                           *)
UnlockNever == UNCHANGED mutex
Unlock == mutex' = None

(* The reply is decoded; expiresAt counts from now, not from the grant.    *)
Receive(c) ==
  /\ phase[c] = "reply" /\ ~Overdue(c)
  /\ token' = [dies    |-> held[c].dies,
               expires |-> IF held[c].says <= 0 THEN DefaultLife ELSE held[c].says]
  /\ held' = [held EXCEPT ![c] = [dies |-> held[c].dies, says |-> 0]]
  /\ mutex' = None
  /\ Enter(c, "using")
  /\ UNCHANGED <<vars, age>>

(* The deadline, a transport error, another status than 200, no token:     *)
(* Token returns an error and the cached token stays as it was.            *)
TokenFails(c) == /\ phase[c] \in {"mint", "reply"}
                 /\ Unlock
                 /\ held' = [held EXCEPT ![c] = NoReply]
                 /\ Enter(c, "failed")
                 /\ UNCHANGED <<vars, token, age>>

-----------------------------------------------------------------------------
(* Do records the outcome and returns: any, at the deadline at the latest, *)
(* once it has a token; a failure without one.                             *)
Finish(c) == /\ \/ phase[c] = "using" /\ CallSucceeds(c)
                \/ phase[c] \in {"using", "failed"} /\ CallFails(c)
             /\ Enter(c, "none")
             /\ age' = [age EXCEPT ![c] = 0]
             /\ held' = [held EXCEPT ![c] = NoReply]
             /\ UNCHANGED <<mutex, token>>

Less(ticks) == IF ticks > 0 THEN ticks - 1 ELSE 0

(* Time passes.  Contexts end calls at their deadline; only the mutex      *)
(* makes them wait on.                                                     *)
Elapse ==
  /\ Tick
  /\ \A c \in Callers : phase[c] \in {"mint", "reply", "using", "failed"} => ~Overdue(c)
  /\ age' = [c \in Callers |-> IF phase[c] = "none" THEN 0 ELSE Older(age[c], Timeout)]
  /\ token' = [dies |-> Less(token.dies), expires |-> Less(token.expires)]
  /\ held' = [c \in Callers |-> [dies |-> Less(held[c].dies), says |-> held[c].says]]
  /\ UNCHANGED <<mutex, phase>>

AskToken(c) == Grant(c) \/ Receive(c) \/ TokenFails(c)

ClientNext == Elapse \/ \E c \in Callers : \/ AskAllow(c) \/ GiveUp(c) \/ Begin(c)
                                           \/ Hit(c) \/ Miss(c) \/ AskToken(c) \/ Finish(c)

ClientSpec == ClientInit /\ [][ClientNext]_allVars

(* Time passes and work keeps arriving; the limiter grants its tokens,     *)
(* contexts end, and sync.Mutex is handed to each of its waiters.          *)
FairClientSpec ==
  /\ ClientSpec /\ WF_allVars(Elapse)
  /\ \A c \in Callers : /\ WF_allVars(AskAllow(c)) /\ WF_allVars(Begin(c))
                        /\ SF_allVars(Hit(c) \/ Miss(c))
                        /\ WF_allVars(AskToken(c)) /\ WF_allVars(Finish(c))

-----------------------------------------------------------------------------
(* Properties.                                                             *)

(* Types: the breaker's, and the mutex is held by nobody but a caller that *)
(* is busy with the endpoint.                                              *)
ClientTypeOK ==
  /\ TypeOK
  /\ mutex \in {c \in Callers : phase[c] \in {"mint", "reply"}} \cup {None}
  /\ token \in [dies : Nat, expires : Nat]
  /\ phase \in [Callers -> Phases]
  /\ \A c \in Callers : phase[c] # "none" <=> pc[c] = "calling"
  /\ age \in [Callers -> 0 .. Timeout]
  /\ held \in [Callers -> [dies : Nat, says : Nat]]

(* No token dies in the hands of a caller ("Refresh a minute early so that *)
(* a token never expires mid-flight"), although the reply that brought it  *)
(* was under way for a while and others have used it since.                *)
NeverExpiresMidFlight == \A c \in Callers : phase[c] = "using" => held[c].dies > 0

(* The endpoint is asked only while no fresh token is cached, by one       *)
(* caller at a time: those who waited for the mutex reuse what it minted.  *)
MintsOnlyWhenStale == \A c, d \in Callers :
  phase[c] \in {"mint", "reply"} => ~Fresh /\ (phase[d] \in {"mint", "reply"} => c = d)

(* Every call ends, whatever the endpoint answers and whoever is waiting.  *)
CallReturns == \A c \in Callers : pc[c] = "calling" ~> pc[c] = "idle"
=============================================================================
