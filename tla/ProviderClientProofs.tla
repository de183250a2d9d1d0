------------------------ MODULE ProviderClientProofs ------------------------
(***************************************************************************)
(* Proofs about ProviderClient and the CircuitBreaker it extends, for any  *)
(* number of callers, any threshold, window and cooldown and any grants.   *)
(* First the breaker by itself; then that the client drives it only by its *)
(* own steps, so that what is proved of the breaker holds in the client,   *)
(* and that the token mutex makes minting exclusive.                       *)
(***************************************************************************)
EXTENDS ProviderClient, FiniteSetTheorems, SequenceTheorems, TLAPS

-----------------------------------------------------------------------------
(* The breaker by itself.                                                  *)

(* What the argument needs of the types.                                   *)
Types == /\ state \in States
         /\ halfOpenUse \in BOOLEAN
         /\ failures \in Seq(Nat)
         /\ role \in [Callers -> {"plain", "probe"}]
         /\ pc \in [Callers -> {"idle", "waiting", "calling"}]

(* The inductive invariant: the slot is taken exactly while a probe is     *)
(* under way, and a closed breaker has fewer failures on record than its   *)
(* threshold.                                                              *)
IInv == Types /\ OneProbe /\ ClosedBelowThreshold

(* A new breaker is closed, with nothing on record and no probe.           *)
LEMMA InvInit == Init => IInv
<1> SUFFICES ASSUME Init PROVE IInv
  OBVIOUS
<1>1. Types
  <2>1. failures \in Seq(Nat) /\ state \in States
    BY DEF Init, States
  <2>2. halfOpenUse \in BOOLEAN
    BY DEF Init
  <2>3. /\ role \in [Callers -> {"plain", "probe"}]
        /\ pc \in [Callers -> {"idle", "waiting", "calling"}]
    BY DEF Init
  <2> QED
    BY <2>1, <2>2, <2>3 DEF Types
<1>2. OneProbe
  BY DEF Init, OneProbe, Probes
<1>3. ClosedBelowThreshold
  BY BreakerAssumption DEF Init, ClosedBelowThreshold
<1> QED
  BY <1>1, <1>2, <1>3 DEF IInv

(* Recording a failure keeps a closed breaker below its threshold, since   *)
(* reaching it trips, and leaves no probe behind when it trips.            *)
LEMMA FailureStep ==
  ASSUME IInv, NEW c \in Callers, CallFails(c)
  PROVE  IInv'
<1> DEFINE f == Append(Kept(failures), 0)
<1>1. Kept(failures) \in Seq(Nat)
  <2> DEFINE expired == {i \in 1 .. Len(failures) : failures[i] >= Window}
  <2>1. failures \in Seq(Nat)
    BY DEF IInv, Types
  <2>2. Cardinality(expired) \in Nat
    <3>1. Len(failures) \in Int /\ IsFiniteSet(1 .. Len(failures))
      BY <2>1, FS_Interval
    <3>2. expired \in SUBSET (1 .. Len(failures))
      OBVIOUS
    <3>3. IsFiniteSet(expired)
      BY <3>1, <3>2, FS_Subset
    <3> QED
      BY <3>3, FS_CardinalityType
  <2>3. \A i \in Cardinality(expired) + 1 .. Len(failures) : failures[i] \in Nat
    BY <2>1, <2>2
  <2> HIDE DEF expired
  <2>4. SubSeq(failures, Cardinality(expired) + 1, Len(failures)) \in Seq(Nat)
    BY <2>1, <2>2, <2>3, SubSeqProperties
  <2> QED
    BY <2>4 DEF Kept, expired
<1>2. f \in Seq(Nat) /\ Len(f) \in Nat
  BY <1>1
<1>3. pc' \in [Callers -> {"idle", "waiting", "calling"}]
  BY DEF CallFails, Goto, IInv, Types
<1>4. failures' = f
  BY DEF CallFails, RecordFailure
<1> HIDE DEF f
<1>5. CASE Trips(f)
  <2>1. state' = "open" /\ halfOpenUse' = FALSE /\ role' = [d \in Callers |-> "plain"]
    BY <1>5 DEF CallFails, RecordFailure, ForgetProbes, f
  <2> QED
    BY <1>2, <1>3, <1>4, <2>1
    DEF IInv, Types, States, OneProbe, Probes, ClosedBelowThreshold
<1>6. CASE ~Trips(f)
  <2>1. UNCHANGED <<state, halfOpenUse, role>> /\ Len(f) < Threshold
    BY <1>2, <1>6, BreakerAssumption DEF CallFails, RecordFailure, Trips, f
  <2> QED
    BY <1>2, <1>3, <1>4, <2>1
    DEF IInv, Types, OneProbe, Probes, ClosedBelowThreshold
<1> QED
  BY <1>5, <1>6

(* Allow, both recordings, an aborted call and the passing of time keep    *)
(* the invariant.                                                          *)
LEMMA InvStep == IInv /\ [Next]_vars => IInv'
<1> SUFFICES ASSUME IInv, [Next]_vars PROVE IInv'
  OBVIOUS
<1> USE BreakerAssumption
<1> USE DEF IInv, Types, States, breaker, Goto, Probes
<1>1. ASSUME NEW c \in Callers, Admit(c) PROVE IInv'
  BY <1>1 DEF Admit, OneProbe, ClosedBelowThreshold
<1>2. ASSUME NEW c \in Callers, AdmitProbe(c) PROVE IInv'
  <2>1. Probes = {}
    BY <1>2 DEF AdmitProbe, ProbeFree, OneProbe
  <2>2. Types'
    BY <1>2 DEF AdmitProbe
  <2>3. Probes' = {c}
    BY <1>2, <2>1 DEF AdmitProbe
  <2> QED
    BY <1>2, <2>2, <2>3 DEF AdmitProbe, OneProbe, ClosedBelowThreshold
<1>3. ASSUME NEW c \in Callers, AbortCall(c) PROVE IInv'
  <2>1. Probes' \subseteq Probes
    BY <1>3 DEF AbortCall
  <2> QED
    BY <1>3, <2>1 DEF AbortCall, OneProbe, ClosedBelowThreshold
<1>4. ASSUME NEW c \in Callers, Issue(c) PROVE IInv'
  BY <1>4 DEF Issue, OneProbe, ClosedBelowThreshold
<1>5. ASSUME NEW c \in Callers, CallSucceeds(c) PROVE IInv'
  <2>1. failures' = <<>> /\ state' = "closed" /\ Probes' = {} /\ UNCHANGED halfOpenUse
    BY <1>5 DEF CallSucceeds, RecordSuccess, ForgetProbes
  <2>2. Types'
    BY <1>5, <2>1 DEF CallSucceeds, RecordSuccess, ForgetProbes
  <2> QED
    BY <2>1, <2>2 DEF OneProbe, ClosedBelowThreshold
<1>6. ASSUME NEW c \in Callers, CallFails(c) PROVE IInv'
  BY <1>6, FailureStep
<1>7. CASE Tick
  <2>1. failures' \in Seq(Nat) /\ Len(failures') = Len(failures)
    <3>1. \A i \in 1 .. Len(failures) : Older(failures[i], Window) \in Nat
      BY DEF Older
    <3> QED
      BY <1>7, <3>1 DEF Tick
  <2> QED
    BY <1>7, <2>1 DEF Tick, OneProbe, ClosedBelowThreshold
<1>8. CASE UNCHANGED vars
  BY <1>8 DEF vars, OneProbe, ClosedBelowThreshold
<1> QED
  BY <1>1, <1>2, <1>3, <1>4, <1>5, <1>6, <1>7, <1>8 DEF Next, Allow, Call, Reject

(* The invariant holds in every reachable state of the breaker.            *)
THEOREM Invariance == Spec => []IInv
  BY InvInit, InvStep, PTL DEF Spec

(* Allow never has two probes out in one half-open episode: not when calls *)
(* from before the trip, or probes of earlier episodes, answer late.       *)
THEOREM SingleProbe == Spec => []OneProbe
<1>1. IInv => OneProbe
  BY DEF IInv
<1> QED
  BY <1>1, Invariance, PTL

(* A closed breaker is always one that has not reached its threshold.      *)
THEOREM ThresholdHonoured == Spec => []ClosedBelowThreshold
<1>1. IInv => ClosedBelowThreshold
  BY DEF IInv
<1> QED
  BY <1>1, Invariance, PTL

-----------------------------------------------------------------------------
(* The client.                                                             *)

(* Every action of the client is, for the breaker, an action of its own or *)
(* a stutter.                                                              *)
LEMMA ClientStep == [ClientNext]_allVars => [Next]_vars
<1> SUFFICES ASSUME [ClientNext]_allVars PROVE [Next]_vars
  OBVIOUS
<1>1. ASSUME NEW c \in Callers, AskAllow(c) PROVE Next
  BY <1>1 DEF AskAllow, Next
<1>2. ASSUME NEW c \in Callers, GiveUp(c) PROVE Next
  BY <1>2 DEF GiveUp, Next
<1>3. ASSUME NEW c \in Callers, Begin(c) PROVE Next
  BY <1>3 DEF Begin, Next, Call
<1>4. ASSUME NEW c \in Callers, Hit(c) \/ Miss(c) \/ AskToken(c) PROVE UNCHANGED vars
  BY <1>4 DEF Hit, Miss, AskToken, Grant, Receive, TokenFails
<1>5. ASSUME NEW c \in Callers, Finish(c) PROVE Next
  BY <1>5 DEF Finish, Next, Call
<1>6. CASE Elapse
  BY <1>6 DEF Elapse, Next
<1>7. CASE UNCHANGED allVars
  BY <1>7 DEF allVars
<1> QED
  BY <1>1, <1>2, <1>3, <1>4, <1>5, <1>6, <1>7 DEF ClientNext

(* Client.Do implements the breaker's protocol: it records an outcome only *)
(* for a call Allow let through, and once.                                 *)
THEOREM ClientUsesBreaker == ClientSpec => Spec
<1>1. ClientInit => Init
  BY DEF ClientInit
<1> QED
  BY <1>1, ClientStep, PTL DEF ClientSpec, Spec

(* One probe per half-open episode, whatever the token source does to the  *)
(* calls.                                                                  *)
THEOREM ClientSingleProbe == ClientSpec => []OneProbe
  BY ClientUsesBreaker, SingleProbe, PTL

(* Whoever is at the token endpoint holds the mutex, and found no fresh    *)
(* token; a token never becomes fresh by waiting.                          *)
MintHoldsMutex == \A c \in Callers :
  phase[c] \in {"mint", "reply"} => mutex = c /\ ~Fresh

TokenTypes == /\ token \in [dies : Nat, expires : Nat]
              /\ held \in [Callers -> [dies : Nat, says : Nat]]
              /\ phase \in [Callers -> Phases]

TokenInv == TokenTypes /\ MintHoldsMutex

(* The endpoint's answers keep the types.                                  *)
LEMMA TokenTypesStep == TokenTypes /\ [ClientNext]_allVars => TokenTypes'
<1> SUFFICES ASSUME TokenTypes, [ClientNext]_allVars PROVE TokenTypes'
  OBVIOUS
<1> USE DEF TokenTypes, Phases, Enter
<1>1. ASSUME NEW c \in Callers, AskAllow(c) \/ GiveUp(c) \/ Begin(c) PROVE TokenTypes'
  BY <1>1 DEF AskAllow, GiveUp, Begin, client
<1>2. ASSUME NEW c \in Callers, Hit(c) \/ Miss(c) PROVE TokenTypes'
  BY <1>2 DEF Hit, Miss
<1>3. ASSUME NEW c \in Callers, Grant(c) PROVE TokenTypes'
  <2>1. PICK g \in Grants : held' = [held EXCEPT ![c] = [dies |-> g.life, says |-> g.says]]
    BY <1>3 DEF Grant
  <2>2. g.life \in Nat /\ g.says \in Nat
    BY GrantsAssumption
  <2> QED
    BY <1>3, <2>1, <2>2 DEF Grant
<1>4. ASSUME NEW c \in Callers, Receive(c) PROVE TokenTypes'
  <2>1. held[c].dies \in Nat /\ held[c].says \in Nat /\ DefaultLife \in Nat
    BY TimesAssumption
  <2>2. token' \in [dies : Nat, expires : Nat]
    BY <1>4, <2>1 DEF Receive
  <2> QED
    BY <1>4, <2>1, <2>2 DEF Receive
<1>5. ASSUME NEW c \in Callers, TokenFails(c) \/ Finish(c) PROVE TokenTypes'
  BY <1>5 DEF TokenFails, Finish, NoReply
<1>6. CASE Elapse
  <2>1. \A n \in Nat : Less(n) \in Nat
    BY DEF Less
  <2>2. token.dies \in Nat /\ token.expires \in Nat
    OBVIOUS
  <2>3. token' \in [dies : Nat, expires : Nat]
    BY <1>6, <2>1, <2>2 DEF Elapse
  <2>4. \A c \in Callers : held[c].dies \in Nat /\ held[c].says \in Nat
    OBVIOUS
  <2>5. held' \in [Callers -> [dies : Nat, says : Nat]]
    BY <1>6, <2>1, <2>4 DEF Elapse
  <2> QED
    BY <1>6, <2>3, <2>5 DEF Elapse
<1>7. CASE UNCHANGED allVars
  BY <1>7 DEF allVars, client
<1> QED
  BY <1>1, <1>2, <1>3, <1>4, <1>5, <1>6, <1>7 DEF ClientNext, AskToken

(* A new client holds no mutex and no token.                               *)
LEMMA TokenInit == ClientInit => TokenInv
<1> SUFFICES ASSUME ClientInit PROVE TokenInv
  OBVIOUS
<1>1. TokenTypes
  BY DEF ClientInit, TokenTypes, Phases, NoToken, NoReply
<1>2. \A c \in Callers : phase[c] = "none"
  BY DEF ClientInit
<1> QED
  BY <1>1, <1>2 DEF TokenInv, MintHoldsMutex

(* Only Miss enters the endpoint, with the mutex free; nobody else takes   *)
(* the mutex or writes the token meanwhile.                                *)
LEMMA TokenStep == TokenInv /\ [ClientNext]_allVars => TokenInv'
<1> SUFFICES ASSUME TokenInv, [ClientNext]_allVars PROVE MintHoldsMutex'
  BY TokenTypesStep DEF TokenInv
<1> USE DEF TokenInv, TokenTypes, MintHoldsMutex, Enter, Phases
<1>1. ASSUME NEW c \in Callers, AskAllow(c) \/ GiveUp(c) PROVE MintHoldsMutex'
  BY <1>1 DEF AskAllow, GiveUp, client, Fresh
<1>2. ASSUME NEW c \in Callers, Begin(c) PROVE MintHoldsMutex'
  BY <1>2 DEF Begin, Fresh
<1>3. ASSUME NEW c \in Callers, Hit(c) PROVE MintHoldsMutex'
  BY <1>3 DEF Hit, Fresh
<1>4. ASSUME NEW c \in Callers, Miss(c) PROVE MintHoldsMutex'
  BY <1>4, NoneAssumption DEF Miss, KeepMutex, Fresh
<1>5. ASSUME NEW c \in Callers, Grant(c) PROVE MintHoldsMutex'
  BY <1>5 DEF Grant, Fresh
<1>6. ASSUME NEW c \in Callers, Receive(c) PROVE MintHoldsMutex'
  BY <1>6 DEF Receive
<1>7. ASSUME NEW c \in Callers, TokenFails(c) PROVE MintHoldsMutex'
  BY <1>7 DEF TokenFails, Unlock
<1>8. ASSUME NEW c \in Callers, Finish(c) PROVE MintHoldsMutex'
  BY <1>8 DEF Finish, Fresh
<1>9. CASE Elapse
  <2>1. token.expires \in Nat /\ Margin \in Nat
    BY TimesAssumption
  <2>2. ~Fresh => ~Fresh'
    BY <1>9, <2>1 DEF Elapse, Fresh, Less
  <2> QED
    BY <1>9, <2>2 DEF Elapse
<1>10. CASE UNCHANGED allVars
  BY <1>10 DEF allVars, client, Fresh
<1> QED
  BY <1>1, <1>2, <1>3, <1>4, <1>5, <1>6, <1>7, <1>8, <1>9, <1>10 DEF ClientNext, AskToken

(* The token endpoint is asked by one caller at a time, and only while no  *)
(* cached token is fresh.                                                  *)
THEOREM MintingIsExclusive == ClientSpec => []MintsOnlyWhenStale
<1>1. TokenInv => MintsOnlyWhenStale
  BY DEF TokenInv, MintHoldsMutex, MintsOnlyWhenStale
<1> QED
  BY <1>1, TokenInit, TokenStep, PTL DEF ClientSpec

-----------------------------------------------------------------------------
(* No token dies in a caller's hands.                                      *)

(* How long the client takes a reply's token to live.                      *)
Lasts(says) == IF says <= 0 THEN DefaultLife ELSE says

(* The configuration this rests on: tokens outlive a call, the endpoint    *)
(* does not overstate their life, and the margin covers a call that brings *)
(* the token and a call that uses it.                                      *)
Punctual == /\ Margin >= 2 * Timeout
            /\ \A g \in Grants : g.life > Timeout /\ Lasts(g.says) <= g.life

(* Time lost under way is time the deadline has run: what a token has left *)
(* and what its call has used add up to more than the timeout.             *)
Unspent(c) == held[c].dies + age[c] > Timeout
Honest(c)  == Lasts(held[c].says) <= held[c].dies + age[c]

LifeInv == /\ age \in [Callers -> 0 .. Timeout]
           /\ token.expires <= token.dies + Timeout
           /\ \A c \in Callers : /\ phase[c] \in {"reply", "using"} => Unspent(c)
                                 /\ phase[c] = "reply" => Honest(c)

(* A new client has no token, nobody uses one.                             *)
LEMMA LifeInit == ClientInit => LifeInv
<1> SUFFICES ASSUME ClientInit PROVE LifeInv
  OBVIOUS
<1>1. age \in [Callers -> 0 .. Timeout]
  BY TimesAssumption DEF ClientInit
<1>2. token.expires <= token.dies + Timeout
  BY TimesAssumption DEF ClientInit, NoToken
<1>3. \A c \in Callers : phase[c] = "none"
  BY DEF ClientInit
<1> QED
  BY <1>1, <1>2, <1>3 DEF LifeInv

(* A tick costs a token as much as it costs the call that holds it.        *)
LEMMA LifeElapse ==
  ASSUME TokenTypes, LifeInv, Elapse
  PROVE  LifeInv'
<1>1. Timeout \in Nat
  BY TimesAssumption
<1>2. age' \in [Callers -> 0 .. Timeout]
  <2>1. ASSUME NEW n \in 0 .. Timeout PROVE Older(n, Timeout) \in 0 .. Timeout
    BY <1>1 DEF Older
  <2> QED
    BY <1>1, <2>1 DEF Elapse, LifeInv
<1>3. token'.expires <= token'.dies + Timeout
  <2>1. token.dies \in Nat /\ token.expires \in Nat
    BY DEF TokenTypes
  <2>2. token'.dies = Less(token.dies) /\ token'.expires = Less(token.expires)
    BY DEF Elapse
  <2> QED
    BY <1>1, <2>1, <2>2 DEF LifeInv, Less
<1>4. ASSUME NEW c \in Callers, phase'[c] \in {"reply", "using"}
      PROVE  Unspent(c)' /\ (phase'[c] = "reply" => Honest(c)')
  <2>1. phase[c] = phase'[c] /\ ~Overdue(c) /\ Unspent(c)
    BY <1>4 DEF Elapse, LifeInv
  <2>2. held[c].dies \in Nat /\ age[c] \in 0 .. Timeout
    BY DEF TokenTypes, LifeInv
  <2>3. age'[c] = age[c] + 1
    BY <1>1, <1>4, <2>1, <2>2 DEF Elapse, Overdue, Older
  <2>4. held'[c].dies = held[c].dies - 1 /\ held'[c].says = held[c].says
    BY <1>1, <2>1, <2>2 DEF Elapse, Less, Unspent, Overdue
  <2>5. held'[c].dies + age'[c] = held[c].dies + age[c]
    BY <1>1, <2>2, <2>3, <2>4
  <2>6. phase[c] = "reply" => Honest(c)
    BY DEF LifeInv
  <2> QED
    BY <2>1, <2>4, <2>5, <2>6 DEF Unspent, Honest, Lasts
<1> QED
  BY <1>2, <1>3, <1>4 DEF LifeInv

(* What a caller does concerns nobody else's token: it is enough to look   *)
(* at the caller and at the cached token.                                  *)
LEMMA LifeKept ==
  ASSUME LifeInv, NEW c \in Callers,
         age' \in [Callers -> 0 .. Timeout],
         token'.expires <= token'.dies + Timeout,
         \A d \in Callers \ {c} : /\ phase'[d] = phase[d] /\ age'[d] = age[d]
                                  /\ held'[d] = held[d],
         phase'[c] \in {"reply", "using"} => Unspent(c)',
         phase'[c] = "reply" => Honest(c)'
  PROVE  LifeInv'
  BY DEF LifeInv, Unspent, Honest, Lasts

(* A token that is fresh to one call outlives the next by the margin.      *)
LEMMA LifeStep == Punctual /\ TokenInv /\ LifeInv /\ [ClientNext]_allVars => LifeInv'
<1> SUFFICES ASSUME Punctual, TokenInv, LifeInv, [ClientNext]_allVars PROVE LifeInv'
  OBVIOUS
<1>1. TokenTypes /\ Timeout \in Nat /\ Margin \in Nat /\ DefaultLife \in Nat
  BY TimesAssumption DEF TokenInv
<1>2. age \in [Callers -> 0 .. Timeout] /\ token.expires <= token.dies + Timeout
  BY DEF LifeInv
<1>3. \A c \in Callers : age[c] \in Nat /\ held[c].dies \in Nat /\ age[c] <= Timeout
  BY <1>1, <1>2 DEF TokenTypes
<1>4. ASSUME NEW c \in Callers, AskAllow(c) \/ GiveUp(c) PROVE LifeInv'
  BY <1>4 DEF AskAllow, GiveUp, client, LifeInv, Unspent, Honest
<1>5. ASSUME NEW c \in Callers, Begin(c) PROVE LifeInv'
  <2>1. phase'[c] = "lock" /\ age' \in [Callers -> 0 .. Timeout]
    BY <1>1, <1>2, <1>5 DEF Begin, Enter, TokenTypes
  <2>2. \A d \in Callers \ {c} : phase'[d] = phase[d] /\ age'[d] = age[d] /\ held'[d] = held[d]
    BY <1>1, <1>2, <1>5 DEF Begin, Enter, TokenTypes
  <2>3. token' = token
    BY <1>5 DEF Begin
  <2> QED
    BY <1>2, <2>1, <2>2, <2>3, LifeKept
<1>6. ASSUME NEW c \in Callers, Hit(c) PROVE LifeInv'
  <2>1. token.dies > Timeout
    <3>1. token.expires > 2 * Timeout
      BY <1>1, <1>6 DEF Hit, Fresh, Punctual, TokenTypes
    <3> QED
      BY <1>1, <1>2, <3>1 DEF TokenTypes
  <2>2. phase'[c] = "using" /\ held'[c].dies = token.dies /\ age' = age
    BY <1>1, <1>6 DEF Hit, Enter, TokenTypes
  <2>3. Unspent(c)'
    BY <1>1, <1>3, <2>1, <2>2 DEF Unspent, TokenTypes
  <2>4. \A d \in Callers \ {c} : phase'[d] = phase[d] /\ age'[d] = age[d] /\ held'[d] = held[d]
    BY <1>1, <1>6 DEF Hit, Enter, TokenTypes
  <2>5. token' = token
    BY <1>6 DEF Hit
  <2> QED
    BY <1>2, <2>2, <2>3, <2>4, <2>5, LifeKept
<1>7. ASSUME NEW c \in Callers, Miss(c) PROVE LifeInv'
  BY <1>1, <1>7 DEF Miss, Enter, TokenTypes, LifeInv, Unspent, Honest
<1>8. ASSUME NEW c \in Callers, Grant(c) PROVE LifeInv'
  <2>1. PICK g \in Grants : held' = [held EXCEPT ![c] = [dies |-> g.life, says |-> g.says]]
    BY <1>8 DEF Grant
  <2>2. g.life \in Nat /\ g.life > Timeout /\ Lasts(g.says) <= g.life /\ Lasts(g.says) \in Nat
    BY <1>1, GrantsAssumption DEF Punctual, Lasts
  <2>3. held'[c] = [dies |-> g.life, says |-> g.says] /\ age' = age /\ token' = token
    BY <1>1, <1>8, <2>1 DEF Grant, TokenTypes
  <2>4. Unspent(c)' /\ Honest(c)'
    BY <1>1, <1>3, <2>2, <2>3 DEF Unspent, Honest
  <2>5. \A d \in Callers \ {c} : phase'[d] = phase[d] /\ age'[d] = age[d] /\ held'[d] = held[d]
    BY <1>1, <1>8 DEF Grant, Enter, TokenTypes
  <2> QED
    BY <1>2, <2>3, <2>4, <2>5, LifeKept
<1>9. ASSUME NEW c \in Callers, Receive(c) PROVE LifeInv'
  <2>1. Unspent(c) /\ Honest(c) /\ phase[c] = "reply"
    BY <1>9 DEF Receive, LifeInv
  <2>2. phase'[c] = "using" /\ held'[c].dies = held[c].dies /\ age' = age
    BY <1>1, <1>9 DEF Receive, Enter, TokenTypes
  <2>3. Unspent(c)'
    BY <2>1, <2>2 DEF Unspent
  <2>4. token'.dies = held[c].dies /\ token'.expires = Lasts(held[c].says)
    BY <1>9 DEF Receive, Lasts
  <2>5. Lasts(held[c].says) \in Nat
    BY <1>1 DEF Lasts, TokenTypes
  <2>6. token'.expires <= token'.dies + Timeout
    BY <1>1, <1>3, <2>1, <2>4, <2>5 DEF Honest
  <2>7. \A d \in Callers \ {c} : phase'[d] = phase[d] /\ age'[d] = age[d] /\ held'[d] = held[d]
    BY <1>1, <1>9 DEF Receive, Enter, TokenTypes
  <2> QED
    BY <1>2, <2>2, <2>3, <2>6, <2>7, LifeKept
<1>10. ASSUME NEW c \in Callers, TokenFails(c) PROVE LifeInv'
  BY <1>1, <1>10 DEF TokenFails, Enter, TokenTypes, LifeInv, Unspent, Honest
<1>11. ASSUME NEW c \in Callers, Finish(c) PROVE LifeInv'
  <2>1. phase'[c] = "none" /\ age' \in [Callers -> 0 .. Timeout]
    BY <1>1, <1>2, <1>11 DEF Finish, Enter, TokenTypes
  <2>2. \A d \in Callers \ {c} : phase'[d] = phase[d] /\ age'[d] = age[d] /\ held'[d] = held[d]
    BY <1>1, <1>2, <1>11 DEF Finish, Enter, TokenTypes
  <2>3. token' = token
    BY <1>11 DEF Finish
  <2> QED
    BY <1>2, <2>1, <2>2, <2>3, LifeKept
<1>12. CASE Elapse
  BY <1>1, <1>12, LifeElapse
<1>13. CASE UNCHANGED allVars
  BY <1>13 DEF allVars, client, LifeInv, Unspent, Honest
<1> QED
  BY <1>4, <1>5, <1>6, <1>7, <1>8, <1>9, <1>10, <1>11, <1>12, <1>13 DEF ClientNext, AskToken

(* No token expires mid-flight, if the configuration is punctual: however  *)
(* long the mutex made a caller wait, whoever brought the token, and       *)
(* however late its reply arrived (client.go, TokenSource.Token).          *)
THEOREM TokensOutliveCalls == ASSUME Punctual PROVE ClientSpec => []NeverExpiresMidFlight
<1>1. TokenTypes /\ LifeInv => NeverExpiresMidFlight
  <2> SUFFICES ASSUME TokenTypes, LifeInv, NEW c \in Callers, phase[c] = "using"
               PROVE  held[c].dies > 0
    BY DEF NeverExpiresMidFlight
  <2>1. held[c].dies \in Nat /\ age[c] \in 0 .. Timeout /\ Timeout \in Nat
    BY TimesAssumption DEF TokenTypes, LifeInv
  <2> QED
    BY <2>1 DEF LifeInv, Unspent
<1>2. TokenInv /\ LifeInv /\ [ClientNext]_allVars => (TokenInv /\ LifeInv)'
  BY TokenStep, LifeStep
<1>3. ClientInit => TokenInv /\ LifeInv
  BY TokenInit, LifeInit
<1>4. TokenInv => TokenTypes
  BY DEF TokenInv
<1> QED
  BY <1>1, <1>2, <1>3, <1>4, PTL DEF ClientSpec
=============================================================================
