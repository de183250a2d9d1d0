---------------------------- MODULE MCCacheLock ----------------------------
(***************************************************************************)
(* What expires: the lock under its key and the secret in its entry.  The  *)
(* two components share neither state nor steps, so a behaviour is one of  *)
(* the first or one of the second, and their states add up instead of      *)
(* multiplying.                                                            *)
(***************************************************************************)
EXTENDS CacheLock, SecretCache

CONSTANTS w1, w2, w3, g1, g2, g3

MCWorkers == {w1, w2, w3}
MCReaders == {g1, g2, g3}

VARIABLE part  \* the component the behaviour is about

OfLock(A) == part = "lock" /\ A /\ UNCHANGED <<part, secretVars>>
OfSecrets(A) == part = "secrets" /\ A /\ UNCHANGED <<part, vars>>

MCInit == part \in {"lock", "secrets"} /\ Init /\ SecretInit
MCNext == OfLock(Next) \/ OfSecrets(SecretNext)
MCSpec == /\ MCInit /\ [][MCNext]_<<part, vars, secretVars>>
          /\ WF_<<part, vars, secretVars>>(OfLock(Tick))
=============================================================================
