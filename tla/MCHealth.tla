------------------------------ MODULE MCHealth ------------------------------
EXTENDS Health

CONSTANTS db, lag, q1

MCChecks   == {db, lag}
MCCritical == {db}
MCRequests == {q1}
(* Every check has a name of its own.                                      *)
MCUnique   == [c \in Checks |-> c]
=============================================================================
