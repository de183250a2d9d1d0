---------------------------- MODULE MCRateLimit ----------------------------
EXTENDS RateLimit

CONSTANTS c1, c2, alice, home

MCCalls == {c1, c2}
MCRules == <<[dim |-> "user", limit |-> 1, window |-> 2],
             [dim |-> "ip", limit |-> 1, window |-> 3]>>
(* c2 is anonymous on the network of c1.                                   *)
MCKeyOf == [c \in Calls |-> [user |-> IF c = c1 THEN alice ELSE None, ip |-> home]]
=============================================================================
