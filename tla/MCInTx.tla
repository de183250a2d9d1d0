------------------------------- MODULE MCInTx -------------------------------
EXTENDS InTx

CONSTANTS c1, c2, c3, x, y

MCCalls == {c1, c2, c3}
MCRows  == {x, y}
(* c1 and c2 take their rows in opposite orders.                           *)
MCPlan  == [c \in Calls |-> IF c = c1 THEN <<x, y>>
                            ELSE IF c = c2 THEN <<y, x>> ELSE <<y>>]
=============================================================================
