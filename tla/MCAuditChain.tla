---------------------------- MODULE MCAuditChain ----------------------------
EXTENDS AuditChain

CONSTANTS w1, w2

MCWriters == {w1, w2}
(* w1 appends two events in one transaction.                               *)
MCAppends == [w \in Writers |-> IF w = w1 THEN 2 ELSE 1]
=============================================================================
