-------------------------- MODULE MCProviderClient --------------------------
EXTENDS ProviderClient

CONSTANTS c1, c2, c3

MCCallers == {c1, c2, c3}
MCPair    == {c1, c2}
(* A token too short ever to be reused, a longer one, and one whose life   *)
(* the endpoint does not say.                                              *)
MCGrants == {[life |-> 2, says |-> 2], [life |-> 4, says |-> 4], [life |-> 4, says |-> 0]}
=============================================================================
