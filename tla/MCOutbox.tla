------------------------------ MODULE MCOutbox ------------------------------
EXTENDS Outbox

CONSTANTS p1, p2

MCRelays == {p1, p2}
=============================================================================
