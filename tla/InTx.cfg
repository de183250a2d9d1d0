SPECIFICATION FairSpec
CONSTANTS
  c1 = c1
  c2 = c2
  c3 = c3
  x = x
  y = y
  None = None
  Calls <- MCCalls
  Rows <- MCRows
  Plan <- MCPlan
  MaxTxAttempts = 2
  Faults = {"transient", "fatal", "cancel", "ackLost"}
INVARIANTS ExactlyOnce NoLockLeaks
PROPERTY EveryCallReturns
