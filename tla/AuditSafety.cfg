SPECIFICATION FairSpec
CONSTANTS
  w1 = w1
  w2 = w2
  None = None
  Writers <- MCWriters
  Appends <- MCAppends
  Targets = {"id", "zero"}
  Clock = {0, 1}
  MaxTxAttempts = 2
  Faults = {"transient", "ackLost"}
INVARIANTS NoFalseAlarm TamperingDetected ExactlyOneEvent
PROPERTIES AppendReturns ImplementsLog
