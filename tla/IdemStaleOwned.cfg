SPECIFICATION Spec
CONSTANTS
  r1 = r1
  r2 = r2
  r3 = r3
  None = None
  Requests <- MCRequests
  HashOf <- MCSameHash
  Payload <- MCCopies
  Payloads <- MCPayloads
  Docs <- MCDocs
  Float <- MCFloat
  Precision = 4
  LargeBodies = {}
  TTL = 1
  MaxTime = 0
  MaxTxAttempts = 2
  Faults = {"transient", "commitLost"}
  Bounded = TRUE
  AtomicHandlers = TRUE
PROPERTY RunsOnOwnClaim
