SPECIFICATION FairSpec
CONSTANTS
  r1 = r1
  r2 = r2
  r3 = r3
  None = None
  Requests <- MCRequests
  HashOf <- MCHashOf
  Payload <- MCPayload
  Payloads <- MCPayloads
  Docs <- MCDocs
  Float <- MCFloat
  Precision = 4
  LargeBodies = {r1}
  TTL = 1
  MaxTime = 2
  MaxTxAttempts = 2
  Faults = {"transient", "ackLost", "fatal", "panic", "crash"}
  Bounded = TRUE
  AtomicHandlers = TRUE
INVARIANTS OneExecutor EffectOnce ReplaysOwnAnswer CopiesNeverConflict DigestIsMeaning
PROPERTIES EveryRequestAnswered AnswerIsFinal ImplementsKey
