SPECIFICATION FairSpec
CONSTANTS
  p1 = p1
  p2 = p2
  Relays <- MCRelays
  Events = {1, 2, 3}
  Limit = 2
  Poison = {1}
  MaxTxAttempts = 2
  MaxFailures = 2
  Faults = {"queue", "transient", "ackLost", "crash"}
INVARIANTS NothingLost DuplicatesNeedFaults
PROPERTIES EventuallyPublished ImplementsDelivery
