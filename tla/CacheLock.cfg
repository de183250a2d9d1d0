SPECIFICATION MCSpec
CONSTANTS
  w1 = w1
  w2 = w2
  w3 = w3
  g1 = g1
  g2 = g2
  g3 = g3
  None = None
  Workers <- MCWorkers
  TTL = 3
  Faults = {"lost", "crash"}
  Readers <- MCReaders
  SecretTTL = 2
  Latency = 2
  MaxContents = 3
  Empty = {2}
INVARIANTS SingleFlight BoundedStaleness
PROPERTIES ReleasesOwnLockOnly LockIsFreed
