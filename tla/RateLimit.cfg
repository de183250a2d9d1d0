SPECIFICATION Spec
CONSTANTS
  c1 = c1
  c2 = c2
  alice = alice
  home = home
  None = None
  Calls <- MCCalls
  Rules <- MCRules
  KeyOf <- MCKeyOf
  Stores = {"cache", "db"}
  FailClosed = TRUE
  Retention = 2
  CleanupLimit = 1
  Faults = {"cache", "db"}
  MaxTime = 5
INVARIANTS SlidingQuota AlignedQuota AdmittedMeansCounted
