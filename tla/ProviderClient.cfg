SPECIFICATION FairClientSpec
CONSTANTS
  c1 = c1
  c2 = c2
  c3 = c3
  None = None
  Callers <- MCCallers
  Threshold = 2
  Window = 2
  Cooldown = 2
  Aborts = TRUE
  Grants <- MCGrants
  DefaultLife = 4
  Margin = 2
  Timeout = 1
INVARIANTS OneProbe ClosedBelowThreshold NeverExpiresMidFlight MintsOnlyWhenStale
PROPERTIES OpenResolves CallReturns
