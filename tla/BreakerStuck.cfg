SPECIFICATION FairClientSpec
CONSTANTS
  c1 = c1
  c2 = c2
  c3 = c3
  None = None
  Callers <- MCPair
  Threshold = 2
  Window = 2
  Cooldown = 2
  Aborts = TRUE
  Grants <- MCGrants
  DefaultLife = 4
  Margin = 2
  Timeout = 1
PROPERTY HalfOpenResolves
