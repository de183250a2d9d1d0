SPECIFICATION FairHealthSpec
CONSTANTS
  db = db
  lag = lag
  q1 = q1
  Checks <- MCChecks
  Critical <- MCCritical
  NameOf <- MCUnique
  Requests <- MCRequests
  Stops = TRUE
  MaxFlips = 2
INVARIANTS ReadyMeansHealthy ReadyIsEarned
PROPERTIES ChangesAreNoticed
