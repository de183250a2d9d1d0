SPECIFICATION Spec
CONSTANTS
  r1 = r1
  r2 = r2
  r3 = r3
  Requests <- MCRequests
  Oversized = {r3}
  Preflights = {r2}
  Origins <- MCOrigins
  Chains <- MCChains
  Limit = 1
INVARIANTS NothingLeaks EveryEndIsReported AnswersAreLabelled
PROPERTY ShedsOnlyWhenFull
