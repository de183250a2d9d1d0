SPECIFICATION Spec
CONSTANTS
  Scale = 3
  Shown = 2
  Limit = 10
  Digits = 2
  Inputs <- MCInputs
  Factors = {0, 3}
  Assets = {"RUB", "USD"}
  MaxExact = 12000
INVARIANT AmountIsExact
