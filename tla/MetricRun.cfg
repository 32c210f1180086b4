SPECIFICATION Spec
CONSTANTS
  baseline = baseline
  candidate = candidate
  c1 = c1
  c2 = c2
  None = None
  Arms <- MCArms
  Samples = 3
  Minimum = 4
  Problems <- MCProblems
  Counters = {c1, c2}
  MaxThrottles = 1
  MaxRestarts = 1
INVARIANTS
  ComparisonPaired
  NominalMeansCool
PROPERTIES
  ResultImmutable
CHECK_DEADLOCK FALSE
