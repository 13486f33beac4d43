SPECIFICATION Spec
CONSTANTS
  l1 = l1
  l2 = l2
  None = None
  Labs = {l1, l2}
  Sessions = {s1}
  Bound = 1
  Kpis <- Definitions
  Deltas <- EvenOrBetter
  MinArmDelta = 0
  MaxExperiments = 3
  MaxFailures = 2
  GridSize = 2
INVARIANTS
  IntactMeansAlone
  VerifiedIsEarned
  HardLimits
CHECK_DEADLOCK FALSE
