SPECIFICATION Spec
CONSTANTS
  r1 = r1
  r2 = r2
  None = None
  Runners = {r1, r2}
  Tasks = 2
  MaxCreations = 2
  MaxSecond = 1
INVARIANTS
  SuccessIsEarned
  SummaryIsTrue
CHECK_DEADLOCK FALSE
