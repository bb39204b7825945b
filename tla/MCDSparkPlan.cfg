CONSTANTS
  Requests = {1, 2}
  Depth = 2
  Unit = 3
  Rates = {1, 3, 4}
  Curves <- MCCurves
  Thresholds = {0, 1, 2, 4, 6, 9}
  NoPlan = NoPlan
SPECIFICATION Spec
INVARIANTS
  PlanIsOptimal
  NonAnticipating
CHECK_DEADLOCK FALSE
