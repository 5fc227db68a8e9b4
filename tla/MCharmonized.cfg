SPECIFICATION Spec
CONSTANTS
  Years = {1, 2, 3, 4, 5, 6}
  Populations = {0, 1, 2, 5}
  Null = Null
  Visits <- SomeVisits
CHECK_DEADLOCK FALSE
INVARIANTS
  OnlyFarMuseumsDropped
  UnflaggedEstimatesNearData
  LeastSquares
