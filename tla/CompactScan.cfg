\* A scan campaign: Q stem 2 may be credited by a captured value.
SPECIFICATION Spec
CONSTANTS
  Faults = {1, 2}
  Excluded = {}
  Collapsed = {}
  PIs = {"a", "b"}
  Patterns <- TwoInputs
  Models = {m1}
  NoModel = NoModel
  MaxRuns = 2
  MaxIndex = 4
  Dynamic = FALSE
  PackOrders = 2
  DenseFaults = 1
  QStems = {2}
  ResetHolds <- NoHolds
  MaxTests = 2
  Crashes = TRUE
INVARIANTS CoveragePreserved
CHECK_DEADLOCK FALSE
