\* Every netlist over two inputs and two faults, dynamic compaction of up to three tests.
SPECIFICATION Spec
CONSTANTS
  Faults = {1, 2}
  Excluded = {}
  Collapsed = {}
  PIs = {"a", "b"}
  Patterns <- TwoInputs
  Models = {m1}
  NoModel = NoModel
  MaxRuns = 2
  MaxIndex = 4
  Dynamic = TRUE
  PackOrders = 2
  DenseFaults = 2
  QStems = {}
  ResetHolds <- NoHolds
  MaxTests = 3
  Crashes = TRUE
INVARIANTS CoveragePreserved PackingLosesNothing EvidenceOutlivesCompaction
CHECK_DEADLOCK FALSE
