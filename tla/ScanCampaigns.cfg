\* Stuck-at, launch-on-capture and launch-on-shift campaigns with a worker pool, resumed
\* once: a logic fault, a Q stem and a fault on the scan chain; of the two patterns one
\* drives a reset active, which the test holds inactive.
SPECIFICATION Spec
CONSTANTS
  p1 = p1
  p2 = p2
  p3 = p3
  Faults = {1, 2, 3}
  Excluded = {3}
  Collapsed = {}
  Patterns = {p1, p2}
  Models = {m1}
  NoModel = NoModel
  MaxRuns = 2
  MaxIndex = 4
  Model = m1
  NoPattern = NoPattern
  NoFault = NoFault
  QStemSets = {{2}}
  ScanExcluded = {3}
  Reconv = {1}
  Hold <- HoldReset
  Launches = {"stuck_at", "loc", "los"}
  Parallel = TRUE
  RandomVectors = 1
  RandomStopPct = 50
  RandomOnlyModes = {TRUE, FALSE}
  MaxRounds = 3
  TargetPct = 100
  Tiers = 1
  SolverLimits = TRUE
  EnginesAgree = TRUE
  GoldenMayFail = TRUE
  WaveErrors = TRUE
  Crashes = TRUE
INVARIANTS AcceptanceIsAtomic ScanDetectionIsBacked ScanRedundantIsUntestable BlockedRowsAreFruitless SweptRunSettlesQStems
PROPERTIES CommitOverwritesNothing
CHECK_DEADLOCK FALSE
