\* Two workers, waves of two over three faults, and every failure the loop meets: solver
\* limits, refuted vectors, oversized keys, failing waves, a breaking pool.
SPECIFICATION FairSpec
CONSTANTS
  Faults = {1, 2, 3}
  Excluded = {}
  Collapsed = {}
  Patterns = {p1, p2}
  Models = {m1}
  NoModel = NoModel
  MaxRuns = 1
  MaxIndex = 4
  Model = m1
  NoPattern = NoPattern
  NoFault = NoFault
  Reconv = {}
  DropSat = TRUE
  Workers = 2
  WaveSize = 2
  RandomVectors = 1
  RandomStopPct = 50
  RandomOnlyModes = {FALSE}
  MaxRounds = 2
  TargetPct = 100
  Tiers = 1
  SolverLimits = TRUE
  MayMismatch = TRUE
  ExtraKeys = TRUE
  WaveErrors = TRUE
  Crashes = TRUE
INVARIANTS LoopTargetsAreActive BlockedPatternsAreFruitless
PROPERTIES EveryRunEnds
CHECK_DEADLOCK FALSE
