\* Two pairs drawn (perhaps the same one), two workers, resumed once.
SPECIFICATION TFairSpec
CONSTANTS
  Faults = {1, 2}
  Excluded = {}
  Collapsed = {}
  Patterns = {p1, p2}
  Models = {m1}
  NoModel = NoModel
  MaxRuns = 2
  MaxIndex = 4
  Model = m1
  NoPattern = NoPattern
  NoFault = NoFault
  Reconv = {}
  DropSat = TRUE
  Workers = 2
  WaveSize = 2
  RandomVectors = 2
  RandomStopPct = 0
  RandomOnlyModes = {TRUE, FALSE}
  MaxRounds = 2
  TargetPct = 100
  Tiers = 2
  SolverLimits = TRUE
  MayMismatch = FALSE
  ExtraKeys = FALSE
  WaveErrors = TRUE
  Crashes = TRUE
PROPERTIES KeepsNativeLoop
CHECK_DEADLOCK FALSE
