\* Every failure the loop meets, an engine that misses what the golden simulator sees, no
\* crash: the invocation still ends.  Either fault 2 is a Q stem or both are logic faults,
\* which may all turn out redundant.
SPECIFICATION FairSpec
CONSTANTS
  p1 = p1
  p2 = p2
  p3 = p3
  Faults = {1, 2}
  Excluded = {}
  Collapsed = {}
  Patterns = {p1, p2}
  Models = {m1}
  NoModel = NoModel
  MaxRuns = 1
  MaxIndex = 4
  Model = m1
  NoPattern = NoPattern
  NoFault = NoFault
  QStemSets = {{}, {2}}
  ScanExcluded = {}
  Reconv = {}
  Hold <- HoldReset
  Launches = {"stuck_at", "loc"}
  Parallel = FALSE
  RandomVectors = 1
  RandomStopPct = 50
  RandomOnlyModes = {TRUE, FALSE}
  MaxRounds = 2
  TargetPct = 100
  Tiers = 2
  SolverLimits = TRUE
  EnginesAgree = FALSE
  GoldenMayFail = TRUE
  WaveErrors = FALSE
  Crashes = FALSE
PROPERTIES EveryScanRunEnds
CHECK_DEADLOCK FALSE
