\* Serial campaign, resumed once after a crash or an end of any kind: fault 1 is a
\* reconvergent site, fault 3 is excluded, two timeout tiers, random_only on or off.
SPECIFICATION Spec
CONSTANTS
  Faults = {1, 2, 3}
  Excluded = {3}
  Collapsed = {}
  Patterns = {p1, p2}
  Models = {m1}
  NoModel = NoModel
  MaxRuns = 2
  MaxIndex = 4
  Model = m1
  NoPattern = NoPattern
  NoFault = NoFault
  Reconv = {1}
  DropSat = TRUE
  Workers = 1
  WaveSize = 2
  RandomVectors = 2
  RandomStopPct = 50
  RandomOnlyModes = {TRUE, FALSE}
  MaxRounds = 3
  TargetPct = 100
  Tiers = 2
  SolverLimits = TRUE
  MayMismatch = FALSE
  ExtraKeys = FALSE
  WaveErrors = FALSE
  Crashes = TRUE
INVARIANTS TypeOK RedundantIsUntestable DetectionIsBacked DetectionHasEvidence NoActiveFaultIsSkipped StallOnlyAtLongestTier
PROPERTIES KeepsLedger DetectionIsFinal
CHECK_DEADLOCK FALSE
