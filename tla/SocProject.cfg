SPECIFICATION Spec
CONSTANTS
  GateInputs <- MapGateInputs
  GateOutput <- MapGateOutput
  FFMeta <- MapFFs
  Projects <- MCProjects
  MaxRuns = 2
  MaxUpdates = 1
  Accesses <- MCAccesses
CHECK_DEADLOCK FALSE
INVARIANT AggregateIsCurrent
INVARIANT ChipCountsOnce
INVARIANT TracedChainShifts
INVARIANT ExtestSeesInterconnect
INVARIANT RetargetedPatternLoads
