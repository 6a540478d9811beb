SPECIFICATION Spec
CONSTANTS
  GateInputs <- MapGateInputs
  GateOutput <- MapGateOutput
  FFMeta <- MapFFs
  Designs <- MCDesigns
  ChainOptions = {1, 2, 3, 4}
  LengthOptions = {0, 1, 2, 3}
  StitchLimit = 3
  WrapLimit = 3
INVARIANT StitchKeepsFunction
INVARIANT ChainsAreShortest
INVARIANT ScanCheckIsRight
INVARIANT CrossDomainIsUntestable
INVARIANT FusedViewMatchesWrapped
