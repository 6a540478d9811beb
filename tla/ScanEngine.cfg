\* Two designs, stuck-at and both launch styles, every vector; the word holds 20 faults.
SPECIFICATION Spec
CONSTANTS
  Designs <- MCDesigns
  Modes <- EngineModes
  BatchSize = 20
  FupBudget = 3
  MaxGroups = 2
  MaxBlocked = 1
INVARIANTS LanesMatchGolden ViewPredictsProtocol CreditIsObserved VerdictIsExact CollapsedIsCovered
