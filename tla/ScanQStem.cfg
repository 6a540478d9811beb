\* A flop that captures a function of its own output.
SPECIFICATION Spec
CONSTANTS
  Designs <- MCDesigns
  Modes <- FeedbackModes
  BatchSize = 20
  FupBudget = 3
  MaxGroups = 2
  MaxBlocked = 1
INVARIANT ReducedCreditIsObserved
