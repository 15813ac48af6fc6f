CONSTANTS
  MaxBatches = 1
  LastDay = 1
  NoOptions = NoOptions
  ClosedCalls <- MCClosedCalls
  OpenOptions <- TwoOptions
SPECIFICATION Spec
INVARIANT ZeroedIsDefault
CHECK_DEADLOCK FALSE
