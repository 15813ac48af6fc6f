CONSTANTS
  MaxBatches = 1
  LastDay = 1
  NoOptions = NoOptions
  ClosedCalls <- MCClosedCalls
  OpenOptions <- TwoOptions
SPECIFICATION Spec
INVARIANT ClosedCallsSayClosed
CHECK_DEADLOCK FALSE
