CONSTANTS
  MaxBatches = 2
  LastDay = 2
  NoOptions = NoOptions
  ClosedCalls <- MCClosedCalls
  OpenOptions <- MCOptions
SPECIFICATION Spec
INVARIANTS DurableSurvives AlwaysSurvives SealedSurvives KeptForItsTime
PROPERTY ReadOnlyNeverWrites
CHECK_DEADLOCK FALSE
