CONSTANTS
  Samples <- MCSamples
  Spans <- MCSpans
  QueryName <- MCQueryName
  BadId = BadId
  DefaultLines = 3
  Windows <- MCWindows
  Limits <- MCLimits
  Steps <- MCSteps
  Nothing = Nothing
SPECIFICATION LgtmSpec
INVARIANTS LgtmTypeOK AnswersTheMetricAsked EvaluatedAsTheirKind
 
CHECK_DEADLOCK FALSE
