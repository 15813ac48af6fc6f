CONSTANTS
  MaxTime = 3
  Limits <- MCLimits
  Offsets <- MCOffsets
  Ends <- MCEnds
  DefaultLimit = 2
SPECIFICATION Spec
INVARIANTS TypeOK NeverSkips NeverRepeats PagesAddUp
PROPERTY ScanEnds
CHECK_DEADLOCK FALSE
