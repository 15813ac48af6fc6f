SPECIFICATION FairSpec
CONSTANTS
  Nothing = Nothing
  ReadOnlyOpen = ReadOnlyOpen
  Rows = {r1, r2}
  OpenOptions <- MCOptions
  EnginePolicy <- OnQueryPolicy
  OldAge = 2
INVARIANTS FreshEnough
PROPERTIES ManualIsFixed SeenWithoutFlush
CHECK_DEADLOCK FALSE
