CONSTANTS
  Threads = {t1, t2}
  Entries <- MCEntries
  EngineErrors <- MCErrors
  MaxCalls = 2
  NoMessage = NoMessage
SYMMETRY Symmetry
SPECIFICATION Spec
INVARIANTS AllOrNothing OnlyCheckedArguments ReportIsOwn
PROPERTY KeepsContract
CHECK_DEADLOCK FALSE
