SPECIFICATION StreamSpec
CONSTANTS
  Rows <- MCRows
  MaxStored = 2
  MaxBatches = 2
  Asked <- AllEntries
INVARIANTS StreamTypeOK BatchesBuild ReadsTheAnswer SchemaIsKnown LabelsJoin
CHECK_DEADLOCK FALSE
