SPECIFICATION Spec
CONSTANTS
  Nothing = Nothing
  Rows <- MCRows
  Windows <- MCWindows
  Edges <- MCEdges
  Dirs = {d1}
  AskedTables = {1, 2}
  TiledTables = {1}
INVARIANTS TypeOK ExportsWhatWasAsked StatsTellTheTruth SnapshotKeepsFlushed PartsAddUp
