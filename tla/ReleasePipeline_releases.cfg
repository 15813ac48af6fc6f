SPECIFICATION Spec
CONSTANTS
  Zero = Zero
  Refused = Refused
  Targets <- TwoTargets
  LastVersion = 2
  LastBuild = 2
  LastRuns = 2
  LastUpdates = 3
INVARIANTS CompleteRunInstalls InstallsAsNamed FinalizedInstalls
CHECK_DEADLOCK FALSE
