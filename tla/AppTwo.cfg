SPECIFICATION FairSpec
CONSTANTS
  NumInstances = 2
  Rtsp = {1}
  Recreated = {2}
  MaxMessages = 2
  MaxCommands = 1
  MaxRecreates = 1
  MaxFailures = 1
INVARIANTS LeavesForAReason FailureHasCause
PROPERTIES AllQuitEnds
