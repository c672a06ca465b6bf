\* simon with and without arguments, while the programs call, end and restart.
CONSTANTS
  Controls = {c1}
  PlatformRows = 2
  PlatformCols = 2
  PlatformRow = 2
  PlatformCol = 1
  NumEmems = 1
  EmemBase = 168
  EmemSize <- MCSizes
  CoreSpan = 3
  IdCols = 8
  Origins = {0, 1}
  Extents = {1, 2}
  Arguments <- MCArguments
  Requests <- MCRequests
  Endings <- MCEndings
  Restartable <- MCRestartable
SPECIFICATION FairSpec
INVARIANTS CountExact ZeroMeansHalted
PROPERTIES SimonEnds NoCoreForgotten
\* simon ends, and so do the programs it serves.
CHECK_DEADLOCK FALSE
