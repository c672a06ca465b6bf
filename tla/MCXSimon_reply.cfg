\* Programs that unlink, among others, served by simon.
CONSTANTS
  Controls = {c1}
  PlatformRows = 2
  PlatformCols = 2
  PlatformRow = 2
  PlatformCol = 1
  NumEmems = 1
  EmemBase = 168
  EmemSize <- MCSizes
  CoreSpan = 3
  IdCols = 8
  Origins = {0, 1}
  Extents = {1, 2}
  Arguments <- WholeDevice
  Requests <- MCRequests
  Endings <- Exit
  Restartable <- MCRestartable
SPECIFICATION Spec
INVARIANT ReplyIsOfTheCall
\* simon ends, and so do the programs it serves.
CHECK_DEADLOCK FALSE
