SPECIFICATION Spec
CONSTANTS
  Controls = {c1, c2}
  PlatformRows = 2
  PlatformCols = 3
  PlatformRow = 2
  PlatformCol = 1
  NumEmems = 2
  EmemBase = 168
  EmemSize <- SmallSizes
  CoreSpan = 3
  IdCols = 8
  Origins <- SmallOrigins
  Extents = {0, 1, 2, 3}
SYMMETRY ControlSymmetry
CHECK_DEADLOCK FALSE
INVARIANT Usable
INVARIANT NothingLeaked
INVARIANT OneHostAddress
