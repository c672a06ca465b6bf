\* Memory for all blocks but those of a two by two mesh that wraps around.
CONSTANTS
  Workgroups <- MCWorkgroups
  HostSlots = 1
  MemStart = 8
  MemSize = 56
  Align = 2
  DescriptorSize = 5
  ConnectionSize = 3
  IndexSize = 1
  NameSize = 3
  CallerNameSize = 5
  Tasks <- MCTasks
  Keys <- MCKeys
  Luck = {TRUE, FALSE}
  MaxConnects = 1
  MaxMesh = 13
  MaxPrepares = 2
  MaxLaunches = 2
SPECIFICATION Spec
INVARIANTS Exclusive MeshComplete EndpointsListed NeighboursMeet LaunchComplete LoadedFirst
\* The process may crash, and ends after the finalisation.
CHECK_DEADLOCK FALSE
