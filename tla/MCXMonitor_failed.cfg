\* A task that fails.
CONSTANTS
    NumSlots = 4
    Assigned = {1, 2, 4}
    TaskResults <- MCResults
SPECIFICATION FairSpec
PROPERTIES MonitorEnds
\* The program ends.
CHECK_DEADLOCK FALSE
