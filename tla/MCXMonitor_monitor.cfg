\* Three tasks of any outcome, and a slot without one.
CONSTANTS
    NumSlots = 4
    Assigned = {1, 2, 4}
    TaskResults <- MCResults
SPECIFICATION FairSpec
INVARIANTS TypeOK
PROPERTIES SuccessMeansEnded VerdictNeverGoesBack MonitorSeesSuccess
\* The program ends.
CHECK_DEADLOCK FALSE
