\* Every order in which the cores can start and proceed.
CONSTANTS
    t1 = t1
    t2 = t2
    t3 = t3
    Task = {t1, t2, t3}
    NumConnections = 3
    Topologies <- MCTopologies
    TaskResults <- MCResults
SPECIFICATION FairSpec
INVARIANTS TypeOK EarlyPostKept PeersLinked
PROPERTIES TerminalResult EveryTaskActivates
\* The application ends when all tasks have returned.
CHECK_DEADLOCK FALSE
