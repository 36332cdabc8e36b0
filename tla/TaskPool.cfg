CONSTANTS
    Tasks = {1, 2, 3}
    Loads <- MCLoads
    MaxShards = 2
    MaxWorkers = 2
    SoftWorkers = 1
    Capacity = 2
SPECIFICATION FairSpec
INVARIANTS WakeupsReachTasks ClosedPoolDrainsUnlessStarving
PROPERTY EveryTaskRuns
CHECK_DEADLOCK FALSE
