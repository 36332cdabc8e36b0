CONSTANTS
    Tasks = {1, 2, 3}
    Loads <- ClosingLoads
    MaxShards = 2
    MaxWorkers = 2
    SoftWorkers = 1
    Capacity = 2
SPECIFICATION Spec
INVARIANT ClosedPoolDrains
CHECK_DEADLOCK FALSE
