SPECIFICATION Spec
CONSTANTS
    MaxPipeline = 2
    MaxOutput = 2
    SndBuf = 1
    MaxBacklog = 0
    MaxCork = 1
    MaxMessage = 2
    MaxBatch = 1
    Scenarios <- MCScenarios
INVARIANTS
    ResponsesAreInOrder
    NoRequestStranded
    TakeoverIsClean
    LifecycleIsExact
    FramesAreExact
    WebSocketIsExact
    
    CloseNotifyIsSent
CHECK_DEADLOCK FALSE
