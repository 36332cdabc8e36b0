SPECIFICATION Spec
CONSTANTS
    MaxPipeline = 2
    MaxOutput = 2
    SndBuf = 1
    MaxBacklog = 0
    MaxCork = 1
    MaxMessage = 2
    MaxBatch = 1
    Scenarios <- OpeningScenarios
INVARIANT DataWaitsForOnOpen
CHECK_DEADLOCK FALSE
