CONSTANTS
    c1 = c1
    c2 = c2
    Connections <- Two
    Interval = 1
    Window = 0
    HighWater = 0
    LowWater = 0
    MaxBurst = 1
    WaitsForTasks = {TRUE, FALSE}
    MaxInterrupts = 2
SPECIFICATION FairSpec
INVARIANTS HeartbeatWhenQuiet BufferBounded
PROPERTIES EveryRequestRead ClosedWithItsClient ShutdownCompletes
CHECK_DEADLOCK FALSE
