CONSTANTS
    c1 = c1
    c2 = c2
    Connections <- One
    Interval = 2
    Window = 1
    HighWater = 1
    LowWater = 0
    MaxBurst = 2
    WaitsForTasks = {TRUE}
    MaxInterrupts = 1
SPECIFICATION FairSpec
PROPERTIES InterruptStops
CHECK_DEADLOCK FALSE
