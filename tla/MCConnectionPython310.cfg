CONSTANTS
    XorByte <- MCXorByte
    Key <- MCKey
    Shift = 7
    Seed <- MCSeed
    SeedShift = 7
    LocalText <- MCLocalText
    AreaName <- MCAreaName
    ClientPackets <- MCClientPackets
    SplashRevisions <- MCSplashRevisions
    None = None
    MaxHandled = 4
    MaxPayloadBytes = 5
    ReadChunkSize = 9
    TimeoutErrorIsBuiltin = FALSE
    MaxSent = 2
    MaxHeartbeats = 1
SPECIFICATION Spec
INVARIANTS IdleIsHarmless
CHECK_DEADLOCK FALSE
