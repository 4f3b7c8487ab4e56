CONSTANTS
    XorByte <- MCXorByte
    Key <- MCKey
    Shift = 7
    Seed <- MCSeed
    SeedShift = 7
    LocalText <- MCLocalText
    AreaName <- MCAreaName
    ClientPackets <- MCClientPackets
    SplashRevisions <- MCSplashRevisions
    None = None
    MaxHandled = 4
    MaxPayloadBytes = 5
    ReadChunkSize = 9
    TimeoutErrorIsBuiltin = TRUE
    MaxSent = 4
    MaxHeartbeats = 1
SPECIFICATION Spec
INVARIANTS HandledInOrder InboundInStep ClientReadsWhatIsSent RepliesInOrder
    CutOffForAReason CloseAfterTheLastRequest NoRequestHeldBack
CHECK_DEADLOCK FALSE
