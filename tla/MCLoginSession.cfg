CONSTANTS
    Seed <- MCSeed
    SeedShift = 0
    LocalText <- MCLocalText
    AreaName <- MCAreaName
    ClientPackets <- MCClientPackets
    SplashRevisions <- MCSplashRevisions
    None = None
    MaxHandled = 5
SPECIFICATION SessionSpec
INVARIANTS TypeOK TransformOnce VersionBarrier SplashOnce AreaPushOnce ReadySinceFirstDB
    FieldsTellHistory
PROPERTY KeepsPromise
CHECK_DEADLOCK FALSE
