CONSTANTS
    XorByte <- MCXorByte
    Key <- MCKey
    Shift = 7
    Links <- MCLinks
    MaxSent = 3
SPECIFICATION FairSpec
INVARIANTS InOrder NoCursorDrift NothingLostBeforeOversize OversizeStops
PROPERTIES EventuallyDelivered
CHECK_DEADLOCK FALSE
