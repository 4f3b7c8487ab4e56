CONSTANTS
    metadata = metadata
    assembly = assembly
    run1 = run1
    run2 = run2
    Runs <- MCRuns
    Manifest <- MCManifest
    Metadata = metadata
    Marker = marker
    Extra = extra
    NoDir = NoDir
    NoRun = NoRun
    MaxFaults = 2
SPECIFICATION FairSpec
INVARIANTS
    PublishedIsWhole
    CreatedIsKept
    SuccessMeansSourceIntact
    NothingLeftBehind
PROPERTIES
    EveryRunEnds
    SomeRunSucceeds
CHECK_DEADLOCK FALSE
