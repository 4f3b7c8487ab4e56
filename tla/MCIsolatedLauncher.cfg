CONSTANTS
    launcher1 = launcher1
    launcher2 = launcher2
    domain = domain
    private = private
    client = client
    Launchers <- Two
    Profiles <- MCProfiles
    Executables <- MCExecutables
    NoProcess = NoProcess
SPECIFICATION Spec
INVARIANTS
    IsolatedWhileWatched
    LeavesNoTrace
PROPERTIES
    EndsWithItsClient
CHECK_DEADLOCK FALSE
