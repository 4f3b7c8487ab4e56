CONSTANTS
    launcher1 = launcher1
    launcher2 = launcher2
    domain = domain
    private = private
    client = client
    Launchers <- One
    Profiles <- MCProfiles
    Executables <- MCExecutables
    NoProcess = NoProcess
SPECIFICATION Spec
INVARIANTS
    ClientsRunIsolated
CHECK_DEADLOCK FALSE
