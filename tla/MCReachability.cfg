CONSTANTS
    Methods <- MCMethods
    NameOf <- MCNameOf
    ExternalNames = {"System.Object"}
    Dumps <- MCDumps
    StartTokens <- MCStartTokens
    TargetToken = "t"
    MaxDepth = 3
SPECIFICATION Spec
INVARIANTS ShortestPath NotFoundMeansUnreachable
CHECK_DEADLOCK FALSE
