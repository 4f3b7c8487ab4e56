CONSTANTS
    XorByte <- MCXorByte
    KeyStream <- MCKeyStream
    MaxTextBytes = 8
    TextIds <- MCTextIds
    Text <- MCText
    Tables <- MCTables
SPECIFICATION Spec
INVARIANTS DiagnosisHolds LocalizedTextIsTrue
CHECK_DEADLOCK FALSE
