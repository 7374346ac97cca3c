\* Two functions, one of them with a local, that may call each other and themselves
\* to a depth of three.
CONSTANTS
    Functions = {"f", "g"}
    Locals <- MCLocals
    Parms <- MCParms
    Values = {0, 1}
    Blank = 0
    MaxDepth = 4
    LocalStackSize = 2
    MaxStatements = 4
    Clients = {1, 2}
    NULL = "null"
SPECIFICATION FairSpec
INVARIANTS
    ProgramsInv
PROPERTIES
    CallerRestored
    ErrorShutsDown
    ComesBack
CHECK_DEADLOCK FALSE
