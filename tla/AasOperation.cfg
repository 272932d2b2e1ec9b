SPECIFICATION Spec
CONSTANTS
    NIn = 2
    NInOut = 1
    NElems = 2
    GivenFor <- MCOneVariableEach
    Described <- MCDescribed
    MaxCalls = 2
INVARIANTS
    TypeOK
    SentIsGiven
    ServiceIsSelfContained
PROPERTY KeepsVariables
\* After MaxCalls calls nothing need happen.
CHECK_DEADLOCK FALSE
