SPECIFICATION Spec
CONSTANTS
    NIn = 2
    NInOut = 1
    NElems = 1
    GivenFor <- MCShared
    Described <- MCDescribed
    MaxCalls = 1
INVARIANT IdsKept
\* After MaxCalls calls nothing need happen.
CHECK_DEADLOCK FALSE
