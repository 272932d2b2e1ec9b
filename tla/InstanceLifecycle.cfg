SPECIFICATION FairSpec
CONSTANTS
    Clients = {c1, c2}
    Bodies = {"text", "invalid status", "code alone"}
    MaxCalls = 3
INVARIANTS
    TypeOK
    OutcomeIsTrue
PROPERTIES
    KeepsPromise
    CallEnds
\* After MaxCalls calls everything may be quiet for good.
CHECK_DEADLOCK FALSE
