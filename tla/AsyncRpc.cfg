SPECIFICATION FairSpec
CONSTANTS
    MaxCalls = 2
    Cancellers = {c1}
    Timeout = 2
    PollInterval = 1
    ErrorShapes = {"entity", "empty"}
    OffProtocol = TRUE
INVARIANTS
    TypeOK
    OutcomeAgrees
    CancelIsFinal
    TimedOutStaysCancellable
    TimeoutMeansUnknown
PROPERTIES
    KeepsPromise
    CallEnds
    CancelEnds
\* After MaxCalls calls everything may be quiet for good.
CHECK_DEADLOCK FALSE
