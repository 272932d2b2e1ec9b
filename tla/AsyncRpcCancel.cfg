SPECIFICATION Spec
CONSTANTS
    MaxCalls = 2
    Cancellers = {c1}
    Timeout = 1
    PollInterval = 1
    ErrorShapes = {"entity"}
    OffProtocol = FALSE
PROPERTY CancelTakesTheCurrent
CHECK_DEADLOCK FALSE
