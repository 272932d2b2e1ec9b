SPECIFICATION Spec
CONSTANTS
    None = None
    Elements <- MCElements
    Objects <- MCObjects
INVARIANT TypesArrive
CHECK_DEADLOCK FALSE
