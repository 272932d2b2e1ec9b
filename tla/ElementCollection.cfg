SPECIFICATION Spec
CONSTANTS
    Clients = {c1, c2}
    Paths = {p1}
    MaxCalls = 3
    None = None
SYMMETRY Symmetry
INVARIANTS
    TypeOK
    CacheShowsOwn
PROPERTIES
    RefusalIsTrue
    KeepsStore
CHECK_DEADLOCK FALSE
