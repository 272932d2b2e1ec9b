SPECIFICATION Spec
CONSTANTS
    Clients = {c1, c2}
    Urls = {u1, u2}
    MaxCalls = 3
    None = None
SYMMETRY Symmetry
INVARIANTS
    TypeOK
    SoloTakesEffect
PROPERTY
    KeepsStore
CHECK_DEADLOCK FALSE
