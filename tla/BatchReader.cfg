SPECIFICATION FairSpec
CONSTANTS
    N = 2
    MaxTime = 3
    PerTime = 2
    MaxInterrupts = 3
INVARIANTS
    TypeOK
    NothingPassedOver
    RepeatsAreInterruptions
PROPERTY ReaderEnds
