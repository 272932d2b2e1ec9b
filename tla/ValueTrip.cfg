SPECIFICATION Spec
CONSTANTS
    None = None
    Elements <- MCElements
    Objects <- MCObjects
INVARIANTS
    TypeOK
    ArrivesEqual
    AppliedShows
    UpdatedShows
    BareTrip
    ScriptOutputSurvives
\* A trip ends.
CHECK_DEADLOCK FALSE
