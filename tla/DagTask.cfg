SPECIFICATION Spec
CONSTANTS
    Tasks <- MCTasks
    Args <- MCArgs
    Plans <- MCPlans
    MaxAttempts = 4
INVARIANTS
    TypeOK
    SinksMatchOutputs
    InputsAreLatest
PROPERTY KeepsAttempts
