SPECIFICATION Spec
CONSTANTS
    Intervals = {3, 4}
    Timeouts = {0, 1, 7, 12}
    Slack = 2
    MinSleep = 1
    MaxPoll = 10
    Over = 1
    MaxTime = 24
INVARIANTS TypeOK NoBursts EndsInTime
CHECK_DEADLOCK FALSE
