SPECIFICATION Spec
CONSTANTS
    Target = 3
    Slack = 1
    Interval = 2
    Capacity = 6
    Storm = 8
    Calm = 12
INVARIANT
    NothingBehind
CHECK_DEADLOCK FALSE
