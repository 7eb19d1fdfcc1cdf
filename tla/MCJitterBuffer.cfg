SPECIFICATION Spec
CONSTANTS
    Target = 3
    Slack = 1
    Interval = 2
    Capacity = 6
    Storm = 8
    Calm = 12
INVARIANTS
    OnlyOvertakenBehind
    SpikeMelts
PROPERTY
    ReserveIsKept
CHECK_DEADLOCK FALSE
