CONSTANTS
    Ids = {c1, c2}
    Attempts = 2
    BusyWaits = 1
    Tries = 2
    Nobody = Nobody
SPECIFICATION LinkSpec
INVARIANTS DemoUsersStop
CHECK_DEADLOCK FALSE
