CONSTANTS
    Clients = {a}
    Rooms = {r1, r2}
    None = None
    FirstRoom = r1
    MaxConns = 2
    MaxTokens = 2
    MaxQueue = 2
    MaxRestarts = 1
SPECIFICATION Spec
PROPERTY CallRecovers
CHECK_DEADLOCK FALSE
