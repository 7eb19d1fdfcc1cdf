SPECIFICATION Spec
CONSTANTS
    x = x
    y = y
    z = z
    ann = ann
    ben = ben
    Conns = {x, y, z}
    Rooms = {r1, r2}
    Users = {ann, ben}
    Dicts = {1, 2, 3, 4, 5}
    None = None
    UserOf <- MCUserOf
    MaxPackets <- MCMaxPackets
    Moves = 1
    MaxClients = 2
INVARIANTS
    NoGhost
    OneRoom
    EmptyRoomsFallOff
PROPERTY
    StopEndsAll
CHECK_DEADLOCK FALSE
