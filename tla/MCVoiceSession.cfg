CONSTANTS
    Talkers = {a, b}
    Ids = {i1, i2}
    None = None
    MaxSalt = 2
    MaxSequence = 3
    MaxLists = 2
    WindowSize = 2
SPECIFICATION Spec
SYMMETRY Alike
INVARIANTS ListIsHeard
PROPERTIES NonceOnce HeardOnce
CHECK_DEADLOCK FALSE
