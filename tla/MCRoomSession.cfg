SPECIFICATION Spec
CONSTANTS
    me = me
    p1 = p1
    p2 = p2
    mine = mine
    k1 = k1
    k2 = k2
    k3 = k3
    kx = kx
    i0 = i0
    i1 = i1
    i2 = i2
    None = None
    Self = me
    OwnKey = mine
    Publics <- MCPublics
    Keys <- MCKeys
    Ids <- MCIds
    KeyId <- MCKeyId
    Nonces = {n1, n2}
    SeenLimit = 2
    MaxShown = 4
INVARIANTS
    TypeOK
    HoldersAgree
    ShownOnce
    SeenIsTail
PROPERTIES
    HolderNotDisplaced
    RingSpec
