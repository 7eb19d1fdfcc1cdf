SPECIFICATION Spec
CONSTANTS
    x = x
    y = y
    z = z
    x1 = x1
    x2 = x2
    y1 = y1
    z1 = z1
    near = near
    far = far
    None = None
    Clients = {x, y}
    Addrs = {x1, x2, y1, z1}
    SocketsOf <- MCSocketsOf
    IpOf <- MCIpOf
    Rooms = {r1, r2}
    Codecs = {opus, pcm}
    Unset = Unset
    MaxSenderId = 4
    RateLimit = 2
INVARIANTS
    TypeOK
    IndexesAgree
    BoundToOwner
    NeverBack
PROPERTIES
    NeverReused
    JoinersFollow
