SPECIFICATION SettledSpec
CONSTANTS
    a = a
    b = b
    b2 = b2
    ann = ann
    ben = ben
    open = open
    home = r1
    None = None
    Users = {ann, ben}
    Passwords = {open}
    UserOf <- MCUserOf
    PasswordOf <- MCPasswordOf
    MaxActs <- MCMaxActs
    Leavers = {b}
    Conns = {a, b, b2}
    Rooms = {r1, r2}
    Acts = 2
INVARIANT
    KeysOnlyOfMembers
CHECK_DEADLOCK FALSE
