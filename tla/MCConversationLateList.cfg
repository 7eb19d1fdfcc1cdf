CONSTANTS
    Backlog = 2
    Authors = {a, b}
    People = {p}
    Rooms = {r1, r2}
    FirstRoom = r1
    Absent = Absent
    Long = {1}
    LineBudget = 2
    HistoryLimit = 2
    HistoryRooms = 1
    LogLimit = 4
    MaxEvents = 2
    MaxMoves = 2
SPECIFICATION TalkSpec
SYMMETRY Alike
CONSTRAINT Bounded
PROPERTY NewsIsTrue
CHECK_DEADLOCK FALSE
