---------------------------- MODULE MCKeyExchange ----------------------------
(* KeyExchange from the moment two members have settled in one room: each    *)
(* keyed to the other, nothing on its way.  (Starting from Init instead      *)
(* multiplies the states by every order of the first joins.)  Either the     *)
(* connection of b has just broken and its user comes back as b2; or a       *)
(* changes rooms and talks while b may leave, and b2 has come and gone.      *)
EXTENDS KeyExchange

CONSTANTS
    a, b, b2, ann, ben, open, home,
    Acts    \* bound of a; the others neither move nor talk

MCUserOf == [c \in Conns |-> IF c = a THEN ann ELSE ben]   \* b2 is b again
MCPasswordOf == [c \in Conns |-> open]
MCMaxActs == [c \in Conns |-> IF c = a THEN Acts ELSE 0]

Members == {a, b}

Settled(connected, gone, used) ==
    LET Others(c) == IF c \in connected THEN (Members \ {c}) \X {home} ELSE {}
    IN
    /\ phase = [c \in Conns |-> CASE c \in connected -> "up"
                                [] c \in gone -> "down"
                                [] OTHER -> "new"]
    /\ room = [c \in Conns |-> IF c \in connected THEN home ELSE None]
    /\ cipher = room
    /\ moving = [c \in Conns |-> Idle]
    /\ pairs = [c \in Conns |-> [r \in Rooms |-> IF r = home THEN Others(c) ELSE {}]]
    /\ ring = pairs
    /\ peerUsers = [c \in Conns |-> [p \in Pubs |->
                       IF p \in Others(c) THEN UserOf[p[1]] ELSE None]]
    /\ pending = [c \in Conns |-> {}]
    /\ mismatched = [c \in Conns |-> {}]
    /\ where = [c \in Conns |-> IF c \in Members THEN home ELSE None]
    /\ members = [r \in Rooms |-> IF r = home THEN SetToSeq(Members) ELSE << >>]
    /\ name = [c \in Conns |-> IF c \in Members THEN UserOf[c] ELSE None]
    /\ todo = [c \in Conns |-> << >>]
    /\ up = [c \in Conns |-> IF c \in Members \ connected THEN <<Eof>> ELSE << >>]
    /\ down = [c \in Conns |-> << >>]
    /\ acts = used
    /\ leftOut = {}

Returns == Settled({a}, {b}, MaxActs)
Moves == Settled({a, b}, {b2}, [c \in Conns |-> 0])

SettledSpec == (Returns \/ Moves) /\ [][Next]_vars /\ Fairness
==============================================================================
