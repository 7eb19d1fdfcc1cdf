---------------------------- MODULE MCChatServer ----------------------------
(* ChatServer with three connections: x and y ask for the same name, and x   *)
(* also changes rooms.                                                       *)
EXTENDS ChatServer

CONSTANTS x, y, z, ann, ben, Moves

MCUserOf == [c \in Conns |-> IF c = z THEN ben ELSE ann]
MCMaxPackets == [c \in Conns |-> IF c = x THEN Moves ELSE 0]
=============================================================================
