---------------------------- MODULE MCVoiceRelay ----------------------------
(* VoiceRelay with clients x and y behind one ip; x also has a socket on      *)
(* another ip (a second network), z is elsewhere.                             *)
EXTENDS VoiceRelay

CONSTANTS x, y, z, x1, x2, y1, z1, near, far

MCSocketsOf == [c \in Clients |->
    CASE c = x -> {x1, x2} [] c = y -> {y1} [] OTHER -> {z1}]
MCIpOf == [n \in Clients \cup Addrs |-> IF n \in {x2, z, z1} THEN far ELSE near]
=============================================================================
