---------------------------- MODULE MCRoomSession ----------------------------
(* RoomSession with two peers and ids that collide: k3 has k1's id, and kx  *)
(* has the id of our own key.                                               *)
EXTENDS RoomSession

CONSTANTS me, p1, p2, mine, k1, k2, k3, kx, i0, i1, i2

MCPublics == {me, p1, p2}
MCKeys == {mine, k1, k2, k3, kx}
MCIds == {i0, i1, i2}
MCKeyId == [k \in MCKeys |-> CASE k \in {mine, kx} -> i0
                               [] k \in {k1, k3}   -> i1
                               [] k = k2           -> i2]
==============================================================================
