------------------------------- MODULE KeyRing --------------------------------
(***************************************************************************)
(* What a room session promises its client, without its dictionaries: each *)
(* member has at most one sender key on the ring, and the key id at the    *)
(* front of a message names at most one member.  That is what lets         *)
(* core/client.py _check_origin read a message's author off its id.        *)
(***************************************************************************)
CONSTANTS Publics, Keys, Ids, KeyId, None, Self, OwnKey

VARIABLE ring

Holds(p, i) == ring[p] # None /\ KeyId[ring[p]] = i

Init == ring = [p \in Publics |-> IF p = Self THEN OwnKey ELSE None]

Learn(p, k) ==
    /\ \A q \in Publics \ {p} : ~Holds(q, KeyId[k])
    /\ ring' = [ring EXCEPT ![p] = k]

Drop(p) == ring' = [ring EXCEPT ![p] = None]

Next == \E p \in Publics \ {Self} : Drop(p) \/ \E k \in Keys : Learn(p, k)

Spec == Init /\ [][Next]_ring

-------------------------------------------------------------------------------
\* An id never names two members (room_session.py: "Each id has exactly one
\* holder"), and our own id always names us.
Unambiguous ==
    /\ \A p, q \in Publics : \A i \in Ids : Holds(p, i) /\ Holds(q, i) => p = q
    /\ ring[Self] = OwnKey
===============================================================================
