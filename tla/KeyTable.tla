------------------------------- MODULE KeyTable -------------------------------
(***************************************************************************)
(* The dictionaries of one core/room_session.py RoomSession, as a value    *)
(* and the three operations that change it.  They are operators on a       *)
(* record so that RoomSession can run one table alone and KeyExchange can  *)
(* run one per client and room.                                            *)
(*                                                                         *)
(* A dictionary d is a total function with None where d.get() finds        *)
(* nothing.  A pair key is determined by the two public keys and the room  *)
(* password, so _pairs is the set of the peers whose offer was verified.   *)
(***************************************************************************)
CONSTANTS
    Publics,   \* ephemeral public keys: who is who inside the encryption
    Keys,      \* sender keys
    Ids,       \* key ids
    KeyId,     \* key_id(): ids are short, so two keys may share one
    None       \* what dict.get() returns for a missing entry

ASSUME KeyIdAssumption == KeyId \in [Keys -> Ids]
ASSUME NoneAssumption == None \notin Publics \cup Keys \cup Ids

Table == [pairs   : SUBSET Publics,
          byId    : [Ids -> Keys \cup {None}],
          holders : [Ids -> Publics \cup {None}],
          peerIds : [Publics -> Ids \cup {None}]]

\* A session starts with its own sender key filed under its own public key.
NewTable(own, key) ==
    [pairs   |-> {},
     byId    |-> [i \in Ids |-> IF i = KeyId[key] THEN key ELSE None],
     holders |-> [i \in Ids |-> IF i = KeyId[key] THEN own ELSE None],
     peerIds |-> [p \in Publics |-> None]]

TableAfterOffer(t, p) == [t EXCEPT !.pairs = @ \cup {p}]

\* accept_sender_key goes through only for a verified peer, and only for an
\* id nobody else holds.
CanTakeAnyId(t, p, k) == p \in t.pairs   \* mutant: the newcomer wins
CanTake(t, p, k) ==
    /\ p \in t.pairs
    /\ t.holders[KeyId[k]] \in {p, None}

\* The peer's previous id is released, then the new one is filed.
TableAfterKeyForId(t, p, k) ==            \* mutant: files the key, not its id
    [t EXCEPT !.byId[KeyId[k]] = k, !.holders[KeyId[k]] = p, !.peerIds[p] = k]
TableAfterKey(t, p, k) ==
    [t EXCEPT
       !.byId    = [i \in Ids |-> IF i = KeyId[k] THEN k
                                  ELSE IF i = t.peerIds[p] THEN None
                                  ELSE t.byId[i]],
       !.holders = [i \in Ids |-> IF i = KeyId[k] THEN p
                                  ELSE IF i = t.peerIds[p] THEN None
                                  ELSE t.holders[i]],
       !.peerIds = [t.peerIds EXCEPT ![p] = KeyId[k]]]

TableAfterForgetOfId(t, p) ==             \* mutant: the key itself stays
    [t EXCEPT !.pairs = @ \ {p}, !.peerIds = [t.peerIds EXCEPT ![p] = None]]
TableAfterForget(t, p) ==
    [t EXCEPT
       !.pairs   = @ \ {p},
       !.byId    = [i \in Ids |-> IF i = t.peerIds[p] THEN None ELSE t.byId[i]],
       !.holders = [i \in Ids |-> IF i = t.peerIds[p] THEN None ELSE t.holders[i]],
       !.peerIds = [t.peerIds EXCEPT ![p] = None]]

KeyedPeers(t) == {p \in Publics : t.peerIds[p] # None}

SenderKeyOf(t, p) == IF t.peerIds[p] = None THEN None ELSE t.byId[t.peerIds[p]]

\* A message sealed under k opens iff k itself is filed under k's id.
Opens(t, k) == t.byId[KeyId[k]] = k

\* Filed under an id means filed by its holder: the three dictionaries are
\* views of one relation, and the session's own entry is never a peer's.
ConsistentTable(t, own, key) ==
    /\ \A i \in Ids : t.byId[i] = None <=> t.holders[i] = None
    /\ \A i \in Ids : t.byId[i] # None => KeyId[t.byId[i]] = i
    /\ \A i \in Ids, p \in Publics \ {own} :
          t.peerIds[p] = i <=> t.holders[i] = p
    /\ \A i \in Ids : t.holders[i] = own <=> i = KeyId[key]
    /\ t.byId[KeyId[key]] = key
    /\ t.peerIds[own] = None
    /\ KeyedPeers(t) \subseteq t.pairs
===============================================================================
