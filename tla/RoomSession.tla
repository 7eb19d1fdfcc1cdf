------------------------------ MODULE RoomSession ------------------------------
(***************************************************************************)
(* core/room_session.py: one end-to-end session in one room.  Members of   *)
(* the room announce themselves (accept_offer), hand over a sender key     *)
(* (accept_sender_key), leave (forget_peer), and their messages arrive.    *)
(*                                                                         *)
(* Every member holds every other member's sender key, so a verified peer  *)
(* can announce any key of the room, ours included; and ids can collide.   *)
(* Calls that raise (a bad tag, a key that does not unwrap, an id held by  *)
(* someone else) change nothing and are stuttering steps.                  *)
(***************************************************************************)
EXTENDS KeyTable, Integers, Sequences, SequencesExt

CONSTANTS
    Self, OwnKey,   \* public_key and own_sender_key() of this session
    Nonces,
    SeenLimit,      \* SEEN_MESSAGES_LIMIT
    MaxShown        \* bound: messages shown in a behaviour

ASSUME SelfAssumption == Self \in Publics /\ OwnKey \in Keys
ASSUME LimitAssumption == SeenLimit \in Nat \ {0} /\ MaxShown \in Nat

VARIABLES
    session,   \* _pairs, _by_id, _holders, _peer_ids
    seen,      \* _seen, oldest first: key id and nonce of a message
    shown      \* history: the heads of the messages shown to the user
vars == <<session, seen, shown>>

Peers == Publics \ {Self}
Heads == Ids \X Nonces

TypeOK ==
    /\ session \in Table
    /\ seen \in Seq(Heads)
    /\ shown \in Seq(Heads)

Init ==
    /\ session = NewTable(Self, OwnKey)
    /\ seen = << >>
    /\ shown = << >>

AcceptOffer(p) ==
    /\ session' = TableAfterOffer(session, p)
    /\ UNCHANGED <<seen, shown>>

AcceptSenderKey(p, k) ==
    /\ CanTake(session, p, k)
    /\ session' = TableAfterKey(session, p, k)
    /\ UNCHANGED <<seen, shown>>

ForgetPeer(p) ==
    /\ session' = TableAfterForget(session, p)
    /\ UNCHANGED <<seen, shown>>

\* first_sight: the newest SeenLimit heads are remembered.
RememberUntilFull(head) ==         \* mutant: a full memory drops the newcomer
    IF Len(seen) < SeenLimit THEN Append(seen, head) ELSE seen
Remember(head) ==
    IF Len(seen) < SeenLimit THEN Append(seen, head) ELSE Append(Tail(seen), head)

\* A message sealed under k arrives (again): it is shown if it opens
\* and first_sight says so.
FirstSightAlways(head) == TRUE     \* mutant: nothing is remembered
FirstSight(head) == ~Contains(seen, head)
Receive(k, nonce) ==
    LET head == <<KeyId[k], nonce>>
    IN /\ Len(shown) < MaxShown
       /\ Opens(session, k)
       /\ FirstSight(head)
       /\ seen' = Remember(head)
       /\ shown' = Append(shown, head)
       /\ UNCHANGED session

Next ==
    \/ \E p \in Peers : AcceptOffer(p) \/ ForgetPeer(p)
    \/ \E p \in Peers, k \in Keys : AcceptSenderKey(p, k)
    \/ \E k \in Keys, nonce \in Nonces : Receive(k, nonce)

Spec == Init /\ [][Next]_vars

-------------------------------------------------------------------------------
\* _by_id, _holders and _peer_ids stay three views of one relation through any
\* sequence of offers, re-keyings and departures, colliding ids included; our
\* own entry survives all of them, and a key is held only for a verified peer.
HoldersAgree == ConsistentTable(session, Self, OwnKey)

\* "The newcomer loses" (room_session.py:237): an id changes hands only by being
\* vacated first, by its holder leaving or announcing another key.
HolderLeftFirst ==
    \A i \in Ids :
        session.holders[i] # None /\ session'.holders[i] # session.holders[i]
            => /\ session'.holders[i] = None
               /\ session'.peerIds[session.holders[i]] # i
HolderNotDisplaced == [][HolderLeftFirst]_vars

\* A message shown once is not shown again while fewer than SeenLimit others
\* have been shown since, whoever leaves, returns or re-keys in between
\* (room_session.py:62 "keeps a message from being shown twice").
ShownOnce ==
    \A i, j \in 1..Len(shown) :
        i < j /\ shown[i] = shown[j] => j - i > SeenLimit

\* What _seen holds is the tail of what was shown: nothing that did not open
\* takes a slot, and a full _seen drops its oldest entry only.
SeenIsTail ==
    /\ Len(seen) = IF Len(shown) < SeenLimit THEN Len(shown) ELSE SeenLimit
    /\ \A i \in 1..Len(seen) : seen[i] = shown[Len(shown) - Len(seen) + i]

\* The session implements the key ring: its client sees one key per member and
\* one member per id.
Ring == INSTANCE KeyRing
          WITH ring <- [p \in Publics |-> IF p = Self THEN OwnKey
                                          ELSE SenderKeyOf(session, p)]
RingSpec == Ring!Spec
===============================================================================
