---------------------------- MODULE VoiceRelayProofs ----------------------------
(***************************************************************************)
(* VoiceRelay for every set of clients, sockets, rooms and codecs, and     *)
(* every number of ids.                                                    *)
(***************************************************************************)
EXTENDS VoiceRelay, WellFoundedInduction, TLAPS

\* A set of naturals has a least element, the one Min chooses.
LEMMA MinIsLeast ==
    ASSUME NEW S \in SUBSET Nat, S # {}
    PROVE  Min(S) \in S /\ \A j \in S : Min(S) <= j
<1>1. IsWellFoundedOn(OpToRel(<, Nat), Nat)
  BY NatLessThanWellFounded
<1>2. PICK i \in S : \A j \in S : ~ (<<j, i>> \in OpToRel(<, Nat))
  BY <1>1, WFMin
<1>3. \A j \in S : ~ (j < i)
  BY <1>2 DEF OpToRel
<1>4. \A j \in S : i <= j
  BY <1>3
<1>. QED
  BY <1>4 DEF Min

\* RoomCodec answers with what was proposed to a room without a codec, and
\* with the codec of one of its members otherwise.
LEMMA RoomCodecIsDecided ==
    ASSUME NEW members \in SUBSET Ids, NEW r, NEW proposed
    PROVE  \/ Decided(members, r) = {} /\ RoomCodec(members, r, proposed) = proposed
           \/ \E i \in Decided(members, r) : RoomCodec(members, r, proposed) = peer[i].codec
<1>1. CASE Decided(members, r) = {}
  BY <1>1 DEF RoomCodec
<1>2. CASE Decided(members, r) # {}
  <2>1. Decided(members, r) \subseteq members
    BY Zenon DEF Decided
  <2>2. Decided(members, r) \in SUBSET Nat
    <3>1. Ids \subseteq Nat
      BY LimitAssumption DEF Ids
    <3>. QED
      BY <2>1, <3>1, Zenon
  <2>3. Min(Decided(members, r)) \in Decided(members, r)
    BY <1>2, <2>2, MinIsLeast, Zenon
  <2>. QED
    BY <1>2, <2>3, Zenon DEF RoomCodec
<1>. QED
  BY <1>1, <1>2

-------------------------------------------------------------------------------
\* The inductive invariant: the two dictionaries agree, an address is bound by
\* its owner, and an id that was not handed out yet is in neither.
NotHandedOut(i) == i >= next_sender_id => i \notin by_sender
Inv ==
    /\ TypeOK
    /\ IndexesAgree
    /\ BoundToOwner
    /\ \A i \in Ids : NotHandedOut(i)

\* Removing a client takes its id out of both dictionaries and nothing else.
LEMMA RemovedKeepsInv ==
    ASSUME Inv, NEW c \in Clients, Removed(c), UNCHANGED <<next_sender_id, given>>,
           result' = Nothing
    PROVE  Inv'
<1> USE NobodyAssumption, LimitAssumption
<1>1. /\ by_client' = [by_client EXCEPT ![c] = None]
      /\ by_sender' = by_sender \ {by_client[c]}
      /\ peer' = [i \in Ids |-> IF i = by_client[c] THEN None ELSE peer[i]]
  BY DEF Removed, PeerWithout
<1>2. \A d \in Clients : d # c /\ by_client[d] # None => by_client[d] # by_client[c]
  BY Zenon DEF Inv, IndexesAgree, InVoice
<1>3. TypeOK'
  BY <1>1 DEF Inv, TypeOK, Nothing
<1>4. by_sender' = Listed'
  BY <1>1, <1>2 DEF Inv, TypeOK, IndexesAgree, Listed
<1>5. \A i \in Ids : i \in by_sender' <=> peer'[i] # None
  BY <1>1 DEF Inv, TypeOK, IndexesAgree
<1>6. \A d \in Clients : InVoice(d)' => /\ (peer[by_client[d]].client)' = d
                                       /\ (given[by_client[d]])' = d
  BY <1>1, <1>2 DEF Inv, TypeOK, IndexesAgree, InVoice
<1>7. BoundToOwner'
  BY <1>1 DEF Inv, TypeOK, BoundToOwner, BoundTo
<1>8. \A i \in Ids : NotHandedOut(i)'
  BY <1>1 DEF Inv, NotHandedOut
<1>. QED
  BY <1>3, <1>4, <1>5, <1>6, <1>7, <1>8 DEF Inv, IndexesAgree

\* Joining moves the client from its old id to the next one.
LEMMA JoinKeepsInv ==
    ASSUME Inv, NEW c \in Clients, NEW r \in Rooms, NEW proposed \in Codecs \cup {Unset},
           Join(c, r, proposed)
    PROVE  Inv'
<1> USE NobodyAssumption, LimitAssumption
<1> DEFINE k == next_sender_id
           new == [client |-> c, room |-> r, salted |-> FALSE, address |-> None,
                   codec |-> RoomCodec(Without(c), r, proposed), count |-> 0]
<1>1. k \in Ids /\ k \notin by_sender /\ by_client[c] # k /\ k # None
  BY DEF Join, Inv, TypeOK, IndexesAgree, Ids, NotHandedOut, Listed
<1>2. /\ by_client' = [by_client EXCEPT ![c] = k]
      /\ by_sender' = (by_sender \ {by_client[c]}) \cup {k}
      /\ given' = [given EXCEPT ![k] = c]
      /\ next_sender_id' = k + 1
      /\ result' = Nothing
  BY DEF Join
<1>3. \A i \in Ids : peer'[i] = IF i = k THEN new
                                 ELSE IF i = by_client[c] THEN None ELSE peer[i]
  BY <1>1, Zenon DEF Join, PeerWithout
<1>4. Without(c) \in SUBSET Ids
  BY DEF Without, Listed, Inv, TypeOK
<1>5. RoomCodec(Without(c), r, proposed) \in Codecs \cup {Unset}
  <2>1. \A i \in Without(c) : peer[i] \in Participant
    BY <1>4, Zenon DEF Inv, TypeOK, IndexesAgree, Without, Listed
  <2>2. \A i \in Without(c) : peer[i].codec \in Codecs \cup {Unset}
    BY <2>1 DEF Participant
  <2>3. Decided(Without(c), r) \subseteq Without(c)
    BY Zenon DEF Decided
  <2>4. \/ RoomCodec(Without(c), r, proposed) = proposed
        \/ \E i \in Decided(Without(c), r) :
               RoomCodec(Without(c), r, proposed) = peer[i].codec
    BY ONLY <1>4, RoomCodecIsDecided
  <2>. QED
    BY <2>2, <2>3, <2>4, Zenon
<1>6. new \in Participant
  BY <1>5 DEF Participant
<1>7. peer' \in [Ids -> Participant \cup {None}]
  <2> HIDE DEF new
  <2>. QED
    BY <1>1, <1>3, <1>6, Zenon DEF Join, PeerWithout, Inv, TypeOK
<1> HIDE DEF k
<1>8. \A d \in Clients : d # c /\ by_client[d] # None =>
          by_client[d] # by_client[c] /\ by_client[d] # k
  BY <1>1, Zenon DEF Inv, IndexesAgree, InVoice, Listed
<1>9. TypeOK'
  <2>1. next_sender_id' \in 1 .. MaxSenderId + 1
    BY <1>1, <1>2 DEF Ids
  <2>2. by_client' \in [Clients -> Ids \cup {None}] /\ by_sender' \subseteq Ids
    BY <1>1, <1>2 DEF Inv, TypeOK
  <2>3. given' \in [Ids -> Clients \cup {None}]
    BY <1>1, <1>2 DEF Inv, TypeOK
  <2>4. result' \in [from : Addrs \cup {None}, to : SUBSET Addrs]
    BY <1>2 DEF Nothing
  <2>. QED
    BY <1>7, <2>1, <2>2, <2>3, <2>4 DEF TypeOK
<1>10. by_sender' = Listed'
  BY <1>1, <1>2, <1>8 DEF Inv, TypeOK, IndexesAgree, Listed
<1>11. \A i \in Ids : i \in by_sender' <=> peer'[i] # None
  <2>1. new # None
    BY <1>6, Zenon
  <2>. QED
    BY <1>1, <1>2, <1>3, <2>1, Zenon DEF Inv, TypeOK, IndexesAgree
<1>12. \A d \in Clients : InVoice(d)' => /\ (peer[by_client[d]].client)' = d
                                       /\ (given[by_client[d]])' = d
  BY <1>1, <1>2, <1>3, <1>8 DEF Inv, TypeOK, IndexesAgree, InVoice
<1>13. BoundToOwner'
  BY <1>1, <1>2, <1>3 DEF Inv, TypeOK, BoundToOwner, BoundTo
<1>14. \A i \in Ids : NotHandedOut(i)'
  BY <1>1, <1>2 DEF Inv, TypeOK, NotHandedOut, Ids, k
<1>. QED
  BY <1>9, <1>10, <1>11, <1>12, <1>13, <1>14 DEF Inv, IndexesAgree

\* Overwriting a participant's entry keeps the invariant when its client stays
\* and its address is none, the old one or a socket of its owner.
LEMMA UpdateKeepsInv ==
    ASSUME Inv, NEW i \in by_sender, NEW p \in Participant,
           p.client = peer[i].client,
           \/ p.address = peer[i].address
           \/ p.address \in SocketsOf[given[i]] /\ IpOf[p.address] = IpOf[given[i]],
           peer' = [peer EXCEPT ![i] = p],
           UNCHANGED <<next_sender_id, by_client, by_sender, given>>
    PROVE  /\ peer' \in [Ids -> Participant \cup {None}]
           /\ IndexesAgree'
           /\ BoundToOwner'
           /\ \A j \in Ids : NotHandedOut(j)'
<1> USE NobodyAssumption
<1>1. /\ i \in Ids
      /\ \A j \in Ids : peer'[j] = IF j = i THEN p ELSE peer[j]
      /\ p # None
  BY DEF Inv, TypeOK
<1>2. peer' \in [Ids -> Participant \cup {None}]
  BY <1>1 DEF Inv, TypeOK
<1>3. IndexesAgree'
  <2>1. by_sender' = Listed'
    BY DEF Inv, IndexesAgree, Listed
  <2>2. \A j \in Ids : j \in by_sender' <=> peer'[j] # None
    BY <1>1, Zenon DEF Inv, IndexesAgree
  <2>3. \A d \in Clients : InVoice(d)' => /\ (peer[by_client[d]].client)' = d
                                         /\ (given[by_client[d]])' = d
    BY <1>1 DEF Inv, TypeOK, IndexesAgree, InVoice
  <2>. QED
    BY <2>1, <2>2, <2>3 DEF IndexesAgree
<1>4. BoundToOwner'
  BY <1>1 DEF Inv, TypeOK, BoundToOwner, BoundTo
<1>5. \A j \in Ids : NotHandedOut(j)'
  BY DEF Inv, NotHandedOut
<1>. QED
  BY <1>2, <1>3, <1>4, <1>5

\* What a listed id is: a participant, handed to its own client.
LEMMA ListedIsParticipant ==
    ASSUME Inv
    PROVE  /\ \A i \in by_sender : peer[i] \in Participant /\ given[i] = peer[i].client
           /\ \A c \in Clients : InVoice(c) => by_client[c] \in by_sender
<1> USE NobodyAssumption
<1>1. \A i \in by_sender : peer[i] \in Participant
  BY DEF Inv, TypeOK, IndexesAgree
<1>2. \A i \in by_sender : \E c \in Clients : InVoice(c) /\ i = by_client[c]
  BY Zenon DEF Inv, IndexesAgree, Listed, InVoice
<1>3. ASSUME NEW i \in by_sender
      PROVE  given[i] = peer[i].client
  <2>1. PICK c \in Clients : InVoice(c) /\ i = by_client[c]
    BY <1>2
  <2>. QED
    BY <2>1 DEF Inv, IndexesAgree
<1>4. \A c \in Clients : InVoice(c) => by_client[c] \in by_sender
  BY Zenon DEF Inv, IndexesAgree, Listed, InVoice
<1>. QED
  BY <1>1, <1>3, <1>4

\* Every call keeps the inductive invariant.
LEMMA InvStep == Inv /\ [Next]_vars => Inv'
<1> SUFFICES ASSUME Inv, [Next]_vars
             PROVE  Inv'
  OBVIOUS
<1> USE NobodyAssumption, LimitAssumption
<1>1. ASSUME NEW c \in Clients, NEW r \in Rooms, NEW proposed \in Codecs \cup {Unset},
             Join(c, r, proposed)
      PROVE  Inv'
  BY <1>1, JoinKeepsInv
<1>2. ASSUME NEW c \in Clients, JoinExhausted(c) \/ Leave(c)
      PROVE  Inv'
  BY <1>2, RemovedKeepsInv DEF JoinExhausted, Leave
<1>3. ASSUME NEW c \in Clients, NEW r \in Rooms, Move(c, r)
      PROVE  Inv'
  <2> DEFINE i == by_client[c]
             p == [peer[i] EXCEPT !.room = r]
  <2>1. i \in by_sender /\ peer[i] \in Participant
    BY <1>3, ListedIsParticipant DEF Move
  <2>2. p \in Participant /\ p.client = peer[i].client /\ p.address = peer[i].address
    BY <2>1 DEF Participant
  <2>3. /\ peer' = [peer EXCEPT ![i] = p]
        /\ UNCHANGED <<next_sender_id, by_client, by_sender, given>>
        /\ result' = Nothing
    BY <1>3 DEF Move
  <2> HIDE DEF i, p
  <2>. QED
    BY <2>1, <2>2, <2>3, UpdateKeepsInv DEF Inv, TypeOK, Nothing
<1>4. ASSUME NEW c \in Clients, SetSalt(c)
      PROVE  Inv'
  <2> DEFINE i == by_client[c]
             p == [peer[i] EXCEPT !.salted = TRUE]
  <2>1. i \in by_sender /\ peer[i] \in Participant
    BY <1>4, ListedIsParticipant DEF SetSalt
  <2>2. p \in Participant /\ p.client = peer[i].client /\ p.address = peer[i].address
    BY <2>1 DEF Participant
  <2>3. /\ peer' = [peer EXCEPT ![i] = p]
        /\ UNCHANGED <<next_sender_id, by_client, by_sender, given>>
        /\ result' = Nothing
    BY <1>4 DEF SetSalt
  <2> HIDE DEF i, p
  <2>. QED
    BY <2>1, <2>2, <2>3, UpdateKeepsInv DEF Inv, TypeOK, Nothing
<1>5. ASSUME NEW c \in Clients, NEW i \in Ids, NEW token \in Ids, given[token] = c,
             NEW a \in SocketsOf[c], Hello(i, token, a)
      PROVE  Inv'
  <2> DEFINE p == [peer[i] EXCEPT !.address = a]
  <2>1. i \in by_sender /\ given[i] = c /\ IpOf[a] = IpOf[c] /\ peer[i] \in Participant
    BY <1>5, ListedIsParticipant DEF Hello, CanBind, Known, TokenMatches
  <2>2. a \in Addrs
    BY SocketAssumption
  <2>3. p \in Participant /\ p.client = peer[i].client /\ p.address = a
    BY <2>1, <2>2 DEF Participant
  <2>4. /\ peer' = [peer EXCEPT ![i] = p]
        /\ UNCHANGED <<next_sender_id, by_client, by_sender, given>>
        /\ result' = Nothing
    BY <1>5 DEF Hello
  <2> HIDE DEF p
  <2>. QED
    BY <2>1, <2>3, <2>4, UpdateKeepsInv DEF Inv, TypeOK, Nothing
<1>6. ASSUME NEW i \in Ids, NEW a \in Addrs, NEW fresh \in BOOLEAN, Audio(i, a, fresh)
      PROVE  Inv'
  <2> DEFINE p == [peer[i] EXCEPT !.count = IF fresh THEN 1 ELSE @ + 1]
  <2>1. /\ i \in by_sender
        /\ peer[i] \in Participant
        /\ fresh \/ peer[i].count < RateLimit
    BY <1>6, ListedIsParticipant DEF Audio, CanSpeak, Known
  <2>2. p \in Participant /\ p.client = peer[i].client /\ p.address = peer[i].address
    BY <2>1 DEF Participant
  <2>3. /\ peer' = [peer EXCEPT ![i] = p]
        /\ UNCHANGED <<next_sender_id, by_client, by_sender, given>>
        /\ result' = [from |-> a, to |-> {peer[j].address : j \in Targets(i)}]
    BY <1>6 DEF Audio
  <2>4. {peer[j].address : j \in Targets(i)} \subseteq Addrs
    <3>1. \A j \in Targets(i) : peer[j] \in Participant /\ peer[j].address # None
      BY ListedIsParticipant DEF Targets, Inv, IndexesAgree
    <3>2. \A j \in Targets(i) : peer[j].address \in Addrs
      BY <3>1 DEF Participant
    <3>. QED
      BY <3>2
  <2>5. result' \in [from : Addrs \cup {None}, to : SUBSET Addrs]
    BY <2>3, <2>4
  <2> HIDE DEF p
  <2>. QED
    BY <2>1, <2>2, <2>3, <2>5, UpdateKeepsInv DEF Inv, TypeOK
<1>7. CASE Rejected \/ UNCHANGED vars
  BY <1>7 DEF Rejected, vars, Nothing, Inv, TypeOK, IndexesAgree, InVoice, Listed,
              BoundToOwner, BoundTo, NotHandedOut
<1>8. \A c \in Clients : SocketsOf[c] \subseteq Addrs
  BY SocketAssumption
<1>. QED
  BY <1>1, <1>2, <1>3, <1>4, <1>5, <1>6, <1>7, <1>8
     DEF Next, Signalling, Datagram, Refused

\* A new relay, without participants, is consistent.
LEMMA InvInit == Init => Inv
BY NobodyAssumption, LimitAssumption
   DEF Init, Inv, TypeOK, IndexesAgree, BoundToOwner, NotHandedOut, Listed, InVoice, Ids,
       Nothing

\* The inductive invariant holds in every state.
LEMMA InvAlways == Spec => []Inv
BY InvInit, InvStep, PTL DEF Spec

\* The table is well-typed.
THEOREM TypeCorrect == Spec => []TypeOK
BY InvAlways, PTL DEF Inv

\* Both dictionaries hold the same participants, each under its own client.
THEOREM DictionariesAgree == Spec => []IndexesAgree
BY InvAlways, PTL DEF Inv

\* An address is bound to an id by the client the id was handed to.
THEOREM AddressesBoundByOwners == Spec => []BoundToOwner
BY InvAlways, PTL DEF Inv

-------------------------------------------------------------------------------
\* Two members have different addresses: their owners differ, and so do their
\* owners' sockets.  So what a socket says is never sent to it.
LEMMA NeverBackStep == Inv /\ NeverBack /\ [Next]_vars => NeverBack'
<1> SUFFICES ASSUME Inv, NeverBack, [Next]_vars
             PROVE  NeverBack'
  OBVIOUS
<1>1. CASE \E i \in Ids, a \in Addrs, fresh \in BOOLEAN : Audio(i, a, fresh)
  <2>1. PICK i \in Ids, a \in Addrs, fresh \in BOOLEAN : Audio(i, a, fresh)
    BY <1>1
  <2>2. /\ i \in by_sender /\ peer[i].address = a /\ a # None
        /\ result' = [from |-> a, to |-> {peer[j].address : j \in Targets(i)}]
    BY <2>1, NobodyAssumption DEF Audio, CanSpeak, Known
  <2>3. ASSUME NEW j \in Targets(i)
        PROVE  peer[j].address # a
    <3>1. j \in by_sender /\ j # i /\ peer[j].address # None
      BY <2>3 DEF Targets, Inv, IndexesAgree
    <3>2. \A k \in by_sender : \E c \in Clients : by_client[c] = k /\ InVoice(c)
      BY Zenon DEF Inv, IndexesAgree, Listed, InVoice
    <3>3. PICK c \in Clients : by_client[c] = i /\ InVoice(c)
      BY <2>2, <3>2
    <3>4. PICK d \in Clients : by_client[d] = j /\ InVoice(d)
      BY <3>1, <3>2
    <3>5. given[i] = c /\ given[j] = d /\ c # d
      BY <3>1, <3>3, <3>4 DEF Inv, IndexesAgree
    <3>6. a \in SocketsOf[c] /\ peer[j].address \in SocketsOf[d]
      BY <2>2, <3>1, <3>5 DEF Inv, BoundToOwner, BoundTo
    <3>. QED
      BY <3>5, <3>6, SocketAssumption
  <2>. QED
    BY <2>2, <2>3 DEF NeverBack
<1>2. CASE result' = Nothing \/ UNCHANGED vars
  BY <1>2 DEF NeverBack, Nothing, vars
<1>3. \A c \in Clients : SocketsOf[c] \subseteq Addrs
  BY SocketAssumption
<1>. QED
  BY <1>1, <1>2, <1>3 DEF Next, Signalling, Datagram, Refused, Rejected, Join,
     JoinExhausted, Leave, Move, SetSalt, Hello

\* Nobody's voice is sent back to the socket it came from.
THEOREM VoiceNeverComesBack == Spec => []NeverBack
<1>1. Init => NeverBack
  BY DEF Init, NeverBack, Nothing
<1>. QED
  BY <1>1, InvAlways, NeverBackStep, PTL DEF Spec

-------------------------------------------------------------------------------
\* No call brings back an id that was retired: only join adds one, the next.
LEMMA RetiredStep == Inv /\ [Next]_vars => RetiredStaysRetired
<1> SUFFICES ASSUME Inv, [Next]_vars, NEW i \in Ids, Retired(i)
             PROVE  Retired(i)'
  BY DEF RetiredStaysRetired
<1>1. next_sender_id \in Nat /\ i \in Nat
  BY LimitAssumption DEF Inv, TypeOK, Ids
<1>2. ASSUME NEW c \in Clients, NEW r \in Rooms, NEW proposed \in Codecs \cup {Unset},
             Join(c, r, proposed)
      PROVE  Retired(i)'
  <2>1. /\ by_sender' = (by_sender \ {by_client[c]}) \cup {next_sender_id}
        /\ next_sender_id' = next_sender_id + 1
    BY <1>2 DEF Join
  <2>. QED
    BY <1>1, <2>1 DEF Retired
<1>3. ASSUME by_sender' \subseteq by_sender, UNCHANGED next_sender_id
      PROVE  Retired(i)'
  BY <1>3 DEF Retired
<1>. QED
  BY <1>2, <1>3 DEF Next, Signalling, Datagram, Refused, Rejected, Removed, vars,
     JoinExhausted, Leave, Move, SetSalt, Hello, Audio

\* A number that was handed out is never handed out again.
THEOREM IdsNeverReused == Spec => NeverReused
BY InvAlways, RetiredStep, PTL DEF Spec, NeverReused

-------------------------------------------------------------------------------
\* A joiner takes the codec of the room, so the room keeps the one it has.
LEMMA CodecStep == Inv /\ [Next]_vars => OneCodecUntilMoved
<1> SUFFICES ASSUME Inv, [Next]_vars, NEW q \in Rooms, OneCodecIn(q), ~LostByMove(q)
             PROVE  FALSE
  BY DEF OneCodecUntilMoved
<1>1. PICK i \in Speakers(q)', j \in Speakers(q)' : peer'[i].codec # peer'[j].codec
  BY DEF LostByMove, OneCodecIn
<1>2. /\ i \in by_sender' /\ peer'[i].room = q /\ peer'[i].codec # Unset
      /\ j \in by_sender' /\ peer'[j].room = q /\ peer'[j].codec # Unset
  BY <1>1 DEF Speakers, Decided
<1>3. \A k, l \in by_sender : /\ peer[k].room = q /\ peer[k].codec # Unset
                              /\ peer[l].room = q /\ peer[l].codec # Unset
                              => peer[k].codec = peer[l].codec
  BY DEF OneCodecIn, Speakers, Decided
<1>4. ASSUME NEW c \in Clients, NEW r \in Rooms, NEW proposed \in Codecs \cup {Unset},
             Join(c, r, proposed)
      PROVE  FALSE
  <2> DEFINE k == next_sender_id
             old == by_client[c]
             codec == RoomCodec(Without(c), r, proposed)
  <2>1. k \in Ids /\ k \notin by_sender /\ old # k
    BY <1>4, NobodyAssumption, LimitAssumption
       DEF Join, Inv, TypeOK, IndexesAgree, Ids, NotHandedOut, Listed
  <2>2. /\ by_sender' = (by_sender \ {old}) \cup {k}
        /\ peer' = [PeerWithout(c) EXCEPT ![k] =
                      [client |-> c, room |-> r, salted |-> FALSE, address |-> None,
                       codec |-> codec, count |-> 0]]
    BY <1>4 DEF Join
  <2>3. /\ peer'[k].room = r /\ peer'[k].codec = codec
        /\ \A l \in by_sender \ {old} : peer'[l] = peer[l]
    <3>1. by_sender \subseteq Ids
      BY DEF Inv, TypeOK
    <3>. QED
      BY <2>1, <2>2, <3>1 DEF PeerWithout
  <2>4. Without(c) = by_sender \ {old} /\ Without(c) \in SUBSET Ids
    BY DEF Without, Inv, IndexesAgree, TypeOK
  <2>5. \/ Decided(Without(c), r) = {}
        \/ \E m \in Decided(Without(c), r) : codec = peer[m].codec
    <3> HIDE DEF codec
    <3>1. \/ Decided(Without(c), r) = {} /\ RoomCodec(Without(c), r, proposed) = proposed
          \/ \E m \in Decided(Without(c), r) :
                 RoomCodec(Without(c), r, proposed) = peer[m].codec
      <4>1. Without(c) \in SUBSET Ids
        BY <2>4
      <4>. QED
        BY ONLY <4>1, RoomCodecIsDecided
    <3>. QED
      BY <3>1, Zenon DEF codec
  <2> HIDE DEF k, codec
  <2>6. ASSUME NEW l \in by_sender \ {old}, peer[l].room = q, peer[l].codec # Unset, r = q
        PROVE  peer[l].codec = codec
    <3>1. l \in Decided(Without(c), r)
      BY <2>4, <2>6 DEF Decided
    <3>2. PICK m \in Decided(Without(c), r) : codec = peer[m].codec
      BY <2>5, <3>1, Zenon
    <3>3. m \in by_sender /\ peer[m].room = q /\ peer[m].codec # Unset
      BY <2>4, <2>6, <3>2 DEF Decided
    <3>. QED
      BY <1>3, <2>6, <3>2, <3>3
  <2>. QED
    BY <1>1, <1>2, <1>3, <2>1, <2>2, <2>3, <2>6
<1>5. ASSUME by_sender' \subseteq by_sender,
             \A k \in by_sender' : peer'[k].codec = peer[k].codec
      PROVE  FALSE
  <2>1. peer[i].room = q /\ peer[j].room = q
    BY <1>2, <1>5 DEF LostByMove
  <2>. QED
    BY <1>1, <1>2, <1>3, <1>5, <2>1
<1>6. ASSUME NEW c \in Clients, Removed(c)
      PROVE  FALSE
  <2>1. by_sender' = by_sender \ {by_client[c]} /\ by_sender \subseteq Ids
    BY <1>6 DEF Removed, Inv, TypeOK
  <2>2. \A k \in by_sender' : peer'[k] = peer[k]
    BY <1>6, <2>1 DEF Removed, PeerWithout
  <2>. QED
    BY <1>5, <2>1, <2>2
<1>7. ASSUME NEW c \in Clients, NEW r \in Rooms, Move(c, r)
      PROVE  FALSE
  <2>1. /\ by_sender' = by_sender
        /\ peer' = [peer EXCEPT ![by_client[c]].room = r]
        /\ \A k \in by_sender : k \in Ids /\ peer[k] \in Participant
    BY <1>7, ListedIsParticipant DEF Move, Inv, TypeOK
  <2>. QED
    BY <1>5, <2>1 DEF Inv, TypeOK, Participant
<1>8. ASSUME NEW c \in Clients, SetSalt(c)
      PROVE  FALSE
  <2>1. /\ by_sender' = by_sender
        /\ peer' = [peer EXCEPT ![by_client[c]].salted = TRUE]
        /\ \A k \in by_sender : k \in Ids /\ peer[k] \in Participant
    BY <1>8, ListedIsParticipant DEF SetSalt, Inv, TypeOK
  <2>. QED
    BY <1>5, <2>1 DEF Inv, TypeOK, Participant
<1>9. ASSUME NEW k \in Ids, NEW token, NEW a, Hello(k, token, a)
      PROVE  FALSE
  <2>1. /\ by_sender' = by_sender
        /\ peer' = [peer EXCEPT ![k].address = a]
        /\ \A l \in by_sender : l \in Ids /\ peer[l] \in Participant
    BY <1>9, ListedIsParticipant DEF Hello, Inv, TypeOK
  <2>. QED
    BY <1>5, <2>1 DEF Inv, TypeOK, Participant
<1>10. ASSUME NEW k \in Ids, NEW a, NEW fresh, Audio(k, a, fresh)
       PROVE  FALSE
  <2>1. /\ by_sender' = by_sender
        /\ peer' = [peer EXCEPT ![k].count = IF fresh THEN 1 ELSE @ + 1]
        /\ \A l \in by_sender : l \in Ids /\ peer[l] \in Participant
    BY <1>10, ListedIsParticipant DEF Audio, Inv, TypeOK
  <2>. QED
    BY <1>5, <2>1 DEF Inv, TypeOK, Participant
<1>11. CASE Rejected \/ UNCHANGED vars
  BY <1>5, <1>11 DEF Rejected, vars
<1>. QED
  BY <1>4, <1>6, <1>7, <1>8, <1>9, <1>10, <1>11
     DEF Next, Signalling, Datagram, Refused, JoinExhausted, Leave

\* Only somebody who moves in brings another codec into a room that has one.
THEOREM OnlyMovesMixCodecs == Spec => JoinersFollow
BY InvAlways, CodecStep, PTL DEF Spec, JoinersFollow
===============================================================================
