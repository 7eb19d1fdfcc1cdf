--------------------------- MODULE RoomSessionProofs ---------------------------
(***************************************************************************)
(* RoomSession for every set of members, keys, colliding ids and nonces    *)
(* and every size of the replay memory; after it Conversation, for every   *)
(* number of rooms, people, authors and messages and every limit: what a   *)
(* user sees of a room whose keys the session holds.                       *)
(***************************************************************************)
EXTENDS RoomSession, Conversation, SequenceTheorems, FiniteSetTheorems,
        WellFoundedInduction, TLAPS

\* Each operation of KeyTable maps tables to tables and keeps the three
\* dictionaries consistent, for any public keys, sender keys and ids.

\* A new session (RoomSession.__init__) is a consistent table.
LEMMA NewTableConsistent ==
    ASSUME NEW own \in Publics, NEW key \in Keys
    PROVE  /\ NewTable(own, key) \in Table
           /\ ConsistentTable(NewTable(own, key), own, key)
BY KeyIdAssumption, NoneAssumption
   DEF NewTable, Table, ConsistentTable, KeyedPeers

\* accept_offer only adds a verified peer.
LEMMA OfferConsistent ==
    ASSUME NEW own \in Publics, NEW key \in Keys,
           NEW t \in Table, ConsistentTable(t, own, key),
           NEW p \in Publics \ {own}
    PROVE  /\ TableAfterOffer(t, p) \in Table
           /\ ConsistentTable(TableAfterOffer(t, p), own, key)
BY DEF TableAfterOffer, Table, ConsistentTable, KeyedPeers

\* forget_peer removes the peer from all dictionaries at once.
LEMMA ForgetConsistent ==
    ASSUME NEW own \in Publics, NEW key \in Keys,
           NEW t \in Table, ConsistentTable(t, own, key),
           NEW p \in Publics \ {own}
    PROVE  /\ TableAfterForget(t, p) \in Table
           /\ ConsistentTable(TableAfterForget(t, p), own, key)
<1> DEFINE u == TableAfterForget(t, p)
<1>1. u \in Table
  BY DEF TableAfterForget, Table
<1>2. \A i \in Ids : /\ u.byId[i] = IF i = t.peerIds[p] THEN None ELSE t.byId[i]
                     /\ u.holders[i] = IF i = t.peerIds[p] THEN None ELSE t.holders[i]
  BY DEF TableAfterForget, Table
<1>3. \A q \in Publics : u.peerIds[q] = IF q = p THEN None ELSE t.peerIds[q]
  BY DEF TableAfterForget, Table
<1>4. u.pairs = t.pairs \ {p}
  BY DEF TableAfterForget, Table
<1>5. ConsistentTable(u, own, key)
  BY <1>1, <1>2, <1>3, <1>4, KeyIdAssumption, NoneAssumption
     DEF Table, ConsistentTable, KeyedPeers
<1> QED
  BY <1>1, <1>5

\* accept_sender_key of an id nobody else holds refiles the peer.
LEMMA KeyConsistent ==
    ASSUME NEW own \in Publics, NEW key \in Keys,
           NEW t \in Table, ConsistentTable(t, own, key),
           NEW p \in Publics \ {own}, NEW k \in Keys, CanTake(t, p, k)
    PROVE  /\ TableAfterKey(t, p, k) \in Table
           /\ ConsistentTable(TableAfterKey(t, p, k), own, key)
<1> DEFINE u == TableAfterKey(t, p, k)
<1>0. KeyId[k] \in Ids /\ KeyId[key] \in Ids
  BY KeyIdAssumption
<1>1. u \in Table
  BY <1>0 DEF TableAfterKey, Table
<1>2. \A i \in Ids :
         /\ u.byId[i] = IF i = KeyId[k] THEN k
                        ELSE IF i = t.peerIds[p] THEN None ELSE t.byId[i]
         /\ u.holders[i] = IF i = KeyId[k] THEN p
                           ELSE IF i = t.peerIds[p] THEN None ELSE t.holders[i]
  BY DEF TableAfterKey, Table
<1>3. \A q \in Publics : u.peerIds[q] = IF q = p THEN KeyId[k] ELSE t.peerIds[q]
  BY <1>0 DEF TableAfterKey, Table
<1>4. u.pairs = t.pairs
  BY DEF TableAfterKey, Table
<1>5. ConsistentTable(u, own, key)
  BY <1>0, <1>1, <1>2, <1>3, <1>4, NoneAssumption
     DEF Table, ConsistentTable, KeyedPeers, CanTake
<1> QED
  BY <1>1, <1>5

-------------------------------------------------------------------------------
\* The inductive invariant of the dictionaries.
TableInv == session \in Table /\ ConsistentTable(session, Self, OwnKey)

\* Every operation of the session keeps the dictionaries consistent.
LEMMA TableInvStep == TableInv /\ [Next]_vars => TableInv'
<1> SUFFICES ASSUME TableInv, [Next]_vars
             PROVE  TableInv'
  OBVIOUS
<1> USE SelfAssumption DEF TableInv
<1>1. ASSUME NEW p \in Peers, AcceptOffer(p)
      PROVE  TableInv'
  BY <1>1, OfferConsistent DEF AcceptOffer, Peers
<1>2. ASSUME NEW p \in Peers, ForgetPeer(p)
      PROVE  TableInv'
  BY <1>2, ForgetConsistent DEF ForgetPeer, Peers
<1>3. ASSUME NEW p \in Peers, NEW k \in Keys, AcceptSenderKey(p, k)
      PROVE  TableInv'
  BY <1>3, KeyConsistent DEF AcceptSenderKey, Peers
<1>4. ASSUME NEW k \in Keys, NEW nonce \in Nonces, Receive(k, nonce)
      PROVE  TableInv'
  BY <1>4 DEF Receive
<1>5. CASE UNCHANGED vars
  BY <1>5 DEF vars
<1> QED
  BY <1>1, <1>2, <1>3, <1>4, <1>5 DEF Next

-------------------------------------------------------------------------------
\* The inductive invariant of the replay memory: _seen is the tail of what was
\* shown, so a head outside _seen was shown at least SeenLimit messages ago.
ReplayInv ==
    /\ seen \in Seq(Heads)
    /\ shown \in Seq(Heads)
    /\ SeenIsTail
    /\ ShownOnce

\* A shown message is appended to the history and to _seen alike.
LEMMA ReceiveKeepsReplayInv ==
    ASSUME ReplayInv, NEW k \in Keys, NEW nonce \in Nonces, Receive(k, nonce)
    PROVE  ReplayInv'
<1> DEFINE head == <<KeyId[k], nonce>>
<1>1. head \in Heads
  BY KeyIdAssumption DEF Heads
<1>2. /\ shown' = Append(shown, head)
      /\ seen' = Remember(head)
      /\ \A i \in 1..Len(seen) : seen[i] # head
  BY DEF Receive, FirstSight, Contains
<1>3. PICK n \in Nat, m \in Nat : n = Len(shown) /\ m = Len(seen)
  BY DEF ReplayInv
<1>4. /\ SeenLimit \in Nat \ {0}
      /\ m = IF n < SeenLimit THEN n ELSE SeenLimit
      /\ m <= n
  BY <1>3, LimitAssumption DEF ReplayInv, SeenIsTail
<1>5. \A i \in 1..m : seen[i] = shown[n - m + i]
  BY <1>3, Zenon DEF ReplayInv, SeenIsTail
<1>6. /\ shown' \in Seq(Heads)
      /\ Len(shown') = n + 1
      /\ \A i \in 1..n : shown'[i] = shown[i]
      /\ shown'[n + 1] = head
  BY <1>1, <1>2, <1>3 DEF ReplayInv
<1>7. \A i, j \in 1..n : i < j /\ shown[i] = shown[j] => j - i > SeenLimit
  BY <1>3, Zenon DEF ReplayInv, ShownOnce
<1>8. \A i, j \in 1..(n + 1) : i < j /\ shown'[i] = shown'[j] => j - i > SeenLimit
  <2> HIDE DEF head
  <2> SUFFICES ASSUME NEW i \in 1..(n + 1), NEW j \in 1..(n + 1),
                      i < j, shown'[i] = shown'[j]
               PROVE  j - i > SeenLimit
    OBVIOUS
  <2>1. CASE j = n + 1
    <3>1. i \in 1..n /\ shown[i] = head
      BY <1>6, <2>1
    <3>2. ASSUME i > n - m
          PROVE  FALSE
      <4>1. i - (n - m) \in 1..m /\ n - m + (i - (n - m)) = i
        BY <1>4, <3>1, <3>2
      <4>2. seen[i - (n - m)] = shown[n - m + (i - (n - m))]
        BY <1>5, <4>1
      <4>3. seen[i - (n - m)] # head
        BY <1>2, <1>3, <4>1
      <4>. QED
        BY <3>1, <4>1, <4>2, <4>3
    <3>. QED
      BY <1>4, <2>1, <3>1, <3>2
  <2>2. CASE j \in 1..n
    BY <1>4, <1>6, <1>7, <2>2
  <2>. QED
    BY <2>1, <2>2
<1>9. ShownOnce'
  BY <1>6, <1>8, Zenon DEF ShownOnce
<1>10. /\ seen' \in Seq(Heads)
       /\ Len(seen') = IF n + 1 < SeenLimit THEN n + 1 ELSE SeenLimit
       /\ \A i \in 1..Len(seen') : seen'[i] = shown'[n + 1 - Len(seen') + i]
  <2> HIDE DEF head
  <2>1. CASE m < SeenLimit
    <3>1. /\ seen' \in Seq(Heads)
          /\ Len(seen') = m + 1
          /\ \A i \in 1..m : seen'[i] = seen[i]
          /\ seen'[m + 1] = head
      BY <1>1, <1>2, <1>3, <2>1 DEF Remember, ReplayInv
    <3>2. m = n
      BY <1>4, <2>1
    <3>3. \A i \in 1..(n + 1) : seen'[i] = shown'[i]
      BY <1>5, <1>6, <3>1, <3>2
    <3>. QED
      BY <1>4, <2>1, <3>1, <3>2, <3>3
  <2>2. CASE m = SeenLimit
    <3>1. /\ Tail(seen) \in Seq(Heads)
          /\ Len(Tail(seen)) = m - 1
          /\ \A i \in 1..(m - 1) : Tail(seen)[i] = seen[i + 1]
      <4>1. seen \in Seq(Heads) /\ seen # << >>
        BY <1>3, <1>4, <2>2 DEF ReplayInv
      <4>. QED
        BY <1>3, <4>1
    <3>2. /\ seen' \in Seq(Heads)
          /\ Len(seen') = m
          /\ \A i \in 1..(m - 1) : seen'[i] = seen[i + 1]
          /\ seen'[m] = head
      BY <1>1, <1>2, <1>3, <1>4, <2>2, <3>1 DEF Remember
    <3>3. \A i \in 1..m : seen'[i] = shown'[n + 1 - m + i]
      <4> TAKE i \in 1..m
      <4>1. CASE i = m
        BY <1>4, <1>6, <3>2, <4>1
      <4>2. CASE i < m
        <5>1. /\ i \in 1..(m - 1) /\ i + 1 \in 1..m
              /\ n - m + (i + 1) = n + 1 - m + i
              /\ n - m + (i + 1) \in 1..n
          BY <1>4, <4>2
        <5>2. seen[i + 1] = shown[n - m + (i + 1)]
          BY <1>5, <5>1
        <5>3. seen'[i] = seen[i + 1]
          BY <3>2, <5>1
        <5>. QED
          BY <1>6, <5>1, <5>2, <5>3
      <4>. QED
        BY <4>1, <4>2
    <3>4. Len(seen') = IF n + 1 < SeenLimit THEN n + 1 ELSE SeenLimit
      BY <1>4, <2>2, <3>2
    <3>. QED
      BY <3>2, <3>3, <3>4, Zenon
  <2>. QED
    BY <1>4, <2>1, <2>2
<1>11. SeenIsTail'
  <2>1. Len(seen') = IF Len(shown') < SeenLimit THEN Len(shown') ELSE SeenLimit
    BY <1>6, <1>10
  <2>2. \A i \in 1..Len(seen') : seen'[i] = shown'[Len(shown') - Len(seen') + i]
    <3> TAKE i \in 1..Len(seen')
    <3>1. seen'[i] = shown'[n + 1 - Len(seen') + i]
      BY <1>10, Zenon
    <3>2. Len(shown') = n + 1
      BY <1>6
    <3>. QED
      BY <3>1, <3>2
  <2>. QED
    BY <2>1, <2>2, Zenon DEF SeenIsTail
<1>. QED
  BY <1>6, <1>9, <1>10, <1>11 DEF ReplayInv

-------------------------------------------------------------------------------
\* Type correctness, with the invariants it rests on.
LEMMA InvInit == Init => TableInv /\ ReplayInv
<1> SUFFICES ASSUME Init
             PROVE  TableInv /\ ReplayInv
  OBVIOUS
<1>1. TableInv
  BY SelfAssumption, NewTableConsistent DEF Init, TableInv
<1>2. /\ seen \in Seq(Heads) /\ shown \in Seq(Heads)
      /\ Len(seen) = 0 /\ Len(shown) = 0
  BY DEF Init
<1>3. ReplayInv
  BY <1>2, LimitAssumption DEF ReplayInv, SeenIsTail, ShownOnce
<1>. QED
  BY <1>1, <1>3

\* Every operation keeps the dictionaries and the replay memory sound.
LEMMA InvStep == TableInv /\ ReplayInv /\ [Next]_vars => (TableInv /\ ReplayInv)'
<1> SUFFICES ASSUME TableInv, ReplayInv, [Next]_vars
             PROVE  TableInv' /\ ReplayInv'
  OBVIOUS
<1>1. TableInv'
  BY TableInvStep
<1>2. ASSUME UNCHANGED <<seen, shown>>
      PROVE  ReplayInv'
  BY <1>2 DEF ReplayInv, SeenIsTail, ShownOnce
<1>3. ASSUME NEW k \in Keys, NEW nonce \in Nonces, Receive(k, nonce)
      PROVE  ReplayInv'
  BY <1>3, ReceiveKeepsReplayInv
<1>4. \/ UNCHANGED <<seen, shown>>
      \/ \E k \in Keys, nonce \in Nonces : Receive(k, nonce)
  BY DEF Next, vars, AcceptOffer, AcceptSenderKey, ForgetPeer
<1>. QED
  BY <1>1, <1>2, <1>3, <1>4

\* The two halves of the invariant hold in every state.
LEMMA InvAlways == Spec => [](TableInv /\ ReplayInv)
BY InvInit, InvStep, PTL DEF Spec

\* The dictionaries, the replay memory and the history keep their types.
THEOREM TypeCorrect == Spec => []TypeOK
<1>1. TableInv /\ ReplayInv => TypeOK
  BY DEF TableInv, ReplayInv, TypeOK
<1>. QED
  BY <1>1, InvAlways, PTL

\* accept_offer, accept_sender_key and forget_peer keep _by_id, _holders and
\* _peer_ids three views of one relation.
THEOREM HoldersAlwaysAgree == Spec => []HoldersAgree
<1>1. TableInv => HoldersAgree
  BY DEF TableInv, HoldersAgree
<1>. QED
  BY <1>1, InvAlways, PTL

\* A replayed message is not shown while _seen can remember it, whatever the
\* size of the memory.
THEOREM NothingShownTwice == Spec => [](ShownOnce /\ SeenIsTail)
<1>1. ReplayInv => ShownOnce /\ SeenIsTail
  BY DEF ReplayInv
<1>. QED
  BY <1>1, InvAlways, PTL

\* first_sight evicts the oldest first: what is remembered is the latest, in the
\* order in which it was shown.
THEOREM MemoryIsTail == Spec => []SeenIsTail
BY NothingShownTwice, PTL

\* No step hands an id from one holder to another.
THEOREM NoHolderDisplaced == Spec => HolderNotDisplaced
<1>1. TableInv /\ [Next]_vars => [HolderLeftFirst]_vars
  <2> SUFFICES ASSUME TableInv, Next
               PROVE  HolderLeftFirst
    OBVIOUS
  <2> USE DEF TableInv, ConsistentTable, HolderLeftFirst
  <2>1. ASSUME NEW p \in Peers, AcceptOffer(p)
        PROVE  HolderLeftFirst
    BY <2>1 DEF AcceptOffer, TableAfterOffer, Table
  <2>2. ASSUME NEW p \in Peers, ForgetPeer(p)
        PROVE  HolderLeftFirst
    <3> SUFFICES ASSUME NEW i \in Ids, session.holders[i] # None,
                        session'.holders[i] # session.holders[i]
                 PROVE  /\ session'.holders[i] = None
                        /\ session'.peerIds[session.holders[i]] # i
      OBVIOUS
    <3>1. i = session.peerIds[p] /\ session'.holders[i] = None
      BY <2>2 DEF ForgetPeer, TableAfterForget, Table
    <3>2. session.holders[i] = p
      BY <3>1 DEF Peers
    <3>3. session'.peerIds[p] = None
      BY <2>2 DEF ForgetPeer, TableAfterForget, Table, Peers
    <3>. QED
      BY <3>1, <3>2, <3>3, NoneAssumption
  <2>3. ASSUME NEW p \in Peers, NEW k \in Keys, AcceptSenderKey(p, k)
        PROVE  HolderLeftFirst
    <3> SUFFICES ASSUME NEW i \in Ids, session.holders[i] # None,
                        session'.holders[i] # session.holders[i]
                 PROVE  /\ session'.holders[i] = None
                        /\ session'.peerIds[session.holders[i]] # i
      OBVIOUS
    <3>1. session'.holders[i] = IF i = KeyId[k] THEN p
                                ELSE IF i = session.peerIds[p] THEN None
                                ELSE session.holders[i]
      BY <2>3 DEF AcceptSenderKey, TableAfterKey, Table
    <3>2. i # KeyId[k] /\ i = session.peerIds[p] /\ session'.holders[i] = None
      BY <2>3, <3>1 DEF AcceptSenderKey, CanTake
    <3>3. session.holders[i] = p
      BY <3>2 DEF Peers
    <3>4. session'.peerIds[p] = KeyId[k]
      BY <2>3 DEF AcceptSenderKey, TableAfterKey, Table, Peers
    <3>. QED
      BY <3>2, <3>3, <3>4
  <2>4. ASSUME NEW k \in Keys, NEW nonce \in Nonces, Receive(k, nonce)
        PROVE  HolderLeftFirst
    BY <2>4 DEF Receive
  <2>. QED
    BY <2>1, <2>2, <2>3, <2>4 DEF Next
<1>. QED
  BY <1>1, InvAlways, PTL DEF Spec, HolderNotDisplaced

-------------------------------------------------------------------------------
\* What the client sees of a session is a key ring: no sequence of calls, in
\* whatever order and with whatever colliding ids, makes an id ambiguous.
THEOREM SessionImplementsKeyRing == Spec => RingSpec
<1> DEFINE RingOf == [p \in Publics |-> IF p = Self THEN OwnKey
                                        ELSE SenderKeyOf(session, p)]
<1>1. Init => Ring!Init
  <2> SUFFICES ASSUME Init
               PROVE  \A p \in Publics \ {Self} : SenderKeyOf(session, p) = None
    BY DEF Ring!Init
  <2>. QED
    BY DEF Init, NewTable, SenderKeyOf
<1>2. TableInv /\ [Next]_vars => [Ring!Next]_RingOf
  <2> SUFFICES ASSUME TableInv, [Next]_vars
               PROVE  [Ring!Next]_RingOf
    OBVIOUS
  <2>1. ASSUME UNCHANGED session
        PROVE  UNCHANGED RingOf
    BY <2>1
  <2>2. ASSUME NEW p \in Peers, AcceptOffer(p)
        PROVE  UNCHANGED RingOf
    BY <2>2 DEF AcceptOffer, TableAfterOffer, TableInv, Table, SenderKeyOf
  <2>3. ASSUME NEW p \in Peers, ForgetPeer(p)
        PROVE  Ring!Drop(p)
    <3>1. ASSUME NEW q \in Peers
          PROVE  SenderKeyOf(session, q)' =
                     IF q = p THEN None ELSE SenderKeyOf(session, q)
      BY <2>3, <3>1, NoneAssumption
         DEF ForgetPeer, TableAfterForget, TableInv, Table, ConsistentTable,
             SenderKeyOf, Peers
    <3>. QED
      BY <3>1 DEF Ring!Drop, Peers
  <2>4. ASSUME NEW p \in Peers, NEW k \in Keys, AcceptSenderKey(p, k)
        PROVE  Ring!Learn(p, k)
    <3>0. KeyId[k] \in Ids /\ p \in Publics /\ p # Self
      BY KeyIdAssumption DEF Peers
    <3>1. ASSUME NEW q \in Peers
          PROVE  SenderKeyOf(session, q)' =
                     IF q = p THEN k ELSE SenderKeyOf(session, q)
      BY <2>4, <3>0, <3>1, NoneAssumption
         DEF AcceptSenderKey, TableAfterKey, TableInv, Table, ConsistentTable,
             SenderKeyOf, CanTake, Peers
    <3>2. ASSUME NEW q \in Publics \ {p}
          PROVE  ~Ring!Holds(q, KeyId[k])
      <4>1. CASE q = Self
        BY <2>4, <3>0, <4>1, NoneAssumption, SelfAssumption
           DEF Ring!Holds, AcceptSenderKey, CanTake, TableInv, ConsistentTable
      <4>2. CASE q # Self
        BY <2>4, <3>0, <3>2, <4>2, NoneAssumption
           DEF Ring!Holds, AcceptSenderKey, CanTake, TableInv, Table,
               ConsistentTable, SenderKeyOf
      <4>. QED
        BY <4>1, <4>2
    <3>. QED
      BY <3>0, <3>1, <3>2 DEF Ring!Learn, Peers
  <2>5. ASSUME NEW k \in Keys, NEW nonce \in Nonces, Receive(k, nonce)
        PROVE  UNCHANGED RingOf
    BY <2>5, <2>1 DEF Receive
  <2>. QED
    BY <2>1, <2>2, <2>3, <2>4, <2>5 DEF Next, vars, Peers, Ring!Next
<1>. QED
  BY <1>1, <1>2, InvAlways, PTL DEF Spec, RingSpec, Ring!Spec

\* What the ring promises holds of the session: an id names one member.
THEOREM IdsNameOneMember == Spec => []Ring!Unambiguous
<1>1. TableInv => Ring!Unambiguous
  BY NoneAssumption, SelfAssumption, KeyIdAssumption
     DEF TableInv, Table, ConsistentTable, SenderKeyOf, Ring!Unambiguous, Ring!Holds
<1>. QED
  BY <1>1, InvAlways, PTL

----------------------------------------------------------------------------
(* Lists: the newest of one, what of one fits a packet, a list in order. *)

\* The newest of a list are a list: its end, and all of it if it is not longer.
LEMMA NewestIs ==
    ASSUME NEW S, NEW s \in Seq(S), NEW n \in Nat
    PROVE  /\ Newest(s, n) \in Seq(S)
           /\ Len(Newest(s, n)) = IF Len(s) <= n THEN Len(s) ELSE n
           /\ \A i \in 1 .. Len(Newest(s, n)) :
                Newest(s, n)[i] = s[i + (Len(s) - Len(Newest(s, n)))]
<1>1. Len(s) \in Nat /\ \A i \in 1 .. Len(s) : s[i] \in S
  BY LenProperties, ElementOfSeq
<1>2. CASE Len(s) <= n
  BY <1>1, <1>2 DEF Newest
<1>3. CASE ~ Len(s) <= n
  <2> DEFINE k == Len(s) - n + 1
  <2>1. k \in Int /\ Len(s) \in Int /\ k >= 1 /\ \A i \in k .. Len(s) : s[i] \in S
    BY <1>1, <1>3
  <2>2. Newest(s, n) = SubSeq(s, k, Len(s))
    BY <1>3 DEF Newest
  <2> HIDE DEF k
  <2>3. /\ SubSeq(s, k, Len(s)) \in Seq(S)
        /\ Len(SubSeq(s, k, Len(s))) = IF k <= Len(s) THEN Len(s) - k + 1 ELSE 0
        /\ \A i \in 1 .. Len(s) - k + 1 : SubSeq(s, k, Len(s))[i] = s[k + i - 1]
    BY <2>1, SubSeqProperties
  <2>4. Len(Newest(s, n)) = n
    BY <1>1, <1>3, <2>2, <2>3 DEF k
  <2>5. \A i \in 1 .. n : Newest(s, n)[i] = s[i + (Len(s) - n)]
    <3> TAKE i \in 1 .. n
    <3>1. i \in 1 .. Len(s) - k + 1 /\ k + i - 1 = i + (Len(s) - n)
      BY <1>1 DEF k
    <3> QED
      BY <2>2, <2>3, <3>1
  <2> QED
    BY <1>3, <2>2, <2>3, <2>4, <2>5
<1> QED
  BY <1>2, <1>3

\* A list's elements are what stands at its places.
LEMMA Elements ==
    ASSUME NEW S, NEW s \in Seq(S)
    PROVE  /\ ToSet(s) \subseteq S
           /\ \A x : x \in ToSet(s) <=> \E i \in 1 .. Len(s) : s[i] = x
BY LenProperties, ElementOfSeq DEF ToSet

\* The newest are in the list, and more of them contain fewer.
LEMMA NewestElements ==
    ASSUME NEW S, NEW s \in Seq(S), NEW n \in Nat
    PROVE  /\ ToSet(Newest(s, n)) \subseteq ToSet(s)
           /\ \A m \in 0 .. n : ToSet(Newest(s, m)) \subseteq ToSet(Newest(s, n))
<1>0. Len(s) \in Nat
  BY LenProperties
<1>1. ToSet(Newest(s, n)) \subseteq ToSet(s)
  <2> SUFFICES ASSUME NEW x \in ToSet(Newest(s, n)) PROVE x \in ToSet(s)
    OBVIOUS
  <2>1. PICK i \in 1 .. Len(Newest(s, n)) : Newest(s, n)[i] = x
    BY NewestIs, Elements
  <2>2. i + (Len(s) - Len(Newest(s, n))) \in 1 .. Len(s)
    BY <1>0, NewestIs
  <2> QED
    BY <2>1, <2>2, NewestIs, Elements
<1>2. ASSUME NEW m \in 0 .. n, NEW x \in ToSet(Newest(s, m))
      PROVE  x \in ToSet(Newest(s, n))
  <2> DEFINE a == Newest(s, m)
             b == Newest(s, n)
  <2>0. m \in Nat
    OBVIOUS
  <2>1. /\ a \in Seq(S) /\ Len(a) = IF Len(s) <= m THEN Len(s) ELSE m
        /\ \A i \in 1 .. Len(a) : a[i] = s[i + (Len(s) - Len(a))]
    BY <2>0, NewestIs
  <2>2. /\ b \in Seq(S) /\ Len(b) = IF Len(s) <= n THEN Len(s) ELSE n
        /\ \A i \in 1 .. Len(b) : b[i] = s[i + (Len(s) - Len(b))]
    BY NewestIs
  <2>3. x \in ToSet(a)
    BY <1>2
  <2> HIDE DEF a, b
  <2>4. PICK i \in 1 .. Len(a) : a[i] = x
    BY <2>1, <2>3, Elements
  <2> DEFINE j == i + (Len(b) - Len(a))
  <2>8. Len(a) \in Nat /\ Len(b) \in Nat /\ Len(a) <= Len(b)
    BY <1>0, <2>0, <2>1, <2>2
  <2>5. j \in 1 .. Len(b) /\ j + (Len(s) - Len(b)) = i + (Len(s) - Len(a))
    BY <1>0, <2>8
  <2>6. b[j] = x
    BY <2>1, <2>2, <2>4, <2>5
  <2>7. x \in ToSet(b)
    BY <2>2, <2>5, <2>6, Elements
  <2> QED
    BY <2>7 DEF b
<1> QED
  BY <1>1, <1>2

\* A list costs a number of units, and never less for one message more.
LEMMA CostIs ==
    ASSUME NEW S, NEW s \in Seq(S), NEW m \in S
    PROVE  /\ Cost(s) \in Nat
           /\ Cost(Append(s, m)) \in Nat /\ Cost(s) <= Cost(Append(s, m))
<1> DEFINE A == {i \in 1 .. Len(s) : s[i] \in Long}
           B == {i \in 1 .. Len(Append(s, m)) : Append(s, m)[i] \in Long}
           n == Len(s)
<1>1. n \in Nat /\ Len(Append(s, m)) = n + 1 /\ \A i \in 1 .. n : Append(s, m)[i] = s[i]
  BY LenProperties, AppendProperties
<1>2. A \subseteq 1 .. n /\ B \subseteq 1 .. n + 1 /\ A \subseteq B
  BY <1>1
<1>3. Cost(s) = n + Cardinality(A) /\ Cost(Append(s, m)) = n + 1 + Cardinality(B)
  BY <1>1 DEF Cost
<1> HIDE DEF A, B
<1>4. IsFiniteSet(1 .. n + 1)
  BY <1>1, FS_Interval
<1>5. IsFiniteSet(B)
  BY <1>2, <1>4, FS_Subset
<1>6. IsFiniteSet(A) /\ Cardinality(A) <= Cardinality(B)
  BY <1>2, <1>5, FS_Subset
<1>7. Cardinality(A) \in Nat /\ Cardinality(B) \in Nat
  BY <1>5, <1>6, FS_CardinalityType
<1> HIDE DEF n
<1>8. n + Cardinality(A) \in Nat /\ n + 1 + Cardinality(B) \in Nat
  BY <1>1, <1>7
<1>9. n + Cardinality(A) <= n + 1 + Cardinality(B)
  BY <1>1, <1>6, <1>7
<1> QED
  BY <1>3, <1>8, <1>9

\* How many of the newest fit a packet (_history_packet).
Fits(s) == {n \in 0 .. HistoryLimit : n <= Len(s) /\ Cost(Newest(s, n)) <= LineBudget}

\* Numbers with a bound have a largest among them.
LEMMA LargestNumber ==
    ASSUME NEW m \in Nat, NEW F \in SUBSET (0 .. m), F # {}
    PROVE  \E n \in F : \A k \in F : k <= n
<1> DEFINE T == {m - k : k \in F}
<1>1. T \in SUBSET Nat /\ T # {}
  <2>1. \A k \in F : m - k \in Nat
    OBVIOUS
  <2> QED
    BY <2>1
<1> HIDE DEF T
<1>2. IsWellFoundedOn(OpToRel(<, Nat), Nat)
  BY NatLessThanWellFounded
<1>3. PICK i \in T : \A j \in T : ~ (<<j, i>> \in OpToRel(<, Nat))
  BY <1>1, <1>2, WFMin
<1>4. \A j \in T : ~ (j < i)
  BY <1>1, <1>3 DEF OpToRel
<1>5. PICK n \in F : i = m - n
  BY DEF T
<1>6. \A k \in F : m - k \in T
  BY DEF T
<1>7. \A k \in F : k <= n
  BY <1>4, <1>5, <1>6
<1> QED
  BY <1>7

\* What is selected of a list is as many of the newest as fit, and no more would.
LEMMA SelectedIs ==
    ASSUME NEW S, NEW s \in Seq(S)
    PROVE  \E n \in Fits(s) : Selected(s) = Newest(s, n) /\ \A m \in Fits(s) : m <= n
<1> USE TalkAssumption
<1>1. Len(s) \in Nat
  BY LenProperties
<1>2. Newest(s, 0) = <<>>
  <2>1. CASE Len(s) <= 0
    BY <1>1, <2>1, EmptySeq DEF Newest
  <2>2. CASE ~ Len(s) <= 0
    BY <1>1, <2>2, SubSeqEmpty DEF Newest
  <2> QED
    BY <2>1, <2>2
<1>3. Cost(<<>>) = 0
  <2>1. {i \in 1 .. Len(<<>>) : <<>>[i] \in Long} = {}
    BY EmptySeq
  <2>2. Len(<<>>) = 0
    BY EmptySeq
  <2> QED
    BY <2>1, <2>2, FS_EmptySet DEF Cost
<1>4. 0 \in Fits(s) /\ Fits(s) \subseteq 0 .. HistoryLimit
  BY <1>1, <1>2, <1>3 DEF Fits
<1>5. \E n \in Fits(s) : \A k \in Fits(s) : k <= n
  BY <1>4, LargestNumber
<1> QED
  BY <1>5 DEF Selected, Fits

\* What is selected is in the list.
LEMMA SelectedElements ==
    ASSUME NEW S, NEW s \in Seq(S)
    PROVE  Selected(s) \in Seq(S) /\ ToSet(Selected(s)) \subseteq ToSet(s)
<1>1. PICK n \in Fits(s) : Selected(s) = Newest(s, n)
  BY SelectedIs
<1>2. n \in Nat
  BY <1>1, TalkAssumption DEF Fits
<1> QED
  BY <1>1, <1>2, NewestIs, NewestElements

\* With a message more, cut to MAX_HISTORY_MESSAGES, nothing is selected that
\* was not before, but the message.
LEMMA SelectedOfNewest ==
    ASSUME NEW S, NEW s \in Seq(S), NEW m \in S
    PROVE  ToSet(Selected(Newest(Append(s, m), HistoryLimit))) \subseteq ToSet(Selected(s)) \cup {m}
<1> DEFINE w == Append(s, m)
           t == Newest(w, HistoryLimit)
<1>0. HistoryLimit \in Nat /\ LineBudget \in Nat
  BY TalkAssumption
<1>1. Len(s) \in Nat /\ w \in Seq(S) /\ Len(w) = Len(s) + 1
      /\ (\A i \in 1 .. Len(s) : w[i] = s[i]) /\ w[Len(s) + 1] = m
  BY LenProperties, AppendProperties
<1> HIDE DEF w
<1>2. /\ t \in Seq(S) /\ Len(t) = IF Len(w) <= HistoryLimit THEN Len(w) ELSE HistoryLimit
      /\ \A i \in 1 .. Len(t) : t[i] = w[i + (Len(w) - Len(t))]
  BY <1>0, <1>1, NewestIs
<1> HIDE DEF t
<1>3. PICK n \in Fits(t) : Selected(t) = Newest(t, n)
  BY <1>2, SelectedIs
<1>4. n \in Nat /\ n <= Len(t) /\ n <= HistoryLimit /\ Cost(Newest(t, n)) <= LineBudget
  BY <1>0, <1>3 DEF Fits
<1> DEFINE u == Newest(t, n)
<1>5. /\ u \in Seq(S) /\ Len(u) = n
      /\ \A i \in 1 .. n : u[i] = t[i + (Len(t) - n)]
  <2>1. Len(t) \in Nat
    BY <1>2, LenProperties
  <2>2. /\ u \in Seq(S) /\ Len(u) = IF Len(t) <= n THEN Len(t) ELSE n
        /\ \A i \in 1 .. Len(u) : u[i] = t[i + (Len(t) - Len(u))]
    BY <1>2, <1>4, NewestIs
  <2> HIDE DEF u
  <2>3. Len(u) = n
    BY <1>4, <2>1, <2>2
  <2> QED
    BY <2>2, <2>3
<1> SUFFICES ASSUME NEW x \in ToSet(u) PROVE x \in ToSet(Selected(s)) \/ x = m
  BY <1>3 DEF t, w
<1> HIDE DEF u
<1>6. PICK i \in 1 .. n : u[i] = x
  BY <1>5, Elements
<1>7. \A k \in 1 .. n : u[k] = w[k + (Len(w) - n)]
  <2> TAKE k \in 1 .. n
  <2>1. Len(t) \in Nat
    BY <1>2, LenProperties
  <2>2. k + (Len(t) - n) \in 1 .. Len(t)
        /\ k + (Len(t) - n) + (Len(w) - Len(t)) = k + (Len(w) - n)
    BY <1>1, <1>4, <2>1
  <2> QED
    BY <1>2, <1>5, <2>2
<1> DEFINE v == Newest(s, n - 1)
<1>8. n - 1 \in Nat /\ n - 1 <= Len(s) /\ n - 1 \in 0 .. HistoryLimit
  BY <1>0, <1>1, <1>2, <1>4, <1>6
<1>9. /\ v \in Seq(S) /\ Len(v) = n - 1
      /\ \A k \in 1 .. n - 1 : v[k] = s[k + (Len(s) - (n - 1))]
  <2>1. /\ v \in Seq(S) /\ Len(v) = IF Len(s) <= n - 1 THEN Len(s) ELSE n - 1
        /\ \A k \in 1 .. Len(v) : v[k] = s[k + (Len(s) - Len(v))]
    BY <1>8, NewestIs
  <2> QED
    BY <1>1, <1>8, <2>1
<1> HIDE DEF v
<1>10. Append(v, m) \in Seq(S) /\ Len(Append(v, m)) = n
       /\ (\A k \in 1 .. n - 1 : Append(v, m)[k] = v[k]) /\ Append(v, m)[n] = m
  BY <1>4, <1>8, <1>9, AppendProperties
<1>11. \A k \in 1 .. n - 1 : u[k] = v[k]
  <2> TAKE k \in 1 .. n - 1
  <2>1. k \in 1 .. n /\ k + (Len(w) - n) \in 1 .. Len(s)
        /\ k + (Len(w) - n) = k + (Len(s) - (n - 1))
    BY <1>1, <1>4, <1>8
  <2> QED
    BY <1>1, <1>7, <1>9, <2>1
<1>12. u[n] = m
  <2>1. n \in 1 .. n /\ n + (Len(w) - n) = Len(s) + 1
    BY <1>1, <1>4, <1>6
  <2> QED
    BY <1>1, <1>7, <2>1
<1>13. u = Append(v, m)
  <2>1. \A k \in 1 .. n : u[k] = Append(v, m)[k]
    <3> TAKE k \in 1 .. n
    <3>1. CASE k = n
      BY <3>1, <1>10, <1>12
    <3>2. CASE k \in 1 .. n - 1
      BY <3>2, <1>10, <1>11
    <3>3. k = n \/ k \in 1 .. n - 1
      BY <1>4
    <3> QED
      BY <3>1, <3>2, <3>3
  <2> QED
    BY <2>1, <1>5, <1>10, SeqEqual
<1>14. Cost(v) <= LineBudget
  <2>1. Cost(v) \in Nat /\ Cost(u) \in Nat /\ Cost(v) <= Cost(u)
    BY <1>9, <1>13, CostIs
  <2>2. Cost(u) <= LineBudget
    BY <1>4 DEF u
  <2> QED
    BY <1>0, <2>1, <2>2
<1>15. n - 1 \in Fits(s)
  BY <1>8, <1>14 DEF Fits, v
<1>16. PICK k \in Fits(s) : Selected(s) = Newest(s, k) /\ \A j \in Fits(s) : j <= k
  BY SelectedIs
<1>17. k \in Nat /\ n - 1 \in 0 .. k
  BY <1>0, <1>8, <1>15, <1>16 DEF Fits
<1>18. ToSet(v) \subseteq ToSet(Selected(s))
  BY <1>16, <1>17, NewestElements DEF v
<1>19. CASE i = n
  BY <1>19, <1>6, <1>12
<1>20. CASE i \in 1 .. n - 1
  <2>1. v[i] = x
    BY <1>20, <1>6, <1>11
  <2>2. x \in ToSet(v)
    BY <1>9, <1>20, <2>1, Elements
  <2> QED
    BY <2>2, <1>18
<1> QED
  BY <1>19, <1>20, <1>4

\* A finite set in some order: each of its elements is there.
LEMMA SetToSeqIs ==
    ASSUME NEW S, IsFiniteSet(S)
    PROVE  SetToSeq(S) \in Seq(S) /\ ToSet(SetToSeq(S)) = S
<1> DEFINE n == Cardinality(S)
           f == SetToSeq(S)
<1>1. n \in Nat /\ ExistsBijection(1 .. n, S)
  BY FS_CardinalityType
<1>2. \E g \in [1 .. n -> S] : IsInjective(g)
  BY <1>1 DEF ExistsBijection, Bijection, Injection
<1>3. f \in [1 .. n -> S] /\ IsInjective(f)
  BY <1>2 DEF SetToSeq
<1>4. f \in Injection(1 .. n, S)
  BY <1>3 DEF Injection
<1>5. Cardinality(1 .. n) = n
  BY <1>1, FS_Interval
<1> HIDE DEF f, n
<1>6. f \in Surjection(1 .. n, S)
  <2>1. Cardinality(1 .. n) = Cardinality(S) <=> f \in Surjection(1 .. n, S)
    BY <1>4, FS_Injection
  <2> QED
    BY <2>1, <1>5 DEF n
<1>7. f \in Seq(S) /\ DOMAIN f = 1 .. n
  BY <1>1, <1>3
<1>8. ToSet(f) = S
  BY <1>3, <1>6, <1>7 DEF ToSet, Surjection
<1> QED
  BY <1>7, <1>8 DEF f

\* Each element of a list has a place in the sorted one, and a place of its own.
LEMMA PlaceIs ==
    ASSUME NEW s \in Seq(Nat)
    PROVE  /\ \A i \in 1 .. Len(s) : Place(s, i) \in 1 .. Len(s)
           /\ \A i, k \in 1 .. Len(s) : Place(s, i) = Place(s, k) => i = k
<1> DEFINE P(i) == {j \in 1 .. Len(s) : s[j] < s[i] \/ (s[j] = s[i] /\ j <= i)}
<1>1. Len(s) \in Nat /\ \A i \in 1 .. Len(s) : s[i] \in Nat
  BY LenProperties, ElementOfSeq
<1>2. IsFiniteSet(1 .. Len(s)) /\ Cardinality(1 .. Len(s)) = Len(s)
  BY <1>1, FS_Interval
<1>3. \A i \in 1 .. Len(s) : P(i) \subseteq 1 .. Len(s) /\ i \in P(i)
  BY <1>1
<1>4. \A i \in 1 .. Len(s) : Place(s, i) = Cardinality(P(i))
  BY DEF Place
<1>5. ASSUME NEW i \in 1 .. Len(s), NEW k \in 1 .. Len(s), i # k,
             s[i] < s[k] \/ (s[i] = s[k] /\ i <= k)
      PROVE  P(i) \subseteq P(k) /\ k \notin P(i)
  BY <1>1, <1>5
<1> HIDE DEF P
<1>6. ASSUME NEW i \in 1 .. Len(s)
      PROVE  IsFiniteSet(P(i)) /\ Cardinality(P(i)) \in 1 .. Len(s)
  <2>1. IsFiniteSet(P(i)) /\ Cardinality(P(i)) <= Len(s)
    BY <1>2, <1>3, FS_Subset
  <2>2. Cardinality(P(i)) \in Nat
    BY <2>1, FS_CardinalityType
  <2>3. Cardinality(P(i)) # 0
    BY <2>1, <1>3, FS_EmptySet
  <2> QED
    BY <2>1, <2>2, <2>3, <1>1
<1>7. ASSUME NEW i \in 1 .. Len(s), NEW k \in 1 .. Len(s), i # k,
             s[i] < s[k] \/ (s[i] = s[k] /\ i <= k)
      PROVE  Cardinality(P(i)) # Cardinality(P(k))
  <2>1. P(i) \subseteq P(k) /\ P(i) # P(k)
    BY <1>3, <1>5, <1>7
  <2> QED
    BY <2>1, <1>6, FS_Subset
<1>8. ASSUME NEW i \in 1 .. Len(s), NEW k \in 1 .. Len(s), i # k
      PROVE  Cardinality(P(i)) # Cardinality(P(k))
  <2>1. (s[i] < s[k] \/ (s[i] = s[k] /\ i <= k)) \/ (s[k] < s[i] \/ (s[k] = s[i] /\ k <= i))
    BY <1>1
  <2> QED
    BY <2>1, <1>7, <1>8
<1> QED
  BY <1>4, <1>6, <1>8

\* The sorted list has the same elements, and as many: each place is taken.
LEMMA SortedIs ==
    ASSUME NEW S \in SUBSET Nat, NEW s \in Seq(S)
    PROVE  Sorted(s) \in Seq(S) /\ Len(Sorted(s)) = Len(s) /\ ToSet(Sorted(s)) = ToSet(s)
<1> DEFINE n == Len(s)
           f == [i \in 1 .. n |-> Place(s, i)]
           At_(m) == CHOOSE i \in 1 .. n : Place(s, i) = m
<1>0. s \in Seq(Nat)
  BY SeqMonotonic
<1>1. n \in Nat /\ DOMAIN s = 1 .. n /\ \A i \in 1 .. n : s[i] \in S
  BY LenProperties, ElementOfSeq
<1>2. /\ \A i \in 1 .. n : Place(s, i) \in 1 .. n
      /\ \A i, k \in 1 .. n : Place(s, i) = Place(s, k) => i = k
  BY <1>0, PlaceIs
<1> HIDE DEF n
<1>3. f \in Injection(1 .. n, 1 .. n)
  BY <1>2 DEF Injection, IsInjective
<1>4. IsFiniteSet(1 .. n)
  BY <1>1, FS_Interval
<1>5. f \in Surjection(1 .. n, 1 .. n)
  <2> HIDE DEF f
  <2> QED
    BY <1>3, <1>4, FS_Injection
<1>6. \A m \in 1 .. n : \E i \in 1 .. n : Place(s, i) = m
  BY <1>5 DEF Surjection
<1>7. \A m \in 1 .. n : At_(m) \in 1 .. n /\ Place(s, At_(m)) = m
  BY <1>6
<1>8. \A i \in 1 .. n : At_(Place(s, i)) = i
  BY <1>2, <1>7
<1>9. Sorted(s) = [m \in 1 .. n |-> s[At_(m)]]
  BY DEF Sorted, n
<1> HIDE DEF At_
<1>10. \A m \in 1 .. n : s[At_(m)] \in S
  BY <1>1, <1>7
<1>11. Sorted(s) \in [1 .. n -> S]
  BY <1>9, <1>10
<1>12. Sorted(s) \in Seq(S) /\ Len(Sorted(s)) = n /\ DOMAIN Sorted(s) = 1 .. n
  BY <1>1, <1>11
<1>13. \A x : x \in ToSet(Sorted(s)) => x \in ToSet(s)
  BY <1>1, <1>7, <1>9, <1>12 DEF ToSet
<1>14. \A i \in 1 .. n : s[i] = Sorted(s)[Place(s, i)]
  BY <1>2, <1>8, <1>9
<1>15. \A x : x \in ToSet(s) => x \in ToSet(Sorted(s))
  BY <1>1, <1>2, <1>12, <1>14 DEF ToSet
<1> QED
  BY <1>12, <1>13, <1>15 DEF n

\* Two lists one after the other have the elements of both.
LEMMA JoinElements ==
    ASSUME NEW S, NEW s \in Seq(S), NEW t \in Seq(S)
    PROVE  s \o t \in Seq(S) /\ ToSet(s \o t) = ToSet(s) \cup ToSet(t)
<1>1. /\ s \o t \in Seq(S) /\ Len(s \o t) = Len(s) + Len(t)
      /\ \A i \in 1 .. Len(s) + Len(t) :
           (s \o t)[i] = IF i <= Len(s) THEN s[i] ELSE t[i - Len(s)]
  BY ConcatProperties
<1>2. Len(s) \in Nat /\ Len(t) \in Nat
  BY LenProperties
<1>3. ASSUME NEW x \in ToSet(s \o t) PROVE x \in ToSet(s) \cup ToSet(t)
  <2>1. PICK i \in 1 .. Len(s) + Len(t) : (s \o t)[i] = x
    BY <1>1, Elements
  <2>2. CASE i <= Len(s)
    <3>1. i \in 1 .. Len(s) /\ s[i] = x
      BY <1>1, <1>2, <2>1, <2>2
    <3> QED
      BY <3>1, Elements
  <2>3. CASE ~ i <= Len(s)
    <3>1. i - Len(s) \in 1 .. Len(t) /\ t[i - Len(s)] = x
      BY <1>1, <1>2, <2>1, <2>3
    <3> QED
      BY <3>1, Elements
  <2> QED
    BY <2>2, <2>3
<1>4. ASSUME NEW x \in ToSet(s) PROVE x \in ToSet(s \o t)
  <2>1. PICK i \in 1 .. Len(s) : s[i] = x
    BY Elements
  <2>2. i \in 1 .. Len(s) + Len(t) /\ i <= Len(s)
    BY <1>2
  <2>3. (s \o t)[i] = x
    BY <1>1, <2>1, <2>2
  <2> QED
    BY <1>1, <2>2, <2>3, Elements
<1>5. ASSUME NEW x \in ToSet(t) PROVE x \in ToSet(s \o t)
  <2>1. PICK i \in 1 .. Len(t) : t[i] = x
    BY Elements
  <2>2. i + Len(s) \in 1 .. Len(s) + Len(t) /\ ~ (i + Len(s) <= Len(s)) /\ (i + Len(s)) - Len(s) = i
    BY <1>2
  <2>3. (s \o t)[i + Len(s)] = x
    BY <1>1, <2>1, <2>2
  <2> QED
    BY <1>1, <2>2, <2>3, Elements
<1> QED
  BY <1>1, <1>3, <1>4, <1>5

\* A log merged with a history has the messages of both (_merge_history).
LEMMA MergedIs ==
    ASSUME NEW log \in Seq(Messages), NEW list \in Seq(Messages)
    PROVE  /\ Merged(log, list) \in Seq(Messages)
           /\ ToSet(Merged(log, list)) = ToSet(log) \cup ToSet(list)
<1> DEFINE D == ToSet(list) \ ToSet(log)
           t == SetToSeq(D)
<1>1. ToSet(log) \subseteq Messages /\ ToSet(list) \subseteq Messages
  BY Elements
<1>2. IsFiniteSet(Messages) /\ Messages \in SUBSET Nat
  BY FS_Interval, TalkAssumption DEF Messages
<1>3. IsFiniteSet(D) /\ D \subseteq Messages
  BY <1>1, <1>2, FS_Subset
<1> HIDE DEF D
<1>4. t \in Seq(D) /\ ToSet(t) = D
  BY <1>3, SetToSeqIs
<1>5. t \in Seq(Messages)
  BY <1>3, <1>4, SeqMonotonic
<1> HIDE DEF t
<1>6. log \o t \in Seq(Messages) /\ ToSet(log \o t) = ToSet(log) \cup D
  BY <1>4, <1>5, JoinElements
<1>7. Sorted(log \o t) \in Seq(Messages) /\ ToSet(Sorted(log \o t)) = ToSet(log \o t)
  BY <1>2, <1>6, SortedIs
<1> QED
  BY <1>6, <1>7 DEF Merged, t, D

\* A list with one more.
LEMMA AppendElements ==
    ASSUME NEW S, NEW s \in Seq(S), NEW m \in S
    PROVE  Append(s, m) \in Seq(S) /\ ToSet(Append(s, m)) = ToSet(s) \cup {m}
<1> DEFINE t == <<m>>
<1>1. Append(s, m) = s \o t /\ Append(s, m) \in Seq(S)
  BY AppendIsConcat, AppendProperties
<1>2. t \in Seq(S) /\ ToSet(t) = {m}
  BY DEF ToSet
<1> HIDE DEF t
<1>3. ToSet(s \o t) = ToSet(s) \cup ToSet(t)
  BY <1>2, JoinElements
<1> QED
  BY <1>1, <1>2, <1>3

----------------------------------------------------------------------------
(* Types.  The kind of a packet tells what its body is; what the viewer's
   thread has still to send of a join is always the end of the same three. *)

\* The keys a client may know.
PublicKeys == [who : People, run : Nat, room : Rooms]

\* A list of those in a room, with those who moved to another one.
RoomLists == [users : SUBSET People, moved : SUBSET People]

\* What the server sends the viewer.
Packets ==
    [type : {"joined"}, room : Rooms, body : SUBSET People]
      \cup [type : {"history"}, room : Rooms, body : Seq(Messages)]
      \cup [type : {"message"}, room : Rooms, body : Messages]
      \cup [type : {"room_snapshot"}, room : Rooms, body : RoomLists]
      \cup [type : {"key"}, room : Rooms, body : PublicKeys]

\* What the viewer's thread has still to send of a join: the end of the same
\* three, of which only the first may have been read.
OfJoin(type, body) == Packet(type, seat, body)

ToSend(b) == <<OfJoin("joined", b), OfJoin("history", Absent), OfJoin("room_snapshot", Absent)>>
ToSendHistory(h) == <<OfJoin("history", h), OfJoin("room_snapshot", Absent)>>
ToSendList(l) == <<OfJoin("room_snapshot", l)>>

JoiningOK ==
    \/ joining = <<>>
    \/ seat # Absent /\ \E l \in RoomLists \cup {Absent} : joining = ToSendList(l)
    \/ seat # Absent /\ \E h \in Seq(Messages) \cup {Absent} : joining = ToSendHistory(h)
    \/ seat # Absent /\ \E b \in (SUBSET People) \cup {Absent} : joining = ToSend(b)

\* A thread of the server: it has a room while it is at one, a message while it
\* handles one, a list of the history between taking it out and putting it back,
\* a list of members once it has read it, and only people have a room to go to.
Steps == {"idle", "take", "put", "aim", "cast", "list", "target", "tell", "enter"}

ThreadTyped(t, th) ==
    /\ th \in [pc : Steps, room : Rooms \cup {Absent}, msg : 0 .. MaxEvents,
               held : Seq(Messages), packet : Packets \cup {Absent}, to : BOOLEAN,
               goal : Rooms \cup {Absent}]
    /\ th.pc \notin {"idle", "enter"} => th.room \in Rooms
    /\ th.pc \in {"take", "put", "aim", "cast"} =>
         th.msg \in Messages /\ th.packet = Packet("message", th.room, th.msg)
    /\ th.held # <<>> => th.pc = "put"
    /\ th.pc \in {"target", "tell"} => th.packet \in Packets /\ th.packet.type = "room_snapshot"
    /\ th.pc = "enter" => th.goal \in Rooms
    /\ th.goal # Absent => t \in People

WritersTyped ==
    /\ keep_history \in BOOLEAN /\ encrypted \in BOOLEAN /\ torn \in BOOLEAN
    /\ history \in Seq([room : Rooms, list : Seq(Messages)])
    /\ DOMAIN thread = Threads /\ thread = [t \in Threads |-> thread[t]]
    /\ \A t \in Threads : ThreadTyped(t, thread[t])
    /\ events \in 0 .. MaxEvents

RoomTyped ==
    /\ place \in [People -> Rooms \cup {Absent}] /\ run \in [People -> Nat]
    /\ seat \in Rooms \cup {Absent}
    /\ up \in Seq(Rooms) /\ down \in Seq(Packets)
    /\ moves \in 0 .. MaxMoves
    /\ stayed \in SUBSET People /\ omitted \in SUBSET People
    /\ JoiningOK
LogsTyped ==
    /\ keyed \in SUBSET PublicKeys /\ peer_users \in SUBSET PublicKeys
    /\ current_room \in Rooms /\ room_logs \in [Rooms -> Seq(Messages)] /\ away_gap \in BOOLEAN
    /\ missed \in [Rooms -> SUBSET Messages]

NewsTyped ==
    /\ known_users \in (SUBSET People) \cup {Absent}
    /\ initial_users \in SUBSET People /\ verified_users \in SUBSET People
    /\ snapshot_users \in SUBSET People /\ moved_away \in SUBSET People
    /\ lines \in SUBSET (People \X {"returned", "joined", "moved", "left"})

\* The type invariant.
TalkTypeOK == WritersTyped /\ RoomTyped /\ LogsTyped /\ NewsTyped


\* The type of a packet tells its body.
LEMMA PacketIs ==
    ASSUME NEW p \in Packets
    PROVE  /\ p.room \in Rooms
           /\ p.type \in {"joined", "history", "message", "room_snapshot", "key"}
           /\ p.type = "joined" => p.body \in SUBSET People
           /\ p.type = "history" => p.body \in Seq(Messages)
           /\ p.type = "message" => p.body \in Messages
           /\ p.type = "room_snapshot" => p.body \in RoomLists
           /\ p.type = "key" => p.body \in PublicKeys
<1>1. CASE p \in [type : {"joined"}, room : Rooms, body : SUBSET People]
  BY <1>1
<1>2. CASE p \in [type : {"history"}, room : Rooms, body : Seq(Messages)]
  BY <1>2
<1>3. CASE p \in [type : {"message"}, room : Rooms, body : Messages]
  BY <1>3
<1>4. CASE p \in [type : {"room_snapshot"}, room : Rooms, body : RoomLists]
  BY <1>4
<1>5. CASE p \in [type : {"key"}, room : Rooms, body : PublicKeys]
  BY <1>5
<1> QED
  BY <1>1, <1>2, <1>3, <1>4, <1>5 DEF Packets

\* What the server makes is a packet.
LEMMA PacketMade ==
    ASSUME NEW r \in Rooms
    PROVE  /\ \A b \in SUBSET People : Packet("joined", r, b) \in Packets
           /\ \A b \in Seq(Messages) : Packet("history", r, b) \in Packets
           /\ \A b \in Messages : Packet("message", r, b) \in Packets
           /\ \A u, m \in SUBSET People : Snapshot(r, u, m) \in Packets
           /\ \A l \in RoomLists : Packet("room_snapshot", r, l) \in Packets
           /\ \A b \in PublicKeys : Packet("key", r, b) \in Packets
BY DEF Packets, Packet, Snapshot, RoomLists

\* The fields of a packet, and of a list of those in a room.
LEMMA PacketFields ==
    ASSUME NEW t, NEW r, NEW b
    PROVE  Packet(t, r, b).type = t /\ Packet(t, r, b).room = r /\ Packet(t, r, b).body = b
BY DEF Packet

\* The same of a list of those in a room.
LEMMA SnapshotFields ==
    ASSUME NEW r, NEW u, NEW m
    PROVE  /\ Snapshot(r, u, m).type = "room_snapshot" /\ Snapshot(r, u, m).room = r
           /\ Snapshot(r, u, m).body.users = u /\ Snapshot(r, u, m).body.moved = m
BY DEF Snapshot, Packet

\* A list without the element at a place: what stood behind it moves up.
LEMMA RemovedIs ==
    ASSUME NEW S, NEW s \in Seq(S), NEW i \in 1 .. Len(s)
    PROVE  /\ RemoveAt(s, i) \in Seq(S) /\ Len(RemoveAt(s, i)) = Len(s) - 1
           /\ \A k \in 1 .. Len(s) - 1 : RemoveAt(s, i)[k] = IF k < i THEN s[k] ELSE s[k + 1]
<1> DEFINE t == SubSeq(s, 1, i - 1)
           u == SubSeq(s, i + 1, Len(s))
<1>1. Len(s) \in Nat /\ i \in Nat /\ 1 <= i /\ i <= Len(s)
  BY LenProperties
<1>2. \A k \in 1 .. Len(s) : s[k] \in S
  BY ElementOfSeq
<1>3. /\ t \in Seq(S) /\ Len(t) = i - 1
      /\ \A k \in 1 .. i - 1 : t[k] = s[k]
  <2>1. 1 \in Int /\ i - 1 \in Int /\ \A k \in 1 .. i - 1 : s[k] \in S
    BY <1>1, <1>2
  <2>2. /\ t \in Seq(S) /\ Len(t) = IF 1 <= i - 1 THEN (i - 1) - 1 + 1 ELSE 0
        /\ \A k \in 1 .. (i - 1) - 1 + 1 : t[k] = s[1 + k - 1]
    BY <2>1, SubSeqProperties
  <2> HIDE DEF t
  <2> QED
    BY <2>2, <1>1
<1>4. /\ u \in Seq(S) /\ Len(u) = Len(s) - i
      /\ \A k \in 1 .. Len(s) - i : u[k] = s[i + k]
  <2>1. i + 1 \in Int /\ Len(s) \in Int /\ \A k \in i + 1 .. Len(s) : s[k] \in S
    BY <1>1, <1>2
  <2>2. /\ u \in Seq(S) /\ Len(u) = IF i + 1 <= Len(s) THEN Len(s) - (i + 1) + 1 ELSE 0
        /\ \A k \in 1 .. Len(s) - (i + 1) + 1 : u[k] = s[(i + 1) + k - 1]
    BY <2>1, SubSeqProperties
  <2> HIDE DEF u
  <2> QED
    BY <2>2, <1>1
<1>5. RemoveAt(s, i) = t \o u
  BY DEF RemoveAt
<1> HIDE DEF t, u
<1>6. /\ t \o u \in Seq(S) /\ Len(t \o u) = Len(t) + Len(u)
      /\ \A k \in 1 .. Len(t) + Len(u) : (t \o u)[k] = IF k <= Len(t) THEN t[k] ELSE u[k - Len(t)]
  BY <1>3, <1>4, ConcatProperties
<1>7. ASSUME NEW k \in 1 .. Len(s) - 1
      PROVE  (t \o u)[k] = IF k < i THEN s[k] ELSE s[k + 1]
  <2>1. k \in 1 .. Len(t) + Len(u)
    BY <1>1, <1>3, <1>4
  <2>2. CASE k < i
    <3>1. k \in 1 .. i - 1 /\ k <= Len(t)
      BY <1>1, <1>3, <2>2
    <3> QED
      BY <1>3, <1>6, <2>1, <2>2, <3>1
  <2>3. CASE ~ k < i
    <3>1. k - (i - 1) \in 1 .. Len(s) - i /\ ~ (k <= Len(t)) /\ i + (k - (i - 1)) = k + 1
      BY <1>1, <1>3, <2>3
    <3> QED
      BY <1>3, <1>4, <1>6, <2>1, <2>3, <3>1
  <2> QED
    BY <2>2, <2>3
<1>8. t \o u \in Seq(S) /\ Len(t \o u) = Len(s) - 1
  <2>1. (i - 1) + (Len(s) - i) = Len(s) - 1
    BY <1>1
  <2> QED
    BY <2>1, <1>3, <1>4, <1>6
<1> QED
  BY <1>5, <1>7, <1>8

\* What is taken out of the history is one of its lists, or none, and nothing
\* new comes into the history by it.
LEMMA WithoutIs ==
    ASSUME WritersTyped, NEW r \in Rooms
    PROVE  /\ Kept(r) \in Seq(Messages)
           /\ Kept(r) # <<>> => \E i \in At(r) : Kept(r) = history[i].list
           /\ Without(r) \in Seq([room : Rooms, list : Seq(Messages)])
           /\ ToSet(Without(r)) \subseteq ToSet(history)
<1> DEFINE L == [room : Rooms, list : Seq(Messages)]
           i == CHOOSE k \in At(r) : TRUE
<1>1. history \in Seq(L)
  BY DEF WritersTyped
<1>2. CASE At(r) = {}
  BY <1>1, <1>2, EmptySeq DEF Kept, Without
<1>3. CASE At(r) # {}
  <2>1. i \in At(r) /\ i \in 1 .. Len(history) /\ Len(history) \in Nat
    BY <1>1, <1>3, LenProperties DEF At
  <2>2. Kept(r) = history[i].list /\ Without(r) = RemoveAt(history, i)
    BY <1>3 DEF Kept, Without
  <2> HIDE DEF i, L
  <2>3. history[i] \in L
    BY <1>1, <2>1, ElementOfSeq
  <2>4. /\ RemoveAt(history, i) \in Seq(L) /\ Len(RemoveAt(history, i)) = Len(history) - 1
        /\ \A k \in 1 .. Len(history) - 1 :
             RemoveAt(history, i)[k] = IF k < i THEN history[k] ELSE history[k + 1]
    BY <1>1, <2>1, RemovedIs
  <2>5. ASSUME NEW x \in ToSet(Without(r)) PROVE x \in ToSet(history)
    <3>1. PICK k \in 1 .. Len(history) - 1 : Without(r)[k] = x
      BY <2>2, <2>4, Elements
    <3>2. (x = history[k] \/ x = history[k + 1]) /\ k \in 1 .. Len(history) /\ k + 1 \in 1 .. Len(history)
      BY <3>1, <2>1, <2>2, <2>4
    <3> QED
      BY <3>2, <1>1, Elements
  <2>6. history[i].list \in Seq(Messages)
    BY <2>3 DEF L
  <2> QED
    BY <2>1, <2>2, <2>4, <2>5, <2>6 DEF L
<1> QED
  BY <1>2, <1>3

\* Those in a room are people.
LEMMA InRoomType == InRoom(seat) \in SUBSET People /\ \A r : InRoom(r) \in SUBSET People
BY DEF InRoom

\* What is first of what is to be sent of a join, and what is left after it.
LEMMA JoinParts ==
    /\ \A b : Head(ToSend(b)) = OfJoin("joined", b) /\ Tail(ToSend(b)) = ToSendHistory(Absent)
    /\ \A h : Head(ToSendHistory(h)) = OfJoin("history", h) /\ Tail(ToSendHistory(h)) = ToSendList(Absent)
    /\ \A l : Head(ToSendList(l)) = OfJoin("room_snapshot", l) /\ Tail(ToSendList(l)) = <<>>
    /\ \A b : ToSend(b) # <<>> /\ Len(ToSend(b)) = 3
    /\ \A b : ToSendHistory(b) # <<>> /\ Len(ToSendHistory(b)) = 2
    /\ \A b : ToSendList(b) # <<>> /\ Len(ToSendList(b)) = 1
<1>1. ASSUME NEW x, NEW y, NEW z
      PROVE  /\ Head(<<x, y, z>>) = x /\ Tail(<<x, y, z>>) = <<y, z>>
             /\ Head(<<x, y>>) = x /\ Tail(<<x, y>>) = <<y>>
             /\ Head(<<x>>) = x /\ Tail(<<x>>) = <<>>
             /\ Len(<<x, y, z>>) = 3 /\ Len(<<x, y>>) = 2 /\ Len(<<x>>) = 1
             /\ <<x, y, z>> # <<>> /\ <<x, y>> # <<>> /\ <<x>> # <<>>
  OBVIOUS
<1> QED
  BY <1>1 DEF ToSend, ToSendHistory, ToSendList

\* Its fields, and what it is once read.
LEMMA JoinFields ==
    ASSUME NEW t, NEW b, NEW c
    PROVE  OfJoin(t, b).type = t /\ OfJoin(t, b).room = seat /\ OfJoin(t, b).body = b
BY DEF OfJoin, Packet

\* The first of a join, once read.
LEMMA ReadFirst ==
    ASSUME NEW b, NEW c
    PROVE  /\ [ToSend(b) EXCEPT ![1].body = c] = ToSend(c)
           /\ [ToSendHistory(b) EXCEPT ![1].body = c] = ToSendHistory(c)
           /\ [ToSendList(b) EXCEPT ![1].body = c] = ToSendList(c)
<1>1. ASSUME NEW x, NEW y, NEW z
      PROVE  /\ [<<x, y, z>> EXCEPT ![1].body = c] = <<[x EXCEPT !.body = c], y, z>>
             /\ [<<x, y>> EXCEPT ![1].body = c] = <<[x EXCEPT !.body = c], y>>
             /\ [<<x>> EXCEPT ![1].body = c] = <<[x EXCEPT !.body = c]>>
  OBVIOUS
<1>2. ASSUME NEW t PROVE [OfJoin(t, b) EXCEPT !.body = c] = OfJoin(t, c)
  BY DEF OfJoin, Packet
<1> QED
  BY <1>1, <1>2 DEF ToSend, ToSendHistory, ToSendList

\* What the viewer's thread reads of a join, case by case.
LEMMA ReadCases ==
    ASSUME RoomTyped, ReadJoined
    PROVE  /\ seat \in Rooms
           /\ \/ /\ joining = ToSend(Absent) /\ joining' = ToSend(InRoom(seat))
                 /\ torn' = torn
              \/ /\ joining = ToSendHistory(Absent)
                 /\ joining' = IF keep_history THEN ToSendHistory(Selected(Kept(seat)))
                               ELSE ToSendList(Absent)
                 /\ torn' = (torn \/ \E a \in Threads : thread[a].pc = "put" /\ thread[a].room = seat)
              \/ /\ joining = ToSendList(Absent)
                 /\ joining' = ToSendList([users |-> InRoom(seat), moved |-> {}])
                 /\ torn' = torn
<1> DEFINE p == Head(joining)
           Read(body) == joining' = [joining EXCEPT ![1].body = body]
<1>1. joining # <<>> /\ p.body = Absent
      /\ \/ p.type = "joined" /\ Read(InRoom(p.room)) /\ torn' = torn
         \/ /\ p.type = "history"
            /\ IF keep_history THEN Read(Selected(Kept(p.room))) ELSE joining' = Tail(joining)
            /\ torn' = (torn \/ \E a \in Threads : thread[a].pc = "put" /\ thread[a].room = p.room)
         \/ /\ p.type = "room_snapshot"
            /\ Read([users |-> InRoom(p.room), moved |-> {}])
            /\ torn' = torn
  BY DEF ReadJoined
<1>2. seat \in Rooms
  BY <1>1 DEF RoomTyped, JoiningOK
<1>3. ASSUME NEW b, joining = ToSend(b)
      PROVE  /\ joining = ToSend(Absent) /\ p.type = "joined" /\ p.room = seat
             /\ \A c : Read(c) => joining' = ToSend(c)
  <2>1. p = OfJoin("joined", b) /\ Tail(joining) = ToSendHistory(Absent)
    BY <1>3, JoinParts
  <2>2. b = Absent /\ p.type = "joined" /\ p.room = seat
    BY <1>1, <2>1, JoinFields
  <2>3. ASSUME NEW c, Read(c) PROVE joining' = ToSend(c)
    BY <1>3, <2>3, ReadFirst
  <2> QED
    BY <1>3, <2>2, <2>3
<1>4. ASSUME NEW h, joining = ToSendHistory(h)
      PROVE  /\ joining = ToSendHistory(Absent) /\ p.type = "history" /\ p.room = seat
             /\ Tail(joining) = ToSendList(Absent)
             /\ \A c : Read(c) => joining' = ToSendHistory(c)
  <2>1. p = OfJoin("history", h) /\ Tail(joining) = ToSendList(Absent)
    BY <1>4, JoinParts
  <2>2. h = Absent /\ p.type = "history" /\ p.room = seat
    BY <1>1, <2>1, JoinFields
  <2>3. ASSUME NEW c, Read(c) PROVE joining' = ToSendHistory(c)
    BY <1>4, <2>3, ReadFirst
  <2> QED
    BY <1>4, <2>1, <2>2, <2>3
<1>5. ASSUME NEW l, joining = ToSendList(l)
      PROVE  /\ joining = ToSendList(Absent) /\ p.type = "room_snapshot" /\ p.room = seat
             /\ \A c : Read(c) => joining' = ToSendList(c)
  <2>1. p = OfJoin("room_snapshot", l) /\ Tail(joining) = <<>>
    BY <1>5, JoinParts
  <2>2. l = Absent /\ p.type = "room_snapshot" /\ p.room = seat
    BY <1>1, <2>1, JoinFields
  <2>3. ASSUME NEW c, Read(c) PROVE joining' = ToSendList(c)
    BY <1>5, <2>3, ReadFirst
  <2> QED
    BY <1>5, <2>2, <2>3
<1>6. \/ \E b : joining = ToSend(b)
      \/ \E h : joining = ToSendHistory(h)
      \/ \E l : joining = ToSendList(l)
  BY <1>1 DEF RoomTyped, JoiningOK
<1> HIDE DEF p, Read
<1>7. CASE \E b : joining = ToSend(b)
  BY <1>1, <1>2, <1>3, <1>7
<1>8. CASE \E h : joining = ToSendHistory(h)
  <2>1. joining = ToSendHistory(Absent) /\ p.type = "history" /\ p.room = seat
        /\ Tail(joining) = ToSendList(Absent)
        /\ \A c : Read(c) => joining' = ToSendHistory(c)
    BY <1>4, <1>8
  <2>2. IF keep_history THEN Read(Selected(Kept(seat))) ELSE joining' = Tail(joining)
    BY <1>1, <2>1
  <2>3. torn' = (torn \/ \E a \in Threads : thread[a].pc = "put" /\ thread[a].room = seat)
    BY <1>1, <2>1
  <2> QED
    BY <1>2, <2>1, <2>2, <2>3
<1>9. CASE \E l : joining = ToSendList(l)
  <2>1. joining = ToSendList(Absent) /\ p.type = "room_snapshot" /\ p.room = seat
        /\ \A c : Read(c) => joining' = ToSendList(c)
    BY <1>5, <1>9
  <2>2. Read([users |-> InRoom(seat), moved |-> {}]) /\ torn' = torn
    BY <1>1, <2>1
  <2> QED
    BY <1>2, <2>1, <2>2
<1> QED
  BY <1>6, <1>7, <1>8, <1>9

\* What it sends, case by case.
LEMMA JoinCases ==
    ASSUME RoomTyped, SendJoined
    PROVE  /\ seat \in Rooms /\ seat' = seat
           /\ \/ \E b \in SUBSET People :
                   /\ b # Absent /\ joining = ToSend(b) /\ joining' = ToSendHistory(Absent)
                   /\ down' = Append(down, OfJoin("joined", b)) /\ omitted' = omitted
              \/ \E h \in Seq(Messages) :
                   /\ h # Absent /\ joining = ToSendHistory(h) /\ joining' = ToSendList(Absent)
                   /\ down' = Append(down, OfJoin("history", h)) /\ omitted' = omitted
              \/ \E l \in RoomLists :
                   /\ l # Absent /\ joining = ToSendList(l) /\ joining' = <<>>
                   /\ down' = Append(down, OfJoin("room_snapshot", l))
                   /\ omitted' = omitted \cup Omitted(OfJoin("room_snapshot", l))
<1>1. /\ joining # <<>> /\ Head(joining).body # Absent /\ joining' = Tail(joining) /\ seat' = seat
      /\ down' = Append(down, Head(joining))
      /\ omitted' = IF Head(joining).type = "room_snapshot"
                    THEN omitted \cup Omitted(Head(joining)) ELSE omitted
  BY DEF SendJoined
<1>2. seat \in Rooms
  BY <1>1 DEF RoomTyped, JoiningOK
<1>3. ASSUME NEW b \in (SUBSET People) \cup {Absent}, joining = ToSend(b)
      PROVE  /\ b \in SUBSET People /\ b # Absent /\ joining' = ToSendHistory(Absent)
             /\ down' = Append(down, OfJoin("joined", b)) /\ omitted' = omitted
  <2>1. Head(joining) = OfJoin("joined", b) /\ joining' = ToSendHistory(Absent)
    BY <1>1, <1>3, JoinParts
  <2>2. b # Absent /\ Head(joining).type = "joined"
    BY <1>1, <2>1, JoinFields
  <2> QED
    BY <1>1, <2>1, <2>2
<1>4. ASSUME NEW h \in Seq(Messages) \cup {Absent}, joining = ToSendHistory(h)
      PROVE  /\ h \in Seq(Messages) /\ h # Absent /\ joining' = ToSendList(Absent)
             /\ down' = Append(down, OfJoin("history", h)) /\ omitted' = omitted
  <2>1. Head(joining) = OfJoin("history", h) /\ joining' = ToSendList(Absent)
    BY <1>1, <1>4, JoinParts
  <2>2. h # Absent /\ Head(joining).type = "history"
    BY <1>1, <2>1, JoinFields
  <2> QED
    BY <1>1, <2>1, <2>2
<1>5. ASSUME NEW l \in RoomLists \cup {Absent}, joining = ToSendList(l)
      PROVE  /\ l \in RoomLists /\ l # Absent /\ joining' = <<>>
             /\ down' = Append(down, OfJoin("room_snapshot", l))
             /\ omitted' = omitted \cup Omitted(OfJoin("room_snapshot", l))
  <2>1. Head(joining) = OfJoin("room_snapshot", l) /\ joining' = <<>>
    BY <1>1, <1>5, JoinParts
  <2>2. l # Absent /\ Head(joining).type = "room_snapshot"
    BY <1>1, <2>1, JoinFields
  <2> QED
    BY <1>1, <2>1, <2>2
<1> QED
  BY <1>1, <1>2, <1>3, <1>4, <1>5 DEF RoomTyped, JoiningOK

\* A thread goes on, to where it may be.
Goes(t, th) == ThreadTyped(t, th) /\ thread' = [thread EXCEPT ![t] = th]

\* The others stay where they are.
LEMMA OneThread ==
    ASSUME WritersTyped, NEW t \in Threads, NEW th, Goes(t, th)
    PROVE  /\ DOMAIN thread' = Threads /\ thread' = [u \in Threads |-> thread'[u]]
           /\ \A u \in Threads : ThreadTyped(u, thread[u])'
           /\ thread'[t] = th /\ \A u \in Threads : u # t => thread'[u] = thread[u]
<1>1. thread' = [thread EXCEPT ![t] = th] /\ ThreadTyped(t, th)
  BY DEF Goes
<1>2. DOMAIN thread = Threads /\ \A u \in Threads : ThreadTyped(u, thread[u])
  BY DEF WritersTyped
<1>3. DOMAIN thread' = Threads /\ thread' = [u \in Threads |-> thread'[u]]
      /\ thread'[t] = th /\ \A u \in Threads : u # t => thread'[u] = thread[u]
  BY <1>1, <1>2
<1>4. \A u \in Threads : ThreadTyped(u, thread'[u])
  BY <1>1, <1>2, <1>3
<1>5. \A u \in Threads : ThreadTyped(u, thread[u])'
  BY <1>4 DEF ThreadTyped
<1> QED
  BY <1>3, <1>5

\* Where a handler ends or goes on with the next room.
LEMMA DoneTyped ==
    ASSUME NEW t, ThreadTyped(t, thread[t])
    PROVE  /\ ThreadTyped(t, Idle) /\ ThreadTyped(t, Done(t))
           /\ Done(t).pc \in {"idle", "enter"} /\ Done(t).goal \in {thread[t].goal, Absent}
<1>1. ThreadTyped(t, Idle)
  BY EmptySeq, TalkAssumption DEF ThreadTyped, Idle, Thread, Steps
<1>2. Idle.pc = "idle" /\ Idle.goal = Absent
  BY DEF Idle, Thread
<1>3. CASE thread[t].goal = Absent
  BY <1>1, <1>2, <1>3 DEF Done
<1>4. CASE thread[t].goal # Absent
  <2>1. thread[t].goal \in Rooms /\ t \in People
    BY <1>4 DEF ThreadTyped
  <2>2. Done(t) = [pc |-> "enter", room |-> Absent, msg |-> 0, held |-> <<>>, packet |-> Absent,
                   to |-> FALSE, goal |-> thread[t].goal]
    BY <1>4 DEF Done, Thread
  <2>3. ThreadTyped(t, Done(t))
    BY <2>1, <2>2, EmptySeq, TalkAssumption DEF ThreadTyped, Steps
  <2> QED
    BY <1>1, <2>2, <2>3
<1> QED
  BY <1>3, <1>4

\* A thread that takes up a list of members to read.
LEMMA ToListTyped ==
    ASSUME NEW t, NEW r \in Rooms, NEW goal \in Rooms \cup {Absent}, goal # Absent => t \in People
    PROVE  ThreadTyped(t, AtList(r, goal)) /\ AtList(r, goal).pc = "list"
<1>1. AtList(r, goal) = [pc |-> "list", room |-> r, msg |-> 0, held |-> <<>>, packet |-> Absent,
                         to |-> FALSE, goal |-> goal]
  BY DEF AtList, Thread
<1> QED
  BY <1>1, EmptySeq, TalkAssumption DEF ThreadTyped, Steps

\* The steps of the threads: what each leaves them at.
LEMMA WriteGoes ==
    ASSUME TalkTypeOK, NEW a \in Threads, NEW r \in Rooms, Write(a, r)
    PROVE  /\ thread[a].pc = "idle"
           /\ \E th : Goes(a, th) /\ th.pc \in {"take", "aim"} /\ th.goal = Absent
<1> DEFINE m == events + 1
           th == [pc |-> After("idle"), room |-> r, msg |-> m, held |-> <<>>,
                  packet |-> Packet("message", r, m), to |-> FALSE, goal |-> Absent]
<1>1. thread' = [thread EXCEPT ![a] = th] /\ events < MaxEvents /\ thread[a].pc = "idle"
  BY DEF Write, Thread
<1>2. m \in Messages
  BY <1>1, TalkAssumption DEF TalkTypeOK, WritersTyped, Messages
<1>3. Packet("message", r, m) \in Packets
  BY <1>2, PacketMade
<1>4. m \in 0 .. MaxEvents /\ th.pc \in {"take", "aim"} /\ th.goal = Absent
  BY <1>2, TalkAssumption DEF Messages, After
<1> HIDE DEF m
<1>5. ThreadTyped(a, th)
  BY <1>2, <1>3, <1>4, EmptySeq DEF ThreadTyped, Steps
<1> HIDE DEF th
<1> QED
  BY <1>1, <1>4, <1>5 DEF Goes

LEMMA TakeOutGoes ==
    ASSUME TalkTypeOK, NEW a \in Threads, TakeOut(a)
    PROVE  /\ thread[a].pc = "take" /\ thread[a].room \in Rooms
           /\ \E th : /\ Goes(a, th) /\ th.pc = "put" /\ th.room = thread[a].room
                      /\ th.held = Kept(thread[a].room) /\ th.goal = thread[a].goal
<1> DEFINE r == thread[a].room
           th == [thread[a] EXCEPT !.pc = "put", !.held = Kept(r)]
<1>0. WritersTyped /\ ThreadTyped(a, thread[a])
  BY DEF TalkTypeOK, WritersTyped
<1>1. thread[a].pc = "take" /\ thread' = [thread EXCEPT ![a] = th]
  BY DEF TakeOut, After
<1>2. r \in Rooms
  BY <1>0, <1>1 DEF ThreadTyped
<1>3. Kept(r) \in Seq(Messages)
  BY <1>0, <1>2, WithoutIs
<1>4. ThreadTyped(a, th) /\ th.pc = "put" /\ th.room = r /\ th.held = Kept(r)
      /\ th.goal = thread[a].goal
  BY <1>0, <1>1, <1>3 DEF ThreadTyped, Steps
<1> QED
  BY <1>1, <1>2, <1>4 DEF Goes

LEMMA PutBackGoes ==
    ASSUME TalkTypeOK, NEW a \in Threads, PutBack(a)
    PROVE  /\ thread[a].pc = "put" /\ thread[a].room \in Rooms /\ thread[a].msg \in Messages
           /\ thread[a].held \in Seq(Messages)
           /\ \E th : /\ Goes(a, th) /\ th.pc = "aim" /\ th.room = thread[a].room
                      /\ th.msg = thread[a].msg /\ th.goal = thread[a].goal
<1> DEFINE th == [thread[a] EXCEPT !.pc = "aim", !.held = <<>>]
<1>0. ThreadTyped(a, thread[a])
  BY DEF TalkTypeOK, WritersTyped
<1>1. thread[a].pc = "put" /\ thread' = [thread EXCEPT ![a] = th]
  BY DEF PutBack, After
<1>2. /\ ThreadTyped(a, th) /\ th.pc = "aim" /\ th.room = thread[a].room
      /\ th.msg = thread[a].msg /\ th.goal = thread[a].goal
  BY <1>0, <1>1, EmptySeq DEF ThreadTyped, Steps
<1>3. thread[a].room \in Rooms /\ thread[a].msg \in Messages /\ thread[a].held \in Seq(Messages)
  BY <1>0, <1>1 DEF ThreadTyped
<1> QED
  BY <1>1, <1>2, <1>3 DEF Goes

LEMMA AimGoes ==
    ASSUME TalkTypeOK, NEW a \in Threads, Aim(a)
    PROVE  /\ thread[a].pc = "aim" /\ thread[a].room \in Rooms /\ thread[a].msg \in Messages
           /\ \E th : /\ Goes(a, th) /\ th.room = thread[a].room /\ th.msg = thread[a].msg
                      /\ th.pc \in {"cast", "list"} /\ th.goal = thread[a].goal
                      /\ seat = thread[a].room => th.pc = "cast" /\ th.to
<1> DEFINE th == IF seat = thread[a].room THEN [thread[a] EXCEPT !.pc = "cast", !.to = TRUE]
                 ELSE [thread[a] EXCEPT !.pc = "list"]
<1>0. ThreadTyped(a, thread[a])
  BY DEF TalkTypeOK, WritersTyped
<1>1. thread[a].pc = "aim"
  BY DEF Aim
<1>2. thread' = [thread EXCEPT ![a] = th]
  BY DEF Aim, After
<1>3. CASE seat = thread[a].room
  <2>1. /\ ThreadTyped(a, th) /\ th.pc = "cast" /\ th.to /\ th.room = thread[a].room
        /\ th.msg = thread[a].msg /\ th.goal = thread[a].goal
    BY <1>0, <1>1, <1>3 DEF ThreadTyped, Steps
  <2> QED
    BY <1>0, <1>1, <1>2, <2>1 DEF Goes, ThreadTyped
<1>4. CASE seat # thread[a].room
  <2>1. /\ ThreadTyped(a, th) /\ th.pc = "list" /\ th.room = thread[a].room
        /\ th.msg = thread[a].msg /\ th.goal = thread[a].goal
    BY <1>0, <1>1, <1>4 DEF ThreadTyped, Steps
  <2> QED
    BY <1>0, <1>1, <1>2, <1>4, <2>1 DEF Goes, ThreadTyped
<1> QED
  BY <1>3, <1>4

LEMMA CastGoes ==
    ASSUME TalkTypeOK, NEW a \in Threads, Cast(a)
    PROVE  /\ thread[a].pc = "cast" /\ thread[a].room \in Rooms /\ thread[a].msg \in Messages
           /\ thread[a].packet = Packet("message", thread[a].room, thread[a].msg)
           /\ \E th : Goes(a, th) /\ th.pc = "list" /\ th.goal = thread[a].goal
<1> DEFINE th == [thread[a] EXCEPT !.pc = "list", !.to = FALSE]
<1>0. ThreadTyped(a, thread[a])
  BY DEF TalkTypeOK, WritersTyped
<1>1. thread[a].pc = "cast" /\ thread' = [thread EXCEPT ![a] = th]
  BY DEF Cast, After
<1>2. ThreadTyped(a, th) /\ th.pc = "list" /\ th.goal = thread[a].goal
  BY <1>0, <1>1 DEF ThreadTyped, Steps
<1> QED
  BY <1>0, <1>1, <1>2 DEF Goes, ThreadTyped

LEMMA ReadListGoes ==
    ASSUME TalkTypeOK, NEW t \in Threads, ReadList(t)
    PROVE  /\ thread[t].pc = "list"
           /\ \E th : Goes(t, th) /\ th.pc = "target" /\ th.goal = thread[t].goal
<1> DEFINE r == thread[t].room
           moved == IF thread[t].goal = Absent THEN {} ELSE {t}
           th == [thread[t] EXCEPT !.pc = "target", !.packet = Snapshot(r, InRoom(r), moved)]
<1>0. ThreadTyped(t, thread[t])
  BY DEF TalkTypeOK, WritersTyped
<1>1. thread[t].pc = "list" /\ thread' = [thread EXCEPT ![t] = th]
  BY DEF ReadList
<1>2. r \in Rooms /\ moved \in SUBSET People
  BY <1>0, <1>1 DEF ThreadTyped
<1> DEFINE k == Snapshot(r, InRoom(r), moved)
<1> HIDE DEF moved
<1>3. k \in Packets /\ k.type = "room_snapshot"
  BY <1>2, InRoomType, PacketMade, SnapshotFields
<1> HIDE DEF k
<1>4. th = [thread[t] EXCEPT !.pc = "target", !.packet = k]
  BY DEF k
<1> HIDE DEF th
<1>5. ThreadTyped(t, th) /\ th.pc = "target" /\ th.goal = thread[t].goal
  BY <1>0, <1>1, <1>3, <1>4 DEF ThreadTyped, Steps
<1> QED
  BY <1>1, <1>5 DEF Goes, th

LEMMA ReadTargetsGoes ==
    ASSUME TalkTypeOK, NEW t \in Threads, ReadTargets(t)
    PROVE  /\ thread[t].pc = "target"
           /\ \E th : /\ Goes(t, th) /\ th.pc \in {"tell", "idle", "enter"}
                      /\ th.goal \in {thread[t].goal, Absent}
<1> DEFINE th == IF seat = thread[t].room THEN [thread[t] EXCEPT !.pc = "tell", !.to = TRUE]
                 ELSE Done(t)
<1>0. ThreadTyped(t, thread[t])
  BY DEF TalkTypeOK, WritersTyped
<1>1. thread[t].pc = "target" /\ thread' = [thread EXCEPT ![t] = th]
  BY DEF ReadTargets
<1>2. CASE seat = thread[t].room
  <2>1. ThreadTyped(t, th) /\ th.pc = "tell" /\ th.goal = thread[t].goal
    BY <1>0, <1>1, <1>2 DEF ThreadTyped, Steps
  <2> QED
    BY <1>1, <2>1 DEF Goes
<1>3. CASE seat # thread[t].room
  <2>1. th = Done(t)
    BY <1>3
  <2>2. ThreadTyped(t, th) /\ th.pc \in {"idle", "enter"} /\ th.goal \in {thread[t].goal, Absent}
    BY <1>0, <2>1, DoneTyped
  <2> QED
    BY <1>1, <2>2 DEF Goes
<1> QED
  BY <1>2, <1>3

LEMMA TellGoes ==
    ASSUME TalkTypeOK, NEW t \in Threads, Tell(t)
    PROVE  /\ thread[t].pc = "tell"
           /\ thread[t].packet \in Packets /\ thread[t].packet.type = "room_snapshot"
           /\ \E th : /\ Goes(t, th) /\ th.pc \in {"idle", "enter"}
                      /\ th.goal \in {thread[t].goal, Absent}
<1>0. ThreadTyped(t, thread[t])
  BY DEF TalkTypeOK, WritersTyped
<1>1. thread[t].pc = "tell" /\ thread' = [thread EXCEPT ![t] = Done(t)]
  BY DEF Tell
<1>2. /\ ThreadTyped(t, Done(t)) /\ Done(t).pc \in {"idle", "enter"}
      /\ Done(t).goal \in {thread[t].goal, Absent}
  BY <1>0, DoneTyped
<1>3. thread[t].packet \in Packets /\ thread[t].packet.type = "room_snapshot"
  BY <1>0, <1>1 DEF ThreadTyped
<1> QED
  BY <1>1, <1>2, <1>3 DEF Goes

\* Those who come and go, and their threads.
LEMMA PeopleGo ==
    ASSUME TalkTypeOK, NEW p \in People,
           \/ \E r \in Rooms : Connect(p, r)
           \/ \E goal \in Rooms \cup {Absent} : Leave(p, goal)
           \/ Enter(p)
    PROVE  /\ \E th : Goes(p, th) /\ th.pc = "list"
           /\ \E r \in Rooms \cup {Absent} : place' = [place EXCEPT ![p] = r]
           /\ thread[p].pc \in {"idle", "enter"}
           /\ run' \in [People -> Nat]
           /\ stayed' \subseteq stayed
           /\ omitted' = omitted /\ events' \in 0 .. MaxEvents
           /\ UNCHANGED <<setUp, history, seat, joining, up, down, viewerVars, moves, missed, torn>>
<1>0. /\ place \in [People -> Rooms \cup {Absent}] /\ run \in [People -> Nat]
      /\ events \in 0 .. MaxEvents /\ p \in Threads /\ ThreadTyped(p, thread[p])
  BY DEF TalkTypeOK, RoomTyped, WritersTyped, Threads
<1>1. ASSUME NEW r \in Rooms, Connect(p, r)
      PROVE  /\ thread' = [thread EXCEPT ![p] = AtList(r, Absent)]
             /\ place' = [place EXCEPT ![p] = r] /\ run' \in [People -> Nat]
             /\ thread[p].pc = "idle" /\ place[p] = Absent
             /\ stayed' = stayed /\ omitted' = omitted /\ events' \in 0 .. MaxEvents
             /\ UNCHANGED <<setUp, history, seat, joining, up, down, viewerVars, moves, missed, torn>>
  BY <1>0, <1>1, TalkAssumption DEF Connect, newsHistory
<1>2. ASSUME NEW goal \in Rooms \cup {Absent}, Leave(p, goal)
      PROVE  /\ thread' = [thread EXCEPT ![p] = AtList(place[p], goal)] /\ place[p] \in Rooms
             /\ place' = [place EXCEPT ![p] = Absent] /\ run' \in [People -> Nat]
             /\ thread[p].pc = "idle"
             /\ stayed' = stayed \ {p} /\ omitted' = omitted /\ events' \in 0 .. MaxEvents
             /\ UNCHANGED <<setUp, history, seat, joining, up, down, viewerVars, moves, missed, torn>>
  BY <1>0, <1>2, TalkAssumption DEF Leave
<1>3. ASSUME Enter(p)
      PROVE  /\ thread' = [thread EXCEPT ![p] = AtList(thread[p].goal, Absent)] /\ thread[p].goal \in Rooms
             /\ place' = [place EXCEPT ![p] = thread[p].goal] /\ run' \in [People -> Nat]
             /\ thread[p].pc = "enter"
             /\ stayed' = stayed /\ omitted' = omitted /\ events' \in 0 .. MaxEvents
             /\ UNCHANGED <<setUp, history, seat, joining, up, down, viewerVars, moves, missed, torn>>
  BY <1>0, <1>3, TalkAssumption DEF Enter, newsHistory, ThreadTyped
<1>4. \A r \in Rooms, goal \in Rooms \cup {Absent} :
        ThreadTyped(p, AtList(r, goal)) /\ AtList(r, goal).pc = "list"
  BY ToListTyped
<1>5. CASE \E r \in Rooms : Connect(p, r)
  BY <1>1, <1>4, <1>5 DEF Goes
<1>6. CASE \E goal \in Rooms \cup {Absent} : Leave(p, goal)
  BY <1>2, <1>4, <1>6 DEF Goes
<1>7. CASE Enter(p)
  BY <1>3, <1>4, <1>7 DEF Goes
<1> QED
  BY <1>5, <1>6, <1>7

\* No step leaves the types of the history and of the threads.
LEMMA WritersStep ==
    ASSUME TalkTypeOK, TalkNext
    PROVE  WritersTyped'
<1> USE TalkAssumption
<1>0. WritersTyped /\ RoomTyped /\ Authors \subseteq Threads /\ People \subseteq Threads
  BY DEF TalkTypeOK, Threads
<1>g. ASSUME NEW t \in Threads, \E th : Goes(t, th),
             UNCHANGED <<keep_history, encrypted>>, torn' \in BOOLEAN, events' \in 0 .. MaxEvents,
             history' \in Seq([room : Rooms, list : Seq(Messages)])
      PROVE  WritersTyped'
  <2>1. PICK th : Goes(t, th)
    BY <1>g
  <2>2. /\ DOMAIN thread' = Threads /\ thread' = [u \in Threads |-> thread'[u]]
        /\ \A u \in Threads : ThreadTyped(u, thread[u])'
    BY <1>0, <2>1, OneThread
  <2> QED
    BY <1>0, <1>g, <2>2 DEF WritersTyped
<1>h. history \in Seq([room : Rooms, list : Seq(Messages)]) /\ events \in 0 .. MaxEvents /\ torn \in BOOLEAN
  BY <1>0 DEF WritersTyped
<1>1. ASSUME NEW a \in Authors, NEW r \in Rooms, Write(a, r) PROVE WritersTyped'
  <2>1. events' \in 0 .. MaxEvents /\ UNCHANGED <<keep_history, encrypted, torn, history>>
    BY <1>1, <1>h DEF Write, setUp
  <2> QED
    BY <1>0, <1>1, <1>g, <1>h, <2>1, WriteGoes
<1>2. ASSUME NEW a \in Authors, TakeOut(a) PROVE WritersTyped'
  <2> DEFINE r == thread[a].room
  <2>1. history' = Without(r)
        /\ torn' = (torn \/ \E b \in Threads : thread[b].pc = "put" /\ thread[b].room = r)
        /\ UNCHANGED <<keep_history, encrypted, events>>
    BY <1>2 DEF TakeOut, setUp
  <2>2. r \in Rooms /\ \E th : Goes(a, th)
    BY <1>0, <1>2, TakeOutGoes
  <2> HIDE DEF r
  <2>3. Without(r) \in Seq([room : Rooms, list : Seq(Messages)])
    BY <1>0, <2>2, WithoutIs
  <2>4. torn' \in BOOLEAN
    BY <2>1, <1>h
  <2> QED
    BY <1>0, <1>g, <1>h, <2>1, <2>2, <2>3, <2>4
<1>3. ASSUME NEW a \in Authors, PutBack(a) PROVE WritersTyped'
  <2> DEFINE r == thread[a].room
             m == thread[a].msg
             list == Newest(Append(thread[a].held, m), HistoryLimit)
             L == [room : Rooms, list : Seq(Messages)]
  <2>1. history' = Newest(Append(Without(r), [room |-> r, list |-> list]), HistoryRooms)
        /\ UNCHANGED <<keep_history, encrypted, events, torn>>
    BY <1>3 DEF PutBack, setUp
  <2>2. r \in Rooms /\ m \in Messages /\ thread[a].held \in Seq(Messages) /\ \E th : Goes(a, th)
    BY <1>0, <1>3, PutBackGoes
  <2>4. list \in Seq(Messages)
    <3>1. Append(thread[a].held, m) \in Seq(Messages)
      BY <2>2, AppendElements
    <3> QED
      BY <3>1, NewestIs
  <2> HIDE DEF r, m, list
  <2>5. [room |-> r, list |-> list] \in L
    BY <2>2, <2>4
  <2>6. Without(r) \in Seq(L)
    BY <1>0, <2>2, WithoutIs
  <2> HIDE DEF L
  <2>7. Append(Without(r), [room |-> r, list |-> list]) \in Seq(L)
    BY <2>5, <2>6, AppendProperties
  <2>8. history' \in Seq(L)
    BY <2>1, <2>7, NewestIs
  <2> QED
    BY <1>0, <1>g, <1>h, <2>1, <2>2, <2>8 DEF L
<1>4. ASSUME NEW a \in Authors, Aim(a) \/ Cast(a) PROVE WritersTyped'
  <2>1. UNCHANGED <<keep_history, encrypted, events, torn, history>>
    BY <1>4 DEF Aim, Cast, setUp
  <2> QED
    BY <1>0, <1>4, <1>g, <1>h, <2>1, AimGoes, CastGoes
<1>5. ASSUME NEW t \in Threads, ReadList(t) \/ ReadTargets(t) \/ Tell(t) PROVE WritersTyped'
  <2>1. UNCHANGED <<keep_history, encrypted, events, torn, history>>
    BY <1>5 DEF ReadList, ReadTargets, Tell, setUp
  <2> QED
    BY <1>5, <1>g, <1>h, <2>1, ReadListGoes, ReadTargetsGoes, TellGoes
<1>6. ASSUME NEW p \in People,
             \/ \E r \in Rooms : Connect(p, r)
             \/ \E goal \in Rooms \cup {Absent} : Leave(p, goal)
             \/ Enter(p)
      PROVE  WritersTyped'
  <2>1. /\ \E th : Goes(p, th)
        /\ UNCHANGED <<keep_history, encrypted, torn, history>> /\ events' \in 0 .. MaxEvents
    BY <1>6, PeopleGo DEF setUp
  <2> QED
    BY <1>0, <1>g, <1>h, <2>1
<1>7. ASSUME UNCHANGED <<keep_history, encrypted, history, thread, events>>, torn' \in BOOLEAN
      PROVE  WritersTyped'
  BY <1>0, <1>7 DEF WritersTyped, ThreadTyped
<1>8. CASE ReadJoined
  <2>1. torn' \in BOOLEAN
    BY <1>0, <1>8, <1>h, ReadCases
  <2> QED
    BY <1>7, <1>8, <2>1 DEF ReadJoined, setUp
<1>9. CASE SendJoined
  BY <1>7, <1>9, <1>h DEF SendJoined, setUp
<1>10. ASSUME NEW p \in People, SendKey(p) PROVE WritersTyped'
  BY <1>10, <1>7, <1>h DEF SendKey, setUp
<1>11. CASE TakeSeat
  BY <1>11, <1>7, <1>h DEF TakeSeat, setUp
<1>12. CASE ViewerReceives
  BY <1>12, <1>7, <1>h DEF ViewerReceives, setUp
<1>13. ASSUME NEW r \in Rooms, SwitchRoom(r) PROVE WritersTyped'
  BY <1>13, <1>7, <1>h DEF SwitchRoom, setUp
<1>14. ASSUME NEW forget \in BOOLEAN, Reconnect(forget) PROVE WritersTyped'
  <2>1. UNCHANGED <<keep_history, encrypted, events, torn, history>>
        /\ thread' = [t \in Threads |-> [thread[t] EXCEPT !.to = FALSE]]
    BY <1>14 DEF Reconnect, setUp
  <2>2. \A t \in Threads : ThreadTyped(t, thread[t])
    BY <1>0 DEF WritersTyped
  <2>3. \A t \in Threads : thread'[t] = [thread[t] EXCEPT !.to = FALSE]
    BY <2>1
  <2>4. ASSUME NEW t \in Threads PROVE ThreadTyped(t, thread'[t])
    <3>1. ASSUME NEW f \in BOOLEAN PROVE ThreadTyped(t, [thread[t] EXCEPT !.to = f])
      BY <2>2 DEF ThreadTyped
    <3> QED
      BY <2>3, <3>1
  <2>5. \A t \in Threads : ThreadTyped(t, thread[t])'
    BY <2>4 DEF ThreadTyped
  <2>6. DOMAIN thread' = Threads /\ thread' = [t \in Threads |-> thread'[t]]
    BY <2>1
  <2> QED
    BY <1>0, <2>1, <2>5, <2>6 DEF WritersTyped
<1> QED
  BY <1>1, <1>2, <1>3, <1>4, <1>5, <1>6, <1>8, <1>9, <1>10, <1>11, <1>12, <1>13, <1>14 DEF TalkNext

\* The steps of the server leave the viewer alone, and what it misses is noted
\* when a message is aimed at its targets.
LEMMA ViewerRests ==
    ASSUME TalkNext
    PROVE  \/ UNCHANGED viewerVars /\ (missed' = missed \/ \E a \in Authors : Aim(a))
           \/ ViewerReceives
           \/ \E r \in Rooms : SwitchRoom(r)
           \/ \E forget \in BOOLEAN : Reconnect(forget)
<1>1. ASSUME NEW a \in Authors, NEW r \in Rooms, Write(a, r) PROVE UNCHANGED <<viewerVars, missed>>
  BY <1>1 DEF Write
<1>2. ASSUME NEW a \in Authors, TakeOut(a) \/ PutBack(a) \/ Cast(a) PROVE UNCHANGED <<viewerVars, missed>>
  BY <1>2 DEF TakeOut, PutBack, Cast
<1>3. ASSUME NEW a \in Authors, Aim(a) PROVE UNCHANGED viewerVars
  BY <1>3 DEF Aim
<1>4. ASSUME NEW t \in Threads, ReadList(t) \/ ReadTargets(t) \/ Tell(t)
      PROVE  UNCHANGED <<viewerVars, missed>>
  BY <1>4 DEF ReadList, ReadTargets, Tell
<1>5. ASSUME NEW p \in People,
             \/ \E r \in Rooms : Connect(p, r)
             \/ \E goal \in Rooms \cup {Absent} : Leave(p, goal)
             \/ Enter(p)
      PROVE  UNCHANGED <<viewerVars, missed>>
  BY <1>5 DEF Connect, Leave, Enter
<1>6. ASSUME NEW p \in People, SendKey(p) PROVE UNCHANGED <<viewerVars, missed>>
  BY <1>6 DEF SendKey
<1>7. ASSUME TakeSeat \/ ReadJoined \/ SendJoined PROVE UNCHANGED <<viewerVars, missed>>
  BY <1>7 DEF TakeSeat, ReadJoined, SendJoined
<1> QED
  BY <1>1, <1>2, <1>3, <1>4, <1>5, <1>6, <1>7 DEF TalkNext

\* A packet at the end of the stream, if its thread has the viewer for a target.
LEMMA DeliverTyped ==
    ASSUME RoomTyped, NEW t, Deliver(t), thread[t].packet \in Packets
    PROVE  down' \in Seq(Packets)
BY AppendProperties DEF RoomTyped, Deliver

\* What a join has still to send stays of its kind when one of it is read or sent.
LEMMA JoiningStep ==
    ASSUME WritersTyped, RoomTyped, ReadJoined \/ SendJoined
    PROVE  JoiningOK' /\ down' \in Seq(Packets) /\ omitted' \subseteq omitted \cup stayed
<1>0. down \in Seq(Packets) /\ omitted \in SUBSET People /\ stayed \in SUBSET People
  BY DEF RoomTyped
<1>1. seat \in Rooms /\ seat' = seat /\ seat # Absent
  BY ReadCases, JoinCases, TalkAssumption DEF ReadJoined
<1>3. ASSUME NEW b \in (SUBSET People) \cup {Absent}, joining' = ToSend(b) PROVE JoiningOK'
  BY <1>1, <1>3 DEF JoiningOK, ToSend, OfJoin, Packet
<1>4. ASSUME NEW h \in Seq(Messages) \cup {Absent}, joining' = ToSendHistory(h) PROVE JoiningOK'
  BY <1>1, <1>4 DEF JoiningOK, ToSendHistory, OfJoin, Packet
<1>5. ASSUME NEW l \in RoomLists \cup {Absent}, joining' = ToSendList(l) PROVE JoiningOK'
  BY <1>1, <1>5 DEF JoiningOK, ToSendList, OfJoin, Packet
<1>6. ASSUME joining' = <<>> PROVE JoiningOK'
  BY <1>6 DEF JoiningOK
<1>7. CASE ReadJoined
  <2>1. InRoom(seat) \in SUBSET People
    BY InRoomType
  <2>2. Selected(Kept(seat)) \in Seq(Messages)
    BY <1>1, WithoutIs, SelectedElements
  <2>3. [users |-> InRoom(seat), moved |-> {}] \in RoomLists
    BY <2>1 DEF RoomLists
  <2>4. JoiningOK'
    <3>1. \/ joining' = ToSend(InRoom(seat))
          \/ joining' = ToSendHistory(Selected(Kept(seat)))
          \/ joining' = ToSendList(Absent)
          \/ joining' = ToSendList([users |-> InRoom(seat), moved |-> {}])
      BY <1>7, ReadCases
    <3> QED
      BY <2>1, <2>2, <2>3, <3>1, <1>3, <1>4, <1>5
  <2>5. down' = down /\ omitted' = omitted
    BY <1>7 DEF ReadJoined, placesVars, newsHistory
  <2> QED
    BY <1>0, <2>4, <2>5
<1>8. CASE SendJoined
  <2>1. JoiningOK'
    BY <1>8, JoinCases, <1>4, <1>5, <1>6
  <2>2. \A k \in Packets : Append(down, k) \in Seq(Packets)
    BY <1>0, AppendProperties
  <2>3. /\ \A b \in SUBSET People : OfJoin("joined", b) \in Packets
        /\ \A h \in Seq(Messages) : OfJoin("history", h) \in Packets
        /\ \A l \in RoomLists : OfJoin("room_snapshot", l) \in Packets
    BY <1>1, PacketMade DEF OfJoin
  <2>4. down' \in Seq(Packets)
    BY <1>8, JoinCases, <2>2, <2>3
  <2>5. omitted' \subseteq omitted \cup stayed
    <3>1. \A k : Omitted(k) \subseteq stayed
      BY DEF Omitted
    <3> QED
      BY <1>8, JoinCases, <3>1
  <2> QED
    BY <2>1, <2>4, <2>5
<1> QED
  BY <1>7, <1>8

\* No step leaves the types of the room and of the stream.
LEMMA RoomStep ==
    ASSUME TalkTypeOK, TalkNext
    PROVE  RoomTyped'
<1> USE TalkAssumption
<1>0. WritersTyped /\ RoomTyped /\ LogsTyped /\ Authors \subseteq Threads /\ People \subseteq Threads
  BY DEF TalkTypeOK, Threads
<1>h. /\ place \in [People -> Rooms \cup {Absent}] /\ run \in [People -> Nat]
      /\ seat \in Rooms \cup {Absent} /\ up \in Seq(Rooms) /\ down \in Seq(Packets)
      /\ moves \in 0 .. MaxMoves /\ stayed \in SUBSET People /\ omitted \in SUBSET People
      /\ JoiningOK
  BY <1>0 DEF RoomTyped
<1>j. ASSUME UNCHANGED <<seat, joining>> PROVE JoiningOK'
  BY <1>h, <1>j DEF JoiningOK, ToSend, ToSendHistory, ToSendList, OfJoin, Packet
<1>g. ASSUME UNCHANGED <<seat, joining, up, moves>>, down' \in Seq(Packets),
             place' \in [People -> Rooms \cup {Absent}], run' \in [People -> Nat],
             stayed' \subseteq stayed, omitted' \subseteq omitted \cup stayed
      PROVE  RoomTyped'
  BY <1>g, <1>h, <1>j DEF RoomTyped
<1>1. ASSUME NEW a \in Authors, NEW r \in Rooms, Write(a, r) PROVE RoomTyped'
  BY <1>1, <1>g, <1>h DEF Write, placesVars, placeVars, newsHistory
<1>2. ASSUME NEW a \in Authors, TakeOut(a) \/ PutBack(a) \/ Aim(a) PROVE RoomTyped'
  BY <1>2, <1>g, <1>h DEF TakeOut, PutBack, Aim, placesVars, placeVars, newsHistory
<1>3. ASSUME NEW a \in Authors, Cast(a) PROVE RoomTyped'
  <2>1. thread[a].packet \in Packets
    <3>1. /\ thread[a].room \in Rooms /\ thread[a].msg \in Messages
          /\ thread[a].packet = Packet("message", thread[a].room, thread[a].msg)
      BY <1>0, <1>3, CastGoes
    <3> QED
      BY <3>1, PacketMade
  <2>2. down' \in Seq(Packets)
    BY <1>0, <1>3, <2>1, DeliverTyped DEF Cast
  <2> QED
    BY <1>3, <1>g, <1>h, <2>2 DEF Cast, placesVars, placeVars, newsHistory
<1>4. ASSUME NEW t \in Threads, ReadList(t) \/ ReadTargets(t) PROVE RoomTyped'
  BY <1>4, <1>g, <1>h DEF ReadList, ReadTargets, placesVars, placeVars, newsHistory
<1>5. ASSUME NEW t \in Threads, Tell(t) PROVE RoomTyped'
  <2>1. down' \in Seq(Packets)
    BY <1>0, <1>5, TellGoes, DeliverTyped DEF Tell
  <2>2. omitted' \subseteq omitted \cup stayed
    BY <1>5 DEF Tell, Omitted
  <2> QED
    BY <1>5, <1>g, <1>h, <2>1, <2>2 DEF Tell, placeVars
<1>6. ASSUME NEW p \in People,
             \/ \E r \in Rooms : Connect(p, r)
             \/ \E goal \in Rooms \cup {Absent} : Leave(p, goal)
             \/ Enter(p)
      PROVE  RoomTyped'
  <2>1. /\ \E r \in Rooms \cup {Absent} : place' = [place EXCEPT ![p] = r]
        /\ run' \in [People -> Nat] /\ stayed' \subseteq stayed /\ omitted' = omitted
        /\ UNCHANGED <<seat, joining, up, down, moves>>
    BY <1>6, PeopleGo
  <2>2. place' \in [People -> Rooms \cup {Absent}]
    BY <1>h, <2>1
  <2> QED
    BY <1>g, <1>h, <2>1, <2>2
<1>7. ASSUME NEW p \in People, SendKey(p) PROVE RoomTyped'
  <2> DEFINE k == Packet("key", seat, KeyOf(p))
  <2>1. seat # Absent /\ place[p] = seat /\ down' = Append(down, k)
        /\ UNCHANGED <<place, run, seat, joining, up, moves, stayed, omitted>>
    BY <1>7 DEF SendKey, placesVars, placeVars, newsHistory
  <2>2. seat \in Rooms /\ KeyOf(p) \in PublicKeys
    BY <1>h, <2>1 DEF KeyOf, PublicKeys
  <2>3. k \in Packets
    BY <2>2, PacketMade
  <2> HIDE DEF k
  <2>4. down' \in Seq(Packets)
    BY <1>h, <2>1, <2>3, AppendProperties
  <2> QED
    BY <1>g, <1>h, <2>1, <2>4
<1>8. CASE TakeSeat
  <2> DEFINE r == Head(up)
  <2>1. /\ up # <<>> /\ seat' = r /\ stayed' = InRoom(r) /\ omitted' = {}
        /\ joining' = <<Packet("joined", r, Absent), Packet("history", r, Absent),
                        Packet("room_snapshot", r, Absent)>>
        /\ up' = Tail(up) /\ UNCHANGED <<place, run, down, moves>>
    BY <1>8 DEF TakeSeat, placeVars
  <2>2. r \in Rooms /\ up' \in Seq(Rooms)
    BY <1>h, <2>1, HeadTailProperties
  <2>3. InRoom(r) \in SUBSET People
    BY InRoomType
  <2> HIDE DEF r
  <2>4. JoiningOK'
    BY <2>1, <2>2 DEF JoiningOK, ToSend, OfJoin
  <2> QED
    BY <1>h, <2>1, <2>2, <2>3, <2>4 DEF RoomTyped
<1>9. CASE ReadJoined \/ SendJoined
  <2>1. UNCHANGED <<place, run, up, moves, stayed, seat>>
    BY <1>9 DEF SendJoined, ReadJoined, placesVars, placeVars, newsHistory
  <2>2. JoiningOK' /\ down' \in Seq(Packets) /\ omitted' \subseteq omitted \cup stayed
    BY <1>0, <1>9, JoiningStep
  <2> QED
    BY <1>h, <2>1, <2>2 DEF RoomTyped
<1>10. CASE ViewerReceives
  <2>1. down # <<>> /\ down' = Tail(down)
        /\ UNCHANGED <<place, run, seat, joining, up, moves, stayed, omitted>>
    BY <1>10 DEF ViewerReceives, placesVars, placeVars, newsHistory
  <2>2. down' \in Seq(Packets)
    BY <1>h, <2>1, HeadTailProperties
  <2> QED
    BY <1>g, <1>h, <2>1, <2>2
<1>11. ASSUME NEW r \in Rooms, SwitchRoom(r) PROVE RoomTyped'
  <2>1. moves < MaxMoves /\ moves' = moves + 1 /\ up' = Append(up, r)
        /\ UNCHANGED <<place, run, seat, joining, down, stayed, omitted>>
    BY <1>11 DEF SwitchRoom, placesVars, placeVars, newsHistory
  <2>2. up' \in Seq(Rooms)
    BY <1>h, <2>1, AppendProperties
  <2>3. moves' \in 0 .. MaxMoves
    BY <1>h, <2>1
  <2> QED
    BY <1>h, <1>j, <2>1, <2>2, <2>3 DEF RoomTyped
<1>12. ASSUME NEW forget \in BOOLEAN, Reconnect(forget) PROVE RoomTyped'
  <2>1. moves < MaxMoves /\ moves' = moves + 1 /\ up' = <<current_room>>
        /\ seat' = Absent /\ joining' = <<>> /\ stayed' = {} /\ omitted' = {} /\ down' = <<>>
        /\ UNCHANGED <<place, run>>
    BY <1>12 DEF Reconnect, placeVars
  <2>2. current_room \in Rooms
    BY <1>0 DEF LogsTyped
  <2>3. up' \in Seq(Rooms) /\ down' \in Seq(Packets)
    BY <2>1, <2>2, EmptySeq
  <2>4. moves' \in 0 .. MaxMoves
    BY <1>h, <2>1
  <2>5. JoiningOK'
    BY <2>1 DEF JoiningOK
  <2> QED
    BY <1>h, <2>1, <2>3, <2>4, <2>5 DEF RoomTyped
<1> QED
  BY <1>1, <1>2, <1>3, <1>4, <1>5, <1>6, <1>7, <1>8, <1>9, <1>10, <1>11, <1>12 DEF TalkNext

\* What the viewer gets, case by case.
LEMMA ReceiveCases ==
    ASSUME RoomTyped, ViewerReceives
    PROVE  \E p \in Packets :
             /\ down # <<>> /\ p = Head(down) /\ down' = Tail(down)
             /\ \/ p.type = "joined" /\ p.body \in SUBSET People /\ OnJoined(p)
                \/ p.type = "history" /\ p.body \in Seq(Messages) /\ OnHistory(p)
                \/ p.type = "message" /\ p.body \in Messages /\ OnMessage(p)
                \/ /\ p.type = "room_snapshot" /\ p.body.users \in SUBSET People
                   /\ p.body.moved \in SUBSET People /\ OnSnapshot(p)
                \/ p.type = "key" /\ p.body \in PublicKeys /\ OnKey(p)
<1> DEFINE p == Head(down)
<1>1. down # <<>> /\ down' = Tail(down)
      /\ \/ p.type = "joined" /\ OnJoined(p)
         \/ p.type = "history" /\ OnHistory(p)
         \/ p.type = "message" /\ OnMessage(p)
         \/ p.type = "room_snapshot" /\ OnSnapshot(p)
         \/ p.type = "key" /\ OnKey(p)
  BY DEF ViewerReceives
<1>2. p \in Packets
  BY <1>1, HeadTailProperties DEF RoomTyped
<1> HIDE DEF p
<1>3. /\ p.type = "joined" => p.body \in SUBSET People
      /\ p.type = "history" => p.body \in Seq(Messages)
      /\ p.type = "message" => p.body \in Messages
      /\ p.type = "room_snapshot" => p.body.users \in SUBSET People /\ p.body.moved \in SUBSET People
      /\ p.type = "key" => p.body \in PublicKeys
  BY <1>2, PacketIs DEF RoomLists
<1> QED
  BY <1>1, <1>2, <1>3 DEF p

\* Whatever list is announced, the page's sets are of people.
LEMMA AnnounceTyped ==
    ASSUME NewsTyped, NEW users \in SUBSET People, NEW moved \in SUBSET People,
           NEW verified \in SUBSET People, Announce(users, moved, verified)
    PROVE  /\ known_users' \in (SUBSET People) \cup {Absent} /\ initial_users' \in SUBSET People
           /\ moved_away' \in SUBSET People
           /\ lines' \in SUBSET (People \X {"returned", "joined", "moved", "left"})
<1> DEFINE visible == Verified(users, verified)
           new == Arrived(visible, initial_users)
           gone == known_users \ users
<1>1. visible \in SUBSET People /\ new \in SUBSET People
  BY DEF Verified, Arrived
<1>2. CASE known_users = Absent
  BY <1>1, <1>2 DEF Announce, NewsTyped
<1>3. CASE known_users # Absent
  <2>1. known_users \in SUBSET People
    BY <1>3 DEF NewsTyped
  <2>2. gone \in SUBSET People
    BY <2>1
  <2>3. /\ lines' = {Came(u) : u \in new} \cup {Went(u, moved) : u \in gone}
        /\ known_users' = (known_users \cap users) \cup visible
        /\ initial_users' = initial_users \ gone
        /\ moved_away' = ((moved_away \ new) \ gone) \cup (gone \cap moved)
    BY <1>3 DEF Announce
  <2> HIDE DEF visible, new, gone
  <2>4. \A u \in People : Came(u) \in People \X {"returned", "joined", "moved", "left"}
                          /\ Went(u, moved) \in People \X {"returned", "joined", "moved", "left"}
    BY DEF Came, Went
  <2>5. lines' \in SUBSET (People \X {"returned", "joined", "moved", "left"})
    BY <1>1, <2>2, <2>3, <2>4
  <2>6. initial_users \in SUBSET People /\ moved_away \in SUBSET People
    BY DEF NewsTyped
  <2>7. known_users' \in SUBSET People /\ initial_users' \in SUBSET People /\ moved_away' \in SUBSET People
    BY <1>1, <2>1, <2>2, <2>3, <2>6
  <2> QED
    BY <2>5, <2>7
<1> QED
  BY <1>2, <1>3

\* Those verified are people.
LEMMA VerifiedUsersType ==
    ASSUME NEW keys \in SUBSET PublicKeys, NEW named \in SUBSET PublicKeys
    PROVE  VerifiedUsers(keys, named) \in SUBSET People
BY DEF VerifiedUsers, PublicKeys

\* No step leaves the types of the keys,
LEMMA KeyStep ==
    ASSUME TalkTypeOK, TalkNext
    PROVE  keyed' \in SUBSET PublicKeys /\ peer_users' \in SUBSET PublicKeys
<1>0. keyed \in SUBSET PublicKeys /\ peer_users \in SUBSET PublicKeys /\ RoomTyped
  BY DEF TalkTypeOK, LogsTyped
<1>1. CASE UNCHANGED keyVars
  BY <1>0, <1>1 DEF keyVars
<1>2. CASE ViewerReceives
  <2>1. PICK p \in Packets :
          \/ p.type = "joined" /\ p.body \in SUBSET People /\ OnJoined(p)
          \/ p.type = "history" /\ p.body \in Seq(Messages) /\ OnHistory(p)
          \/ p.type = "message" /\ p.body \in Messages /\ OnMessage(p)
          \/ /\ p.type = "room_snapshot" /\ p.body.users \in SUBSET People
             /\ p.body.moved \in SUBSET People /\ OnSnapshot(p)
          \/ p.type = "key" /\ p.body \in PublicKeys /\ OnKey(p)
    BY <1>0, <1>2, ReceiveCases
  <2>2. ASSUME NEW these \in SUBSET PublicKeys, DropPeers(these)
        PROVE  keyed' \in SUBSET PublicKeys /\ peer_users' \in SUBSET PublicKeys
    BY <1>0, <2>2 DEF DropPeers
  <2>3. CASE OnJoined(p)
    <3>1. UNCHANGED keyVars \/ DropPeers(peer_users)
      BY <2>3 DEF OnJoined
    <3> QED
      BY <1>0, <1>1, <2>2, <3>1
  <2>4. CASE OnHistory(p) \/ OnMessage(p)
    BY <1>1, <2>4 DEF OnHistory, OnMessage
  <2>5. CASE OnSnapshot(p)
    <3> DEFINE absent == {k \in peer_users : k.who \notin p.body.users}
    <3>1. DropPeers(absent) /\ absent \in SUBSET PublicKeys
      BY <1>0, <2>5 DEF OnSnapshot
    <3> HIDE DEF absent
    <3> QED
      BY <2>2, <3>1
  <2>6. CASE p.body \in PublicKeys /\ OnKey(p)
    BY <1>0, <2>6 DEF OnKey, keyVars
  <2> QED
    BY <2>1, <2>3, <2>4, <2>5, <2>6
<1>3. ASSUME NEW forget \in BOOLEAN, Reconnect(forget)
      PROVE  keyed' \in SUBSET PublicKeys /\ peer_users' \in SUBSET PublicKeys
  BY <1>3 DEF Reconnect
<1>4. ASSUME NEW r \in Rooms, SwitchRoom(r) PROVE UNCHANGED keyVars
  BY <1>4 DEF SwitchRoom
<1>5. UNCHANGED viewerVars => UNCHANGED keyVars
  BY DEF viewerVars
<1> QED
  BY <1>1, <1>2, <1>3, <1>4, <1>5, ViewerRests

\* those of what the page knows about people,
LEMMA NewsStep ==
    ASSUME TalkTypeOK, TalkNext
    PROVE  NewsTyped'
<1>0. NewsTyped /\ RoomTyped
  BY DEF TalkTypeOK
<1>k. keyed' \in SUBSET PublicKeys /\ peer_users' \in SUBSET PublicKeys
  BY KeyStep
<1>1. CASE UNCHANGED newsVars
  BY <1>0, <1>1 DEF newsVars, NewsTyped
<1>2. CASE ViewerReceives
  <2>1. PICK p \in Packets :
          \/ p.type = "joined" /\ p.body \in SUBSET People /\ OnJoined(p)
          \/ p.type = "history" /\ p.body \in Seq(Messages) /\ OnHistory(p)
          \/ p.type = "message" /\ p.body \in Messages /\ OnMessage(p)
          \/ /\ p.type = "room_snapshot" /\ p.body.users \in SUBSET People
             /\ p.body.moved \in SUBSET People /\ OnSnapshot(p)
          \/ p.type = "key" /\ p.body \in PublicKeys /\ OnKey(p)
    BY <1>0, <1>2, ReceiveCases
  <2>2. CASE p.body \in SUBSET People /\ OnJoined(p)
    BY <2>2 DEF OnJoined, NewsTyped
  <2>3. CASE OnHistory(p) \/ OnMessage(p)
    BY <1>0, <2>3 DEF OnHistory, OnMessage, NewsTyped
  <2>4. CASE p.body.users \in SUBSET People /\ p.body.moved \in SUBSET People /\ OnSnapshot(p)
    <3> DEFINE users == p.body.users
               absent == {k \in peer_users : k.who \notin users}
               verified == IF absent = {} THEN verified_users ELSE VerifiedUsers(keyed', peer_users')
    <3>1. /\ verified_users' = verified
          /\ IF p.room = current_room
             THEN snapshot_users' = users /\ Announce(users, p.body.moved, verified)
             ELSE /\ lines' = {}
                  /\ UNCHANGED <<snapshot_users, known_users, initial_users, moved_away>>
      BY <2>4 DEF OnSnapshot
    <3>2. verified \in SUBSET People /\ users \in SUBSET People
      BY <1>0, <1>k, <2>4, VerifiedUsersType DEF NewsTyped
    <3> HIDE DEF verified, users
    <3>3. CASE p.room = current_room
      <4>1. snapshot_users' = users /\ Announce(users, p.body.moved, verified)
        BY <3>1, <3>3
      <4>2. /\ known_users' \in (SUBSET People) \cup {Absent} /\ initial_users' \in SUBSET People
            /\ moved_away' \in SUBSET People
            /\ lines' \in SUBSET (People \X {"returned", "joined", "moved", "left"})
        BY <1>0, <2>4, <3>2, <4>1, AnnounceTyped
      <4> QED
        BY <3>1, <3>2, <4>1, <4>2 DEF NewsTyped
    <3>4. CASE p.room # current_room
      BY <1>0, <3>1, <3>2, <3>4 DEF NewsTyped
    <3> QED
      BY <3>3, <3>4
  <2>5. CASE p.body \in PublicKeys /\ OnKey(p)
    <3>1. snapshot_users' = snapshot_users
      BY <2>5 DEF OnKey
    <3>2. CASE p.room = current_room
      <4>1. verified_users' = VerifiedUsers(keyed', peer_users')
            /\ Announce(snapshot_users, {}, verified_users')
        BY <2>5, <3>2 DEF OnKey
      <4>2. verified_users' \in SUBSET People /\ snapshot_users \in SUBSET People
        BY <1>0, <1>k, <4>1, VerifiedUsersType DEF NewsTyped
      <4>3. /\ known_users' \in (SUBSET People) \cup {Absent} /\ initial_users' \in SUBSET People
            /\ moved_away' \in SUBSET People
            /\ lines' \in SUBSET (People \X {"returned", "joined", "moved", "left"})
        BY <1>0, <4>1, <4>2, AnnounceTyped
      <4> QED
        BY <3>1, <4>2, <4>3 DEF NewsTyped
    <3>3. CASE p.room # current_room
      BY <1>0, <2>5, <3>1, <3>3 DEF OnKey, NewsTyped
    <3> QED
      BY <3>2, <3>3
  <2> QED
    BY <2>1, <2>2, <2>3, <2>4, <2>5
<1>3. ASSUME NEW r \in Rooms, SwitchRoom(r) PROVE NewsTyped'
  BY <1>0, <1>3 DEF SwitchRoom, NewsTyped
<1>4. ASSUME NEW forget \in BOOLEAN, Reconnect(forget) PROVE UNCHANGED newsVars
  BY <1>4 DEF Reconnect
<1>5. UNCHANGED viewerVars => UNCHANGED newsVars
  BY DEF viewerVars
<1> QED
  BY <1>1, <1>2, <1>3, <1>4, <1>5, ViewerRests

\* nor those of its logs.
LEMMA LogsStep ==
    ASSUME TalkTypeOK, TalkNext
    PROVE  LogsTyped'
<1>0. LogsTyped /\ RoomTyped /\ WritersTyped /\ LogLimit \in Nat
  BY TalkAssumption DEF TalkTypeOK
<1>k. keyed' \in SUBSET PublicKeys /\ peer_users' \in SUBSET PublicKeys
  BY KeyStep
<1>1. CASE UNCHANGED <<current_room, room_logs, away_gap, missed>>
  BY <1>0, <1>k, <1>1 DEF LogsTyped
<1>2. CASE ViewerReceives
  <2>1. PICK p \in Packets :
          \/ p.type = "joined" /\ p.body \in SUBSET People /\ OnJoined(p)
          \/ p.type = "history" /\ p.body \in Seq(Messages) /\ OnHistory(p)
          \/ p.type = "message" /\ p.body \in Messages /\ OnMessage(p)
          \/ /\ p.type = "room_snapshot" /\ p.body.users \in SUBSET People
             /\ p.body.moved \in SUBSET People /\ OnSnapshot(p)
          \/ p.type = "key" /\ p.body \in PublicKeys /\ OnKey(p)
    BY <1>0, <1>2, ReceiveCases
  <2>2. p.room \in Rooms /\ room_logs[p.room] \in Seq(Messages)
    BY <1>0, PacketIs DEF LogsTyped
  <2>3. CASE OnJoined(p)
    BY <1>0, <1>k, <2>2, <2>3 DEF OnJoined, LogsTyped, Gap
  <2>4. CASE p.body \in Seq(Messages) /\ OnHistory(p)
    <3> DEFINE new == Newest(Merged(room_logs[p.room], p.body), LogLimit)
    <3>1. new \in Seq(Messages)
      BY <1>0, <2>2, <2>4, MergedIs, NewestIs
    <3>2. CASE p.room = current_room
      <4>1. /\ room_logs' = [room_logs EXCEPT ![p.room] = new]
            /\ missed' = [missed EXCEPT ![p.room] = @ \ ToSet(p.body)]
            /\ away_gap' = FALSE /\ current_room' = current_room
        BY <2>4, <3>2 DEF OnHistory
      <4> HIDE DEF new
      <4> QED
        BY <1>0, <1>k, <3>1, <4>1 DEF LogsTyped
    <3>3. CASE p.room # current_room
      BY <1>1, <2>4, <3>3 DEF OnHistory
    <3> QED
      BY <3>2, <3>3
  <2>5. CASE p.body \in Messages /\ OnMessage(p)
    <3> DEFINE new == Newest(Append(room_logs[p.room], p.body), LogLimit)
    <3>1. new \in Seq(Messages)
      <4>1. Append(room_logs[p.room], p.body) \in Seq(Messages)
        BY <2>2, <2>5, AppendProperties
      <4> QED
        BY <1>0, <4>1, NewestIs
    <3>2. CASE p.room = current_room
      <4>1. /\ room_logs' = [room_logs EXCEPT ![p.room] = new]
            /\ missed' = [missed EXCEPT ![p.room] = @ \ {p.body}]
            /\ UNCHANGED <<current_room, away_gap>>
        BY <2>5, <3>2 DEF OnMessage
      <4> HIDE DEF new
      <4> QED
        BY <1>0, <1>k, <3>1, <4>1 DEF LogsTyped
    <3>3. CASE p.room # current_room
      BY <1>1, <2>5, <3>3 DEF OnMessage
    <3> QED
      BY <3>2, <3>3
  <2>6. CASE OnSnapshot(p) \/ OnKey(p)
    BY <1>1, <2>6 DEF OnSnapshot, OnKey, logVars
  <2> QED
    BY <2>1, <2>3, <2>4, <2>5, <2>6
<1>3. ASSUME NEW r \in Rooms, SwitchRoom(r) PROVE LogsTyped'
  BY <1>0, <1>k, <1>3 DEF SwitchRoom, LogsTyped
<1>4. ASSUME NEW forget \in BOOLEAN, Reconnect(forget) PROVE LogsTyped'
  <2>1. /\ room_logs' = IF forget THEN [r \in Rooms |-> <<>>] ELSE room_logs
        /\ away_gap' = (away_gap /\ ~forget)
        /\ missed' = [r \in Rooms |-> IF forget THEN {} ELSE missed[r]]
        /\ current_room' = current_room
    BY <1>4 DEF Reconnect
  <2>2. room_logs' \in [Rooms -> Seq(Messages)]
    BY <1>0, <2>1, EmptySeq DEF LogsTyped
  <2>3. away_gap' \in BOOLEAN
    BY <2>1
  <2>4. missed' \in [Rooms -> SUBSET Messages]
    BY <1>0, <2>1 DEF LogsTyped
  <2> QED
    BY <1>0, <1>k, <2>1, <2>2, <2>3, <2>4 DEF LogsTyped
<1>5. ASSUME NEW a \in Authors, Aim(a) PROVE LogsTyped'
  <2> DEFINE r == thread[a].room
             m == thread[a].msg
  <2>1. UNCHANGED <<current_room, room_logs, away_gap>>
        /\ missed' = IF room_logs[r] = <<>> THEN missed ELSE [missed EXCEPT ![r] = @ \cup {m}]
    BY <1>5 DEF Aim, viewerVars, logVars
  <2>2. m \in Messages
    BY <1>5, AimGoes DEF Threads
  <2> HIDE DEF r, m
  <2> QED
    BY <1>0, <1>k, <2>1, <2>2 DEF LogsTyped
<1>6. UNCHANGED viewerVars => UNCHANGED <<current_room, room_logs, away_gap>>
  BY DEF viewerVars, logVars
<1> QED
  BY <1>1, <1>2, <1>3, <1>4, <1>5, <1>6, ViewerRests

\* Every step keeps the types.
LEMMA TalkTypeStep ==
    ASSUME TalkTypeOK, [TalkNext]_talkVars
    PROVE  TalkTypeOK'
<1>1. CASE TalkNext
  BY <1>1, WritersStep, RoomStep, LogsStep, NewsStep DEF TalkTypeOK
<1>2. CASE UNCHANGED talkVars
  <2>1. WritersTyped'
    BY <1>2 DEF talkVars, TalkTypeOK, WritersTyped, ThreadTyped
  <2>3. JoiningOK'
    BY <1>2 DEF talkVars, TalkTypeOK, RoomTyped, JoiningOK, ToSend, ToSendHistory, ToSendList,
                OfJoin, Packet
  <2>4. RoomTyped'
    BY <1>2, <2>3 DEF talkVars, TalkTypeOK, RoomTyped
  <2>5. LogsTyped' /\ NewsTyped'
    BY <1>2 DEF talkVars, TalkTypeOK, LogsTyped, NewsTyped
  <2> QED
    BY <2>1, <2>4, <2>5 DEF TalkTypeOK
<1> QED
  BY <1>1, <1>2

\* And at the start they hold.
LEMMA TalkTypeInit ==
    ASSUME TalkInit
    PROVE  TalkTypeOK
<1> USE TalkAssumption
<1>1. ASSUME NEW t PROVE ThreadTyped(t, Idle)
  BY EmptySeq DEF ThreadTyped, Idle, Thread, Steps
<1>2. WritersTyped
  <2>1. thread = [t \in Threads |-> Idle] /\ history = <<>> /\ events = 0 /\ torn = FALSE
        /\ keep_history \in BOOLEAN /\ encrypted \in BOOLEAN
    BY DEF TalkInit
  <2>2. DOMAIN thread = Threads /\ thread = [t \in Threads |-> thread[t]]
    BY <2>1
  <2>3. \A t \in Threads : ThreadTyped(t, thread[t])
    BY <1>1, <2>1
  <2>4. history \in Seq([room : Rooms, list : Seq(Messages)]) /\ events \in 0 .. MaxEvents
    BY <2>1, EmptySeq
  <2>5. torn \in BOOLEAN
    BY <2>1
  <2> QED
    BY <2>1, <2>2, <2>3, <2>4, <2>5 DEF WritersTyped
<1>3. RoomTyped
  <2>1. <<FirstRoom>> \in Seq(Rooms)
    OBVIOUS
  <2> QED
    BY <2>1, EmptySeq DEF TalkInit, RoomTyped, JoiningOK
<1>4. LogsTyped
  BY EmptySeq DEF TalkInit, LogsTyped
<1>5. NewsTyped
  BY DEF TalkInit, NewsTyped
<1> QED
  BY <1>2, <1>3, <1>4, <1>5 DEF TalkTypeOK

\* Every variable of the server, the stream and the viewer keeps its type, and
\* the viewer's thread never has anything to send but the rest of one join.
THEOREM TalkTypes == TalkSpec => []TalkTypeOK
BY TalkTypeInit, TalkTypeStep, PTL DEF TalkSpec
----------------------------------------------------------------------------
(* The stream of packets.  Whether what is on its way agrees with the server
   matters only from the last "joined" packet on. *)

\* Is a "joined" packet still to be sent?
Pending == joining # <<>> /\ Head(joining).type = "joined"

\* Is a packet sent after the last of them, and none to come: about the
\* connection and the join of now?
Fresh(i) ==
    ~Pending /\ \A j \in 1 .. Len(down) : j > i => down[j].type # "joined"

\* Is none to come, neither on its way nor to be sent?
NoJoined == ~Pending /\ \A j \in 1 .. Len(down) : down[j].type # "joined"

\* Who stayed and was left out by no list since.
Steady == stayed \ omitted

\* A viewer without a seat has asked for one; who stayed is in the room, and in
\* the list that comes with the "joined" packet; a history is read only where one
\* is kept.
SeatInv ==
    /\ seat = Absent => up # <<>> /\ joining = <<>> /\ stayed = {}
    /\ seat # Absent => stayed \subseteq InRoom(seat)
    /\ Pending /\ Head(joining).body # Absent => stayed \subseteq Head(joining).body
    /\ joining # <<>> /\ Head(joining).type = "history" /\ Head(joining).body # Absent => keep_history

\* Whoever has left one room for another is in none.
LeavingInv == \A p \in People : thread[p].goal # Absent => place[p] = Absent

\* A fresh "joined" packet is about the viewer's room and has all the steady
\* ones, and so has a fresh list of that room.  (A list of another room, whose
\* thread had the viewer for a target before, may come late; the page ignores it.)
FreshInv ==
    \A i \in 1 .. Len(down) : Fresh(i) =>
         /\ down[i].type = "joined" => down[i].room = seat /\ Steady \subseteq down[i].body
         /\ down[i].type = "room_snapshot" /\ down[i].room = seat =>
              Steady \subseteq down[i].body.users

\* With no "joined" to come and no room asked for, the page shows the room the
\* viewer is seated in, and the steady ones are in what it was told.
ViewInv ==
    NoJoined /\ up = <<>> =>
         /\ Steady \subseteq snapshot_users
         /\ known_users # Absent => Steady \subseteq initial_users
         /\ current_room = seat

\* The inductive invariant of the stream.
StreamInv == TalkTypeOK /\ SeatInv /\ LeavingInv /\ FreshInv /\ ViewInv

\* Packets put at the end, none of them "joined": those before stay as fresh as
\* they were, and the new ones are fresh unless a "joined" is to be sent.
LEMMA StreamGrows ==
    ASSUME down \in Seq(Packets), NEW s \in Seq(Packets), down' = down \o s, Pending' = Pending,
           \A j \in 1 .. Len(s) : s[j].type # "joined"
    PROVE  /\ NoJoined' <=> NoJoined
           /\ \A i \in 1 .. Len(down) : i \in 1 .. Len(down') /\ down'[i] = down[i] /\ (Fresh(i)' <=> Fresh(i))
           /\ \A i \in 1 .. Len(down') :
                \/ i \in 1 .. Len(down)
                \/ \E j \in 1 .. Len(s) : i = Len(down) + j /\ down'[i] = s[j]
           /\ \A j \in 1 .. Len(s) : \E i \in 1 .. Len(down') :
                i = Len(down) + j /\ down'[i] = s[j] /\ (Fresh(i)' <=> ~Pending)
<1> DEFINE n == Len(down)
           k == Len(s)
<1>1. n \in Nat /\ k \in Nat
  BY LenProperties
<1>2. /\ Len(down') = n + k
      /\ \A i \in 1 .. n + k : down'[i] = IF i <= n THEN down[i] ELSE s[i - n]
  BY ConcatProperties
<1> HIDE DEF n, k
<1>3. \A i \in 1 .. n : i \in 1 .. n + k /\ down'[i] = down[i]
  BY <1>1, <1>2
<1>4. \A j \in 1 .. k : n + j \in 1 .. n + k /\ down'[n + j] = s[j]
  <2> TAKE j \in 1 .. k
  <2>1. n + j \in 1 .. n + k /\ ~ (n + j <= n) /\ (n + j) - n = j
    BY <1>1
  <2> QED
    BY <1>2, <2>1
<1>5. ASSUME NEW i \in 1 .. n + k
      PROVE  i \in 1 .. n \/ \E j \in 1 .. k : i = n + j /\ down'[i] = s[j]
  <2>1. CASE i <= n
    BY <1>1, <2>1
  <2>2. CASE ~ i <= n
    <3>1. i - n \in 1 .. k /\ i = n + (i - n)
      BY <1>1, <2>2
    <3> QED
      BY <1>2, <2>2, <3>1
  <2> QED
    BY <2>1, <2>2
<1>6. \A j \in 1 .. k : s[j].type # "joined"
  BY DEF k
<1>7. \A j \in 1 .. n + k : down'[j].type # "joined" \/ (j \in 1 .. n /\ down'[j] = down[j])
  BY <1>3, <1>5, <1>6
<1>8. NoJoined' <=> NoJoined
  BY <1>2, <1>3, <1>7 DEF NoJoined, n
<1>9. ASSUME NEW i \in 1 .. n PROVE Fresh(i)' <=> Fresh(i)
  BY <1>2, <1>3, <1>7 DEF Fresh, n
<1>10. ASSUME NEW j \in 1 .. k, NEW i \in 1 .. n + k, i = n + j
       PROVE  Fresh(i)' <=> ~Pending
  <2>1. \A x \in 1 .. n + k : x > i => down'[x].type # "joined"
    <3> TAKE x \in 1 .. n + k
    <3> HAVE x > i
    <3>1. x \notin 1 .. n
      BY <1>1, <1>10
    <3> QED
      BY <1>7, <3>1
  <2> QED
    BY <1>2, <2>1 DEF Fresh
<1>11. ASSUME NEW j \in 1 .. k
       PROVE  \E i \in 1 .. n + k : i = n + j /\ down'[i] = s[j] /\ (Fresh(i)' <=> ~Pending)
  BY <1>4, <1>10
<1> QED
  BY <1>2, <1>3, <1>5, <1>8, <1>9, <1>11 DEF n, k

\* The first packet taken off: all others move up and stay as fresh.
LEMMA StreamShrinks ==
    ASSUME down \in Seq(Packets), down # <<>>, down' = Tail(down), joining' = joining
    PROVE  /\ \A i \in 1 .. Len(down') : /\ i + 1 \in 1 .. Len(down) /\ down'[i] = down[i + 1]
                                         /\ Fresh(i)' <=> Fresh(i + 1)
           /\ \A i \in 1 .. Len(down) : i = 1 \/ (i - 1 \in 1 .. Len(down') /\ (i - 1) + 1 = i)
           /\ 1 \in 1 .. Len(down) /\ down[1] = Head(down)
           /\ NoJoined' <=> Fresh(1)
           /\ NoJoined <=> Fresh(1) /\ Head(down).type # "joined"
<1> DEFINE n == Len(down)
<1>1. n \in Nat /\ n >= 1 /\ Len(down') = n - 1
      /\ \A i \in 1 .. n - 1 : down'[i] = down[i + 1]
  <2>1. Len(down) \in Nat \ {0}
    BY EmptySeq
  <2> QED
    BY <2>1, HeadTailProperties
<1>2. down[1] = Head(down)
  BY <1>1
<1>3. Pending' = Pending
  BY DEF Pending
<1> HIDE DEF n
<1>4. \A i \in 1 .. n : i = 1 \/ (i - 1 \in 1 .. n - 1 /\ (i - 1) + 1 = i)
  BY <1>1
<1>5. \A i \in 1 .. n - 1 : i + 1 \in 1 .. n
  BY <1>1
<1>6. ASSUME NEW i \in 1 .. n - 1 PROVE Fresh(i)' <=> Fresh(i + 1)
  <2>1. ASSUME Fresh(i)' PROVE Fresh(i + 1)
    <3>1. ~Pending /\ \A j \in 1 .. n - 1 : j > i => down'[j].type # "joined"
      BY <1>1, <1>3, <2>1 DEF Fresh
    <3>2. ASSUME NEW j \in 1 .. n, j > i + 1 PROVE down[j].type # "joined"
      <4>1. j - 1 \in 1 .. n - 1 /\ j - 1 > i /\ (j - 1) + 1 = j
        BY <1>1, <3>2
      <4> QED
        BY <1>1, <3>1, <4>1
    <3> QED
      BY <3>1, <3>2 DEF Fresh, n
  <2>2. ASSUME Fresh(i + 1) PROVE Fresh(i)'
    <3>1. ~Pending /\ \A j \in 1 .. n : j > i + 1 => down[j].type # "joined"
      BY <2>2 DEF Fresh, n
    <3>2. ASSUME NEW j \in 1 .. n - 1, j > i PROVE down'[j].type # "joined"
      <4>1. j + 1 \in 1 .. n /\ j + 1 > i + 1
        BY <1>1, <3>2
      <4> QED
        BY <1>1, <3>1, <4>1
    <3> QED
      BY <1>1, <1>3, <3>1, <3>2 DEF Fresh
  <2> QED
    BY <2>1, <2>2
<1>7. NoJoined' <=> Fresh(1)
  <2>1. ASSUME NoJoined' PROVE Fresh(1)
    <3>1. ~Pending /\ \A j \in 1 .. n - 1 : down'[j].type # "joined"
      BY <1>1, <1>3, <2>1 DEF NoJoined
    <3>2. ASSUME NEW j \in 1 .. n, j > 1 PROVE down[j].type # "joined"
      <4>1. j - 1 \in 1 .. n - 1 /\ (j - 1) + 1 = j
        BY <1>1, <3>2
      <4> QED
        BY <1>1, <3>1, <4>1
    <3> QED
      BY <3>1, <3>2 DEF Fresh, n
  <2>2. ASSUME Fresh(1) PROVE NoJoined'
    <3>1. ~Pending /\ \A j \in 1 .. n : j > 1 => down[j].type # "joined"
      BY <2>2 DEF Fresh, n
    <3>2. ASSUME NEW j \in 1 .. n - 1 PROVE down'[j].type # "joined"
      <4>1. j + 1 \in 1 .. n /\ j + 1 > 1
        BY <1>1
      <4> QED
        BY <1>1, <3>1, <4>1
    <3> QED
      BY <1>1, <1>3, <3>1, <3>2 DEF NoJoined
  <2> QED
    BY <2>1, <2>2
<1>8. NoJoined <=> Fresh(1) /\ Head(down).type # "joined"
  <2>1. \A j \in 1 .. n : j > 1 \/ j = 1
    BY <1>1
  <2>2. 1 \in 1 .. n
    BY <1>1
  <2> QED
    BY <1>2, <2>1, <2>2 DEF NoJoined, Fresh, n
<1> QED
  BY <1>1, <1>2, <1>4, <1>5, <1>6, <1>7, <1>8 DEF n

\* A "joined" put at the end leaves nothing fresh but itself.
LEMMA JoinedSent ==
    ASSUME down \in Seq(Packets), NEW k \in Packets, k.type = "joined",
           joining' # <<>>, Head(joining').type = "history", down' = Append(down, k)
    PROVE  /\ ~NoJoined' /\ ~Pending'
           /\ \A i \in 1 .. Len(down') : Fresh(i)' => down'[i] = k
           /\ \A i \in 1 .. Len(down') : \/ i \in 1 .. Len(down) /\ down'[i] = down[i]
                                         \/ down'[i] = k
<1> DEFINE n == Len(down)
<1>1. n \in Nat
  BY LenProperties
<1>4. Len(down') = n + 1 /\ down'[n + 1] = k /\ \A i \in 1 .. n : down'[i] = down[i]
  BY AppendProperties
<1> HIDE DEF n
<1>5. n + 1 \in 1 .. n + 1 /\ \A i \in 1 .. n + 1 : i = n + 1 \/ (n + 1 > i /\ i \in 1 .. n)
  BY <1>1
<1>6. ~NoJoined'
  BY <1>4, <1>5 DEF NoJoined
<1>7. ASSUME NEW i \in 1 .. n + 1, Fresh(i)' PROVE i = n + 1
  BY <1>4, <1>5, <1>7 DEF Fresh
<1>8. ~Pending'
  BY DEF Pending
<1> QED
  BY <1>4, <1>5, <1>6, <1>7, <1>8 DEF n

\* Does a packet say the message in the viewer's room?
Says(p, m) == p.type = "message" /\ p.room = seat /\ p.body = m

\* Does it bring it, by itself or in the history?
Brings(p, m) == Says(p, m) \/ (p.type = "history" /\ p.room = seat /\ m \in ToSet(p.body))

\* Is a thread about to broadcast it, with the viewer for a target or before the
\* targets are read?
AtCast(t, m) ==
    /\ thread[t].room = seat /\ thread[t].msg = m
    /\ thread[t].pc = "aim" \/ (thread[t].pc = "cast" /\ thread[t].to)

\* Has the viewer's thread read it with the history, to be sent next?
InHand(m) ==
    /\ joining # <<>> /\ Head(joining).type = "history" /\ Head(joining).body # Absent
    /\ m \in ToSet(Head(joining).body)

\* A step by which the server sends nothing or packets other than "joined", each
\* list of the viewer's room with the steady ones; what was about to be said or
\* in hand is still, or is sent.
Sent(s) ==
    /\ s \in Seq(Packets) /\ down' = down \o s /\ Pending' = Pending
    /\ \A j \in 1 .. Len(s) :
         /\ s[j].type # "joined"
         /\ s[j].type = "room_snapshot" /\ s[j].room = seat => Steady' \subseteq s[j].body.users
         /\ s[j].type = "history" => keep_history
    /\ \A t \in Threads : \A m :
         AtCast(t, m) => AtCast(t, m)' \/ \E j \in 1 .. Len(s) : Says(s[j], m)
    /\ \A m : InHand(m) => InHand(m)' \/ \E j \in 1 .. Len(s) : Brings(s[j], m)
    /\ stayed' \subseteq stayed /\ omitted \subseteq omitted'
    /\ UNCHANGED <<seat, up, viewerVars, setUp>>

\* Sending nothing is such a step,
LEMMA SentNone ==
    ASSUME down \in Seq(Packets), down' = down, Pending' = Pending,
           \A t \in Threads : \A m : AtCast(t, m) => AtCast(t, m)',
           \A m : InHand(m) => InHand(m)',
           stayed' \subseteq stayed, omitted \subseteq omitted', UNCHANGED <<seat, up, viewerVars, setUp>>
    PROVE  Sent(<<>>)
<1>1. <<>> \in Seq(Packets) /\ Len(<<>>) = 0 /\ down \o <<>> = down
  BY EmptySeq, ConcatEmptySeq
<1> QED
  BY <1>1 DEF Sent

\* and so is sending one such packet.
LEMMA SentOne ==
    ASSUME down \in Seq(Packets), NEW k \in Packets, down' = Append(down, k), Pending' = Pending,
           k.type # "joined",
           k.type = "room_snapshot" /\ k.room = seat => Steady' \subseteq k.body.users,
           k.type = "history" => keep_history,
           \A t \in Threads : \A m : AtCast(t, m) => AtCast(t, m)' \/ Says(k, m),
           \A m : InHand(m) => InHand(m)' \/ Brings(k, m),
           stayed' \subseteq stayed, omitted \subseteq omitted', UNCHANGED <<seat, up, viewerVars, setUp>>
    PROVE  Sent(<<k>>)
<1> DEFINE s == <<k>>
<1>1. s \in Seq(Packets) /\ Len(s) = 1 /\ s[1] = k
  OBVIOUS
<1>2. down' = down \o s
  BY AppendIsConcat
<1>3. 1 \in 1 .. Len(s) /\ \A j \in 1 .. Len(s) : s[j] = k
  BY <1>1
<1> HIDE DEF s
<1>4. \A t \in Threads : \A m : AtCast(t, m) => AtCast(t, m)' \/ \E j \in 1 .. Len(s) : Says(s[j], m)
  BY <1>3
<1>5. \A m : InHand(m) => InHand(m)' \/ \E j \in 1 .. Len(s) : Brings(s[j], m)
  BY <1>3
<1>6. Sent(s)
  BY <1>1, <1>2, <1>3, <1>4, <1>5 DEF Sent
<1> QED
  BY <1>6 DEF s

\* What other threads are about to say is not touched by a thread going on.
LEMMA OthersCast ==
    ASSUME WritersTyped, NEW t \in Threads, \E th : Goes(t, th), seat' = seat
    PROVE  \A u \in Threads : u # t => \A m : AtCast(u, m) => AtCast(u, m)'
<1>1. PICK th : Goes(t, th)
  OBVIOUS
<1>2. \A u \in Threads : u # t => thread'[u] = thread[u]
  BY <1>1, OneThread
<1> QED
  BY <1>2 DEF AtCast


\* A thread that goes on without sending anything, and still has what it was
\* about to say.
LEMMA QuietSends ==
    ASSUME TalkTypeOK, NEW t \in Threads, \E th : Goes(t, th),
           UNCHANGED <<down, joining, seat, up, viewerVars, setUp>>,
           \A m : AtCast(t, m) => AtCast(t, m)',
           stayed' \subseteq stayed, omitted \subseteq omitted'
    PROVE  Sent(<<>>)
<1>1. WritersTyped /\ down \in Seq(Packets)
  BY DEF TalkTypeOK, RoomTyped
<1>2. \A u \in Threads : \A m : AtCast(u, m) => AtCast(u, m)'
  BY <1>1, OthersCast
<1>3. Pending' = Pending
  BY DEF Pending
<1>4. \A m : InHand(m) => InHand(m)'
  BY DEF InHand
<1> QED
  BY <1>1, <1>2, <1>3, <1>4, SentNone

\* The steps of the threads before a broadcast are of this kind.
LEMMA ThreadsQuiet ==
    ASSUME TalkTypeOK, NEW t \in Threads,
           \/ \E r \in Rooms : Write(t, r)
           \/ TakeOut(t) \/ PutBack(t) \/ Aim(t) \/ ReadList(t) \/ ReadTargets(t)
    PROVE  Sent(<<>>)
<1>1. ASSUME NEW r \in Rooms, Write(t, r) PROVE Sent(<<>>)
  <2>1. thread[t].pc = "idle" /\ \E th : Goes(t, th)
    BY <1>1, WriteGoes
  <2>2. \A m : ~AtCast(t, m)
    BY <2>1 DEF AtCast
  <2> QED
    BY <1>1, <2>1, <2>2, QuietSends DEF Write, placesVars, newsHistory
<1>2. CASE TakeOut(t)
  <2>1. thread[t].pc = "take" /\ \E th : Goes(t, th)
    BY <1>2, TakeOutGoes
  <2>2. \A m : ~AtCast(t, m)
    BY <2>1 DEF AtCast
  <2> QED
    BY <1>2, <2>1, <2>2, QuietSends DEF TakeOut, placesVars, newsHistory
<1>3. CASE PutBack(t)
  <2>1. thread[t].pc = "put" /\ \E th : Goes(t, th)
    BY <1>3, PutBackGoes
  <2>2. \A m : ~AtCast(t, m)
    BY <2>1 DEF AtCast
  <2> QED
    BY <1>3, <2>1, <2>2, QuietSends DEF PutBack, placesVars, newsHistory
<1>4. CASE Aim(t)
  <2>1. PICK th : /\ Goes(t, th) /\ th.room = thread[t].room /\ th.msg = thread[t].msg
                  /\ seat = thread[t].room => th.pc = "cast" /\ th.to
    BY <1>4, AimGoes
  <2>2. thread'[t] = th /\ seat' = seat
    BY <1>4, <2>1, OneThread DEF TalkTypeOK, Aim
  <2>3. \A m : AtCast(t, m) => AtCast(t, m)'
    BY <2>1, <2>2 DEF AtCast
  <2> QED
    BY <1>4, <2>1, <2>3, QuietSends DEF Aim, placesVars, newsHistory
<1>5. CASE ReadList(t)
  <2>1. thread[t].pc = "list" /\ \E th : Goes(t, th)
    BY <1>5, ReadListGoes
  <2>2. \A m : ~AtCast(t, m)
    BY <2>1 DEF AtCast
  <2> QED
    BY <1>5, <2>1, <2>2, QuietSends DEF ReadList, placesVars, newsHistory
<1>6. CASE ReadTargets(t)
  <2>1. thread[t].pc = "target" /\ \E th : Goes(t, th)
    BY <1>6, ReadTargetsGoes
  <2>2. \A m : ~AtCast(t, m)
    BY <2>1 DEF AtCast
  <2> QED
    BY <1>6, <2>1, <2>2, QuietSends DEF ReadTargets, placesVars, newsHistory
<1> QED
  BY <1>1, <1>2, <1>3, <1>4, <1>5, <1>6

\* Those who come and go send nothing at once.
LEMMA PeopleQuiet ==
    ASSUME TalkTypeOK, NEW p \in People,
           \/ \E r \in Rooms : Connect(p, r)
           \/ \E goal \in Rooms \cup {Absent} : Leave(p, goal)
           \/ Enter(p)
    PROVE  Sent(<<>>)
<1>1. /\ \E th : Goes(p, th) /\ th.pc = "list"
      /\ thread[p].pc \in {"idle", "enter"}
      /\ stayed' \subseteq stayed /\ omitted' = omitted
      /\ UNCHANGED <<setUp, seat, joining, up, down, viewerVars>>
  BY PeopleGo
<1>2. \A m : ~AtCast(p, m)
  BY <1>1 DEF AtCast
<1> QED
  BY <1>1, <1>2, QuietSends DEF Threads

\* A broadcast brings the message to a viewer that was a target.
LEMMA CastSends ==
    ASSUME TalkTypeOK, NEW a \in Threads, Cast(a)
    PROVE  \E s : Sent(s)
<1> DEFINE k == thread[a].packet
<1>1. /\ WritersTyped /\ down \in Seq(Packets)
  BY DEF TalkTypeOK, RoomTyped
<1>2. /\ thread[a].pc = "cast" /\ k = Packet("message", thread[a].room, thread[a].msg)
      /\ k \in Packets /\ \E th : Goes(a, th)
  BY CastGoes, PacketMade
<1>3. /\ down' = IF thread[a].to THEN Append(down, k) ELSE down
      /\ UNCHANGED <<joining, seat, up, viewerVars, setUp, stayed, omitted>>
  BY DEF Cast, Deliver, placesVars, newsHistory
<1>4. k.type = "message" /\ \A m : AtCast(a, m) => thread[a].to /\ Says(k, m)
  BY <1>2, PacketFields DEF AtCast, Says
<1> HIDE DEF k
<1>5. \A u \in Threads : u # a => \A m : AtCast(u, m) => AtCast(u, m)'
  BY <1>1, <1>2, <1>3, OthersCast
<1>6. Pending' = Pending /\ \A m : InHand(m) => InHand(m)'
  BY <1>3 DEF Pending, InHand
<1>7. CASE thread[a].to
  <2>1. \A u \in Threads : \A m : AtCast(u, m) => AtCast(u, m)' \/ Says(k, m)
    BY <1>4, <1>5
  <2>2. Sent(<<k>>)
    BY <1>1, <1>2, <1>3, <1>4, <1>6, <1>7, <2>1, SentOne
  <2> QED
    BY <2>2
<1>8. CASE ~thread[a].to
  <2>1. \A u \in Threads : \A m : AtCast(u, m) => AtCast(u, m)'
    BY <1>4, <1>5, <1>8
  <2>2. Sent(<<>>)
    BY <1>1, <1>3, <1>6, <1>8, <2>1, SentNone
  <2> QED
    BY <2>2
<1> QED
  BY <1>7, <1>8

\* The list of members; those it leaves out are noted.
LEMMA TellSends ==
    ASSUME TalkTypeOK, NEW t \in Threads, Tell(t)
    PROVE  \E s : Sent(s)
<1> DEFINE k == thread[t].packet
<1>1. /\ WritersTyped /\ down \in Seq(Packets)
  BY DEF TalkTypeOK, RoomTyped
<1>2. thread[t].pc = "tell" /\ k \in Packets /\ k.type = "room_snapshot" /\ \E th : Goes(t, th)
  BY TellGoes
<1>3. /\ down' = IF thread[t].to THEN Append(down, k) ELSE down
      /\ omitted' = IF thread[t].to THEN omitted \cup Omitted(k) ELSE omitted
      /\ UNCHANGED <<joining, seat, up, viewerVars, setUp, stayed>>
  BY DEF Tell, Deliver
<1> HIDE DEF k
<1>4. \A m : ~AtCast(t, m)
  BY <1>2 DEF AtCast
<1>5. \A u \in Threads : \A m : AtCast(u, m) => AtCast(u, m)'
  BY <1>1, <1>2, <1>3, <1>4, OthersCast
<1>6. Pending' = Pending /\ \A m : InHand(m) => InHand(m)'
  BY <1>3 DEF Pending, InHand
<1>7. CASE thread[t].to
  <2>1. k.room = seat => Steady' \subseteq k.body.users
    BY <1>3, <1>7 DEF Omitted, Steady
  <2>2. omitted \subseteq omitted'
    BY <1>3
  <2>3. Sent(<<k>>)
    BY <1>1, <1>2, <1>3, <1>5, <1>6, <1>7, <2>1, <2>2, SentOne
  <2> QED
    BY <2>3
<1>8. CASE ~thread[t].to
  <2>1. Sent(<<>>)
    BY <1>1, <1>3, <1>5, <1>6, <1>8, SentNone
  <2> QED
    BY <2>1
<1> QED
  BY <1>7, <1>8

\* A key.
LEMMA KeySends ==
    ASSUME TalkTypeOK, NEW p \in People, SendKey(p)
    PROVE  \E s : Sent(s)
<1> DEFINE k == Packet("key", seat, KeyOf(p))
<1>1. /\ seat # Absent /\ place[p] = seat /\ down' = Append(down, k)
      /\ UNCHANGED <<thread, seat, joining, up, stayed, omitted, viewerVars, setUp>>
  BY DEF SendKey, placesVars, newsHistory
<1>2. seat \in Rooms /\ KeyOf(p) \in PublicKeys /\ down \in Seq(Packets)
  BY <1>1 DEF TalkTypeOK, RoomTyped, KeyOf, PublicKeys
<1>3. k \in Packets /\ k.type = "key" /\ k.room = seat
  BY <1>2, PacketMade, PacketFields
<1> HIDE DEF k
<1>4. Pending' = Pending /\ \A m : InHand(m) => InHand(m)'
  BY <1>1 DEF Pending, InHand
<1>5. \A u \in Threads : \A m : AtCast(u, m) => AtCast(u, m)'
  BY <1>1 DEF AtCast
<1>6. Sent(<<k>>)
  BY <1>1, <1>2, <1>3, <1>4, <1>5, SentOne
<1> QED
  BY <1>6

\* What the first of a join tells.
LEMMA JoinKinds ==
    ASSUME NEW j
    PROVE  /\ \A b : j = ToSend(b) => j # <<>> /\ Head(j).type = "joined" /\ Head(j).body = b
           /\ \A h : j = ToSendHistory(h) => j # <<>> /\ Head(j).type = "history" /\ Head(j).body = h
           /\ \A l : j = ToSendList(l) => j # <<>> /\ Head(j).type = "room_snapshot" /\ Head(j).body = l
BY JoinParts, JoinFields

\* Reading for a join sends nothing,
LEMMA JoinReads ==
    ASSUME TalkTypeOK, ReadJoined
    PROVE  Sent(<<>>)
<1>1. RoomTyped /\ down \in Seq(Packets)
  BY DEF TalkTypeOK, RoomTyped
<1>2. UNCHANGED <<down, thread, seat, up, stayed, omitted, viewerVars, setUp>>
  BY DEF ReadJoined, placesVars, newsHistory
<1>3. \/ joining = ToSend(Absent) /\ joining' = ToSend(InRoom(seat))
      \/ /\ joining = ToSendHistory(Absent)
         /\ joining' = IF keep_history THEN ToSendHistory(Selected(Kept(seat))) ELSE ToSendList(Absent)
      \/ joining = ToSendList(Absent) /\ joining' = ToSendList([users |-> InRoom(seat), moved |-> {}])
  BY <1>1, ReadCases
<1>4. CASE joining = ToSend(Absent) /\ joining' = ToSend(InRoom(seat))
  <2>1. /\ joining # <<>> /\ Head(joining).type = "joined"
        /\ joining' # <<>> /\ Head(joining').type = "joined"
    BY <1>4, JoinKinds
  <2> QED
    BY <1>1, <1>2, <2>1, SentNone DEF Pending, InHand, AtCast
<1>5. CASE joining = ToSendHistory(Absent)
           /\ (joining' = ToSendHistory(Selected(Kept(seat))) \/ joining' = ToSendList(Absent))
  <2>1. /\ joining # <<>> /\ Head(joining).type = "history" /\ Head(joining).body = Absent
        /\ joining' # <<>> /\ Head(joining').type # "joined"
    BY <1>5, JoinKinds
  <2> QED
    BY <1>1, <1>2, <2>1, SentNone DEF Pending, InHand, AtCast
<1>6. CASE joining = ToSendList(Absent) /\ joining' = ToSendList([users |-> InRoom(seat), moved |-> {}])
  <2>1. /\ joining # <<>> /\ Head(joining).type = "room_snapshot"
        /\ joining' # <<>> /\ Head(joining').type = "room_snapshot"
    BY <1>6, JoinKinds
  <2> QED
    BY <1>1, <1>2, <2>1, SentNone DEF Pending, InHand, AtCast
<1> QED
  BY <1>3, <1>4, <1>5, <1>6

\* and what was read is sent: all but the "joined" packet is such a step.
LEMMA JoinSends ==
    ASSUME TalkTypeOK, SeatInv, SendJoined, ~Pending
    PROVE  \E s : Sent(s)
<1>1. RoomTyped /\ down \in Seq(Packets)
  BY DEF TalkTypeOK, RoomTyped
<1>2. UNCHANGED <<thread, seat, up, stayed, viewerVars, setUp>>
  BY DEF SendJoined
<1>3. seat \in Rooms
  BY <1>1, JoinCases
<1>4. \A u \in Threads : \A m : AtCast(u, m) => AtCast(u, m)'
  BY <1>2 DEF AtCast
<1>5. ASSUME NEW h \in Seq(Messages), h # Absent, joining = ToSendHistory(h), joining' = ToSendList(Absent),
             down' = Append(down, OfJoin("history", h)), omitted' = omitted
      PROVE  \E s : Sent(s)
  <2> DEFINE k == OfJoin("history", h)
  <2>1. k.type = "history" /\ k.room = seat /\ k.body = h
    BY JoinFields
  <2>2. k \in Packets
    BY <1>3, PacketMade DEF OfJoin
  <2> HIDE DEF k
  <2>3. /\ joining # <<>> /\ Head(joining).type = "history" /\ Head(joining).body = h
        /\ joining' # <<>> /\ Head(joining').type = "room_snapshot"
    BY <1>5, JoinKinds
  <2>4. Pending' = Pending
    BY <2>3 DEF Pending
  <2>5. \A m : InHand(m) => Brings(k, m)
    BY <2>1, <2>3 DEF InHand, Brings
  <2>6. keep_history
    BY <1>5, <2>3 DEF SeatInv
  <2>7. down' = Append(down, k)
    BY <1>5 DEF k
  <2>8. Sent(<<k>>)
    BY <1>1, <1>2, <1>4, <1>5, <2>1, <2>2, <2>4, <2>5, <2>6, <2>7, SentOne
  <2> QED
    BY <2>8
<1>6. ASSUME NEW l \in RoomLists, joining = ToSendList(l), joining' = <<>>,
             down' = Append(down, OfJoin("room_snapshot", l)),
             omitted' = omitted \cup Omitted(OfJoin("room_snapshot", l))
      PROVE  \E s : Sent(s)
  <2> DEFINE k == OfJoin("room_snapshot", l)
  <2>1. k.type = "room_snapshot" /\ k.room = seat /\ k.body = l
    BY JoinFields
  <2>2. k \in Packets
    BY <1>3, PacketMade DEF OfJoin
  <2>3. down' = Append(down, k) /\ omitted' = omitted \cup Omitted(k)
    BY <1>6
  <2> HIDE DEF k
  <2>4. joining # <<>> /\ Head(joining).type = "room_snapshot"
    BY <1>6, JoinKinds
  <2>5. Pending' = Pending /\ \A m : ~InHand(m)
    BY <1>6, <2>4 DEF Pending, InHand
  <2>6. Steady' \subseteq k.body.users
    BY <1>2, <2>1, <2>3 DEF Steady, Omitted
  <2>7. omitted \subseteq omitted'
    BY <2>3
  <2>8. Sent(<<k>>)
    BY <1>1, <1>2, <1>4, <2>1, <2>2, <2>3, <2>5, <2>6, <2>7, SentOne
  <2> QED
    BY <2>8
<1>7. ASSUME NEW b, joining = ToSend(b) PROVE FALSE
  BY <1>7, JoinKinds DEF Pending
<1> QED
  BY <1>1, <1>5, <1>6, <1>7, JoinCases

\* The "joined" packet is not: by it everything before becomes stale.
LEMMA JoinedSends ==
    ASSUME TalkTypeOK, SeatInv, SendJoined, Pending
    PROVE  \E k \in Packets :
             /\ k.type = "joined" /\ k.room = seat /\ stayed \subseteq k.body
             /\ joining' = ToSendHistory(Absent)
             /\ UNCHANGED <<seat, up, stayed, omitted, viewerVars, setUp>>
             /\ ~NoJoined' /\ ~Pending'
             /\ \A i \in 1 .. Len(down') : Fresh(i)' => down'[i] = k
             /\ \A i \in 1 .. Len(down') : (i \in 1 .. Len(down) /\ down'[i] = down[i]) \/ down'[i] = k
<1>1. RoomTyped /\ down \in Seq(Packets)
  BY DEF TalkTypeOK, RoomTyped
<1>2. ~ (\E h : joining = ToSendHistory(h)) /\ ~ (\E l : joining = ToSendList(l))
  BY JoinKinds DEF Pending
<1>3. PICK b \in SUBSET People :
        /\ seat \in Rooms /\ b # Absent /\ joining = ToSend(b) /\ joining' = ToSendHistory(Absent)
        /\ down' = Append(down, OfJoin("joined", b)) /\ omitted' = omitted
  BY <1>1, <1>2, JoinCases
<1> DEFINE k == OfJoin("joined", b)
<1>4. k.type = "joined" /\ k.room = seat /\ k.body = b
  BY JoinFields
<1>5. k \in Packets
  BY <1>3, PacketMade DEF OfJoin
<1>6. down' = Append(down, k)
  BY <1>3
<1> HIDE DEF k
<1>7. Head(joining).body = b
  BY <1>3, JoinKinds
<1>8. stayed \subseteq b
  BY <1>3, <1>7 DEF SeatInv
<1>9. joining' # <<>> /\ Head(joining').type = "history"
  BY <1>3, JoinKinds
<1>10. /\ ~NoJoined' /\ ~Pending'
       /\ \A i \in 1 .. Len(down') : Fresh(i)' => down'[i] = k
       /\ \A i \in 1 .. Len(down') : (i \in 1 .. Len(down) /\ down'[i] = down[i]) \/ down'[i] = k
  BY <1>1, <1>4, <1>5, <1>6, <1>9, JoinedSent
<1>11. UNCHANGED <<seat, up, stayed, viewerVars, setUp>>
  BY DEF SendJoined
<1> QED
  BY <1>3, <1>4, <1>5, <1>8, <1>10, <1>11

\* What a step is, as far as the stream is concerned.
LEMMA StreamCases ==
    ASSUME TalkTypeOK, SeatInv, TalkNext
    PROVE  \/ \E s : Sent(s)
           \/ SendJoined /\ Pending
           \/ TakeSeat \/ ViewerReceives
           \/ \E r \in Rooms : SwitchRoom(r)
           \/ \E forget \in BOOLEAN : Reconnect(forget)
<1>0. Authors \subseteq Threads /\ People \subseteq Threads
  BY DEF Threads
<1>1. ASSUME NEW a \in Authors, NEW r \in Rooms, Write(a, r) PROVE Sent(<<>>)
  BY <1>0, <1>1, ThreadsQuiet
<1>2. ASSUME NEW a \in Authors, TakeOut(a) \/ PutBack(a) \/ Aim(a) PROVE Sent(<<>>)
  BY <1>0, <1>2, ThreadsQuiet
<1>3. ASSUME NEW t \in Threads, ReadList(t) \/ ReadTargets(t) PROVE Sent(<<>>)
  BY <1>3, ThreadsQuiet
<1>4. ASSUME NEW a \in Authors, Cast(a) PROVE \E s : Sent(s)
  BY <1>0, <1>4, CastSends
<1>5. ASSUME NEW t \in Threads, Tell(t) PROVE \E s : Sent(s)
  BY <1>5, TellSends
<1>6. ASSUME NEW p \in People,
             \/ \E r \in Rooms : Connect(p, r)
             \/ \E goal \in Rooms \cup {Absent} : Leave(p, goal)
             \/ Enter(p)
      PROVE  Sent(<<>>)
  BY <1>6, PeopleQuiet
<1>7. ASSUME NEW p \in People, SendKey(p) PROVE \E s : Sent(s)
  BY <1>7, KeySends
<1>8. CASE ReadJoined
  BY <1>8, JoinReads
<1>9. CASE SendJoined
  BY <1>9, JoinSends
<1> QED
  BY <1>1, <1>2, <1>3, <1>4, <1>5, <1>6, <1>7, <1>8, <1>9 DEF TalkNext

\* Those who come and go, as far as the room they are in is concerned: none of
\* them is in a room while going to another.
LEMMA PlaceSteps ==
    ASSUME TalkTypeOK, SeatInv, LeavingInv, NEW p \in People,
           \/ \E r \in Rooms : Connect(p, r)
           \/ \E goal \in Rooms \cup {Absent} : Leave(p, goal)
           \/ Enter(p)
    PROVE  SeatInv' /\ LeavingInv'
<1>0. /\ WritersTyped /\ RoomTyped /\ p \in Threads /\ People \subseteq Threads
      /\ ThreadTyped(p, thread[p]) /\ place \in [People -> Rooms \cup {Absent}] /\ DOMAIN thread = Threads
  BY DEF TalkTypeOK, RoomTyped, WritersTyped, Threads
<1>1. UNCHANGED <<keep_history, seat, joining, up>> /\ Absent \notin Rooms
  BY PeopleGo, TalkAssumption DEF setUp
<1>2. \A r, goal : AtList(r, goal).goal = goal
  BY DEF AtList, Thread
<1>3. ASSUME NEW r \in Rooms \cup {Absent}, NEW th,
             place' = [place EXCEPT ![p] = r], thread' = [thread EXCEPT ![p] = th],
             stayed' \subseteq stayed, seat # Absent => p \notin stayed', th.goal # Absent => r = Absent
      PROVE  SeatInv' /\ LeavingInv'
  <2>1. \A q \in People : q # p => place'[q] = place[q] /\ thread'[q] = thread[q]
    BY <1>0, <1>3
  <2>2. place'[p] = r /\ thread'[p] = th
    BY <1>0, <1>3
  <2>3. LeavingInv'
    BY <1>3, <2>1, <2>2 DEF LeavingInv
  <2>4. seat # Absent => stayed' \subseteq InRoom(seat)'
    <3>1. stayed \subseteq People
      BY <1>0 DEF RoomTyped
    <3>2. seat # Absent => stayed \subseteq InRoom(seat)
      BY DEF SeatInv
    <3> QED
      BY <1>1, <1>3, <2>1, <3>1, <3>2 DEF InRoom
  <2>5. Pending' = Pending
    BY <1>1 DEF Pending
  <2>7. seat' # Absent => stayed' \subseteq InRoom(seat)'
    BY <1>1, <2>4
  <2> QED
    BY <1>1, <1>3, <2>3, <2>5, <2>7 DEF SeatInv
<1>4. ASSUME NEW r \in Rooms, Connect(p, r) PROVE SeatInv' /\ LeavingInv'
  <2>1. /\ place' = [place EXCEPT ![p] = r] /\ thread' = [thread EXCEPT ![p] = AtList(r, Absent)]
        /\ stayed' = stayed /\ place[p] = Absent
    BY <1>4 DEF Connect, newsHistory
  <2>2. seat # Absent => p \notin stayed
    BY <2>1 DEF SeatInv, InRoom
  <2> QED
    BY <1>2, <1>3, <2>1, <2>2
<1>5. ASSUME NEW goal \in Rooms \cup {Absent}, Leave(p, goal) PROVE SeatInv' /\ LeavingInv'
  <2>1. /\ place' = [place EXCEPT ![p] = Absent]
        /\ thread' = [thread EXCEPT ![p] = AtList(place[p], goal)]
        /\ stayed' = stayed \ {p}
    BY <1>5 DEF Leave
  <2>2. stayed' \subseteq stayed /\ p \notin stayed'
    BY <2>1
  <2> QED
    BY <1>3, <2>1, <2>2
<1>6. ASSUME Enter(p) PROVE SeatInv' /\ LeavingInv'
  <2>1. /\ place' = [place EXCEPT ![p] = thread[p].goal] /\ thread[p].pc = "enter"
        /\ thread' = [thread EXCEPT ![p] = AtList(thread[p].goal, Absent)]
        /\ stayed' = stayed
    BY <1>6 DEF Enter, newsHistory
  <2>2. thread[p].goal \in Rooms /\ thread[p].goal # Absent
    BY <1>0, <1>1, <2>1 DEF ThreadTyped
  <2>3. place[p] = Absent
    BY <2>2 DEF LeavingInv
  <2>4. seat # Absent => p \notin stayed
    BY <2>3 DEF SeatInv, InRoom
  <2> QED
    BY <1>2, <1>3, <2>1, <2>2, <2>4
<1> QED
  BY <1>4, <1>5, <1>6

\* All others go to no room they did not go to before.
LEMMA LeavingKept ==
    ASSUME TalkTypeOK, LeavingInv, NEW t \in Threads, place' = place,
           \E th : Goes(t, th) /\ th.goal \in {thread[t].goal, Absent}
    PROVE  LeavingInv'
<1>1. PICK th : Goes(t, th) /\ th.goal \in {thread[t].goal, Absent}
  OBVIOUS
<1>2. thread'[t] = th /\ \A u \in Threads : u # t => thread'[u] = thread[u]
  BY <1>1, OneThread DEF TalkTypeOK
<1>3. People \subseteq Threads
  BY DEF Threads
<1> QED
  BY <1>1, <1>2, <1>3 DEF LeavingInv

\* Every step keeps the first two parts: who stayed is in the room.
LEMMA SeatStep ==
    ASSUME TalkTypeOK, SeatInv, LeavingInv, TalkNext
    PROVE  SeatInv' /\ LeavingInv'
<1>0. RoomTyped /\ Absent \notin Rooms /\ Authors \subseteq Threads /\ People \subseteq Threads
  BY TalkAssumption DEF TalkTypeOK, Threads
<1>1. ASSUME UNCHANGED <<place, seat, up, joining, stayed, keep_history>> PROVE SeatInv'
  BY <1>1 DEF SeatInv, InRoom, Pending
<1>l. ASSUME place' = place, thread' = thread PROVE LeavingInv'
  BY <1>l DEF LeavingInv
<1>2. ASSUME NEW a \in Authors, NEW r \in Rooms, Write(a, r) PROVE SeatInv' /\ LeavingInv'
  <2>1. SeatInv' /\ place' = place
    BY <1>1, <1>2 DEF Write, placesVars, placeVars, newsHistory, setUp
  <2> QED
    BY <1>0, <1>2, <2>1, WriteGoes, LeavingKept
<1>3. ASSUME NEW a \in Authors, TakeOut(a) \/ PutBack(a) \/ Aim(a) \/ Cast(a)
      PROVE  SeatInv' /\ LeavingInv'
  <2>1. SeatInv' /\ place' = place
    BY <1>1, <1>3 DEF TakeOut, PutBack, Aim, Cast, placesVars, placeVars, newsHistory, setUp
  <2>2. \E th : Goes(a, th) /\ th.goal = thread[a].goal
    BY <1>0, <1>3, TakeOutGoes, PutBackGoes, AimGoes, CastGoes
  <2> QED
    BY <1>0, <2>1, <2>2, LeavingKept
<1>4. ASSUME NEW t \in Threads, ReadList(t) \/ ReadTargets(t) \/ Tell(t) PROVE SeatInv' /\ LeavingInv'
  <2>1. SeatInv' /\ place' = place
    BY <1>1, <1>4 DEF ReadList, ReadTargets, Tell, placesVars, placeVars, newsHistory, setUp
  <2>2. \E th : Goes(t, th) /\ th.goal \in {thread[t].goal, Absent}
    BY <1>4, ReadListGoes, ReadTargetsGoes, TellGoes
  <2> QED
    BY <2>1, <2>2, LeavingKept
<1>5. ASSUME NEW p \in People,
             \/ \E r \in Rooms : Connect(p, r)
             \/ \E goal \in Rooms \cup {Absent} : Leave(p, goal)
             \/ Enter(p)
      PROVE  SeatInv' /\ LeavingInv'
  BY <1>5, PlaceSteps
<1>6. ASSUME NEW p \in People, SendKey(p) PROVE SeatInv' /\ LeavingInv'
  BY <1>1, <1>l, <1>6 DEF SendKey, placesVars, placeVars, newsHistory, setUp
<1>7. CASE TakeSeat
  <2> DEFINE r == Head(up)
  <2>1. /\ seat' = r /\ stayed' = InRoom(r) /\ place' = place /\ thread' = thread /\ up # <<>>
        /\ joining' = <<Packet("joined", r, Absent), Packet("history", r, Absent),
                        Packet("room_snapshot", r, Absent)>>
    BY <1>7 DEF TakeSeat, placeVars
  <2>2. r \in Rooms
    BY <1>0, <2>1, HeadTailProperties DEF RoomTyped
  <2> HIDE DEF r
  <2>3. joining' # <<>> /\ Head(joining') = Packet("joined", r, Absent)
    BY <2>1
  <2>4. Head(joining').type = "joined" /\ Head(joining').body = Absent
    BY <2>3, PacketFields
  <2>5. seat' # Absent /\ stayed' \subseteq InRoom(seat)'
    BY <1>0, <2>1, <2>2 DEF InRoom
  <2> QED
    BY <1>l, <2>1, <2>4, <2>5 DEF SeatInv
<1>8. CASE ReadJoined
  <2>1. UNCHANGED <<place, thread, seat, up, stayed, keep_history>>
    BY <1>8 DEF ReadJoined, placesVars, placeVars, newsHistory, setUp
  <2>2. /\ seat \in Rooms
        /\ \/ joining' = ToSend(InRoom(seat))
           \/ keep_history /\ joining' = ToSendHistory(Selected(Kept(seat)))
           \/ joining' = ToSendList(Absent)
           \/ joining' = ToSendList([users |-> InRoom(seat), moved |-> {}])
    BY <1>0, <1>8, ReadCases
  <2>3. stayed \subseteq InRoom(seat)
    BY <1>0, <2>2 DEF SeatInv
  <2>4. /\ Head(joining').type = "joined" => Head(joining').body = InRoom(seat)
        /\ Head(joining').type = "history" => keep_history
    BY <2>2, JoinKinds
  <2>5. stayed' \subseteq InRoom(seat)' /\ seat' # Absent
    BY <1>0, <2>1, <2>2, <2>3 DEF InRoom
  <2> QED
    BY <1>l, <2>1, <2>3, <2>4, <2>5 DEF SeatInv, Pending
<1>9. CASE SendJoined
  <2>1. UNCHANGED <<place, thread, seat, up, stayed, keep_history>>
    BY <1>9 DEF SendJoined, placeVars, setUp
  <2>2. seat \in Rooms /\ (joining' = ToSendHistory(Absent) \/ joining' = ToSendList(Absent) \/ joining' = <<>>)
    BY <1>0, <1>9, JoinCases
  <2>3. joining' # <<>> => Head(joining').type # "joined" /\ Head(joining').body = Absent
    BY <2>2, JoinKinds
  <2>4. stayed' \subseteq InRoom(seat)' /\ seat' # Absent
    BY <1>0, <2>1, <2>2 DEF SeatInv, InRoom
  <2> QED
    BY <1>l, <2>1, <2>3, <2>4 DEF SeatInv, Pending
<1>10. CASE ViewerReceives
  BY <1>1, <1>l, <1>10 DEF ViewerReceives, placesVars, placeVars, newsHistory, setUp
<1>11. ASSUME NEW r \in Rooms, SwitchRoom(r) PROVE SeatInv' /\ LeavingInv'
  <2>1. up' = Append(up, r) /\ UNCHANGED <<place, thread, seat, joining, stayed, keep_history>>
    BY <1>11 DEF SwitchRoom, placesVars, placeVars, newsHistory, setUp
  <2>2. up' # <<>>
    BY <1>0, <2>1, AppendProperties DEF RoomTyped
  <2>3. Pending' = Pending
    BY <2>1 DEF Pending
  <2>4. seat # Absent => stayed' \subseteq InRoom(seat)'
    BY <2>1 DEF SeatInv, InRoom
  <2> QED
    BY <1>l, <2>1, <2>2, <2>3, <2>4 DEF SeatInv
<1>12. ASSUME NEW forget \in BOOLEAN, Reconnect(forget) PROVE SeatInv' /\ LeavingInv'
  <2>1. /\ seat' = Absent /\ joining' = <<>> /\ stayed' = {} /\ up' = <<current_room>> /\ place' = place
        /\ thread' = [t \in Threads |-> [thread[t] EXCEPT !.to = FALSE]]
    BY <1>12 DEF Reconnect, placeVars
  <2>2. up' # <<>>
    BY <2>1
  <2>3. \A t \in Threads : ThreadTyped(t, thread[t])
    BY DEF TalkTypeOK, WritersTyped
  <2>4. \A t \in Threads : thread'[t] = [thread[t] EXCEPT !.to = FALSE]
    BY <2>1
  <2>5. \A t \in Threads : thread'[t].goal = thread[t].goal
    BY <2>3, <2>4 DEF ThreadTyped
  <2>6. LeavingInv'
    BY <1>0, <2>1, <2>5 DEF LeavingInv
  <2> QED
    BY <2>1, <2>2, <2>6 DEF SeatInv, Pending
<1> QED
  BY <1>2, <1>3, <1>4, <1>5, <1>6, <1>7, <1>8, <1>9, <1>10, <1>11, <1>12 DEF TalkNext

\* With a join taken up, everything on its way is stale.
LEMMA TakeSeatBlinds ==
    ASSUME TakeSeat
    PROVE  Pending' /\ down' = down /\ ~NoJoined' /\ \A i : ~Fresh(i)'
<1>1. joining' = <<Packet("joined", Head(up), Absent), Packet("history", Head(up), Absent),
                   Packet("room_snapshot", Head(up), Absent)>> /\ down' = down
  BY DEF TakeSeat
<1>2. joining' # <<>> /\ Head(joining') = Packet("joined", Head(up), Absent)
  BY <1>1
<1>3. Pending'
  BY <1>2, PacketFields DEF Pending
<1> QED
  BY <1>1, <1>3 DEF NoJoined, Fresh

\* _announce_membership_change with a list that has certain people: no line is
\* about them, and they stay among those who were there first.
LEMMA NobodyGone ==
    ASSUME NewsTyped, NEW users \in SUBSET People, NEW moved, NEW verified, NEW S,
           Announce(users, moved, verified), S \subseteq users,
           known_users # Absent => S \subseteq initial_users
    PROVE  /\ known_users' # Absent => S \subseteq initial_users'
           /\ \A l \in lines' : l[1] \notin S
<1> DEFINE visible == Verified(users, verified)
           new == Arrived(visible, initial_users)
           gone == known_users \ users
<1>1. CASE known_users = Absent
  BY <1>1 DEF Announce
<1>2. CASE known_users # Absent
  <2>1. /\ lines' = {Came(u) : u \in new} \cup {Went(u, moved) : u \in gone}
        /\ initial_users' = initial_users \ gone
    BY <1>2 DEF Announce
  <2>2. \A u \in new : u \notin S
    BY <1>2 DEF Arrived
  <2>3. \A u \in gone : u \notin S
    OBVIOUS
  <2>4. \A u : Came(u)[1] = u /\ Went(u, moved)[1] = u
    BY DEF Came, Went
  <2> HIDE DEF visible, new, gone
  <2>5. \A l \in lines' : l[1] \notin S
    BY <2>1, <2>2, <2>3, <2>4
  <2>6. S \subseteq initial_users'
    BY <1>2, <2>1, <2>3
  <2> QED
    BY <2>5, <2>6
<1> QED
  BY <1>1, <1>2

\* A packet's arrival keeps what the page was told in step with the steady ones;
\* unless a "joined" is to come, or a room was asked for, no line is about them.
LEMMA ViewStep ==
    ASSUME StreamInv, ViewerReceives
    PROVE  /\ ViewInv'
           /\ NoJoined /\ up = <<>> => \A l \in lines' : l[1] \notin Steady
<1>0. /\ RoomTyped /\ NewsTyped /\ down \in Seq(Packets)
      /\ SeatInv /\ FreshInv /\ ViewInv
  BY DEF StreamInv, TalkTypeOK, RoomTyped
<1>1. UNCHANGED <<seat, joining, up>> /\ Steady' = Steady
  BY DEF ViewerReceives, placesVars, newsHistory, Steady
<1>2. PICK p \in Packets :
             /\ down # <<>> /\ p = Head(down) /\ down' = Tail(down)
             /\ \/ p.type = "joined" /\ p.body \in SUBSET People /\ OnJoined(p)
                \/ p.type = "history" /\ p.body \in Seq(Messages) /\ OnHistory(p)
                \/ p.type = "message" /\ p.body \in Messages /\ OnMessage(p)
                \/ /\ p.type = "room_snapshot" /\ p.body.users \in SUBSET People
                   /\ p.body.moved \in SUBSET People /\ OnSnapshot(p)
                \/ p.type = "key" /\ p.body \in PublicKeys /\ OnKey(p)
  BY <1>0, ReceiveCases
<1>3. /\ 1 \in 1 .. Len(down) /\ down[1] = p
      /\ NoJoined' <=> Fresh(1)
      /\ NoJoined <=> Fresh(1) /\ p.type # "joined"
  BY <1>0, <1>1, <1>2, StreamShrinks
<1>4. Fresh(1) =>
         /\ p.type = "joined" => p.room = seat /\ Steady \subseteq p.body
         /\ p.type = "room_snapshot" /\ p.room = seat => Steady \subseteq p.body.users
  BY <1>0, <1>3 DEF FreshInv
<1>5. snapshot_users \in SUBSET People
  BY <1>0 DEF NewsTyped
<1>v. NoJoined /\ up = <<>> =>
        /\ Steady \subseteq snapshot_users
        /\ known_users # Absent => Steady \subseteq initial_users
        /\ current_room = seat
  BY <1>0 DEF ViewInv
<1> DEFINE V == /\ Steady \subseteq snapshot_users'
                /\ known_users' # Absent => Steady \subseteq initial_users'
                /\ current_room' = seat
<1>6. ASSUME NoJoined' /\ up = <<>> => V PROVE ViewInv'
  BY <1>1, <1>6 DEF ViewInv
<1>7. CASE p.type = "joined" /\ OnJoined(p)
  <2>1. current_room' = p.room /\ initial_users' = p.body /\ snapshot_users' = p.body
    BY <1>7 DEF OnJoined
  <2> QED
    BY <1>3, <1>4, <1>6, <1>7, <2>1
<1>8. CASE p.type # "joined" /\ (OnHistory(p) \/ OnMessage(p))
  <2>1. UNCHANGED <<current_room, known_users, initial_users, snapshot_users>> /\ lines' = {}
    BY <1>8 DEF OnHistory, OnMessage
  <2> QED
    BY <1>3, <1>v, <1>6, <1>8, <2>1
<1>9. CASE p.type = "room_snapshot" /\ p.body.users \in SUBSET People /\ OnSnapshot(p)
  <2>1. current_room' = current_room
    BY <1>9 DEF OnSnapshot, logVars
  <2>2. CASE p.room = current_room
    <3>1. PICK verified : /\ snapshot_users' = p.body.users
                          /\ Announce(p.body.users, p.body.moved, verified)
      BY <1>9, <2>2 DEF OnSnapshot
    <3>2. ASSUME NoJoined, up = <<>>
          PROVE  V /\ \A l \in lines' : l[1] \notin Steady
      <4>1. /\ Steady \subseteq p.body.users /\ current_room = seat
            /\ known_users # Absent => Steady \subseteq initial_users
        BY <1>3, <1>4, <1>v, <1>9, <2>2, <3>2
      <4>2. /\ known_users' # Absent => Steady \subseteq initial_users'
            /\ \A l \in lines' : l[1] \notin Steady
        BY <1>0, <1>9, <3>1, <4>1, NobodyGone
      <4> QED
        BY <2>1, <3>1, <4>1, <4>2
    <3> QED
      BY <1>3, <1>6, <1>9, <3>2
  <2>3. CASE p.room # current_room
    <3>1. lines' = {} /\ UNCHANGED <<snapshot_users, known_users, initial_users>>
      BY <1>9, <2>3 DEF OnSnapshot
    <3> QED
      BY <1>3, <1>v, <1>6, <1>9, <2>1, <3>1
  <2> QED
    BY <2>2, <2>3
<1>10. CASE p.type = "key" /\ OnKey(p)
  <2>1. UNCHANGED <<current_room, snapshot_users>>
    BY <1>10 DEF OnKey, logVars
  <2>2. CASE p.room = current_room
    <3>1. Announce(snapshot_users, {}, verified_users')
      BY <1>10, <2>2 DEF OnKey
    <3>2. ASSUME NoJoined, up = <<>>
          PROVE  V /\ \A l \in lines' : l[1] \notin Steady
      <4>1. /\ Steady \subseteq snapshot_users /\ current_room = seat
            /\ known_users # Absent => Steady \subseteq initial_users
        BY <1>v, <3>2
      <4>2. /\ known_users' # Absent => Steady \subseteq initial_users'
            /\ \A l \in lines' : l[1] \notin Steady
        BY <1>0, <1>5, <3>1, <4>1, NobodyGone
      <4> QED
        BY <2>1, <4>1, <4>2
    <3> QED
      BY <1>3, <1>6, <1>10, <3>2
  <2>3. CASE p.room # current_room
    <3>1. lines' = {} /\ UNCHANGED <<known_users, initial_users>>
      BY <1>10, <2>3 DEF OnKey
    <3> QED
      BY <1>3, <1>v, <1>6, <1>10, <2>1, <3>1
  <2> QED
    BY <2>2, <2>3
<1> QED
  BY <1>2, <1>7, <1>8, <1>9, <1>10

\* Every step keeps the packets' and the page's part.
LEMMA StreamStep ==
    ASSUME StreamInv, TalkNext
    PROVE  FreshInv' /\ ViewInv'
<1>0. /\ TalkTypeOK /\ down \in Seq(Packets) /\ SeatInv /\ FreshInv /\ ViewInv
  BY DEF StreamInv, TalkTypeOK, RoomTyped
<1>1. ASSUME NEW s, Sent(s) PROVE FreshInv' /\ ViewInv'
  <2>1. /\ s \in Seq(Packets) /\ down' = down \o s /\ Pending' = Pending
        /\ \A j \in 1 .. Len(s) :
             /\ s[j].type # "joined"
             /\ s[j].type = "room_snapshot" /\ s[j].room = seat => Steady' \subseteq s[j].body.users
        /\ UNCHANGED <<seat, up, current_room, known_users, initial_users, snapshot_users>>
    BY <1>1 DEF Sent, viewerVars, logVars, newsVars
  <2>s. Steady' \subseteq Steady
    BY <1>1 DEF Sent, Steady
  <2>2. /\ NoJoined' <=> NoJoined
        /\ \A i \in 1 .. Len(down) : down'[i] = down[i] /\ (Fresh(i)' <=> Fresh(i))
        /\ \A i \in 1 .. Len(down') :
                \/ i \in 1 .. Len(down)
                \/ \E j \in 1 .. Len(s) : i = Len(down) + j /\ down'[i] = s[j]
    BY <1>0, <2>1, StreamGrows
  <2>3. ViewInv'
    BY <1>0, <2>1, <2>s, <2>2 DEF ViewInv
  <2>4. ASSUME NEW i \in 1 .. Len(down'), Fresh(i)'
        PROVE  /\ down'[i].type = "joined" => down'[i].room = seat' /\ Steady' \subseteq down'[i].body
               /\ down'[i].type = "room_snapshot" /\ down'[i].room = seat' =>
                    Steady' \subseteq down'[i].body.users
    <3>1. CASE i \in 1 .. Len(down)
      <4>1. Fresh(i) /\ down'[i] = down[i]
        BY <2>2, <2>4, <3>1
      <4>2. /\ down[i].type = "joined" => down[i].room = seat /\ Steady \subseteq down[i].body
            /\ down[i].type = "room_snapshot" /\ down[i].room = seat =>
                 Steady \subseteq down[i].body.users
        BY <1>0, <3>1, <4>1 DEF FreshInv
      <4> QED
        BY <2>1, <2>s, <4>1, <4>2
    <3>2. CASE \E j \in 1 .. Len(s) : i = Len(down) + j /\ down'[i] = s[j]
      BY <2>1, <3>2
    <3> QED
      BY <2>2, <3>1, <3>2
  <2> QED
    BY <2>3, <2>4 DEF FreshInv
<1>2. ASSUME SendJoined, Pending PROVE FreshInv' /\ ViewInv'
  <2>1. PICK k \in Packets :
          /\ k.type = "joined" /\ k.room = seat /\ stayed \subseteq k.body
          /\ UNCHANGED <<seat, stayed, omitted>> /\ ~NoJoined'
          /\ \A i \in 1 .. Len(down') : Fresh(i)' => down'[i] = k
    BY <1>0, <1>2, JoinedSends
  <2>2. Steady' \subseteq k.body
    BY <2>1 DEF Steady
  <2> QED
    BY <2>1, <2>2 DEF FreshInv, ViewInv
<1>3. CASE TakeSeat
  BY <1>3, TakeSeatBlinds DEF FreshInv, ViewInv
<1>4. CASE ViewerReceives
  <2>1. ViewInv'
    BY <1>4, ViewStep
  <2>2. down # <<>> /\ down' = Tail(down) /\ UNCHANGED <<joining, seat>> /\ Steady' = Steady
    BY <1>4 DEF ViewerReceives, placesVars, newsHistory, Steady
  <2>3. \A i \in 1 .. Len(down') : /\ i + 1 \in 1 .. Len(down) /\ down'[i] = down[i + 1]
                                   /\ Fresh(i)' <=> Fresh(i + 1)
    BY <1>0, <2>2, StreamShrinks
  <2>4. FreshInv'
    BY <1>0, <2>2, <2>3 DEF FreshInv
  <2> QED
    BY <2>1, <2>4
<1>5. ASSUME NEW r \in Rooms, SwitchRoom(r) PROVE FreshInv' /\ ViewInv'
  <2>1. up' = Append(up, r) /\ UNCHANGED <<down, joining, seat>> /\ Steady' = Steady
    BY <1>5 DEF SwitchRoom, placesVars, newsHistory, Steady
  <2>2. up' # <<>>
    BY <1>0, <2>1, AppendProperties DEF TalkTypeOK, RoomTyped
  <2>3. \A i : Fresh(i)' <=> Fresh(i)
    BY <2>1 DEF Fresh, Pending
  <2> QED
    BY <1>0, <2>1, <2>2, <2>3 DEF FreshInv, ViewInv
<1>6. ASSUME NEW forget \in BOOLEAN, Reconnect(forget) PROVE FreshInv' /\ ViewInv'
  <2>1. down' = <<>> /\ up' = <<current_room>>
    BY <1>6 DEF Reconnect
  <2>2. Len(down') = 0 /\ up' # <<>>
    BY <2>1, EmptySeq
  <2> QED
    BY <2>1, <2>2 DEF FreshInv, ViewInv
<1> QED
  BY <1>0, <1>1, <1>2, <1>3, <1>4, <1>5, <1>6, StreamCases

\* So every step keeps the invariant of the stream,
LEMMA StreamInvStep ==
    ASSUME StreamInv, [TalkNext]_talkVars
    PROVE  StreamInv'
<1>1. TalkTypeOK'
  BY TalkTypeStep DEF StreamInv
<1>2. CASE TalkNext
  BY <1>1, <1>2, SeatStep, StreamStep DEF StreamInv
<1>3. CASE UNCHANGED talkVars
  <2>1. SeatInv' /\ LeavingInv'
    BY <1>3 DEF StreamInv, SeatInv, LeavingInv, InRoom, Pending, talkVars
  <2>2. (NoJoined' <=> NoJoined) /\ \A i : Fresh(i)' <=> Fresh(i)
    BY <1>3 DEF NoJoined, Fresh, Pending, talkVars
  <2>3. Steady' = Steady
    BY <1>3 DEF Steady, talkVars
  <2>4. FreshInv' /\ ViewInv'
    BY <1>3, <2>2, <2>3 DEF StreamInv, FreshInv, ViewInv, talkVars
  <2> QED
    BY <1>1, <2>1, <2>4 DEF StreamInv
<1> QED
  BY <1>2, <1>3

\* and it holds at the start.
LEMMA StreamInvInit ==
    ASSUME TalkInit
    PROVE  StreamInv
<1>1. /\ down = <<>> /\ up = <<FirstRoom>> /\ seat = Absent /\ joining = <<>> /\ stayed = {}
      /\ thread = [t \in Threads |-> Idle]
  BY DEF TalkInit
<1>2. Len(down) = 0 /\ up # <<>>
  BY <1>1, EmptySeq
<1>3. SeatInv
  BY <1>1, <1>2 DEF SeatInv, Pending
<1>4. FreshInv /\ ViewInv
  BY <1>1, <1>2 DEF FreshInv, ViewInv
<1>5. LeavingInv
  <2>1. Idle.goal = Absent
    BY DEF Idle, Thread
  <2>2. \A p \in People : thread[p] = Idle
    BY <1>1 DEF Threads
  <2> QED
    BY <2>1, <2>2 DEF LeavingInv
<1> QED
  BY <1>3, <1>4, <1>5, TalkTypeInit DEF StreamInv

\* JoinedToCome, of the run's property, is about the same packets.
LEMMA NothingToCome ==
    ASSUME TalkTypeOK, ~JoinedToCome
    PROVE  NoJoined /\ up = <<>>
<1>1. down \in Seq(Packets) /\ Len(down) \in Nat /\ up = <<>>
  BY LenProperties DEF TalkTypeOK, RoomTyped, JoinedToCome
<1> DEFINE T == {OfJoin(t, b) : t \in {"joined", "history", "room_snapshot"},
                                b \in (SUBSET People) \cup Seq(Messages) \cup RoomLists \cup {Absent}}
           S == Packets \cup T
<1>2. joining \in Seq(S) /\ Len(joining) \in Nat
  <2>1. JoiningOK
    BY DEF TalkTypeOK, RoomTyped
  <2>2. \A t \in {"joined", "history", "room_snapshot"} :
          \A b \in (SUBSET People) \cup Seq(Messages) \cup RoomLists \cup {Absent} : OfJoin(t, b) \in T
    OBVIOUS
  <2> HIDE DEF T
  <2>3. ASSUME NEW x \in T, NEW y \in T, NEW z \in T
        PROVE  <<x>> \in Seq(T) /\ <<x, y>> \in Seq(T) /\ <<x, y, z>> \in Seq(T)
    OBVIOUS
  <2>4. joining \in Seq(T)
    <3>1. CASE joining = <<>>
      BY <3>1, EmptySeq
    <3>2. ASSUME NEW l \in RoomLists \cup {Absent}, joining = ToSendList(l) PROVE joining \in Seq(T)
      BY <2>2, <2>3, <3>2 DEF ToSendList
    <3>3. ASSUME NEW h \in Seq(Messages) \cup {Absent}, joining = ToSendHistory(h) PROVE joining \in Seq(T)
      BY <2>2, <2>3, <3>3 DEF ToSendHistory
    <3>4. ASSUME NEW b \in (SUBSET People) \cup {Absent}, joining = ToSend(b) PROVE joining \in Seq(T)
      BY <2>2, <2>3, <3>4 DEF ToSend
    <3> QED
      BY <2>1, <3>1, <3>2, <3>3, <3>4 DEF JoiningOK
  <2>5. T \subseteq S
    OBVIOUS
  <2> HIDE DEF S
  <2> QED
    BY <2>4, <2>5, SeqMonotonic, LenProperties
<1>3. down \in Seq(S)
  <2>1. Packets \subseteq S
    OBVIOUS
  <2> HIDE DEF S
  <2> QED
    BY <1>1, <2>1, SeqMonotonic
<1> HIDE DEF S, T
<1> DEFINE n == Len(joining)
<1>4. /\ Len(joining \o down) = n + Len(down)
      /\ \A i \in 1 .. n + Len(down) : (joining \o down)[i] = IF i <= n THEN joining[i] ELSE down[i - n]
  BY <1>2, <1>3, ConcatProperties
<1>5. \A i \in 1 .. n + Len(down) : (joining \o down)[i].type # "joined"
  BY <1>4 DEF JoinedToCome
<1> HIDE DEF n
<1>6. ASSUME NEW i \in 1 .. Len(down) PROVE down[i].type # "joined"
  <2>1. n + i \in 1 .. n + Len(down) /\ ~ (n + i <= n) /\ (n + i) - n = i
    BY <1>1, <1>2 DEF n
  <2> QED
    BY <1>4, <1>5, <2>1
<1>7. ASSUME Pending PROVE FALSE
  <2>1. joining # <<>> /\ joining[1].type = "joined" /\ n >= 1
    <3>1. joining # <<>> /\ Head(joining).type = "joined"
      BY <1>7 DEF Pending
    <3>2. Head(joining) = joining[1]
      OBVIOUS
    <3>3. n \in Nat \ {0}
      BY <1>2, <3>1, EmptySeq DEF n
    <3> QED
      BY <3>1, <3>2, <3>3
  <2>2. 1 \in 1 .. n + Len(down) /\ 1 <= n
    BY <1>1, <1>2, <2>1 DEF n
  <2> QED
    BY <1>4, <1>5, <2>1, <2>2
<1> QED
  BY <1>1, <1>6, <1>7 DEF NoJoined

\* The packets on their way agree with the server wherever it matters.
THEOREM StreamAgrees == TalkSpec => []StreamInv
BY StreamInvInit, StreamInvStep, PTL DEF TalkSpec

\* The page makes up no news, however late lists and keys come (ui.py,
\* _announce_membership_change): a line about somebody who has been here all the
\* time since the viewer came is the fault of a list that left them out; for any
\* number of people, rooms, authors and steps.
THEOREM ListsAreToBlame == TalkSpec => OnlyListsLie
<1>1. ASSUME StreamInv, [TalkNext]_talkVars
      PROVE  [ViewerReceives /\ ~JoinedToCome => \A l \in lines' : l[1] \notin stayed \ omitted]_talkVars
  BY <1>1, ViewStep, NothingToCome DEF StreamInv, Steady
<1> QED
  BY <1>1, StreamAgrees, PTL DEF TalkSpec, OnlyListsLie

----------------------------------------------------------------------------
(* Without a history: the gap. *)

\* Without a history none is sent; a message counts as missed only after another
\* the log has; and unless the page says that there is a gap, or a new start is
\* to come, each message missed is about to be said or on its way.
NoHistorySent == \A i \in 1 .. Len(down) : down[i].type # "history"

MissedAfterSome == \A r \in Rooms : missed[r] # {} => room_logs[r] # <<>>

Coming(m) ==
    \/ \E t \in Threads : AtCast(t, m)
    \/ \E i \in 1 .. Len(down) : Says(down[i], m)

GapOrStillToCome ==
    NoJoined /\ seat # Absent /\ up = <<>> => away_gap \/ \A m \in missed[seat] : Coming(m)

\* The inductive invariant of a server without a history.
GapInv ==
    /\ StreamInv
    /\ ~keep_history => NoHistorySent /\ MissedAfterSome /\ GapOrStillToCome

\* How the server and the room were set up does not change.
LEMMA SetUpKept ==
    ASSUME TalkNext
    PROVE  UNCHANGED setUp
<1>1. ASSUME NEW a \in Authors, NEW r \in Rooms, Write(a, r) PROVE UNCHANGED setUp
  BY <1>1 DEF Write
<1>2. ASSUME NEW a \in Authors, TakeOut(a) \/ PutBack(a) \/ Aim(a) \/ Cast(a) PROVE UNCHANGED setUp
  BY <1>2 DEF TakeOut, PutBack, Aim, Cast
<1>3. ASSUME NEW t \in Threads, ReadList(t) \/ ReadTargets(t) \/ Tell(t) PROVE UNCHANGED setUp
  BY <1>3 DEF ReadList, ReadTargets, Tell
<1>4. ASSUME NEW p \in People,
             \/ \E r \in Rooms : Connect(p, r)
             \/ \E goal \in Rooms \cup {Absent} : Leave(p, goal)
             \/ Enter(p)
      PROVE  UNCHANGED setUp
  BY <1>4 DEF Connect, Leave, Enter
<1>5. ASSUME NEW p \in People, SendKey(p) PROVE UNCHANGED setUp
  BY <1>5 DEF SendKey
<1>6. ASSUME TakeSeat \/ ReadJoined \/ SendJoined \/ ViewerReceives PROVE UNCHANGED setUp
  BY <1>6 DEF TakeSeat, ReadJoined, SendJoined, ViewerReceives
<1>7. ASSUME NEW r \in Rooms, SwitchRoom(r) PROVE UNCHANGED setUp
  BY <1>7 DEF SwitchRoom
<1>8. ASSUME NEW forget \in BOOLEAN, Reconnect(forget) PROVE UNCHANGED setUp
  BY <1>8 DEF Reconnect
<1> QED
  BY <1>1, <1>2, <1>3, <1>4, <1>5, <1>6, <1>7, <1>8 DEF TalkNext

\* No history comes from a server that keeps none.
LEMMA NoHistoryStep ==
    ASSUME GapInv, TalkNext, ~keep_history
    PROVE  NoHistorySent'
<1>0. /\ TalkTypeOK /\ down \in Seq(Packets) /\ SeatInv /\ NoHistorySent
  BY DEF GapInv, StreamInv, TalkTypeOK, RoomTyped
<1>1. ASSUME NEW s, Sent(s) PROVE NoHistorySent'
  <2>1. /\ s \in Seq(Packets) /\ down' = down \o s /\ Pending' = Pending
        /\ \A j \in 1 .. Len(s) : s[j].type # "joined" /\ s[j].type # "history"
    BY <1>1 DEF Sent
  <2>2. /\ \A i \in 1 .. Len(down) : down'[i] = down[i]
        /\ \A i \in 1 .. Len(down') :
                \/ i \in 1 .. Len(down)
                \/ \E j \in 1 .. Len(s) : i = Len(down) + j /\ down'[i] = s[j]
    BY <1>0, <2>1, StreamGrows
  <2> QED
    BY <1>0, <2>1, <2>2 DEF NoHistorySent
<1>2. ASSUME SendJoined, Pending PROVE NoHistorySent'
  <2>1. PICK k \in Packets :
          /\ k.type = "joined"
          /\ \A i \in 1 .. Len(down') : (i \in 1 .. Len(down) /\ down'[i] = down[i]) \/ down'[i] = k
    BY <1>0, <1>2, JoinedSends
  <2> QED
    BY <1>0, <2>1 DEF NoHistorySent
<1>3. CASE TakeSeat
  BY <1>0, <1>3 DEF TakeSeat, NoHistorySent
<1>4. CASE ViewerReceives
  <2>1. down # <<>> /\ down' = Tail(down) /\ joining' = joining
    BY <1>4 DEF ViewerReceives
  <2>2. \A i \in 1 .. Len(down') : i + 1 \in 1 .. Len(down) /\ down'[i] = down[i + 1]
    BY <1>0, <2>1, StreamShrinks
  <2> QED
    BY <1>0, <2>1, <2>2 DEF NoHistorySent
<1>5. ASSUME NEW r \in Rooms, SwitchRoom(r) PROVE NoHistorySent'
  BY <1>0, <1>5 DEF SwitchRoom, NoHistorySent
<1>6. ASSUME NEW forget \in BOOLEAN, Reconnect(forget)
      PROVE  NoHistorySent'
  <2>1. down' = <<>>
    BY <1>6 DEF Reconnect
  <2>2. Len(down') = 0
    BY <2>1, EmptySeq
  <2> QED
    BY <2>1, <2>2 DEF NoHistorySent
<1> QED
  BY <1>0, <1>1, <1>2, <1>3, <1>4, <1>5, <1>6, StreamCases

\* Which steps change what is missed, or the logs.
LEMMA MissedCases ==
    ASSUME TalkNext
    PROVE  \/ UNCHANGED <<missed, room_logs>>
           \/ \E a \in Authors : Aim(a)
           \/ ViewerReceives
           \/ \E forget \in BOOLEAN : Reconnect(forget)
<1>1. ASSUME NEW r \in Rooms, SwitchRoom(r) PROVE UNCHANGED <<missed, room_logs>>
  BY <1>1 DEF SwitchRoom
<1>2. UNCHANGED viewerVars => room_logs' = room_logs
  BY DEF viewerVars, logVars
<1> QED
  BY <1>1, <1>2, ViewerRests

\* A log that got a message has one.
LEMMA FullerLog ==
    ASSUME NEW s \in Seq(Messages), NEW m \in Messages
    PROVE  Newest(Append(s, m), LogLimit) # <<>>
<1>1. Append(s, m) \in Seq(Messages) /\ Len(Append(s, m)) = Len(s) + 1 /\ Len(s) \in Nat
  BY AppendProperties, LenProperties
<1>2. LogLimit \in Nat /\ LogLimit >= 1
  BY TalkAssumption
<1>3. Len(Newest(Append(s, m), LogLimit)) = IF Len(s) + 1 <= LogLimit THEN Len(s) + 1 ELSE LogLimit
  BY <1>1, <1>2, NewestIs
<1>4. Len(Newest(Append(s, m), LogLimit)) # 0
  BY <1>1, <1>2, <1>3
<1> QED
  BY <1>4, EmptySeq

\* A message stays counted as missed only while the log has another.
LEMMA MissedStep ==
    ASSUME GapInv, TalkNext, ~keep_history
    PROVE  MissedAfterSome'
<1>0. /\ TalkTypeOK /\ RoomTyped /\ LogsTyped /\ WritersTyped /\ down \in Seq(Packets)
      /\ NoHistorySent /\ MissedAfterSome
  BY DEF GapInv, StreamInv, TalkTypeOK, RoomTyped
<1>1. CASE UNCHANGED <<missed, room_logs>>
  BY <1>0, <1>1 DEF MissedAfterSome
<1>2. ASSUME NEW a \in Authors, Aim(a) PROVE MissedAfterSome'
  <2> DEFINE q == thread[a].room
             m == thread[a].msg
  <2>1. room_logs' = room_logs
        /\ missed' = IF room_logs[q] = <<>> THEN missed ELSE [missed EXCEPT ![q] = @ \cup {m}]
    BY <1>2 DEF Aim, viewerVars, logVars
  <2> HIDE DEF q, m
  <2>2. \A r \in Rooms : missed'[r] = missed[r] \/ (r = q /\ room_logs[q] # <<>>)
    BY <1>0, <2>1 DEF LogsTyped
  <2> QED
    BY <1>0, <2>1, <2>2 DEF MissedAfterSome
<1>3. CASE ViewerReceives
  <2>1. PICK p \in Packets :
             /\ down # <<>> /\ p = Head(down) /\ down' = Tail(down)
             /\ \/ p.type = "joined" /\ p.body \in SUBSET People /\ OnJoined(p)
                \/ p.type = "history" /\ p.body \in Seq(Messages) /\ OnHistory(p)
                \/ p.type = "message" /\ p.body \in Messages /\ OnMessage(p)
                \/ /\ p.type = "room_snapshot" /\ p.body.users \in SUBSET People
                   /\ p.body.moved \in SUBSET People /\ OnSnapshot(p)
                \/ p.type = "key" /\ p.body \in PublicKeys /\ OnKey(p)
    BY <1>0, <1>3, ReceiveCases
  <2>2. joining' = joining
    BY <1>3 DEF ViewerReceives
  <2>3. 1 \in 1 .. Len(down) /\ down[1] = p
    BY <1>0, <2>1, <2>2, StreamShrinks
  <2>4. p.type # "history"
    BY <1>0, <2>3 DEF NoHistorySent
  <2>5. CASE OnJoined(p) \/ OnSnapshot(p) \/ OnKey(p)
    BY <1>1, <2>5 DEF OnJoined, OnSnapshot, OnKey, logVars
  <2>6. CASE p.body \in Messages /\ OnMessage(p)
    <3>1. CASE p.room = current_room
      <4> DEFINE new == Newest(Append(room_logs[p.room], p.body), LogLimit)
      <4>1. /\ room_logs' = [room_logs EXCEPT ![p.room] = new]
            /\ missed' = [missed EXCEPT ![p.room] = @ \ {p.body}]
        BY <2>6, <3>1 DEF OnMessage
      <4>2. p.room \in Rooms /\ room_logs[p.room] \in Seq(Messages)
        BY <1>0, PacketIs DEF LogsTyped
      <4>3. new # <<>>
        BY <2>6, <4>2, FullerLog
      <4> HIDE DEF new
      <4>4. \A r \in Rooms : \/ missed'[r] = missed[r] /\ room_logs'[r] = room_logs[r]
                             \/ room_logs'[r] = new
        BY <1>0, <4>1 DEF LogsTyped
      <4> QED
        BY <1>0, <4>3, <4>4 DEF MissedAfterSome
    <3>2. CASE p.room # current_room
      BY <1>1, <2>6, <3>2 DEF OnMessage
    <3> QED
      BY <3>1, <3>2
  <2> QED
    BY <2>1, <2>4, <2>5, <2>6
<1>4. ASSUME NEW forget \in BOOLEAN, Reconnect(forget) PROVE MissedAfterSome'
  <2>1. /\ room_logs' = IF forget THEN [r \in Rooms |-> <<>>] ELSE room_logs
        /\ missed' = [r \in Rooms |-> IF forget THEN {} ELSE missed[r]]
    BY <1>4 DEF Reconnect
  <2> QED
    BY <1>0, <2>1 DEF MissedAfterSome
<1> QED
  BY <1>1, <1>2, <1>3, <1>4, MissedCases

\* The step that matters: a message that may be missed is aimed at the viewer, if
\* it is in the room, and then sent; a "joined" packet sets the gap to whether
\* the log has messages (_away_gap).
LEMMA GapStep ==
    ASSUME GapInv, TalkNext, ~keep_history
    PROVE  GapOrStillToCome'
<1>0. /\ TalkTypeOK /\ RoomTyped /\ LogsTyped /\ WritersTyped /\ down \in Seq(Packets)
      /\ SeatInv /\ FreshInv /\ ViewInv
      /\ NoHistorySent /\ MissedAfterSome /\ GapOrStillToCome
  BY DEF GapInv, StreamInv, TalkTypeOK, RoomTyped
<1>1. ASSUME NEW s, Sent(s),
             seat \in Rooms => \A m \in missed'[seat] : m \in missed[seat] \/ Coming(m)'
      PROVE  GapOrStillToCome'
  <2>1. /\ s \in Seq(Packets) /\ down' = down \o s /\ Pending' = Pending
        /\ \A j \in 1 .. Len(s) : s[j].type # "joined"
        /\ \A t \in Threads : \A m :
             AtCast(t, m) => AtCast(t, m)' \/ \E j \in 1 .. Len(s) : Says(s[j], m)
        /\ UNCHANGED <<seat, up, away_gap>>
    BY <1>1 DEF Sent, viewerVars, logVars
  <2>2. /\ NoJoined' <=> NoJoined
        /\ \A i \in 1 .. Len(down) : i \in 1 .. Len(down') /\ down'[i] = down[i]
        /\ \A j \in 1 .. Len(s) : \E i \in 1 .. Len(down') : down'[i] = s[j]
    BY <1>0, <2>1, StreamGrows
  <2>3. \A p, m : Says(p, m) => Says(p, m)'
    BY <2>1 DEF Says
  <2>4. ASSUME NEW m, Coming(m) PROVE Coming(m)'
    <3>1. ASSUME NEW j \in 1 .. Len(s), Says(s[j], m) PROVE Coming(m)'
      <4>1. PICK i \in 1 .. Len(down') : down'[i] = s[j]
        BY <2>2
      <4>2. Says(s[j], m)'
        BY <2>1, <3>1 DEF Says
      <4> QED
        BY <2>1, <3>1, <4>1 DEF Coming, Says
    <3>2. ASSUME NEW i \in 1 .. Len(down), Says(down[i], m) PROVE Coming(m)'
      BY <2>1, <2>2, <3>2 DEF Coming, Says
    <3> QED
      BY <2>1, <2>4, <3>1, <3>2 DEF Coming
  <2> SUFFICES ASSUME NoJoined', seat' # Absent, up' = <<>>, ~away_gap',
                      NEW m \in missed'[seat']
               PROVE  Coming(m)'
    BY DEF GapOrStillToCome
  <2>5. seat \in Rooms /\ seat' = seat
    BY <1>0, <2>1 DEF RoomTyped
  <2>6. \A k \in missed[seat] : Coming(k)
    BY <1>0, <2>1, <2>2 DEF GapOrStillToCome
  <2> QED
    BY <1>1, <2>4, <2>5, <2>6
<1>2. ASSUME NEW a \in Authors, Aim(a) PROVE GapOrStillToCome'
  <2>0. PICK r, m : r = thread[a].room /\ m = thread[a].msg
    OBVIOUS
  <2>1. missed' = IF room_logs[r] = <<>> THEN missed ELSE [missed EXCEPT ![r] = @ \cup {m}]
    BY <1>2, <2>0 DEF Aim
  <2>2. a \in Threads /\ Sent(<<>>)
    BY <1>0, <1>2, ThreadsQuiet DEF Threads
  <2>3. PICK th : /\ Goes(a, th) /\ th.room = r /\ th.msg = m
                  /\ seat = r => th.pc = "cast" /\ th.to
    BY <1>0, <1>2, <2>0, <2>2, AimGoes
  <2>4. thread'[a] = th /\ seat' = seat
    BY <1>0, <1>2, <2>2, <2>3, OneThread DEF Aim
  <2>5. seat = r => AtCast(a, m)'
    BY <2>3, <2>4 DEF AtCast
  <2>6. ASSUME seat \in Rooms, NEW k \in missed'[seat]
        PROVE  k \in missed[seat] \/ Coming(k)'
    <3>1. k \in missed[seat] \/ (r = seat /\ k = m)
      BY <1>0, <2>1, <2>6 DEF LogsTyped
    <3> QED
      BY <2>2, <2>5, <3>1 DEF Coming
  <2> QED
    BY <1>1, <2>2, <2>6
<1>3. ASSUME NEW s, Sent(s), UNCHANGED missed PROVE GapOrStillToCome'
  BY <1>1, <1>3
<1>4. ASSUME SendJoined, Pending PROVE GapOrStillToCome'
  <2>1. ~NoJoined'
    BY <1>0, <1>4, JoinedSends
  <2> QED
    BY <2>1 DEF GapOrStillToCome
<1>5. CASE TakeSeat
  BY <1>5, TakeSeatBlinds DEF GapOrStillToCome
<1>6. CASE ViewerReceives
  <2>1. PICK p \in Packets :
             /\ down # <<>> /\ p = Head(down) /\ down' = Tail(down)
             /\ \/ p.type = "joined" /\ p.body \in SUBSET People /\ OnJoined(p)
                \/ p.type = "history" /\ p.body \in Seq(Messages) /\ OnHistory(p)
                \/ p.type = "message" /\ p.body \in Messages /\ OnMessage(p)
                \/ /\ p.type = "room_snapshot" /\ p.body.users \in SUBSET People
                   /\ p.body.moved \in SUBSET People /\ OnSnapshot(p)
                \/ p.type = "key" /\ p.body \in PublicKeys /\ OnKey(p)
    BY <1>0, <1>6, ReceiveCases
  <2>2. UNCHANGED <<thread, joining, seat, up>>
    BY <1>6 DEF ViewerReceives
  <2>3. /\ 1 \in 1 .. Len(down) /\ down[1] = p
        /\ \A i \in 1 .. Len(down') : down'[i] = down[i + 1]
        /\ \A i \in 1 .. Len(down) : i = 1 \/ (i - 1 \in 1 .. Len(down') /\ (i - 1) + 1 = i)
        /\ NoJoined' <=> Fresh(1)
        /\ NoJoined <=> Fresh(1) /\ p.type # "joined"
    BY <1>0, <2>1, <2>2, StreamShrinks
  <2>4. p.type # "history" /\ p.room \in Rooms
    BY <1>0, <2>3, PacketIs DEF NoHistorySent
  <2> SUFFICES ASSUME NoJoined', seat # Absent, up = <<>>, ~away_gap',
                      NEW m \in missed'[seat]
               PROVE  Coming(m)'
    BY <2>2 DEF GapOrStillToCome
  <2>5. Fresh(1) /\ seat \in Rooms /\ (p.type = "joined" => p.room = seat)
    BY <1>0, <2>3, <2>4 DEF FreshInv, RoomTyped
  <2>6. ASSUME Coming(m), ~Says(p, m)
        PROVE  Coming(m)'
    <3>1. CASE \E t \in Threads : AtCast(t, m)
      BY <2>2, <3>1 DEF Coming, AtCast
    <3>2. CASE \E i \in 1 .. Len(down) : Says(down[i], m)
      <4>1. PICK i \in 1 .. Len(down) : Says(down[i], m)
        BY <3>2
      <4>2. i - 1 \in 1 .. Len(down') /\ (i - 1) + 1 = i
        BY <2>3, <2>6, <4>1
      <4>3. down'[i - 1] = down[i]
        BY <2>3, <4>2
      <4>4. \E j \in 1 .. Len(down') : Says(down'[j], m)
        BY <4>1, <4>2, <4>3
      <4> QED
        BY <2>2, <4>4 DEF Coming, Says
    <3> QED
      BY <2>6, <3>1, <3>2 DEF Coming
  <2>7. ASSUME p.type # "joined", away_gap' = away_gap, m \in missed[seat] PROVE Coming(m)
    BY <1>0, <2>3, <2>5, <2>7 DEF GapOrStillToCome
  <2>8. CASE p.type = "joined" /\ OnJoined(p)
    <3>1. away_gap' = Gap(room_logs[p.room]) /\ missed' = missed
      BY <2>8 DEF OnJoined
    <3>2. room_logs[seat] = <<>>
      BY <2>5, <2>8, <3>1 DEF Gap
    <3> QED
      BY <1>0, <2>5, <3>1, <3>2 DEF MissedAfterSome
  <2>9. CASE p.type = "message" /\ p.body \in Messages /\ OnMessage(p)
    <3>1. current_room = seat
      BY <1>0, <2>3, <2>5, <2>9 DEF ViewInv
    <3>2. CASE p.room = seat
      <4>1. missed' = [missed EXCEPT ![seat] = @ \ {p.body}] /\ away_gap' = away_gap
        BY <2>9, <3>1, <3>2 DEF OnMessage
      <4>2. m \in missed[seat] /\ m # p.body
        BY <1>0, <2>5, <4>1 DEF LogsTyped
      <4> QED
        BY <2>6, <2>7, <2>9, <4>1, <4>2 DEF Says
    <3>3. CASE p.room # seat
      <4>1. missed' = missed /\ away_gap' = away_gap
        BY <2>9, <3>1, <3>3 DEF OnMessage
      <4> QED
        BY <2>6, <2>7, <2>9, <3>3, <4>1 DEF Says
    <3> QED
      BY <3>2, <3>3
  <2>10. CASE (p.type = "room_snapshot" /\ OnSnapshot(p)) \/ (p.type = "key" /\ OnKey(p))
    <3>1. missed' = missed /\ away_gap' = away_gap
      BY <2>10 DEF OnSnapshot, OnKey, logVars
    <3> QED
      BY <2>6, <2>7, <2>10, <3>1 DEF Says
  <2> QED
    BY <2>1, <2>4, <2>8, <2>9, <2>10
<1>7. ASSUME NEW r \in Rooms, SwitchRoom(r) PROVE GapOrStillToCome'
  <2>1. up' = Append(up, r)
    BY <1>7 DEF SwitchRoom
  <2>2. up' # <<>>
    BY <1>0, <2>1, AppendProperties DEF RoomTyped
  <2> QED
    BY <2>2 DEF GapOrStillToCome
<1>8. ASSUME NEW forget \in BOOLEAN, Reconnect(forget) PROVE GapOrStillToCome'
  BY <1>8 DEF Reconnect, GapOrStillToCome
<1>9. \/ UNCHANGED missed \/ (\E a \in Authors : Aim(a)) \/ ViewerReceives
      \/ \E forget \in BOOLEAN : Reconnect(forget)
  BY MissedCases
<1> QED
  BY <1>0, <1>2, <1>3, <1>4, <1>5, <1>6, <1>7, <1>8, <1>9, StreamCases

\* So every step keeps the invariant,
LEMMA GapInvStep ==
    ASSUME GapInv, [TalkNext]_talkVars
    PROVE  GapInv'
<1>1. StreamInv'
  BY StreamInvStep DEF GapInv
<1>2. CASE TalkNext
  <2>0. keep_history' = keep_history
    BY <1>2, SetUpKept DEF setUp
  <2>1. CASE keep_history
    BY <1>1, <2>0, <2>1 DEF GapInv
  <2>2. CASE ~keep_history
    BY <1>1, <1>2, <2>2, NoHistoryStep, MissedStep, GapStep DEF GapInv
  <2> QED
    BY <2>1, <2>2
<1>3. CASE UNCHANGED talkVars
  <2>1. NoJoined' <=> NoJoined
    BY <1>3 DEF NoJoined, Pending, talkVars
  <2>2. \A m : Coming(m)' <=> Coming(m)
    BY <1>3 DEF Coming, AtCast, Says, talkVars
  <2> QED
    BY <1>1, <1>3, <2>1, <2>2
       DEF GapInv, NoHistorySent, MissedAfterSome, GapOrStillToCome, talkVars
<1> QED
  BY <1>2, <1>3

\* Without a history, at every moment, a message missed from a log is announced
\* by the note about the gap or on its way (ui.py, _away_gap).
THEOREM GapAlways == TalkSpec => []GapInv
<1>1. ASSUME TalkInit PROVE GapInv
  <2>1. /\ down = <<>> /\ seat = Absent /\ missed = [r \in Rooms |-> {}]
    BY <1>1 DEF TalkInit
  <2>2. Len(down) = 0
    BY <2>1, EmptySeq
  <2> QED
    BY <1>1, <2>1, <2>2, StreamInvInit
       DEF GapInv, NoHistorySent, MissedAfterSome, GapOrStillToCome
<1> QED
  BY <1>1, GapInvStep, PTL DEF TalkSpec

\* Without a history, a log that lacks what was said after something it has says
\* that there is a gap, however the viewer went and came (ui.py, _away_gap).
THEOREM GapIsTold == TalkSpec => []GapTold
<1>1. ASSUME GapInv PROVE GapTold
  <2> SUFFICES ASSUME Settled, ~keep_history, missed[seat] # {} PROVE away_gap
    BY DEF GapTold
  <2>1. seat # Absent /\ joining = <<>> /\ up = <<>> /\ down = <<>>
    BY DEF Settled
  <2>2. Len(down) = 0
    BY <2>1, EmptySeq
  <2>3. NoJoined
    BY <2>1, <2>2 DEF NoJoined, Pending
  <2>4. \A m : ~Coming(m)
    BY <2>1, <2>2 DEF Settled, Coming, AtCast
  <2> QED
    BY <1>1, <2>1, <2>3, <2>4 DEF GapInv, GapOrStillToCome
<1> QED
  BY <1>1, GapAlways, PTL

----------------------------------------------------------------------------
(* With a history: nothing of it is lost. *)

\* A room has at most one list in the history.
Distinct(h) == \A i, j \in 1 .. Len(h) : h[i].room = h[j].room => i = j

OneListEach == Distinct(history)

\* Has the viewer's thread read the history, with nothing asked for since?
Asked ==
    /\ seat # Absent /\ up = <<>>
    /\ joining # <<>> =>
         \/ Head(joining).type = "room_snapshot"
         \/ Head(joining).type = "history" /\ Head(joining).body # Absent

\* Does a thread hold the room's list, taken out of the history?
Holds(t) == thread[t].pc = "put" /\ thread[t].room = seat

\* The lists of the room: the one in the history and those held.
Lists == {e.list : e \in {f \in ToSet(history) : f.room = seat}}
           \cup {thread[t].held : t \in {u \in Threads : Holds(u)}}

\* A message is on the screen, or a thread is about to broadcast it, or it is
\* read to be sent with the history, or a fresh packet brings it.
Covered(m) ==
    \/ m \in ToSet(room_logs[seat])
    \/ \E t \in Threads : AtCast(t, m)
    \/ InHand(m)
    \/ \E i \in 1 .. Len(down) : Fresh(i) /\ Brings(down[i], m)

\* Whatever is selected of a list that is or comes to be the history is covered.
NothingLost ==
    keep_history /\ ~torn /\ Asked =>
      \A list \in Lists : \A m \in ToSet(Selected(list)) : Covered(m)

\* The inductive invariant of a server with a history.
HistoryInv == StreamInv /\ OneListEach /\ NothingLost

\* No log is as long as ROOM_LOG_LIMIT: nothing has fallen out of it.
NotFull == \A r \in Rooms : Len(room_logs[r]) < LogLimit

\* With its list taken out, a room has none.
LEMMA WithoutLeavesNone ==
    ASSUME WritersTyped, OneListEach, NEW r \in Rooms
    PROVE  /\ Distinct(Without(r))
           /\ \A k \in 1 .. Len(Without(r)) : Without(r)[k].room # r
<1> DEFINE L == [room : Rooms, list : Seq(Messages)]
           i == CHOOSE k \in At(r) : TRUE
<1>1. history \in Seq(L)
  BY DEF WritersTyped
<1>2. CASE At(r) = {}
  <2>1. Without(r) = history
    BY <1>2 DEF Without
  <2> QED
    BY <1>2, <2>1 DEF OneListEach, At
<1>3. CASE At(r) # {}
  <2>1. i \in At(r) /\ i \in 1 .. Len(history) /\ history[i].room = r /\ Len(history) \in Nat
    BY <1>1, <1>3, LenProperties DEF At
  <2>2. Without(r) = RemoveAt(history, i)
    BY <1>3 DEF Without
  <2> HIDE DEF i, L
  <2> DEFINE w == Without(r)
  <2>3. /\ Len(w) = Len(history) - 1
        /\ \A k \in 1 .. Len(history) - 1 : w[k] = IF k < i THEN history[k] ELSE history[k + 1]
    BY <1>1, <2>1, <2>2, RemovedIs
  <2> HIDE DEF w
  <2> DEFINE old(k) == IF k < i THEN k ELSE k + 1
             n == Len(history)
  <2>4. \A k \in 1 .. n - 1 : old(k) \in 1 .. n /\ w[k] = history[old(k)] /\ old(k) # i
    BY <2>1, <2>3
  <2>5. \A j, k \in 1 .. n - 1 : old(j) = old(k) => j = k
    BY <2>1
  <2> HIDE DEF old
  <2>6. \A j, k \in 1 .. n : history[j].room = history[k].room => j = k
    BY DEF OneListEach, Distinct
  <2>7. \A k \in 1 .. n - 1 : w[k].room # r
    BY <2>1, <2>4, <2>6
  <2>8. \A j, k \in 1 .. n - 1 : w[j].room = w[k].room => j = k
    BY <2>4, <2>5, <2>6
  <2> QED
    BY <2>3, <2>7, <2>8 DEF Distinct, w
<1> QED
  BY <1>2, <1>3

\* The rooms of the newest lists are as distinct as before,
LEMMA NewestDistinct ==
    ASSUME NEW S, NEW s \in Seq(S), NEW n \in Nat, Distinct(s)
    PROVE  Distinct(Newest(s, n))
<1> DEFINE t == Newest(s, n)
           d == Len(s) - Len(t)
<1>1. /\ Len(t) \in Nat /\ Len(t) <= Len(s) /\ Len(s) \in Nat
      /\ \A i \in 1 .. Len(t) : t[i] = s[i + d]
  <2>1. Len(s) \in Nat
    BY LenProperties
  <2>2. Len(t) = (IF Len(s) <= n THEN Len(s) ELSE n) /\ \A i \in 1 .. Len(t) : t[i] = s[i + d]
    BY NewestIs
  <2> HIDE DEF t, d
  <2>3. Len(t) \in Nat /\ Len(t) <= Len(s)
    BY <2>1, <2>2
  <2> QED
    BY <2>1, <2>2, <2>3
<1> HIDE DEF t
<1>2. d \in Nat /\ \A i \in 1 .. Len(t) : i + d \in 1 .. Len(s)
  BY <1>1
<1> HIDE DEF d
<1>3. \A i, j \in 1 .. Len(t) : t[i].room = t[j].room => i + d = j + d
  BY <1>1, <1>2 DEF Distinct
<1>4. \A i, j \in 1 .. Len(t) : i + d = j + d => i = j
  BY <1>1, <1>2
<1> QED
  BY <1>3, <1>4 DEF Distinct, t

\* and so they are with the list of a room that had none.
LEMMA AppendDistinct ==
    ASSUME NEW S, NEW s \in Seq(S), NEW e \in S, Distinct(s),
           \A k \in 1 .. Len(s) : s[k].room # e.room
    PROVE  Distinct(Append(s, e))
<1> DEFINE t == Append(s, e)
           n == Len(s)
<1>1. n \in Nat /\ Len(t) = n + 1 /\ t[n + 1] = e /\ \A i \in 1 .. n : t[i] = s[i]
  BY LenProperties, AppendProperties
<1>2. \A i, j \in 1 .. n : s[i].room = s[j].room => i = j
  BY DEF Distinct
<1>3. \A k \in 1 .. n : s[k].room # e.room
  OBVIOUS
<1> HIDE DEF t, n
<1>4. \A i \in 1 .. n + 1 : i \in 1 .. n \/ i = n + 1
  BY <1>1
<1>5. \A i, j \in 1 .. n + 1 : t[i].room = t[j].room => i = j
  BY <1>1, <1>2, <1>3, <1>4
<1> QED
  BY <1>1, <1>5 DEF Distinct, t

\* What PutBack makes of the history.
LEMMA PutBackHistory ==
    ASSUME TalkTypeOK, NEW a \in Threads, PutBack(a)
    PROVE  \E list \in Seq(Messages) :
             /\ thread[a].room \in Rooms /\ thread[a].msg \in Messages /\ thread[a].held \in Seq(Messages)
             /\ list = Newest(Append(thread[a].held, thread[a].msg), HistoryLimit)
             /\ Without(thread[a].room) \in Seq([room : Rooms, list : Seq(Messages)])
             /\ ToSet(Without(thread[a].room)) \subseteq ToSet(history)
             /\ [room |-> thread[a].room, list |-> list] \in [room : Rooms, list : Seq(Messages)]
             /\ history' = Newest(Append(Without(thread[a].room),
                                         [room |-> thread[a].room, list |-> list]), HistoryRooms)
<1> DEFINE r == thread[a].room
           m == thread[a].msg
           list == Newest(Append(thread[a].held, m), HistoryLimit)
<1>1. history' = Newest(Append(Without(r), [room |-> r, list |-> list]), HistoryRooms)
  BY DEF PutBack
<1>2. WritersTyped
  BY DEF TalkTypeOK
<1>3. r \in Rooms /\ m \in Messages /\ thread[a].held \in Seq(Messages)
  BY PutBackGoes
<1>4. list \in Seq(Messages)
  <2>1. Append(thread[a].held, m) \in Seq(Messages)
    BY <1>3, AppendElements
  <2> QED
    BY <2>1, NewestIs, TalkAssumption
<1>5. /\ Without(r) \in Seq([room : Rooms, list : Seq(Messages)])
      /\ ToSet(Without(r)) \subseteq ToSet(history)
  BY <1>2, <1>3, WithoutIs
<1> QED
  BY <1>1, <1>3, <1>4, <1>5

\* Which steps change the history.
LEMMA HistoryCases ==
    ASSUME TalkNext
    PROVE  history' = history \/ \E a \in Authors : TakeOut(a) \/ PutBack(a)
<1>1. ASSUME NEW a \in Authors, NEW r \in Rooms, Write(a, r) PROVE history' = history
  BY <1>1 DEF Write
<1>2. ASSUME NEW a \in Authors, Aim(a) \/ Cast(a) PROVE history' = history
  BY <1>2 DEF Aim, Cast
<1>3. ASSUME NEW t \in Threads, ReadList(t) \/ ReadTargets(t) \/ Tell(t) PROVE history' = history
  BY <1>3 DEF ReadList, ReadTargets, Tell
<1>4. ASSUME NEW p \in People,
             \/ \E r \in Rooms : Connect(p, r)
             \/ \E goal \in Rooms \cup {Absent} : Leave(p, goal)
             \/ Enter(p)
      PROVE  history' = history
  BY <1>4 DEF Connect, Leave, Enter
<1>5. ASSUME NEW p \in People, SendKey(p) PROVE history' = history
  BY <1>5 DEF SendKey
<1>6. ASSUME TakeSeat \/ ReadJoined \/ SendJoined \/ ViewerReceives PROVE history' = history
  BY <1>6 DEF TakeSeat, ReadJoined, SendJoined, ViewerReceives
<1>7. ASSUME NEW r \in Rooms, SwitchRoom(r) PROVE history' = history
  BY <1>7 DEF SwitchRoom
<1>8. ASSUME NEW forget \in BOOLEAN, Reconnect(forget) PROVE history' = history
  BY <1>8 DEF Reconnect
<1> QED
  BY <1>1, <1>2, <1>3, <1>4, <1>5, <1>6, <1>7, <1>8 DEF TalkNext

\* Taking a list out and putting one back leaves each room one list at most.
LEMMA OneListStep ==
    ASSUME TalkTypeOK, OneListEach, TalkNext
    PROVE  OneListEach'
<1>0. WritersTyped
  BY DEF TalkTypeOK
<1>1. CASE history' = history
  BY <1>1 DEF OneListEach, Distinct
<1>2. ASSUME NEW a \in Authors, TakeOut(a) PROVE OneListEach'
  <2>1. history' = Without(thread[a].room)
    BY <1>2 DEF TakeOut
  <2>2. thread[a].room \in Rooms
    BY <1>2, TakeOutGoes DEF Threads
  <2>3. Distinct(Without(thread[a].room))
    BY <1>0, <2>2, WithoutLeavesNone
  <2> QED
    BY <2>1, <2>3 DEF OneListEach, Distinct
<1>3. ASSUME NEW a \in Authors, PutBack(a) PROVE OneListEach'
  <2> DEFINE r == thread[a].room
             L == [room : Rooms, list : Seq(Messages)]
  <2>1. PICK list \in Seq(Messages) :
             /\ r \in Rooms
             /\ Without(r) \in Seq(L)
             /\ [room |-> r, list |-> list] \in L
             /\ history' = Newest(Append(Without(r), [room |-> r, list |-> list]), HistoryRooms)
    BY <1>3, PutBackHistory DEF Threads
  <2> DEFINE e == [room |-> r, list |-> list]
  <2>2. e \in L /\ e.room = r
    BY <2>1
  <2>3. history' = Newest(Append(Without(r), e), HistoryRooms)
    BY <2>1
  <2>4. Distinct(Without(r)) /\ \A k \in 1 .. Len(Without(r)) : Without(r)[k].room # r
    BY <1>0, <2>1, WithoutLeavesNone
  <2> HIDE DEF e, L
  <2>5. Distinct(Append(Without(r), e)) /\ Append(Without(r), e) \in Seq(L)
    BY <2>1, <2>2, <2>4, AppendDistinct, AppendProperties
  <2>6. Distinct(Newest(Append(Without(r), e), HistoryRooms))
    BY <2>5, NewestDistinct, TalkAssumption
  <2> QED
    BY <2>3, <2>6 DEF OneListEach, Distinct
<1> QED
  BY <1>1, <1>2, <1>3, HistoryCases

\* Two threads at one list are not forgotten.
LEMMA TornStays ==
    ASSUME TalkTypeOK, TalkNext, torn
    PROVE  torn'
<1>1. ASSUME NEW a \in Authors, NEW r \in Rooms, Write(a, r) PROVE torn'
  BY <1>1 DEF Write
<1>2. ASSUME NEW a \in Authors, TakeOut(a) \/ PutBack(a) \/ Aim(a) \/ Cast(a) PROVE torn'
  BY <1>2 DEF TakeOut, PutBack, Aim, Cast
<1>3. ASSUME NEW t \in Threads, ReadList(t) \/ ReadTargets(t) \/ Tell(t) PROVE torn'
  BY <1>3 DEF ReadList, ReadTargets, Tell
<1>4. ASSUME NEW p \in People,
             \/ \E r \in Rooms : Connect(p, r)
             \/ \E goal \in Rooms \cup {Absent} : Leave(p, goal)
             \/ Enter(p)
      PROVE  torn'
  BY <1>4 DEF Connect, Leave, Enter
<1>5. ASSUME NEW p \in People, SendKey(p) PROVE torn'
  BY <1>5 DEF SendKey
<1>6. ASSUME TakeSeat \/ SendJoined \/ ViewerReceives PROVE torn'
  BY <1>6 DEF TakeSeat, SendJoined, ViewerReceives
<1>7. ASSUME ReadJoined PROVE torn'
  BY <1>7, ReadCases DEF TalkTypeOK
<1>8. ASSUME NEW r \in Rooms, SwitchRoom(r) PROVE torn'
  BY <1>8 DEF SwitchRoom
<1>9. ASSUME NEW forget \in BOOLEAN, Reconnect(forget) PROVE torn'
  BY <1>9 DEF Reconnect
<1> QED
  BY <1>1, <1>2, <1>3, <1>4, <1>5, <1>6, <1>7, <1>8, <1>9 DEF TalkNext

\* The history of the room, if anything of it is selected, is one of its lists.
LEMMA KeptIsListed ==
    ASSUME TalkTypeOK, NEW m, seat \in Rooms, m \in ToSet(Selected(Kept(seat)))
    PROVE  Kept(seat) \in Lists
<1>1. WritersTyped
  BY DEF TalkTypeOK
<1>2. Kept(seat) \in Seq(Messages) /\ (Kept(seat) # <<>> => \E i \in At(seat) : Kept(seat) = history[i].list)
  BY <1>1, WithoutIs
<1>3. m \in ToSet(Kept(seat))
  BY <1>2, SelectedElements
<1>4. Kept(seat) # <<>>
  <2>1. Len(Kept(seat)) # 0
    BY <1>2, <1>3, Elements
  <2> QED
    BY <2>1, EmptySeq
<1>5. PICK i \in At(seat) : Kept(seat) = history[i].list
  BY <1>2, <1>4
<1>6. history[i] \in ToSet(history) /\ history[i].room = seat
  BY <1>1, <1>5, Elements DEF At, WritersTyped
<1> QED
  BY <1>5, <1>6 DEF Lists

\* With no thread at it, it is the only one: what the viewer's thread reads.
LEMMA OnlyList ==
    ASSUME TalkTypeOK, OneListEach, seat \in Rooms,
           NEW list \in Lists, \A t \in Threads : ~Holds(t)
    PROVE  list = Kept(seat)
<1>1. PICK e \in ToSet(history) : e.room = seat /\ e.list = list
  BY DEF Lists
<1>2. PICK i \in 1 .. Len(history) : history[i] = e
  BY <1>1, Elements DEF TalkTypeOK, WritersTyped
<1>3. i \in At(seat) /\ \A k \in At(seat) : k = i
  BY <1>1, <1>2 DEF At, OneListEach, Distinct
<1>4. (CHOOSE k \in At(seat) : TRUE) = i
  BY <1>3
<1> QED
  BY <1>1, <1>2, <1>3, <1>4 DEF Kept

\* Once the history is read no "joined" is to be sent.
LEMMA AskedNotPending ==
    ASSUME Asked
    PROVE  ~Pending
BY DEF Asked, Pending

\* Sending takes nothing out of cover.
LEMMA CoveredBySent ==
    ASSUME TalkTypeOK, ~Pending, NEW s, Sent(s), NEW m, Covered(m)
    PROVE  Covered(m)'
<1>1. /\ s \in Seq(Packets) /\ down \in Seq(Packets) /\ down' = down \o s /\ Pending' = Pending
      /\ \A j \in 1 .. Len(s) : s[j].type # "joined"
      /\ \A t \in Threads : AtCast(t, m) => AtCast(t, m)' \/ \E j \in 1 .. Len(s) : Says(s[j], m)
      /\ InHand(m) => InHand(m)' \/ \E j \in 1 .. Len(s) : Brings(s[j], m)
      /\ UNCHANGED <<seat, room_logs>>
  BY DEF Sent, viewerVars, logVars, TalkTypeOK, RoomTyped
<1>2. /\ \A i \in 1 .. Len(down) : i \in 1 .. Len(down') /\ down'[i] = down[i] /\ (Fresh(i)' <=> Fresh(i))
      /\ \A j \in 1 .. Len(s) : \E i \in 1 .. Len(down') : down'[i] = s[j] /\ (Fresh(i)' <=> ~Pending)
  BY <1>1, StreamGrows
<1>3. CASE m \in ToSet(room_logs[seat])
  BY <1>1, <1>3 DEF Covered
<1>4. ASSUME NEW j \in 1 .. Len(s), Brings(s[j], m) PROVE Covered(m)'
  <2>1. PICK i \in 1 .. Len(down') : down'[i] = s[j] /\ Fresh(i)'
    BY <1>2
  <2> QED
    BY <1>1, <1>4, <2>1 DEF Covered, Brings, Says
<1>5. ASSUME NEW t \in Threads, AtCast(t, m) PROVE Covered(m)'
  <2>1. CASE AtCast(t, m)'
    BY <2>1 DEF Covered
  <2>2. ASSUME NEW j \in 1 .. Len(s), Says(s[j], m) PROVE Covered(m)'
    BY <1>4, <2>2 DEF Brings
  <2> QED
    BY <1>1, <1>5, <2>1, <2>2
<1>6. ASSUME InHand(m) PROVE Covered(m)'
  <2>1. CASE InHand(m)'
    BY <2>1 DEF Covered
  <2> QED
    BY <1>1, <1>4, <1>6, <2>1
<1>7. ASSUME NEW i \in 1 .. Len(down), Fresh(i), Brings(down[i], m) PROVE Covered(m)'
  <2>1. i \in 1 .. Len(down') /\ down'[i] = down[i] /\ Fresh(i)'
    BY <1>2, <1>7
  <2> QED
    BY <1>1, <1>7, <2>1 DEF Covered, Brings, Says
<1> QED
  BY <1>3, <1>5, <1>6, <1>7 DEF Covered

\* What a step that only sends has to show of the lists.
LEMMA HeldBySent ==
    ASSUME HistoryInv, TalkNext, NEW s, Sent(s), Asked' => Asked,
           keep_history /\ ~torn /\ Asked =>
             \A list \in Lists' : \A m \in ToSet(Selected(list)) :
               \/ \E known \in Lists : m \in ToSet(Selected(known))
               \/ \E t \in Threads : AtCast(t, m)'
    PROVE  NothingLost'
<1>1. keep_history' = keep_history
  BY SetUpKept DEF setUp
<1>2. TalkTypeOK
  BY DEF HistoryInv, StreamInv
<1> SUFFICES ASSUME keep_history', ~torn', Asked', NEW list \in Lists', NEW m \in ToSet(Selected(list))
             PROVE  Covered(m)'
  BY DEF NothingLost
<1>3. ~torn /\ Asked
  BY <1>2, TornStays
<1>4. ~Pending
  BY <1>3, AskedNotPending
<1>5. CASE \E known \in Lists : m \in ToSet(Selected(known))
  <2>1. Covered(m)
    BY <1>1, <1>3, <1>5 DEF HistoryInv, NothingLost
  <2> QED
    BY <1>2, <1>4, <2>1, CoveredBySent
<1>6. CASE \E t \in Threads : AtCast(t, m)'
  BY <1>6 DEF Covered
<1> QED
  BY <1>1, <1>3, <1>5, <1>6

\* Of the lists that are held, a thread going on changes its own only.
LEMMA ListsOfOne ==
    ASSUME TalkTypeOK, NEW t \in Threads, NEW th, Goes(t, th), seat' = seat
    PROVE  \A list \in Lists' :
             \/ \E e \in ToSet(history') : e.room = seat /\ e.list = list
             \/ list \in Lists
             \/ th.pc = "put" /\ th.room = seat /\ th.held = list
<1>1. thread'[t] = th /\ \A u \in Threads : u # t => thread'[u] = thread[u]
  BY OneThread DEF TalkTypeOK
<1> SUFFICES ASSUME NEW list \in Lists'
             PROVE  \/ \E e \in ToSet(history') : e.room = seat /\ e.list = list
                    \/ list \in Lists
                    \/ th.pc = "put" /\ th.room = seat /\ th.held = list
  OBVIOUS
<1>2. \/ \E e \in ToSet(history') : e.room = seat /\ e.list = list
      \/ \E u \in Threads : thread'[u].pc = "put" /\ thread'[u].room = seat /\ thread'[u].held = list
  BY DEF Lists, Holds
<1>3. ASSUME NEW u \in Threads, u # t,
             thread'[u].pc = "put", thread'[u].room = seat, thread'[u].held = list
      PROVE  list \in Lists
  BY <1>1, <1>3 DEF Lists, Holds
<1> QED
  BY <1>1, <1>2, <1>3

\* A step of a thread that is not at the history leaves the lists alone.
LEMMA NothingLostAside ==
    ASSUME HistoryInv, TalkNext, NEW t \in Threads, \E th : Goes(t, th) /\ th.pc # "put",
           UNCHANGED <<history, seat, joining, up>>, \E s : Sent(s)
    PROVE  NothingLost'
<1>1. PICK th : Goes(t, th) /\ th.pc # "put"
  OBVIOUS
<1>2. TalkTypeOK
  BY DEF HistoryInv, StreamInv
<1>3. \A list \in Lists' :
        (\E e \in ToSet(history) : e.room = seat /\ e.list = list) \/ list \in Lists
  BY <1>1, <1>2, ListsOfOne
<1>4. \A list \in Lists' : list \in Lists
  BY <1>3 DEF Lists
<1>5. Asked' <=> Asked
  BY DEF Asked
<1> QED
  BY <1>4, <1>5, HeldBySent

\* The list taken out is the one that was there,
LEMMA NothingLostTakeOut ==
    ASSUME HistoryInv, TalkNext, NEW a \in Authors, TakeOut(a)
    PROVE  NothingLost'
<1>0. TalkTypeOK /\ WritersTyped /\ a \in Threads
  BY DEF HistoryInv, StreamInv, TalkTypeOK, Threads
<1>1. PICK r : r = thread[a].room
  OBVIOUS
<1>2. /\ r \in Rooms
      /\ \E th : Goes(a, th) /\ th.pc = "put" /\ th.room = r /\ th.held = Kept(r)
  BY <1>0, <1>1, TakeOutGoes
<1>3. PICK th : Goes(a, th) /\ th.pc = "put" /\ th.room = r /\ th.held = Kept(r)
  BY <1>2
<1>4. history' = Without(r) /\ UNCHANGED <<seat, joining, up>>
  BY <1>1 DEF TakeOut
<1>5. ToSet(Without(r)) \subseteq ToSet(history)
  BY <1>0, <1>2, WithoutIs
<1>6. ASSUME NEW list \in Lists', NEW m \in ToSet(Selected(list)) PROVE list \in Lists
  <2>1. \/ \E e \in ToSet(history') : e.room = seat /\ e.list = list
        \/ list \in Lists
        \/ r = seat /\ list = Kept(seat)
    BY <1>0, <1>3, <1>4, ListsOfOne
  <2>2. CASE \E e \in ToSet(history') : e.room = seat /\ e.list = list
    BY <1>4, <1>5, <2>2 DEF Lists
  <2>3. CASE r = seat /\ list = Kept(seat)
    BY <1>0, <1>2, <1>6, <2>3, KeptIsListed
  <2> QED
    BY <2>1, <2>2, <2>3
<1>7. Sent(<<>>) /\ (Asked' <=> Asked)
  BY <1>0, <1>4, ThreadsQuiet DEF Asked
<1> QED
  BY <1>6, <1>7, HeldBySent

\* and the list put back is it with the message, which is broadcast afterwards.
LEMMA NothingLostPutBack ==
    ASSUME HistoryInv, TalkNext, NEW a \in Authors, PutBack(a)
    PROVE  NothingLost'
<1>0. TalkTypeOK /\ WritersTyped /\ a \in Threads
  BY DEF HistoryInv, StreamInv, TalkTypeOK, Threads
<1>1. PICK r, m, held : r = thread[a].room /\ m = thread[a].msg /\ held = thread[a].held
  OBVIOUS
<1> DEFINE L == [room : Rooms, list : Seq(Messages)]
<1>2. PICK new \in Seq(Messages) :
        /\ r \in Rooms /\ m \in Messages /\ held \in Seq(Messages)
        /\ new = Newest(Append(held, m), HistoryLimit)
        /\ Without(r) \in Seq(L) /\ ToSet(Without(r)) \subseteq ToSet(history)
        /\ [room |-> r, list |-> new] \in L
        /\ history' = Newest(Append(Without(r), [room |-> r, list |-> new]), HistoryRooms)
  BY <1>0, <1>1, PutBackHistory
<1>3. /\ thread[a].pc = "put"
      /\ \E th : Goes(a, th) /\ th.pc = "aim" /\ th.room = r /\ th.msg = m
  BY <1>0, <1>1, PutBackGoes
<1>4. PICK th : Goes(a, th) /\ th.pc = "aim" /\ th.room = r /\ th.msg = m
  BY <1>3
<1>5. UNCHANGED <<seat, joining, up>>
  BY DEF PutBack
<1>6. r = seat => AtCast(a, m)'
  BY <1>0, <1>4, <1>5, OneThread DEF AtCast
<1>7. r = seat => held \in Lists
  BY <1>0, <1>1, <1>3 DEF Lists, Holds
<1> DEFINE e == [room |-> r, list |-> new]
<1>8. e \in L /\ e.room = r /\ e.list = new
  BY <1>2
<1>9. history' = Newest(Append(Without(r), e), HistoryRooms)
  BY <1>2
<1> HIDE DEF e, L
<1>10. \A f \in ToSet(history') : f \in ToSet(history) \/ f = e
  <2>1. Append(Without(r), e) \in Seq(L) /\ ToSet(Append(Without(r), e)) = ToSet(Without(r)) \cup {e}
    BY <1>2, <1>8, AppendElements
  <2>2. ToSet(history') \subseteq ToSet(Append(Without(r), e))
    BY <1>9, <2>1, NewestElements, TalkAssumption
  <2> QED
    BY <1>2, <2>1, <2>2
<1>11. ToSet(Selected(new)) \subseteq ToSet(Selected(held)) \cup {m}
  BY <1>2, SelectedOfNewest
<1>12. ASSUME NEW list \in Lists', NEW x \in ToSet(Selected(list))
       PROVE  \/ \E known \in Lists : x \in ToSet(Selected(known))
              \/ \E t \in Threads : AtCast(t, x)'
  <2>1. (\E f \in ToSet(history') : f.room = seat /\ f.list = list) \/ list \in Lists
    BY <1>0, <1>4, <1>5, ListsOfOne
  <2>2. CASE list \in Lists
    BY <1>12, <2>2
  <2>3. CASE \E f \in ToSet(history) : f.room = seat /\ f.list = list
    BY <1>12, <2>3 DEF Lists
  <2>4. CASE r = seat /\ list = new
    <3>1. x \in ToSet(Selected(held)) \/ x = m
      BY <1>11, <1>12, <2>4
    <3>2. CASE x \in ToSet(Selected(held))
      BY <1>7, <2>4, <3>2
    <3>3. CASE x = m
      BY <1>0, <1>6, <2>4, <3>3
    <3> QED
      BY <3>1, <3>2, <3>3
  <2> QED
    BY <1>8, <1>10, <2>1, <2>2, <2>3, <2>4
<1>13. Sent(<<>>) /\ (Asked' <=> Asked)
  BY <1>0, <1>5, ThreadsQuiet DEF Asked
<1> QED
  BY <1>12, <1>13, HeldBySent

\* What the threads do besides, and the keys, does not touch the lists.
LEMMA NothingLostOthers ==
    ASSUME HistoryInv, TalkNext,
           \/ \E a \in Authors, r \in Rooms : Write(a, r)
           \/ \E a \in Authors : Aim(a) \/ Cast(a)
           \/ \E t \in Threads : ReadList(t) \/ ReadTargets(t) \/ Tell(t)
           \/ \E p \in People, r \in Rooms : Connect(p, r)
           \/ \E p \in People, goal \in Rooms \cup {Absent} : Leave(p, goal)
           \/ \E p \in People : Enter(p) \/ SendKey(p)
    PROVE  NothingLost'
<1>0. TalkTypeOK /\ Authors \subseteq Threads /\ People \subseteq Threads
  BY DEF HistoryInv, StreamInv, Threads
<1>1. ASSUME NEW a \in Authors, NEW r \in Rooms, Write(a, r) PROVE NothingLost'
  <2>1. \E th : Goes(a, th) /\ th.pc # "put"
    BY <1>0, <1>1, WriteGoes
  <2>2. Sent(<<>>)
    BY <1>0, <1>1, ThreadsQuiet
  <2>3. UNCHANGED <<history, seat, joining, up>>
    BY <1>1 DEF Write
  <2> QED
    BY <1>0, <2>1, <2>2, <2>3, NothingLostAside
<1>2. ASSUME NEW a \in Authors, Aim(a) PROVE NothingLost'
  <2>1. \E th : Goes(a, th) /\ th.pc # "put"
    BY <1>0, <1>2, AimGoes
  <2>2. Sent(<<>>)
    BY <1>0, <1>2, ThreadsQuiet
  <2>3. UNCHANGED <<history, seat, joining, up>>
    BY <1>2 DEF Aim
  <2> QED
    BY <1>0, <2>1, <2>2, <2>3, NothingLostAside
<1>3. ASSUME NEW a \in Authors, Cast(a) PROVE NothingLost'
  <2>1. \E th : Goes(a, th) /\ th.pc # "put"
    BY <1>0, <1>3, CastGoes
  <2>2. \E s : Sent(s)
    BY <1>0, <1>3, CastSends
  <2>3. UNCHANGED <<history, seat, joining, up>>
    BY <1>3 DEF Cast
  <2> QED
    BY <1>0, <2>1, <2>2, <2>3, NothingLostAside
<1>4. ASSUME NEW t \in Threads, ReadList(t) PROVE NothingLost'
  <2>1. \E th : Goes(t, th) /\ th.pc # "put"
    BY <1>0, <1>4, ReadListGoes
  <2>2. Sent(<<>>)
    BY <1>0, <1>4, ThreadsQuiet
  <2>3. UNCHANGED <<history, seat, joining, up>>
    BY <1>4 DEF ReadList
  <2> QED
    BY <1>0, <2>1, <2>2, <2>3, NothingLostAside
<1>5. ASSUME NEW t \in Threads, ReadTargets(t) PROVE NothingLost'
  <2>1. \E th : Goes(t, th) /\ th.pc # "put"
    BY <1>0, <1>5, ReadTargetsGoes
  <2>2. Sent(<<>>)
    BY <1>0, <1>5, ThreadsQuiet
  <2>3. UNCHANGED <<history, seat, joining, up>>
    BY <1>5 DEF ReadTargets
  <2> QED
    BY <1>0, <2>1, <2>2, <2>3, NothingLostAside
<1>6. ASSUME NEW t \in Threads, Tell(t) PROVE NothingLost'
  <2>1. \E th : Goes(t, th) /\ th.pc # "put"
    BY <1>0, <1>6, TellGoes
  <2>2. \E s : Sent(s)
    BY <1>0, <1>6, TellSends
  <2>3. UNCHANGED <<history, seat, joining, up>>
    BY <1>6 DEF Tell
  <2> QED
    BY <1>0, <2>1, <2>2, <2>3, NothingLostAside
<1>7. ASSUME NEW p \in People,
             \/ \E r \in Rooms : Connect(p, r)
             \/ \E goal \in Rooms \cup {Absent} : Leave(p, goal)
             \/ Enter(p)
      PROVE  NothingLost'
  <2>1. \E th : Goes(p, th) /\ th.pc # "put"
    BY <1>0, <1>7, PeopleGo
  <2>2. Sent(<<>>)
    BY <1>0, <1>7, PeopleQuiet
  <2>3. UNCHANGED <<history, seat, joining, up>>
    BY <1>7 DEF Connect, Leave, Enter
  <2> QED
    BY <1>0, <2>1, <2>2, <2>3, NothingLostAside
<1>8. ASSUME NEW p \in People, SendKey(p) PROVE NothingLost'
  <2>1. UNCHANGED <<history, thread, seat, joining, up>>
    BY <1>8 DEF SendKey
  <2>2. Lists' = Lists /\ (Asked' <=> Asked)
    BY <2>1 DEF Lists, Holds, Asked
  <2>3. \E s : Sent(s)
    BY <1>0, <1>8, KeySends
  <2> QED
    BY <2>2, <2>3, HeldBySent
<1> QED
  BY <1>1, <1>2, <1>3, <1>4, <1>5, <1>6, <1>7, <1>8

\* The viewer's thread: unless two threads are at the list, the history it reads
\* is all of it.
LEMMA NothingLostJoin ==
    ASSUME HistoryInv, TalkNext, ReadJoined \/ SendJoined
    PROVE  NothingLost'
<1>0. TalkTypeOK /\ RoomTyped /\ OneListEach /\ SeatInv
  BY DEF HistoryInv, StreamInv, TalkTypeOK
<1>1. UNCHANGED <<history, thread, seat, up>> /\ keep_history' = keep_history
  BY SetUpKept DEF ReadJoined, SendJoined, setUp
<1>2. Lists' = Lists
  BY <1>1 DEF Lists, Holds
<1>3. CASE ~Asked'
  BY <1>3 DEF NothingLost
<1>4. ASSUME Asked, \E s : Sent(s) PROVE NothingLost'
  BY <1>2, <1>4, HeldBySent
<1>5. CASE ReadJoined
  <2>1. CASE joining' = ToSend(InRoom(seat))
    <3>1. joining' # <<>> /\ Head(joining').type = "joined"
      BY <2>1, JoinKinds
    <3> QED
      BY <1>3, <3>1 DEF Asked
  <2>2. CASE joining = ToSendList(Absent)
    <3>1. Head(joining).type = "room_snapshot"
      BY <2>2, JoinKinds
    <3>2. Asked' => Asked
      BY <1>1, <3>1 DEF Asked
    <3> QED
      BY <1>0, <1>3, <1>4, <1>5, <3>2, JoinReads
  <2>3. CASE /\ joining = ToSendHistory(Absent)
             /\ joining' = IF keep_history THEN ToSendHistory(Selected(Kept(seat)))
                           ELSE ToSendList(Absent)
             /\ torn' = (torn \/ \E t \in Threads : thread[t].pc = "put" /\ thread[t].room = seat)
    <3> SUFFICES ASSUME keep_history', ~torn', Asked', NEW list \in Lists', NEW m \in ToSet(Selected(list))
                 PROVE  Covered(m)'
      BY DEF NothingLost
    <3>1. seat \in Rooms /\ list \in Lists /\ \A t \in Threads : ~Holds(t)
      BY <1>0, <1>2, <1>5, <2>3, ReadCases DEF Holds
    <3>2. list = Kept(seat)
      BY <1>0, <3>1, OnlyList
    <3>3. joining' = ToSendHistory(Selected(list))
      BY <1>1, <2>3, <3>2
    <3>4. joining' # <<>> /\ Head(joining').type = "history" /\ Head(joining').body = Selected(list)
      BY <3>3, JoinKinds
    <3>5. Head(joining').body # Absent
      BY <3>4 DEF Asked
    <3>6. InHand(m)'
      BY <3>4, <3>5 DEF InHand
    <3> QED
      BY <3>6 DEF Covered
  <2> QED
    BY <1>0, <1>5, <2>1, <2>2, <2>3, ReadCases
<1>6. CASE SendJoined
  <2>1. CASE \E b : joining = ToSend(b) /\ joining' = ToSendHistory(Absent)
    <3>1. joining' # <<>> /\ Head(joining').type = "history" /\ Head(joining').body = Absent
      BY <2>1, JoinKinds
    <3> QED
      BY <1>3, <3>1 DEF Asked
  <2>2. CASE (\E h : h # Absent /\ joining = ToSendHistory(h)) \/ (\E l : joining = ToSendList(l))
    <3>1. /\ \/ Head(joining).type = "room_snapshot"
             \/ Head(joining).type = "history" /\ Head(joining).body # Absent
          /\ ~Pending
      BY <2>2, JoinKinds DEF Pending
    <3>2. Asked' => Asked
      BY <1>1, <3>1 DEF Asked
    <3> QED
      BY <1>0, <1>3, <1>4, <1>6, <3>1, <3>2, JoinSends
  <2> QED
    BY <1>0, <1>6, <2>1, <2>2, JoinCases
<1> QED
  BY <1>5, <1>6

\* With room left nothing falls out of a log.
LEMMA LogGrows ==
    ASSUME NEW s \in Seq(Messages), Len(Newest(s, LogLimit)) < LogLimit
    PROVE  Newest(s, LogLimit) = s
<1>1. Len(s) \in Nat /\ LogLimit \in Nat
  BY LenProperties, TalkAssumption
<1>2. CASE Len(s) <= LogLimit
  BY <1>2 DEF Newest
<1>3. CASE ~ Len(s) <= LogLimit
  <2>1. Len(Newest(s, LogLimit)) = LogLimit
    BY <1>1, <1>3, NewestIs
  <2> QED
    BY <1>1, <2>1
<1> QED
  BY <1>2, <1>3

\* The viewer: what a fresh packet brings is about the room on the screen and
\* goes into its log.
LEMMA NothingLostViewer ==
    ASSUME HistoryInv, ViewerReceives, NotFull'
    PROVE  NothingLost'
<1>0. /\ RoomTyped /\ LogsTyped /\ down \in Seq(Packets) /\ FreshInv /\ ViewInv /\ LogLimit \in Nat
  BY TalkAssumption DEF HistoryInv, StreamInv, TalkTypeOK, RoomTyped
<1>1. UNCHANGED <<history, thread, seat, up, joining, torn, keep_history>>
  BY DEF ViewerReceives, setUp
<1>2. PICK p \in Packets :
             /\ down # <<>> /\ p = Head(down) /\ down' = Tail(down)
             /\ \/ p.type = "joined" /\ p.body \in SUBSET People /\ OnJoined(p)
                \/ p.type = "history" /\ p.body \in Seq(Messages) /\ OnHistory(p)
                \/ p.type = "message" /\ p.body \in Messages /\ OnMessage(p)
                \/ /\ p.type = "room_snapshot" /\ p.body.users \in SUBSET People
                   /\ p.body.moved \in SUBSET People /\ OnSnapshot(p)
                \/ p.type = "key" /\ p.body \in PublicKeys /\ OnKey(p)
  BY <1>0, ReceiveCases
<1>3. /\ 1 \in 1 .. Len(down) /\ down[1] = p
      /\ \A i \in 1 .. Len(down') : down'[i] = down[i + 1] /\ (Fresh(i)' <=> Fresh(i + 1))
      /\ \A i \in 1 .. Len(down) : i = 1 \/ (i - 1 \in 1 .. Len(down') /\ (i - 1) + 1 = i)
      /\ NoJoined <=> Fresh(1) /\ p.type # "joined"
  BY <1>0, <1>1, <1>2, StreamShrinks
<1> SUFFICES ASSUME keep_history', ~torn', Asked', NEW list \in Lists', NEW m \in ToSet(Selected(list))
             PROVE  Covered(m)'
  BY DEF NothingLost
<1>4. Asked /\ list \in Lists
  BY <1>1 DEF Asked, Lists, Holds
<1>5. Covered(m)
  BY <1>1, <1>4 DEF HistoryInv, NothingLost
<1>6. seat \in Rooms /\ up = <<>> /\ seat # Absent
  BY <1>0, <1>4 DEF Asked, RoomTyped
<1>7. p.room \in Rooms /\ room_logs[p.room] \in Seq(Messages) /\ room_logs[seat] \in Seq(Messages)
  BY <1>0, <1>6, PacketIs DEF LogsTyped
<1>8. /\ ToSet(room_logs[seat]) \subseteq ToSet(room_logs'[seat])
      /\ p.room = current_room /\ p.room = seat /\ Brings(p, m) => m \in ToSet(room_logs'[seat])
  <2>1. CASE p.type \in {"joined", "room_snapshot", "key"} /\ (OnJoined(p) \/ OnSnapshot(p) \/ OnKey(p))
    <3>1. room_logs' = room_logs
      BY <2>1 DEF OnJoined, OnSnapshot, OnKey, logVars
    <3> QED
      BY <2>1, <3>1 DEF Brings, Says
  <2>2. ASSUME NEW new \in Seq(Messages), room_logs' = [room_logs EXCEPT ![p.room] = Newest(new, LogLimit)],
               ToSet(room_logs[p.room]) \subseteq ToSet(new), Brings(p, m) => m \in ToSet(new)
        PROVE  /\ ToSet(room_logs[seat]) \subseteq ToSet(room_logs'[seat])
               /\ p.room = seat /\ Brings(p, m) => m \in ToSet(room_logs'[seat])
    <3>1. room_logs'[p.room] = Newest(new, LogLimit)
      BY <1>0, <1>7, <2>2 DEF LogsTyped
    <3>2. Len(Newest(new, LogLimit)) < LogLimit
      BY <1>7, <3>1 DEF NotFull
    <3>3. room_logs'[p.room] = new
      BY <3>1, <3>2, LogGrows
    <3>4. p.room # seat => room_logs'[seat] = room_logs[seat]
      BY <1>0, <1>6, <2>2 DEF LogsTyped
    <3> QED
      BY <2>2, <3>3, <3>4
  <2>3. CASE p.type = "history" /\ p.body \in Seq(Messages) /\ OnHistory(p)
    <3>1. CASE p.room = current_room
      <4>1. room_logs' = [room_logs EXCEPT ![p.room] = Newest(Merged(room_logs[p.room], p.body), LogLimit)]
        BY <2>3, <3>1 DEF OnHistory
      <4>2. /\ Merged(room_logs[p.room], p.body) \in Seq(Messages)
            /\ ToSet(Merged(room_logs[p.room], p.body)) = ToSet(room_logs[p.room]) \cup ToSet(p.body)
        BY <1>7, <2>3, MergedIs
      <4>3. Brings(p, m) => m \in ToSet(p.body)
        BY <2>3 DEF Brings, Says
      <4> QED
        BY <2>2, <4>1, <4>2, <4>3
    <3>2. CASE p.room # current_room
      BY <2>3, <3>2 DEF OnHistory
    <3> QED
      BY <3>1, <3>2
  <2>4. CASE p.type = "message" /\ p.body \in Messages /\ OnMessage(p)
    <3>1. CASE p.room = current_room
      <4>1. room_logs' = [room_logs EXCEPT ![p.room] = Newest(Append(room_logs[p.room], p.body), LogLimit)]
        BY <2>4, <3>1 DEF OnMessage
      <4>2. /\ Append(room_logs[p.room], p.body) \in Seq(Messages)
            /\ ToSet(Append(room_logs[p.room], p.body)) = ToSet(room_logs[p.room]) \cup {p.body}
        BY <1>7, <2>4, AppendElements
      <4>3. Brings(p, m) => m = p.body
        BY <2>4 DEF Brings, Says
      <4> QED
        BY <2>2, <4>1, <4>2, <4>3
    <3>2. CASE p.room # current_room
      BY <2>4, <3>2 DEF OnMessage
    <3> QED
      BY <3>1, <3>2
  <2> QED
    BY <1>2, <2>1, <2>3, <2>4
<1>9. CASE m \in ToSet(room_logs[seat])
  BY <1>1, <1>8, <1>9 DEF Covered
<1>10. CASE (\E t \in Threads : AtCast(t, m)) \/ InHand(m)
  BY <1>1, <1>10 DEF Covered, AtCast, InHand
<1>11. ASSUME NEW i \in 1 .. Len(down), Fresh(i), Brings(down[i], m) PROVE Covered(m)'
  <2>1. CASE i = 1
    <3>1. p.type # "joined" /\ p.room = seat
      BY <1>3, <1>11, <2>1 DEF Brings, Says
    <3>2. current_room = seat
      BY <1>0, <1>3, <1>6, <1>11, <2>1, <3>1 DEF ViewInv
    <3> QED
      BY <1>1, <1>3, <1>8, <1>11, <2>1, <3>1, <3>2 DEF Covered
  <2>2. CASE i # 1
    <3> DEFINE k == i - 1
    <3>1. k \in 1 .. Len(down') /\ k + 1 = i
      BY <1>3, <2>2
    <3>2. PICK j \in 1 .. Len(down') : j + 1 = i
      BY <3>1
    <3>3. down'[j] = down[i] /\ Fresh(j)'
      BY <1>3, <1>11, <3>2
    <3> QED
      BY <1>1, <1>11, <3>3 DEF Covered, Brings, Says
  <2> QED
    BY <2>1, <2>2
<1> QED
  BY <1>5, <1>9, <1>10, <1>11 DEF Covered

\* Every step keeps the invariant while no log is full.
LEMMA HistoryInvStep ==
    ASSUME HistoryInv, [TalkNext]_talkVars, NotFull'
    PROVE  HistoryInv'
<1>0. TalkTypeOK /\ RoomTyped
  BY DEF HistoryInv, StreamInv, TalkTypeOK
<1>1. StreamInv'
  BY StreamInvStep DEF HistoryInv
<1>2. CASE TalkNext
  <2>1. OneListEach'
    BY <1>0, <1>2, OneListStep DEF HistoryInv
  <2>2. NothingLost'
    <3>1. CASE TakeSeat
      <4>1. Pending'
        BY <3>1, TakeSeatBlinds
      <4> QED
        BY <4>1 DEF NothingLost, Asked, Pending
    <3>2. CASE ViewerReceives
      BY <3>2, NothingLostViewer
    <3>3. ASSUME NEW r \in Rooms, SwitchRoom(r) PROVE NothingLost'
      <4>1. up' = Append(up, r)
        BY <3>3 DEF SwitchRoom
      <4>2. up' # <<>>
        BY <1>0, <4>1, AppendProperties DEF RoomTyped
      <4> QED
        BY <4>2 DEF NothingLost, Asked
    <3>4. ASSUME NEW forget \in BOOLEAN, Reconnect(forget) PROVE NothingLost'
      BY <3>4 DEF Reconnect, NothingLost, Asked
    <3> QED
      BY <1>2, <3>1, <3>2, <3>3, <3>4, NothingLostTakeOut, NothingLostPutBack, NothingLostOthers,
         NothingLostJoin DEF TalkNext
  <2> QED
    BY <1>1, <2>1, <2>2 DEF HistoryInv
<1>3. CASE UNCHANGED talkVars
  <2>1. OneListEach'
    BY <1>3 DEF talkVars, HistoryInv, OneListEach, Distinct
  <2>2. NothingLost'
    <3>1. (Asked' <=> Asked) /\ Lists' = Lists
      BY <1>3 DEF talkVars, Asked, Lists, Holds
    <3>2. \A m : Covered(m)' <=> Covered(m)
      <4>1. \A i : Fresh(i)' <=> Fresh(i)
        BY <1>3 DEF talkVars, Fresh, Pending
      <4>2. \A m : (InHand(m)' <=> InHand(m)) /\ \A t : AtCast(t, m)' <=> AtCast(t, m)
        BY <1>3 DEF talkVars, InHand, AtCast
      <4> QED
        BY <1>3, <4>1, <4>2 DEF talkVars, Covered, Brings, Says
    <3> QED
      BY <1>3, <3>1, <3>2 DEF HistoryInv, NothingLost, talkVars
  <2> QED
    BY <1>1, <2>1, <2>2 DEF HistoryInv
<1> QED
  BY <1>2, <1>3

\* With a history nothing of it is missing on the screen, as long as no log is
\* full (a message cut off by ROOM_LOG_LIMIT is gone, of course) and no two
\* threads were at the list at once: server.py, "the write must happen BEFORE the
\* broadcast".
THEOREM HistoryIsSeen == TalkSpec /\ []NotFull => []HistoryReaches
<1>1. ASSUME TalkInit PROVE HistoryInv
  <2>1. history = <<>> /\ seat = Absent
    BY <1>1 DEF TalkInit
  <2>2. Len(history) = 0
    BY <2>1, EmptySeq
  <2>3. OneListEach
    BY <2>2 DEF OneListEach, Distinct
  <2> QED
    BY <1>1, <2>1, <2>3, StreamInvInit DEF HistoryInv, NothingLost, Asked
<1>2. ASSUME HistoryInv PROVE HistoryReaches
  <2> SUFFICES ASSUME Settled, keep_history, ~torn, NEW m \in ToSet(Selected(Kept(seat)))
               PROVE  m \in ToSet(room_logs[seat])
    BY DEF HistoryReaches
  <2>1. /\ seat # Absent /\ joining = <<>> /\ up = <<>> /\ down = <<>>
        /\ \A t \in Threads : thread[t].pc = "idle"
    BY DEF Settled
  <2>2. TalkTypeOK /\ seat \in Rooms
    BY <1>2, <2>1 DEF HistoryInv, StreamInv, TalkTypeOK, RoomTyped
  <2>3. Kept(seat) \in Lists
    BY <2>2, KeptIsListed
  <2>4. Covered(m)
    BY <1>2, <2>1, <2>3 DEF HistoryInv, NothingLost, Asked
  <2>5. Len(down) = 0
    BY <2>1, EmptySeq
  <2> QED
    BY <2>1, <2>4, <2>5 DEF Covered, AtCast, InHand
<1> QED
  BY <1>1, <1>2, HistoryInvStep, PTL DEF TalkSpec
================================================================================
