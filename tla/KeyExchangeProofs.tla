--------------------------- MODULE KeyExchangeProofs ---------------------------
(***************************************************************************)
(* KeyExchange for every set of connections, rooms, names and passwords:   *)
(* whatever the clients, the server threads and the connections between    *)
(* them do, in whichever order.                                            *)
(***************************************************************************)
EXTENDS KeyExchange, SequenceTheorems, TLAPS

(* Packets and types *)

KeyPackets == {m \in [type : {"sender_key"}, pub : Pubs, to : Pubs] : m.pub[2] = m.to[2]}

UpPackets ==
    [type : {"join"}, room : Rooms] \cup [type : {"key_offer"}, pub : Pubs, user : {None}]
        \cup KeyPackets \cup [type : {"message", "eof"}]

DownPackets ==
    [type : {"joined"}, room : Rooms, user : Names]
        \cup [type : {"room_snapshot"}, users : SUBSET (Names \cup {None})]
        \cup [type : {"key_offer"}, pub : Pubs, user : Names \cup {None}]
        \cup KeyPackets

Ops ==
    [op : {"enter"}, room : Rooms] \cup [op : {"read"}, room : Rooms \cup {None}]
        \cup [op : {"cast"}, room : Rooms \cup {None}, packet : DownPackets]
        \cup [op : {"send"}, to : Seq(Conns) \ {<< >>}, packet : DownPackets]

QueuesTyped ==
    /\ up \in [Conns -> Seq(UpPackets)]
    /\ down \in [Conns -> Seq(DownPackets)]
    /\ todo \in [Conns -> Seq(Ops)]

\* A client that is connected is in a room and has a session, and no other gets
\* packets.
PhaseInv ==
    \A c \in Conns : /\ phase[c] = "up" => room[c] \in Rooms /\ cipher[c] \in Rooms
                     /\ phase[c] # "up" => down[c] = << >>

Typed == TypeOK /\ QueuesTyped /\ PhaseInv

\* What a packet carries by its type.
LEMMA DownShapes ==
    ASSUME NEW m \in DownPackets
    PROVE  /\ m.type = "joined" => m.room \in Rooms
           /\ m.type = "room_snapshot" => m.users \in SUBSET (Names \cup {None})
           /\ m.type = "key_offer" => m.pub \in Pubs /\ m.user \in Names \cup {None}
           /\ m.type = "sender_key" => m \in KeyPackets
BY DEF DownPackets, KeyPackets

\* The same, on the way to the server, which adds the name to an offer.
LEMMA UpShapes ==
    ASSUME NEW m \in UpPackets
    PROVE  /\ m.type = "join" => m.room \in Rooms
           /\ m.type = "key_offer" =>
                /\ m.pub \in Pubs
                /\ \A u \in Names \cup {None} : 
                     [m EXCEPT !.user = u] = [type |-> "key_offer", pub |-> m.pub, user |-> u]
           /\ m.type = "sender_key" => m \in KeyPackets
BY DEF UpPackets, KeyPackets

\* What a part of a handler carries.
LEMMA OpShapes ==
    ASSUME NEW o \in Ops
    PROVE  /\ o.op = "enter" => o.room \in Rooms
           /\ o.op = "read" => o.room \in Rooms \cup {None}
           /\ o.op = "cast" => o.packet \in DownPackets
           /\ o.op = "send" => o.to \in Seq(Conns) /\ o.to # << >> /\ o.packet \in DownPackets
BY DEF Ops

\* The targets that are left are one send operation, or none.
LEMMA SendTyped ==
    ASSUME NEW ds \in Seq(Conns), NEW m \in DownPackets
    PROVE  SendTo(ds, m) \in Seq(Ops)
<1>1. ds # << >> => Send(ds, m) \in Ops
  BY DEF Send, Ops
<1>2. ds # << >> => <<Send(ds, m)>> \in Seq(Ops)
  BY <1>1
<1>3. << >> \in Seq(Ops)
  BY EmptySeq
<1>. QED
  BY <1>2, <1>3 DEF SendTo

\* Who leaves a room leaves a list of connections.
LEMMA WithoutTyped ==
    ASSUME NEW ds \in Seq(Conns), NEW c
    PROVE  Without(ds, c) \in Seq(Conns)
<1>1. CASE \E i \in 1 .. Len(ds) : ds[i] = c
  <2> DEFINE i == CHOOSE j \in 1 .. Len(ds) : ds[j] = c
  <2>1. i \in 1 .. Len(ds)
    BY <1>1
  <2>2. Without(ds, c) = SubSeq(ds, 1, i - 1) \o SubSeq(ds, i + 1, Len(ds))
    BY <1>1 DEF Without, RemoveAt
  <2> HIDE DEF i
  <2>3. Len(ds) \in Nat /\ \A j \in 1 .. Len(ds) : ds[j] \in Conns
    BY LenProperties, ElementOfSeq
  <2>4. SubSeq(ds, 1, i - 1) \in Seq(Conns) /\ SubSeq(ds, i + 1, Len(ds)) \in Seq(Conns)
    BY <2>1, <2>3, SubSeqProperties
  <2>. QED
    BY <2>2, <2>4, ConcatProperties
<1>2. CASE ~\E i \in 1 .. Len(ds) : ds[i] = c
  BY <1>2 DEF Without
<1>. QED
  BY <1>1, <1>2

\* The targets of a broadcast are connections.
LEMMA TargetsTyped ==
    ASSUME Typed, NEW r, NEW m
    PROVE  Targets(r, m) \in Seq(Conns)
<1> DEFINE ds == IF r \in Rooms THEN members[r] ELSE << >>
<1>1. ds \in Seq(Conns)
  BY EmptySeq DEF Typed, TypeOK
<1>2. Targets(r, m) \in {ds, << >>} \/ (m.to[1] \in ToSet(ds) /\ Targets(r, m) = <<m.to[1]>>)
  BY DEF Targets
<1> HIDE DEF ds
<1>3. m.to[1] \in ToSet(ds) => m.to[1] \in Conns
  BY <1>1 DEF ToSet
<1>4. m.to[1] \in ToSet(ds) => <<m.to[1]>> \in Seq(Conns)
  BY <1>3
<1>5. << >> \in Seq(Conns)
  BY EmptySeq
<1>. QED
  BY <1>1, <1>2, <1>4, <1>5, Zenon

\* The packet a client handles, and the rest of them.
LEMMA ArrivedTyped ==
    ASSUME Typed, NEW c \in Conns, NEW type, Arrives(c, type), Consume(c)
    PROVE  /\ Head(down[c]) \in DownPackets /\ Head(down[c]).type = type
           /\ phase[c] = "up" /\ room[c] \in Rooms /\ cipher[c] \in Rooms
           /\ OwnPub(c) \in Pubs
           /\ down' \in [Conns -> Seq(DownPackets)]
           /\ \A d \in Conns : phase[d] # "up" => down'[d] = << >>
<1>1. down[c] \in Seq(DownPackets) /\ down[c] # << >> /\ Head(down[c]).type = type
  BY DEF Typed, QueuesTyped, Arrives
<1>2. Head(down[c]) \in DownPackets /\ Tail(down[c]) \in Seq(DownPackets)
  BY <1>1, HeadTailProperties
<1>3. phase[c] = "up" /\ room[c] \in Rooms /\ cipher[c] \in Rooms
  BY <1>1 DEF Typed, TypeOK, PhaseInv
<1>. QED
  BY <1>1, <1>2, <1>3 DEF Typed, QueuesTyped, PhaseInv, Consume, OwnPub, Pubs

\* The packet a server thread handles, and the rest of them.
LEMMA ReadTyped ==
    ASSUME Typed, NEW c \in Conns, NEW type, Reads(c, type), Advance(c)
    PROVE  /\ Head(up[c]) \in UpPackets /\ Head(up[c]).type = type
           /\ up' \in [Conns -> Seq(UpPackets)]
<1>1. up[c] \in Seq(UpPackets) /\ up[c] # << >> /\ Head(up[c]).type = type
  BY DEF Typed, QueuesTyped, Reads
<1>2. Head(up[c]) \in UpPackets /\ Tail(up[c]) \in Seq(UpPackets)
  BY <1>1, HeadTailProperties
<1>. QED
  BY <1>1, <1>2 DEF Typed, QueuesTyped, Advance

\* The part of a handler a server thread comes to, and the rest of it.
LEMMA DoneTyped ==
    ASSUME Typed, NEW c \in Conns, NEW op, Doing(c, op)
    PROVE  /\ Head(todo[c]) \in Ops /\ Head(todo[c]).op = op
           /\ Tail(todo[c]) \in Seq(Ops)
<1>1. todo[c] \in Seq(Ops) /\ todo[c] # << >> /\ Head(todo[c]).op = op
  BY DEF Typed, QueuesTyped, Doing
<1>. QED
  BY <1>1, HeadTailProperties

-------------------------------------------------------------------------------
(* Every step keeps the types *)

\* Nobody is connected at first.
LEMMA TypedInit == Init => Typed
BY EmptySeq DEF Init, Typed, TypeOK, QueuesTyped, PhaseInv

\* One session of one client changes.
LEMMA TableEdited ==
    ASSUME NEW f \in [Conns -> [Rooms -> SUBSET Pubs]], NEW c \in Conns,
           NEW r \in Rooms, NEW ps \in SUBSET Pubs
    PROVE  LET g == [f EXCEPT ![c][r] = ps]
           IN /\ g \in [Conns -> [Rooms -> SUBSET Pubs]]
              /\ \A d \in Conns, q \in Rooms :
                    g[d][q] = IF d = c /\ q = r THEN ps ELSE f[d][q]
<1>1. [f[c] EXCEPT ![r] = ps] \in [Rooms -> SUBSET Pubs]
  OBVIOUS
<1>. QED
  BY <1>1

\* What the user does.
LEMMA UserTyped ==
    ASSUME Typed, NEW c \in Conns, User(c)
    PROVE  Typed'
<1> USE DEF Typed, at, keys, server
<1>1. \A r \in Rooms : Join(r) \in UpPackets
  BY DEF Join, UpPackets
<1>2. Message \in UpPackets /\ Eof \in UpPackets
  BY DEF Message, Eof, UpPackets
<1>3. ASSUME NEW r \in Rooms, Connect(c, r)
      PROVE  Typed'
  <2>1. <<Join(r)>> \in Seq(UpPackets)
    BY <1>1
  <2>2. QueuesTyped'
    BY <1>3, <2>1 DEF Connect, QueuesTyped
  <2>. QED
    BY <1>3, <2>2 DEF Connect, TypeOK, PhaseInv
<1>4. ASSUME NEW r \in Rooms, JoinRoom(c, r)
      PROVE  Typed'
  <2>1. <<"derive", r>> \in Calls
    BY DEF Calls
  <2>. QED
    BY <1>4, <2>1 DEF JoinRoom, TypeOK, QueuesTyped, PhaseInv
<1>5. CASE SendMessage(c)
  <2>1. Append(up[c], Message) \in Seq(UpPackets)
    BY <1>2, AppendProperties DEF QueuesTyped
  <2>2. QueuesTyped'
    BY <1>5, <2>1 DEF SendMessage, QueuesTyped
  <2>. QED
    BY <1>5, <2>2 DEF SendMessage, TypeOK, PhaseInv
<1>6. CASE Disconnect(c)
  <2>1. PICK n \in 0 .. Len(up[c]) : up' = [up EXCEPT ![c] = Append(SubSeq(up[c], 1, n), Eof)]
    BY <1>6 DEF Disconnect
  <2>2. up[c] \in Seq(UpPackets) /\ Len(up[c]) \in Nat
    BY LenProperties DEF QueuesTyped
  <2>3. SubSeq(up[c], 1, n) \in Seq(UpPackets)
    <3>1. \A i \in 1 .. n : up[c][i] \in UpPackets
      BY <2>2, ElementOfSeq
    <3>. QED
      BY <2>2, <3>1, SubSeqProperties
  <2>4. Append(SubSeq(up[c], 1, n), Eof) \in Seq(UpPackets)
    BY <1>2, <2>3, AppendProperties
  <2>5. << >> \in Seq(DownPackets)
    BY EmptySeq
  <2>6. QueuesTyped'
    BY <1>6, <2>1, <2>4, <2>5 DEF Disconnect, QueuesTyped
  <2>7. TypeOK'
    BY <1>6 DEF Disconnect, TypeOK, Idle
  <2>8. PhaseInv'
    BY <1>6 DEF Disconnect, QueuesTyped, TypeOK, PhaseInv
  <2>. QED
    BY <2>6, <2>7, <2>8
<1>. QED
  BY <1>3, <1>4, <1>5, <1>6 DEF User

\* What is left of a join_room call.
LEMMA MoverTyped ==
    ASSUME Typed, NEW c \in Conns, Mover(c)
    PROVE  Typed'
<1> USE DEF Typed, at, keys, server
<1>1. ASSUME NEW r \in Rooms, TakeCipher(c, r)
      PROVE  Typed'
  <2>1. <<"send", r>> \in Calls
    BY DEF Calls
  <2>. QED
    BY <1>1, <2>1 DEF TakeCipher, TypeOK, QueuesTyped, PhaseInv
<1>2. ASSUME NEW r \in Rooms, SendJoin(c, r)
      PROVE  Typed'
  <2>1. Join(r) \in UpPackets
    BY DEF Join, UpPackets
  <2>2. Append(up[c], Join(r)) \in Seq(UpPackets)
    BY <2>1, AppendProperties DEF QueuesTyped
  <2>3. QueuesTyped'
    BY <1>2, <2>2 DEF SendJoin, QueuesTyped
  <2>. QED
    BY <1>2, <2>3 DEF SendJoin, TypeOK, PhaseInv
<1>. QED
  BY <1>1, <1>2 DEF Mover

\* What the client's listen thread does.
LEMMA ClientTyped ==
    ASSUME Typed, NEW c \in Conns, Client(c)
    PROVE  Typed'
<1> USE DEF at, keys, server
<1> DEFINE m == Head(down[c])
<1>0. /\ up[c] \in Seq(UpPackets) /\ up \in [Conns -> Seq(UpPackets)] /\ todo \in [Conns -> Seq(Ops)]
      /\ TypeOK /\ PhaseInv
  BY DEF Typed, QueuesTyped
<1>1. CASE OnSnapshot(c)
  <2>1. /\ phase[c] = "up" /\ room[c] \in Rooms /\ cipher[c] \in Rooms /\ OwnPub(c) \in Pubs
        /\ down' \in [Conns -> Seq(DownPackets)] /\ \A d \in Conns : phase[d] # "up" => down'[d] = << >>
    BY <1>1, ArrivedTyped DEF OnSnapshot
  <2>2. Reannounced(c) \in Seq(UpPackets)
    <3>1. Offer(OwnPub(c)) \in UpPackets
      BY <2>1 DEF Offer, UpPackets
    <3>. QED
      BY <1>0, <3>1, AppendProperties DEF Reannounced
  <2>3. QueuesTyped'
    BY <1>0, <1>1, <2>1, <2>2 DEF OnSnapshot, QueuesTyped
  <2>4. TypeOK'
    <3> DEFINE gone == Absent(c, m.users)
    <3>1. /\ pairs' = [pairs EXCEPT ![c][cipher[c]] = pairs[c][cipher[c]] \ gone]
          /\ ring' = [ring EXCEPT ![c][cipher[c]] = ring[c][cipher[c]] \ gone]
          /\ peerUsers' = [peerUsers EXCEPT ![c] =
                            [p \in Pubs |-> IF p \in gone THEN None ELSE peerUsers[c][p]]]
          /\ pending' = [pending EXCEPT ![c] = pending[c] \ gone]
          /\ UNCHANGED <<at, mismatched, server, leftOut>>
      BY <1>1 DEF OnSnapshot
    <3> HIDE DEF gone
    <3>2. /\ pairs \in [Conns -> [Rooms -> SUBSET Pubs]]
          /\ ring \in [Conns -> [Rooms -> SUBSET Pubs]]
          /\ pairs[c][cipher[c]] \ gone \in SUBSET Pubs /\ ring[c][cipher[c]] \ gone \in SUBSET Pubs
      BY <1>0, <2>1 DEF TypeOK
    <3>3. /\ pairs' \in [Conns -> [Rooms -> SUBSET Pubs]]
          /\ ring' \in [Conns -> [Rooms -> SUBSET Pubs]]
      BY <2>1, <3>1, <3>2, TableEdited
    <3>. QED
      BY <1>0, <3>1, <3>3 DEF TypeOK
  <2>5. PhaseInv'
    BY <1>0, <1>1, <2>1 DEF OnSnapshot, PhaseInv
  <2>. QED
    BY <2>3, <2>4, <2>5 DEF Typed
<1>2. CASE OnJoined(c)
  <2>1. /\ phase[c] = "up" /\ room[c] \in Rooms /\ cipher[c] \in Rooms /\ m \in DownPackets /\ m.type = "joined"
        /\ down' \in [Conns -> Seq(DownPackets)] /\ \A d \in Conns : phase[d] # "up" => down'[d] = << >>
    BY <1>2, ArrivedTyped DEF OnJoined
  <2>2. m.room \in Rooms
    BY <2>1, DownShapes
  <2> HIDE DEF m
  <2>9. cipher'[c] \in Rooms
    BY <1>0, <1>2, <2>1, <2>2 DEF OnJoined, TypeOK, m
  <2>3. Append(up[c], Offer(<<c, cipher'[c]>>)) \in Seq(UpPackets)
    <3>1. Offer(<<c, cipher'[c]>>) \in UpPackets
      BY <2>9 DEF Offer, UpPackets, Pubs
    <3>. QED
      BY <1>0, <3>1, AppendProperties
  <2>4. QueuesTyped'
    BY <1>0, <1>2, <2>1, <2>3 DEF OnJoined, QueuesTyped, m
  <2>5. TypeOK' /\ UNCHANGED phase
    <3>1. CASE m.room # room[c]
      <4> DEFINE held == {p \in Pubs : peerUsers[c][p] # None}
      <4>1. /\ pairs' = [pairs EXCEPT ![c][cipher[c]] = pairs[c][cipher[c]] \ held]
            /\ ring' = [ring EXCEPT ![c][cipher[c]] = ring[c][cipher[c]] \ held]
            /\ peerUsers' = [peerUsers EXCEPT ![c] = [p \in Pubs |-> None]]
            /\ pending' = [pending EXCEPT ![c] = {}]
            /\ mismatched' = [mismatched EXCEPT ![c] = {}]
            /\ room' = [room EXCEPT ![c] = m.room]
            /\ cipher' = [cipher EXCEPT ![c] = m.room]
            /\ UNCHANGED <<phase, moving, server, leftOut>>
        BY <1>2, <3>1 DEF OnJoined, m
      <4> HIDE DEF held
      <4>2. /\ pairs \in [Conns -> [Rooms -> SUBSET Pubs]]
            /\ ring \in [Conns -> [Rooms -> SUBSET Pubs]]
            /\ pairs[c][cipher[c]] \ held \in SUBSET Pubs /\ ring[c][cipher[c]] \ held \in SUBSET Pubs
        BY <1>0, <2>1 DEF TypeOK
      <4>3. /\ pairs' \in [Conns -> [Rooms -> SUBSET Pubs]]
            /\ ring' \in [Conns -> [Rooms -> SUBSET Pubs]]
        BY <2>1, <4>1, <4>2, TableEdited
      <4>. QED
        BY <1>0, <2>2, <4>1, <4>3 DEF TypeOK
    <3>2. CASE m.room = room[c]
      BY <1>0, <1>2, <3>2 DEF OnJoined, TypeOK, m
    <3>. QED
      BY <3>1, <3>2
  <2>6. \A d \in Conns : phase[d] = "up" => room'[d] \in Rooms /\ cipher'[d] \in Rooms
    BY <1>0, <1>2, <2>2 DEF OnJoined, TypeOK, PhaseInv, m
  <2>7. PhaseInv'
    BY <2>1, <2>5, <2>6 DEF PhaseInv
  <2>. QED
    BY <2>4, <2>5, <2>7 DEF Typed
<1>3. CASE OnKeyOffer(c)
  <2>1. /\ phase[c] = "up" /\ room[c] \in Rooms /\ cipher[c] \in Rooms /\ OwnPub(c) \in Pubs
        /\ m \in DownPackets /\ m.type = "key_offer"
        /\ down' \in [Conns -> Seq(DownPackets)] /\ \A d \in Conns : phase[d] # "up" => down'[d] = << >>
    BY <1>3, ArrivedTyped DEF OnKeyOffer
  <2>2. m.pub \in Pubs /\ m.user \in Names \cup {None}
    BY <2>1, DownShapes
  <2> HIDE DEF m
  <2>3. Verifies(c, m.pub) => Append(up[c], SenderKey(OwnPub(c), m.pub)) \in Seq(UpPackets)
    <3>1. Verifies(c, m.pub) => SenderKey(OwnPub(c), m.pub) \in UpPackets
      BY <2>1, <2>2 DEF SenderKey, UpPackets, KeyPackets, Verifies, OwnPub
    <3>. QED
      BY <1>0, <3>1, AppendProperties
  <2>4. QueuesTyped'
    <3>1. up' = up \/ (Verifies(c, m.pub) /\ up' = [up EXCEPT ![c] = Append(up[c], SenderKey(OwnPub(c), m.pub))])
      BY <1>3 DEF OnKeyOffer, m
    <3>. QED
      BY <1>0, <1>3, <2>1, <2>3, <3>1 DEF OnKeyOffer, QueuesTyped
  <2>5. TypeOK'
    <3>1. UNCHANGED <<at, server, leftOut>>
      BY <1>3 DEF OnKeyOffer
    <3>2. CASE Echo(c, m.pub)
      BY <1>0, <1>3, <3>1, <3>2 DEF OnKeyOffer, TypeOK, m
    <3>3. CASE ~Echo(c, m.pub) /\ Verifies(c, m.pub)
      <4>1. /\ pairs' = [pairs EXCEPT ![c][cipher[c]] = pairs[c][cipher[c]] \cup {m.pub}]
            /\ ring' = [ring EXCEPT ![c][cipher[c]] = ring[c][cipher[c]] \cup Waiting(c, m.pub)]
            /\ peerUsers' = [peerUsers EXCEPT ![c][m.pub] = m.user]
            /\ pending' = [pending EXCEPT ![c] = pending[c] \ Waiting(c, m.pub)]
            /\ UNCHANGED mismatched
        BY <1>3, <3>3 DEF OnKeyOffer, m
      <4>2. /\ pairs \in [Conns -> [Rooms -> SUBSET Pubs]]
            /\ ring \in [Conns -> [Rooms -> SUBSET Pubs]]
            /\ pairs[c][cipher[c]] \cup {m.pub} \in SUBSET Pubs
            /\ ring[c][cipher[c]] \cup Waiting(c, m.pub) \in SUBSET Pubs
        BY <1>0, <2>1, <2>2 DEF TypeOK, Waiting
      <4>3. /\ pairs' \in [Conns -> [Rooms -> SUBSET Pubs]]
            /\ ring' \in [Conns -> [Rooms -> SUBSET Pubs]]
        BY <2>1, <4>1, <4>2, TableEdited
      <4>4. [peerUsers[c] EXCEPT ![m.pub] = m.user] \in [Pubs -> Names \cup {None}]
        BY <1>0, <2>2 DEF TypeOK
      <4>5. /\ peerUsers' \in [Conns -> [Pubs -> Names \cup {None}]]
            /\ pending' \in [Conns -> SUBSET Pubs]
        BY <1>0, <4>1, <4>4 DEF TypeOK
      <4>. QED
        BY <1>0, <3>1, <4>1, <4>3, <4>5 DEF TypeOK
    <3>4. CASE ~Echo(c, m.pub) /\ ~Verifies(c, m.pub)
      <4>1. mismatched' = [mismatched EXCEPT ![c] = mismatched[c] \cup {m.pub}]
            /\ UNCHANGED <<pairs, ring, peerUsers, pending>>
        BY <1>3, <3>4 DEF OnKeyOffer, m
      <4>. QED
        BY <1>0, <2>2, <3>1, <4>1 DEF TypeOK
    <3>. QED
      BY <3>2, <3>3, <3>4
  <2>6. PhaseInv'
    BY <1>0, <1>3, <2>1 DEF OnKeyOffer, PhaseInv
  <2>. QED
    BY <2>4, <2>5, <2>6 DEF Typed
<1>4. CASE OnSenderKey(c)
  <2>1. /\ phase[c] = "up" /\ room[c] \in Rooms /\ cipher[c] \in Rooms /\ m \in DownPackets /\ m.type = "sender_key"
        /\ down' \in [Conns -> Seq(DownPackets)] /\ \A d \in Conns : phase[d] # "up" => down'[d] = << >>
    BY <1>4, ArrivedTyped DEF OnSenderKey
  <2>2. m.pub \in Pubs
    BY <2>1, DownShapes DEF KeyPackets
  <2> HIDE DEF m
  <2>3. QueuesTyped'
    BY <1>0, <1>4, <2>1 DEF OnSenderKey, QueuesTyped
  <2>4. TypeOK'
    <3>1. /\ \/ ring' = ring
             \/ ring' = [ring EXCEPT ![c][cipher[c]] = ring[c][cipher[c]] \cup {m.pub}]
          /\ \/ pending' = pending
             \/ pending' = [pending EXCEPT ![c] = pending[c] \cup {m.pub}]
          /\ UNCHANGED <<at, pairs, peerUsers, mismatched, server, leftOut>>
      BY <1>4 DEF OnSenderKey, m
    <3>2. ring \in [Conns -> [Rooms -> SUBSET Pubs]] /\ ring[c][cipher[c]] \cup {m.pub} \in SUBSET Pubs
      BY <1>0, <2>1, <2>2 DEF TypeOK
    <3>3. ring' \in [Conns -> [Rooms -> SUBSET Pubs]]
      <4>1. CASE ring' = ring
        BY <3>2, <4>1
      <4>2. CASE ring' = [ring EXCEPT ![c][cipher[c]] = ring[c][cipher[c]] \cup {m.pub}]
        BY <2>1, <3>2, <4>2, TableEdited
      <4>. QED
        BY <3>1, <4>1, <4>2, Zenon
    <3>4. pending' \in [Conns -> SUBSET Pubs]
      <4>1. pending \in [Conns -> SUBSET Pubs] /\ pending[c] \cup {m.pub} \in SUBSET Pubs
        BY <1>0, <2>2 DEF TypeOK
      <4>2. CASE pending' = pending
        BY <4>1, <4>2
      <4>3. CASE pending' = [pending EXCEPT ![c] = pending[c] \cup {m.pub}]
        BY <4>1, <4>3
      <4>. QED
        BY <3>1, <4>2, <4>3, Zenon
    <3>. QED
      BY <1>0, <3>1, <3>3, <3>4 DEF TypeOK
  <2>5. PhaseInv'
    BY <1>0, <1>4, <2>1 DEF OnSenderKey, PhaseInv
  <2>. QED
    BY <2>3, <2>4, <2>5 DEF Typed
<1>. QED
  BY <1>1, <1>2, <1>3, <1>4 DEF Client

\* What the server thread of a connection does.
LEMMA ServerTyped ==
    ASSUME Typed, NEW c \in Conns, Server(c)
    PROVE  Typed'
<1> USE DEF at, keys, server
<1> DEFINE m == Head(up[c])
           o == Head(todo[c])
<1>0. TypeOK /\ PhaseInv /\ QueuesTyped
  BY DEF Typed
<1>1. \A r \in Rooms : Enter(r) \in Ops
  BY DEF Enter, Ops
<1>2. \A r \in Rooms \cup {None} : ReadList(r) \in Ops
  BY DEF ReadList, Ops
<1>3. \A r : NamesIn(r) \in SUBSET (Names \cup {None})
  BY <1>0 DEF NamesIn, Present, TypeOK
<1>20. ASSUME NEW r \in Rooms
       PROVE  [members EXCEPT ![r] = Without(members[r], c)] \in [Rooms -> Seq(Conns)]
  <2>1. members \in [Rooms -> Seq(Conns)]
    BY <1>0 DEF TypeOK
  <2>2. Without(members[r], c) \in Seq(Conns)
    BY <2>1, WithoutTyped
  <2>. QED
    BY <2>1, <2>2
<1>4. CASE HandleJoin(c)
  <2>1. m \in UpPackets /\ m.type = "join" /\ up' \in [Conns -> Seq(UpPackets)]
    BY <1>4, ReadTyped DEF HandleJoin
  <2>2. m.room \in Rooms /\ where[c] \in Rooms \cup {None}
    BY <1>0, <2>1, UpShapes DEF TypeOK
  <2> HIDE DEF m
  <2>3. /\ <<Enter(m.room), ReadList(m.room)>> \in Seq(Ops)
        /\ <<ReadList(where[c]), Enter(m.room), ReadList(m.room)>> \in Seq(Ops)
    <3>1. Enter(m.room) \in Ops /\ ReadList(m.room) \in Ops /\ ReadList(where[c]) \in Ops
      BY <1>1, <1>2, <2>2
    <3>. QED
      BY <3>1
  <2>4. QueuesTyped'
    BY <1>0, <1>4, <2>1, <2>3 DEF HandleJoin, QueuesTyped, m
  <2>5. members' \in [Rooms -> Seq(Conns)]
    <3>1. CASE where[c] \in {None, m.room}
      BY <1>0, <1>4, <3>1 DEF HandleJoin, TypeOK, m
    <3>2. CASE where[c] \notin {None, m.room}
      <4>1. members' = [members EXCEPT ![where[c]] = Without(members[where[c]], c)]
        BY <1>4, <3>2 DEF HandleJoin, m
      <4>. QED
        BY <1>20, <2>2, <3>2, <4>1
    <3>. QED
      BY <3>1, <3>2
  <2>6. where' \in [Conns -> Rooms \cup {None}]
    BY <1>0, <1>4 DEF HandleJoin, TypeOK
  <2>7. UNCHANGED <<at, keys, name, down, leftOut>>
    BY <1>4 DEF HandleJoin
  <2>. QED
    BY <1>0, <2>4, <2>5, <2>6, <2>7 DEF Typed, TypeOK, PhaseInv
<1>5. CASE HandleKeyPacket(c)
  <2> DEFINE n == IF m.type = "key_offer" THEN [m EXCEPT !.user = name[c]] ELSE m
  <2>1. /\ m \in UpPackets /\ m.type \in {"key_offer", "sender_key"}
        /\ up' \in [Conns -> Seq(UpPackets)]
    BY <1>5, ReadTyped DEF HandleKeyPacket
  <2>2. name[c] \in Names \cup {None}
    BY <1>0 DEF TypeOK
  <2>3. n \in DownPackets
    <3> HIDE DEF m
    <3>1. CASE m.type = "key_offer"
      <4>1. m.pub \in Pubs /\ [m EXCEPT !.user = name[c]] = [type |-> "key_offer", pub |-> m.pub, user |-> name[c]]
        BY <2>1, <2>2, <3>1, UpShapes
      <4>. QED
        BY <2>2, <3>1, <4>1 DEF DownPackets
    <3>2. CASE m.type = "sender_key"
      BY <2>1, <3>2, UpShapes DEF DownPackets
    <3>. QED
      BY <2>1, <3>1, <3>2
  <2>4. todo' = [todo EXCEPT ![c] = SendTo(Targets(where[c], n), n)]
    BY <1>5 DEF HandleKeyPacket
  <2> HIDE DEF n
  <2>5. SendTo(Targets(where[c], n), n) \in Seq(Ops)
    BY <2>3, TargetsTyped, SendTyped
  <2>6. QueuesTyped'
    BY <1>0, <1>5, <2>1, <2>4, <2>5 DEF HandleKeyPacket, QueuesTyped
  <2>. QED
    BY <1>0, <1>5, <2>6 DEF HandleKeyPacket, Typed, TypeOK, PhaseInv
<1>6. CASE HandleMessage(c)
  <2>1. up' \in [Conns -> Seq(UpPackets)]
    BY <1>6, ReadTyped DEF HandleMessage
  <2>2. <<ReadList(where[c])>> \in Seq(Ops)
    BY <1>0, <1>2 DEF TypeOK
  <2>3. QueuesTyped'
    BY <1>0, <1>6, <2>1, <2>2 DEF HandleMessage, QueuesTyped
  <2>. QED
    BY <1>0, <1>6, <2>3 DEF HandleMessage, Typed, TypeOK, PhaseInv
<1>7. CASE HandleEof(c)
  <2>1. up' \in [Conns -> Seq(UpPackets)]
    BY <1>7, ReadTyped DEF HandleEof
  <2>2. <<ReadList(where[c])>> \in Seq(Ops)
    BY <1>0, <1>2 DEF TypeOK
  <2>3. todo' \in [Conns -> Seq(Ops)]
    BY <1>0, <1>7, <2>2 DEF HandleEof, QueuesTyped
  <2>4. UNCHANGED <<at, keys, name, down, leftOut>>
    BY <1>7 DEF HandleEof
  <2>5. where' \in [Conns -> Rooms \cup {None}]
    BY <1>0, <1>7 DEF HandleEof, TypeOK
  <2>6. members' \in [Rooms -> Seq(Conns)]
    <3>1. CASE where[c] = None
      BY <1>0, <1>7, <3>1 DEF HandleEof, TypeOK
    <3>2. CASE where[c] # None
      <4>1. members' = [members EXCEPT ![where[c]] = Without(members[where[c]], c)]
        BY <1>7, <3>2 DEF HandleEof
      <4>2. where[c] \in Rooms
        BY <1>0, <3>2 DEF TypeOK
      <4>. QED
        BY <1>20, <4>1, <4>2
    <3>. QED
      BY <3>1, <3>2
  <2>. QED
    BY <1>0, <2>1, <2>3, <2>4, <2>5, <2>6 DEF Typed, TypeOK, PhaseInv, QueuesTyped
<1>8. CASE EnterRoom(c)
  <2>1. o \in Ops /\ o.op = "enter" /\ Tail(todo[c]) \in Seq(Ops)
    BY <1>8, DoneTyped DEF EnterRoom
  <2>2. o.room \in Rooms
    BY <2>1, OpShapes
  <2> HIDE DEF o
  <2>3. PICK u \in Names :
           /\ name' = [name EXCEPT ![c] = u]
           /\ todo' = [todo EXCEPT ![c] = SendTo(<<c>>, Joined(o.room, u)) \o Tail(todo[c])]
    BY <1>8, UserAssumption DEF EnterRoom, Names, o
  <2>4. Joined(o.room, u) \in DownPackets
    BY <2>2 DEF Joined, DownPackets
  <2>5. SendTo(<<c>>, Joined(o.room, u)) \o Tail(todo[c]) \in Seq(Ops)
    <3>1. <<c>> \in Seq(Conns)
      OBVIOUS
    <3>2. SendTo(<<c>>, Joined(o.room, u)) \in Seq(Ops)
      BY <2>4, <3>1, SendTyped
    <3>. QED
      BY <2>1, <3>2, ConcatProperties
  <2>6. QueuesTyped'
    BY <1>0, <1>8, <2>3, <2>5 DEF EnterRoom, QueuesTyped
  <2>7. members' \in [Rooms -> Seq(Conns)]
    <3>1. members \in [Rooms -> Seq(Conns)] /\ Append(members[o.room], c) \in Seq(Conns)
      BY <1>0, <2>2, AppendProperties DEF TypeOK
    <3>2. members' \in {members, [members EXCEPT ![o.room] = Append(members[o.room], c)]}
      BY <1>8 DEF EnterRoom, o
    <3>. QED
      BY <2>2, <3>1, <3>2
  <2>8. where' = [where EXCEPT ![c] = o.room] /\ UNCHANGED <<at, keys, up, down, leftOut>>
    BY <1>8 DEF EnterRoom, o
  <2>. QED
    BY <1>0, <2>2, <2>3, <2>6, <2>7, <2>8 DEF Typed, TypeOK, PhaseInv
<1>9. CASE ReadMembers(c)
  <2>1. o \in Ops /\ o.op = "read" /\ Tail(todo[c]) \in Seq(Ops)
    BY <1>9, DoneTyped DEF ReadMembers
  <2>2. o.room \in Rooms \cup {None}
    BY <2>1, OpShapes
  <2> HIDE DEF o
  <2>3. <<Cast(o.room, Snapshot(NamesIn(o.room)))>> \in Seq(Ops)
    <3>1. Snapshot(NamesIn(o.room)) \in DownPackets
      BY <1>3 DEF Snapshot, DownPackets
    <3>2. Cast(o.room, Snapshot(NamesIn(o.room))) \in Ops
      BY <2>2, <3>1 DEF Cast, Ops
    <3>. QED
      BY <3>2
  <2>4. <<Cast(o.room, Snapshot(NamesIn(o.room)))>> \o Tail(todo[c]) \in Seq(Ops)
    BY <2>1, <2>3, ConcatProperties
  <2>5. QueuesTyped'
    BY <1>0, <1>9, <2>4 DEF ReadMembers, QueuesTyped, o
  <2>. QED
    BY <1>0, <1>9, <2>5 DEF ReadMembers, Typed, TypeOK, PhaseInv
<1>10. CASE ReadTargets(c)
  <2>1. o \in Ops /\ o.op = "cast" /\ Tail(todo[c]) \in Seq(Ops)
    BY <1>10, DoneTyped DEF ReadTargets
  <2>2. o.packet \in DownPackets
    BY <2>1, OpShapes
  <2>3. todo' = [todo EXCEPT ![c] = SendTo(Targets(o.room, o.packet), o.packet) \o Tail(todo[c])]
    BY <1>10 DEF ReadTargets
  <2> HIDE DEF o
  <2>4. SendTo(Targets(o.room, o.packet), o.packet) \o Tail(todo[c]) \in Seq(Ops)
    BY <2>1, <2>2, TargetsTyped, SendTyped, ConcatProperties
  <2>5. QueuesTyped'
    BY <1>0, <1>10, <2>3, <2>4 DEF ReadTargets, QueuesTyped
  <2>. QED
    BY <1>0, <1>10, <2>5 DEF ReadTargets, Typed, TypeOK, PhaseInv
<1>11. CASE SendOne(c)
  <2> DEFINE d == Head(o.to)
  <2>1. o \in Ops /\ o.op = "send" /\ Tail(todo[c]) \in Seq(Ops)
    BY <1>11, DoneTyped DEF SendOne
  <2>2. o.packet \in DownPackets /\ o.to \in Seq(Conns) /\ o.to # << >>
    BY <2>1, OpShapes
  <2>3. d \in Conns /\ Tail(o.to) \in Seq(Conns)
    BY <2>2, HeadTailProperties
  <2>4. /\ todo' = [todo EXCEPT ![c] = SendTo(Tail(o.to), o.packet) \o Tail(todo[c])]
        /\ IF phase[d] = "up"
             THEN /\ down' = [down EXCEPT ![d] = Append(down[d], o.packet)]
                  /\ leftOut' = LeftOut(d, o.packet)
             ELSE UNCHANGED <<down, leftOut>>
        /\ UNCHANGED <<at, keys, where, members, name, up>>
    BY <1>11 DEF SendOne
  <2>5. LeftOut(d, o.packet) \subseteq Conns
    BY <1>0 DEF LeftOut, TypeOK
  <2> HIDE DEF o, d
  <2>6. SendTo(Tail(o.to), o.packet) \o Tail(todo[c]) \in Seq(Ops)
    BY <2>1, <2>2, <2>3, SendTyped, ConcatProperties
  <2>7. Append(down[d], o.packet) \in Seq(DownPackets)
    BY <1>0, <2>2, <2>3, AppendProperties DEF QueuesTyped
  <2>8. QueuesTyped'
    BY <1>0, <2>4, <2>6, <2>7 DEF QueuesTyped
  <2>9. TypeOK'
    BY <1>0, <2>4, <2>5 DEF TypeOK
  <2>10. PhaseInv'
    BY <1>0, <2>4 DEF PhaseInv, QueuesTyped
  <2>. QED
    BY <2>8, <2>9, <2>10 DEF Typed
<1>. QED
  BY <1>4, <1>5, <1>6, <1>7, <1>8, <1>9, <1>10, <1>11 DEF Server

\* Every step keeps the types.
LEMMA TypedStep == Typed /\ [Next]_vars => Typed'
<1>1. CASE UNCHANGED vars
  BY <1>1 DEF vars, at, keys, server, Typed, TypeOK, QueuesTyped, PhaseInv
<1>. QED
  BY <1>1, UserTyped, ClientTyped, ServerTyped, MoverTyped DEF Next

\* All variables of the exchange stay in their types.
THEOREM TypeCorrect == Spec => []TypeOK
<1>1. Spec => []Typed
  BY TypedInit, TypedStep, PTL DEF Spec
<1>. QED
  BY <1>1, PTL DEF Typed

-------------------------------------------------------------------------------
(* Sessions of two rooms never mix, and no wrapped key waits in vain *)

SessionsInv == SessionsApart /\ NothingWaitsInVain

\* One client changes its sessions and waiting keys, and what it has got is
\* verified and no longer waiting.
LEMMA SessionsKept ==
    ASSUME Typed, SessionsInv, NEW c \in Conns,
           \A d \in Conns \ {c} : UNCHANGED <<pairs[d], ring[d], pending[d]>>,
           \A r \in Rooms : ring'[c][r] \subseteq pairs'[c][r],
           \A r \in Rooms : \A p \in pairs'[c][r] \ pairs[c][r] :
               p[2] = r /\ PasswordOf[p[1]] = PasswordOf[c],
           \A p \in pending'[c] : p \notin pairs'[c][p[2]]
    PROVE  SessionsInv'
BY DEF SessionsInv, SessionsApart, NothingWaitsInVain

\* Every step keeps them apart.
LEMMA SessionsStep == Typed /\ SessionsInv /\ [Next]_vars => SessionsInv'
<1> SUFFICES ASSUME Typed, SessionsInv, [Next]_vars
             PROVE  SessionsInv'
  OBVIOUS
<1>1. CASE UNCHANGED <<pairs, ring, pending>>
  BY <1>1 DEF SessionsInv, SessionsApart, NothingWaitsInVain
<1>2. /\ pairs \in [Conns -> [Rooms -> SUBSET Pubs]] /\ ring \in [Conns -> [Rooms -> SUBSET Pubs]]
      /\ peerUsers \in [Conns -> [Pubs -> Names \cup {None}]] /\ pending \in [Conns -> SUBSET Pubs]
  BY DEF Typed, TypeOK
<1>3. /\ \A d \in Conns, r \in Rooms : ring[d][r] \subseteq pairs[d][r]
      /\ \A d \in Conns : \A p \in pending[d] : p \notin pairs[d][p[2]]
  BY DEF SessionsInv, SessionsApart, NothingWaitsInVain
<1>4. ASSUME NEW c \in Conns, Disconnect(c)
      PROVE  SessionsInv'
  <2>1. /\ pairs' = [pairs EXCEPT ![c] = [r \in Rooms |-> {}]]
        /\ ring' = [ring EXCEPT ![c] = [r \in Rooms |-> {}]]
        /\ pending' = [pending EXCEPT ![c] = {}]
    BY <1>4 DEF Disconnect
  <2>2. \A d \in Conns \ {c} : UNCHANGED <<pairs[d], ring[d], pending[d]>>
    BY <1>2, <2>1
  <2>3. /\ \A r \in Rooms : pairs'[c][r] = {} /\ ring'[c][r] = {}
        /\ pending'[c] = {}
    BY <1>2, <2>1
  <2>. QED
    BY <2>2, <2>3, SessionsKept
<1>5. ASSUME NEW c \in Conns, OnSnapshot(c)
      PROVE  SessionsInv'
  <2> DEFINE gone == Absent(c, Head(down[c]).users)
  <2>1. /\ pairs' = [pairs EXCEPT ![c][cipher[c]] = pairs[c][cipher[c]] \ gone]
        /\ ring' = [ring EXCEPT ![c][cipher[c]] = ring[c][cipher[c]] \ gone]
        /\ pending' = [pending EXCEPT ![c] = pending[c] \ gone]
    BY <1>5 DEF OnSnapshot
  <2>2. cipher[c] \in Rooms
    BY <1>5, ArrivedTyped DEF OnSnapshot
  <2> HIDE DEF gone
  <2>3. \A d \in Conns, r \in Rooms :
          /\ pairs'[d][r] = IF d = c /\ r = cipher[c] THEN pairs[c][cipher[c]] \ gone ELSE pairs[d][r]
          /\ ring'[d][r] = IF d = c /\ r = cipher[c] THEN ring[c][cipher[c]] \ gone ELSE ring[d][r]
    BY <1>2, <2>1, <2>2, TableEdited
  <2>4. \A d \in Conns \ {c} : UNCHANGED <<pairs[d], ring[d], pending[d]>>
    BY <1>2, <2>1
  <2>5. \A p \in pending'[c] : p \in pending[c] /\ p \in Pubs
    BY <1>2, <2>1
  <2>6. \A p \in Pubs : p[2] \in Rooms
    BY DEF Pubs
  <2>7. \A r \in Rooms : pairs'[c][r] \subseteq pairs[c][r] /\ ring'[c][r] \subseteq pairs'[c][r]
    BY <1>3, <2>3
  <2>. QED
    BY <1>3, <2>4, <2>5, <2>6, <2>7, SessionsKept
<1>6. ASSUME NEW c \in Conns, OnJoined(c)
      PROVE  SessionsInv'
  <2>1. CASE Head(down[c]).room = room[c]
    BY <1>1, <1>6, <2>1 DEF OnJoined, keys
  <2>2. CASE Head(down[c]).room # room[c]
    <3> DEFINE held == {p \in Pubs : peerUsers[c][p] # None}
    <3>1. /\ pairs' = [pairs EXCEPT ![c][cipher[c]] = pairs[c][cipher[c]] \ held]
          /\ ring' = [ring EXCEPT ![c][cipher[c]] = ring[c][cipher[c]] \ held]
          /\ pending' = [pending EXCEPT ![c] = {}]
      BY <1>6, <2>2 DEF OnJoined
    <3>2. cipher[c] \in Rooms
      BY <1>6, ArrivedTyped DEF OnJoined
    <3> HIDE DEF held
    <3>3. \A d \in Conns, r \in Rooms :
            /\ pairs'[d][r] = IF d = c /\ r = cipher[c] THEN pairs[c][cipher[c]] \ held ELSE pairs[d][r]
            /\ ring'[d][r] = IF d = c /\ r = cipher[c] THEN ring[c][cipher[c]] \ held ELSE ring[d][r]
      BY <1>2, <3>1, <3>2, TableEdited
    <3>4. \A d \in Conns \ {c} : UNCHANGED <<pairs[d], ring[d], pending[d]>>
      BY <1>2, <3>1
    <3>5. pending'[c] = {}
      BY <1>2, <3>1
    <3>6. \A r \in Rooms : pairs'[c][r] \subseteq pairs[c][r] /\ ring'[c][r] \subseteq pairs'[c][r]
      BY <1>3, <3>3
    <3>. QED
      BY <3>4, <3>5, <3>6, SessionsKept
  <2>. QED
    BY <2>1, <2>2
<1>7. ASSUME NEW c \in Conns, OnKeyOffer(c)
      PROVE  SessionsInv'
  <2> DEFINE p == Head(down[c]).pub
  <2>1. CASE Echo(c, p) \/ ~Verifies(c, p)
    BY <1>1, <1>7, <2>1 DEF OnKeyOffer, keys
  <2>2. CASE ~Echo(c, p) /\ Verifies(c, p)
    <3>1. /\ pairs' = [pairs EXCEPT ![c][cipher[c]] = pairs[c][cipher[c]] \cup {p}]
          /\ ring' = [ring EXCEPT ![c][cipher[c]] = ring[c][cipher[c]] \cup Waiting(c, p)]
          /\ pending' = [pending EXCEPT ![c] = pending[c] \ Waiting(c, p)]
      BY <1>7, <2>2 DEF OnKeyOffer
    <3>2. cipher[c] \in Rooms /\ Head(down[c]) \in DownPackets /\ Head(down[c]).type = "key_offer"
      BY <1>7, ArrivedTyped DEF OnKeyOffer
    <3>3. p \in Pubs
      BY <3>2, DownShapes
    <3>4. p[2] = cipher[c] /\ PasswordOf[p[1]] = PasswordOf[c]
      BY <2>2 DEF Verifies
    <3>5. Waiting(c, p) \subseteq {p} /\ (p \in pending[c] => p \in Waiting(c, p))
      BY DEF Waiting
    <3> HIDE DEF p
    <3>6. \A d \in Conns, r \in Rooms :
            /\ pairs'[d][r] = IF d = c /\ r = cipher[c] THEN pairs[c][cipher[c]] \cup {p} ELSE pairs[d][r]
            /\ ring'[d][r] = IF d = c /\ r = cipher[c] THEN ring[c][cipher[c]] \cup Waiting(c, p) ELSE ring[d][r]
      BY <1>2, <3>1, <3>2, <3>3, <3>5, TableEdited
    <3>7. \A d \in Conns \ {c} : UNCHANGED <<pairs[d], ring[d], pending[d]>>
      BY <1>2, <3>1
    <3>8. \A q \in pending'[c] : q \in pending[c] /\ q # p /\ q[2] \in Rooms
      BY <1>2, <3>1, <3>5 DEF Pubs
    <3>9. \A r \in Rooms : ring'[c][r] \subseteq pairs'[c][r]
      BY <1>3, <3>5, <3>6
    <3>10. \A r \in Rooms : \A q \in pairs'[c][r] \ pairs[c][r] : q = p /\ r = cipher[c]
      BY <3>6
    <3>11. \A q \in pending'[c] : q \notin pairs'[c][q[2]]
      BY <1>3, <3>8, <3>10
    <3>. QED
      BY <3>4, <3>7, <3>9, <3>10, <3>11, SessionsKept
  <2>. QED
    BY <2>1, <2>2
<1>8. ASSUME NEW c \in Conns, OnSenderKey(c)
      PROVE  SessionsInv'
  <2> DEFINE p == Head(down[c]).pub
  <2>1. cipher[c] \in Rooms /\ Head(down[c]) \in DownPackets /\ Head(down[c]).type = "sender_key"
    BY <1>8, ArrivedTyped DEF OnSenderKey
  <2>2. p \in Pubs /\ p[2] = Head(down[c]).to[2]
    BY <2>1, DownShapes DEF KeyPackets
  <2>3. UNCHANGED pairs
    BY <1>8 DEF OnSenderKey
  <2>4. CASE Head(down[c]).to # OwnPub(c)
    BY <1>1, <1>8, <2>3, <2>4 DEF OnSenderKey
  <2>5. CASE Head(down[c]).to = OwnPub(c) /\ p \in pairs[c][cipher[c]]
    <3>1. ring' = [ring EXCEPT ![c][cipher[c]] = ring[c][cipher[c]] \cup {p}] /\ UNCHANGED pending
      BY <1>8, <2>5 DEF OnSenderKey
    <3> HIDE DEF p
    <3>2. \A d \in Conns, r \in Rooms :
            ring'[d][r] = IF d = c /\ r = cipher[c] THEN ring[c][cipher[c]] \cup {p} ELSE ring[d][r]
      BY <1>2, <2>1, <2>2, <3>1, TableEdited
    <3>3. \A d \in Conns \ {c} : UNCHANGED <<pairs[d], ring[d], pending[d]>>
      BY <1>2, <2>3, <3>1
    <3>4. \A r \in Rooms : ring'[c][r] \subseteq pairs'[c][r]
      BY <1>3, <2>3, <2>5, <3>2
    <3>. QED
      BY <1>3, <2>3, <3>1, <3>3, <3>4, SessionsKept
  <2>6. CASE Head(down[c]).to = OwnPub(c) /\ p \notin pairs[c][cipher[c]]
    <3>1. pending' = [pending EXCEPT ![c] = pending[c] \cup {p}] /\ UNCHANGED ring
      BY <1>8, <2>6 DEF OnSenderKey
    <3>2. p[2] = cipher[c]
      BY <2>2, <2>6 DEF OwnPub
    <3> HIDE DEF p
    <3>3. \A d \in Conns \ {c} : UNCHANGED <<pairs[d], ring[d], pending[d]>>
      BY <1>2, <2>3, <3>1
    <3>4. \A q \in pending'[c] : q \notin pairs'[c][q[2]]
      BY <1>2, <1>3, <2>3, <2>6, <3>1, <3>2
    <3>. QED
      BY <1>3, <2>3, <3>1, <3>3, <3>4, SessionsKept
  <2>. QED
    BY <2>4, <2>5, <2>6
<1>9. ASSUME NEW c \in Conns, Server(c) \/ (User(c) /\ ~Disconnect(c)) \/ Mover(c)
      PROVE  UNCHANGED <<pairs, ring, pending>>
  BY <1>9 DEF Server, User, Mover, HandleJoin, HandleKeyPacket, HandleMessage, HandleEof, EnterRoom,
     ReadMembers, ReadTargets, SendOne, Connect, JoinRoom, TakeCipher, SendJoin, SendMessage, keys
<1>10. CASE UNCHANGED vars
  BY <1>1, <1>10 DEF vars, keys
<1>. QED
  BY <1>1, <1>4, <1>5, <1>6, <1>7, <1>8, <1>9, <1>10 DEF Next, Client

\* No connection has a session yet.
LEMMA SessionsInit == Init => SessionsInv
BY DEF Init, SessionsInv, SessionsApart, NothingWaitsInVain

\* Whatever is still on its way when a client changes room, no session
\* verifies or keys a peer of another room or with another password.
THEOREM RoomsNeverMix == Spec => []SessionsApart
<1>1. Spec => [](Typed /\ SessionsInv)
  BY TypedInit, TypedStep, SessionsInit, SessionsStep, PTL DEF Spec
<1>. QED
  BY <1>1, PTL DEF SessionsInv

\* A wrapped key does not wait for an offer that has already come.
THEOREM WaitingIsForAnOffer == Spec => []NothingWaitsInVain
<1>1. Spec => [](Typed /\ SessionsInv)
  BY TypedInit, TypedStep, SessionsInit, SessionsStep, PTL DEF Spec
<1>. QED
  BY <1>1, PTL DEF SessionsInv
===============================================================================
