--------------------------- MODULE VoiceCallProofs ----------------------------
(***************************************************************************)
(* VoiceCall for every number of clients, connections, rooms, tokens and   *)
(* restarts: whatever is asked, answered, given up, lost and renewed, in   *)
(* whichever order.                                                        *)
(***************************************************************************)
EXTENDS VoiceCall, SequenceTheorems, TLAPS

(* Packets on their way *)

UpPackets ==
    [type : {"voice_join"}, pub : Publics] \cup [type : {"voice_leave", "voice_salt"}]
        \cup [type : {"join"}, room : Rooms]
Answers ==
    [type : {"voice_joined"}, id : 1 .. MaxTokens, token : 1 .. MaxTokens, speakable : BOOLEAN]

Has(s, type) == \E i \in 1 .. Len(s) : s[i].type = type

\* The Host will come to one request to join, and to no leaving after it.
Asked(s) ==
    \E i \in 1 .. Len(s) :
        /\ s[i].type = "voice_join"
        /\ \A j \in 1 .. Len(s) : /\ s[j].type = "voice_join" => j = i
                                  /\ s[j].type = "voice_leave" => j < i

\* The Host will come to a leaving, and to no request to join after it.
LeavesLast(s) ==
    \E i \in 1 .. Len(s) :
        /\ s[i].type = "voice_leave"
        /\ \A j \in 1 .. Len(s) : s[j].type = "voice_join" => j < i

\* What one more packet does to a queue.
LEMMA OneMore ==
    ASSUME NEW s \in Seq(UpPackets), NEW p \in UpPackets
    PROVE  /\ s \o <<p>> \in Seq(UpPackets)
           /\ \A type : Has(s \o <<p>>, type) <=> Has(s, type) \/ p.type = type
           /\ Asked(s) /\ p.type \notin {"voice_join", "voice_leave"} => Asked(s \o <<p>>)
           /\ ~Has(s, "voice_join") /\ p.type = "voice_join" => Asked(s \o <<p>>)
           /\ LeavesLast(s) /\ p.type # "voice_join" => LeavesLast(s \o <<p>>)
           /\ p.type = "voice_leave" => LeavesLast(s \o <<p>>)
<1> DEFINE t == s \o <<p>>  n == Len(s)
<1>1. /\ t \in Seq(UpPackets) /\ n \in Nat /\ Len(t) = n + 1
      /\ \A i \in 1 .. n : t[i] = s[i]
      /\ t[n + 1] = p
  OBVIOUS
<1>2. \A i \in 1 .. Len(t) : i \in 1 .. n \/ i = n + 1
  BY <1>1
<1>3. 1 .. n \subseteq 1 .. Len(t) /\ n + 1 \in 1 .. Len(t) /\ \A j \in 1 .. n : j < n + 1
  BY <1>1
<1> HIDE DEF t
<1>4. \A type : Has(t, type) <=> Has(s, type) \/ p.type = type
  BY <1>1, <1>2, <1>3 DEF Has
<1>5. Asked(s) /\ p.type \notin {"voice_join", "voice_leave"} => Asked(t)
  BY <1>1, <1>2, <1>3 DEF Asked
<1>6. ~Has(s, "voice_join") /\ p.type = "voice_join" => Asked(t)
  <2> SUFFICES ASSUME ~Has(s, "voice_join"), p.type = "voice_join"
               PROVE  Asked(t)
    OBVIOUS
  <2>1. \A j \in 1 .. Len(t) : /\ t[j].type = "voice_join" => j = n + 1
                               /\ t[j].type = "voice_leave" => j < n + 1
    BY <1>1, <1>2, <1>3 DEF Has
  <2>. QED
    BY <2>1, <1>1, <1>3 DEF Asked
<1>7. LeavesLast(s) /\ p.type # "voice_join" => LeavesLast(t)
  BY <1>1, <1>2, <1>3 DEF LeavesLast
<1>8. p.type = "voice_leave" => LeavesLast(t)
  <2> SUFFICES ASSUME p.type = "voice_leave"
               PROVE  LeavesLast(t)
    OBVIOUS
  <2>1. \A j \in 1 .. Len(t) : t[j].type = "voice_join" => j < n + 1
    BY <1>1, <1>2, <1>3
  <2>. QED
    BY <2>1, <1>1, <1>3 DEF LeavesLast
<1>. QED
  BY <1>1, <1>4, <1>5, <1>6, <1>7, <1>8 DEF t

\* What handling its first packet does to a queue.
LEMMA OneLess ==
    ASSUME NEW s \in Seq(UpPackets), s # << >>
    PROVE  /\ Head(s) \in UpPackets /\ Tail(s) \in Seq(UpPackets)
           /\ \A type : Has(s, type) <=> Head(s).type = type \/ Has(Tail(s), type)
           /\ Asked(s) /\ Head(s).type = "voice_join" =>
                ~Has(Tail(s), "voice_join") /\ ~Has(Tail(s), "voice_leave")
           /\ Asked(s) /\ Head(s).type # "voice_join" => Asked(Tail(s))
           /\ LeavesLast(s) /\ Head(s).type # "voice_leave" => LeavesLast(Tail(s))
           /\ LeavesLast(s) => LeavesLast(Tail(s)) \/ ~Has(Tail(s), "voice_join")
<1> DEFINE t == Tail(s)  h == Head(s)  n == Len(t)
<1>1. h \in UpPackets /\ t \in Seq(UpPackets) /\ n \in Nat /\ Len(s) = n + 1
  BY HeadTailProperties
<1>2. s[1] = h /\ \A i \in 1 .. n : t[i] = s[i + 1] /\ i + 1 \in 1 .. Len(s)
  BY <1>1, HeadTailProperties
<1>3. \A i \in 1 .. Len(s) : i = 1 \/ (i - 1 \in 1 .. n /\ s[i] = t[i - 1])
  BY <1>1, <1>2
<1>0. 1 \in 1 .. Len(s)
  BY <1>1
<1> HIDE DEF t, h
<1>4. \A type : Has(s, type) <=> h.type = type \/ Has(t, type)
  BY <1>0, <1>1, <1>2, <1>3 DEF Has
<1>5. Asked(s) /\ h.type = "voice_join" => ~Has(t, "voice_join") /\ ~Has(t, "voice_leave")
  BY <1>0, <1>1, <1>2, <1>3 DEF Has, Asked
<1>6. Asked(s) /\ h.type # "voice_join" => Asked(t)
  <2> SUFFICES ASSUME Asked(s), h.type # "voice_join"
               PROVE  Asked(t)
    OBVIOUS
  <2>1. PICK i \in 1 .. Len(s) :
              /\ s[i].type = "voice_join"
              /\ \A j \in 1 .. Len(s) : /\ s[j].type = "voice_join" => j = i
                                        /\ s[j].type = "voice_leave" => j < i
    BY DEF Asked
  <2>2. i - 1 \in 1 .. n /\ t[i - 1].type = "voice_join"
    BY <1>2, <1>3, <2>1
  <2>3. \A j \in 1 .. n : /\ t[j].type = "voice_join" => j = i - 1
                          /\ t[j].type = "voice_leave" => j < i - 1
    BY <1>1, <1>2, <2>1
  <2>. QED
    BY <2>2, <2>3 DEF Asked
<1>7. LeavesLast(s) => LeavesLast(t) \/ (h.type = "voice_leave" /\ ~Has(t, "voice_join"))
  <2> SUFFICES ASSUME LeavesLast(s)
               PROVE  LeavesLast(t) \/ (h.type = "voice_leave" /\ ~Has(t, "voice_join"))
    OBVIOUS
  <2>1. PICK i \in 1 .. Len(s) :
              /\ s[i].type = "voice_leave"
              /\ \A j \in 1 .. Len(s) : s[j].type = "voice_join" => j < i
    BY DEF LeavesLast
  <2>2. CASE i = 1
    BY <1>1, <1>2, <2>1, <2>2 DEF Has
  <2>3. CASE i # 1
    <3>1. i - 1 \in 1 .. n /\ t[i - 1].type = "voice_leave"
      BY <1>3, <2>1, <2>3
    <3>2. \A j \in 1 .. n : t[j].type = "voice_join" => j < i - 1
      BY <1>1, <1>2, <2>1
    <3>. QED
      BY <3>1, <3>2 DEF LeavesLast
  <2>. QED
    BY <2>2, <2>3
<1>. QED
  BY <1>1, <1>4, <1>5, <1>6, <1>7 DEF t, h

-------------------------------------------------------------------------------
(* The inductive invariant *)

\* Everything is typed, and what is on its way, too.
VarsTyped ==
    /\ TypeOK
    /\ up \in [Conns -> Seq(UpPackets)] /\ down \in [Conns -> Seq(Answers)]
    /\ tokens \in 0 .. MaxTokens /\ next_id \in 1 .. tokens + 1
    /\ old \in BOOLEAN

\* A connection is one client's; a thread works for it while it is up; and
\* nothing is known of those still to come.
ConnInv ==
    /\ \A c, d \in Clients : c # d => conn[c] # conn[d]
    /\ \A k \in open : seat[k] # None
    /\ \A k \in Conns : (\A d \in Clients : k > conn[d]) =>
          /\ k \notin open /\ seat[k] = None /\ part[k] = None
          /\ up[k] = << >> /\ down[k] = << >>

\* An old Host has nobody in a call.
OldInv == old => \A k \in Conns : part[k] = None

\* The Host keeps a participant for the connection, with the answer's id and
\* token, and will come to nothing that changes this.
Admitted(k, answer) ==
    /\ k \in open
    /\ ~Has(up[k], "voice_join") /\ ~Has(up[k], "voice_leave")
    /\ part[k] # None /\ part[k].id = answer.id /\ part[k].token = answer.token

\* Who waits has been asked for, has been answered, or waits for nothing.
JoiningInv(c) ==
    state[c] = "joining" /\ c \notin stale =>
      LET k == conn[c] IN
      \/ down[k] = << >> /\ ~Has(up[k], "voice_join")
      \/ down[k] = << >> /\ k \in open /\ Asked(up[k])
      \/ Len(down[k]) = 1 /\ Admitted(k, down[k][1])

\* Who is in the call was admitted, and the salt is told or on its way.
OnInv(c) ==
    state[c] = "on" /\ c \notin stale =>
      LET k == conn[c] IN
      /\ down[k] = << >>
      /\ Admitted(k, call[c])
      /\ part[k].salted \/ Has(up[k], "voice_salt")

\* The Host has nobody in the call for k once it has come to all that is on
\* its way.
WillBeOut(k) == LeavesLast(up[k]) \/ (part[k] = None /\ ~Has(up[k], "voice_join"))

\* Who is not in the call is out of it at the Host in the end, or gets an answer.
OutInv(c) ==
    c \notin silent /\ conn[c] \in open /\ state[c] # "on" =>
        \/ WillBeOut(conn[c])
        \/ state[c] = "joining" /\ AnswersDue(conn[c])

ClientInv(c) == JoiningInv(c) /\ OnInv(c) /\ OutInv(c)

Inv == VarsTyped /\ ConnInv /\ OldInv /\ \A c \in Clients : ClientInv(c)

-------------------------------------------------------------------------------
(* Types *)

\* What a packet or an answer carries.
LEMMA UpShapes ==
    ASSUME NEW p \in UpPackets
    PROVE  /\ p.type \in {"voice_join", "voice_leave", "voice_salt", "join"}
           /\ p.type = "voice_join" => p.pub \in Publics
           /\ p.type = "join" => p.room \in Rooms
BY DEF UpPackets

\* The same of an answer.
LEMMA AnswerShapes ==
    ASSUME NEW a \in Answers
    PROVE  /\ a.type = "voice_joined" /\ a.speakable \in BOOLEAN
           /\ a.id \in 1 .. MaxTokens /\ a.token \in 1 .. MaxTokens
BY DEF Answers

\* Sending appends to one queue, or to none.
LEMMA SentOne ==
    ASSUME VarsTyped, NEW c \in Clients, NEW p \in UpPackets, Sent(conn[c], <<p>>)
    PROVE  /\ conn[c] \in Conns
           /\ up' \in [Conns -> Seq(UpPackets)]
           /\ \A k \in Conns : up'[k] = IF k = conn[c] /\ k \in open
                                         THEN up[k] \o <<p>> ELSE up[k]
BY OneMore DEF VarsTyped, TypeOK, Sent

\* What a client sends, by its type.
LEMMA ClientPackets ==
    ASSUME VarsTyped, NEW c \in Clients
    PROVE  /\ VoiceJoin(c) \in UpPackets /\ VoiceJoin(c).type = "voice_join"
           /\ VoiceLeave \in UpPackets /\ VoiceLeave.type = "voice_leave"
           /\ VoiceSalt \in UpPackets /\ VoiceSalt.type = "voice_salt"
           /\ \A r \in Rooms : LET p == [type |-> "join", room |-> r]
                               IN p \in UpPackets /\ p.type = "join"
BY DEF VarsTyped, TypeOK, VoiceJoin, VoiceLeave, VoiceSalt, UpPackets, Publics

\* Taking a call down.
LEMMA TeardownTyped ==
    ASSUME VarsTyped, NEW c \in Clients, Teardown(c)
    PROVE  /\ state' \in [Clients -> {"off", "joining", "on"}]
           /\ timer' \in [Clients -> BOOLEAN]
           /\ call' \in [Clients -> Call \cup {None}]
           /\ state'[c] = "off" /\ call'[c] = None /\ timer'[c] = FALSE
           /\ \A d \in Clients \ {c} : /\ state'[d] = state[d]
                                       /\ call'[d] = call[d] /\ timer'[d] = timer[d]
BY DEF VarsTyped, TypeOK, Teardown, StopLink

\* The clients' requests keep the types.
LEMMA RequestsTyped ==
    ASSUME VarsTyped, NEW c \in Clients,
           Join(c) \/ Leave(c) \/ JoinTimeout(c) \/ \E r \in Rooms : ChangeRoom(c, r)
    PROVE  VarsTyped'
<1>1. CASE Join(c)
  <2>1. up' \in [Conns -> Seq(UpPackets)]
    BY <1>1, SentOne, ClientPackets DEF Join
  <2>. QED
    BY <1>1, <2>1 DEF VarsTyped, TypeOK, Join, Ask, hostVars
<1>2. CASE Leave(c)
  <2>1. up' \in [Conns -> Seq(UpPackets)]
    BY <1>2, SentOne, ClientPackets DEF Leave
  <2>2. Teardown(c)
    BY <1>2 DEF Leave
  <2>. QED
    BY <1>2, <2>1, <2>2, TeardownTyped DEF VarsTyped, TypeOK, Leave, hostVars
<1>3. CASE JoinTimeout(c)
  <2>1. Teardown(c)
    BY <1>3 DEF JoinTimeout
  <2>. QED
    BY <1>3, <2>1, TeardownTyped DEF VarsTyped, TypeOK, JoinTimeout, hostVars
<1>4. ASSUME NEW r \in Rooms, ChangeRoom(c, r)
      PROVE  VarsTyped'
  <2>1. up' \in [Conns -> Seq(UpPackets)]
    BY <1>4, SentOne, ClientPackets DEF ChangeRoom
  <2>. QED
    BY <1>4, <2>1 DEF VarsTyped, TypeOK, ChangeRoom, hostVars
<1>. QED
  BY <1>1, <1>2, <1>3, <1>4

\* The answer in hand, and the rest of them.
LEMMA AnswerTaken ==
    ASSUME VarsTyped, NEW c \in Clients, Receive(c)
    PROVE  /\ conn[c] \in Conns /\ down[conn[c]] # << >>
           /\ Head(down[conn[c]]) \in Answers
           /\ down' \in [Conns -> Seq(Answers)]
           /\ \A k \in Conns : down'[k] = IF k = conn[c] THEN Tail(down[k]) ELSE down[k]
<1>1. conn[c] \in Conns /\ down[conn[c]] \in Seq(Answers) /\ down[conn[c]] # << >>
  BY DEF VarsTyped, TypeOK, Receive
<1>2. Head(down[conn[c]]) \in Answers /\ Tail(down[conn[c]]) \in Seq(Answers)
  BY <1>1, HeadTailProperties
<1>. QED
  BY <1>1, <1>2 DEF VarsTyped, Receive

\* Every way the answer may be taken keeps the types.
LEMMA ReceiveTyped ==
    ASSUME VarsTyped, NEW c \in Clients, Receive(c)
    PROVE  VarsTyped'
<1> DEFINE p == Head(down[conn[c]])
<1>1. /\ conn[c] \in Conns /\ p \in Answers
      /\ down' \in [Conns -> Seq(Answers)]
  BY AnswerTaken
<1>2. /\ UNCHANGED <<room, conn, seat, part, next_id, tokens, restarts, old, open, stale>>
      /\ IF Awaited(c) THEN OnJoined(c, p) ELSE UNCHANGED <<state, timer, call, up, silent>>
  BY DEF Receive, hostVars
<1>3. /\ p.id \in 1 .. MaxTokens /\ p.token \in 1 .. MaxTokens /\ p.speakable \in BOOLEAN
      /\ VoiceLeave \in UpPackets /\ VoiceSalt \in UpPackets
      /\ <<conn[c], room[c]>> \in Publics
  BY <1>1, AnswerShapes, ClientPackets DEF VarsTyped, TypeOK, Publics
<1> HIDE DEF p
<1>4. [id |-> p.id, token |-> p.token, pub |-> <<conn[c], room[c]>>] \in Call
  BY <1>3 DEF Call
<1>5. CASE ~Awaited(c)
  BY <1>1, <1>2, <1>5 DEF VarsTyped, TypeOK
<1>6. CASE Awaited(c) /\ (RefuseCodec(c) \/ NoDevice(c))
  <2>1. Teardown(c) /\ silent' \subseteq Clients
    BY <1>6 DEF RefuseCodec, NoDevice, VarsTyped, TypeOK
  <2>2. up' \in [Conns -> Seq(UpPackets)]
    BY <1>3, <1>6, SentOne DEF RefuseCodec, NoDevice
  <2>. QED
    BY <1>1, <1>2, <2>1, <2>2, TeardownTyped DEF VarsTyped, TypeOK
<1>7. CASE Awaited(c) /\ OpenCall(c, p)
  <2>1. up' \in [Conns -> Seq(UpPackets)]
    BY <1>3, <1>7, SentOne DEF OpenCall
  <2>2. call' = [call EXCEPT ![c] = [id |-> p.id, token |-> p.token, pub |-> <<conn[c], room[c]>>]]
    BY <1>7 DEF OpenCall
  <2>3. call' \in [Clients -> Call \cup {None}] /\ call'[c] # None
        /\ \A d \in Clients \ {c} : call'[d] = call[d]
    BY <1>4, <2>2, NoneAssumption DEF VarsTyped, TypeOK
  <2>4. /\ state' = [state EXCEPT ![c] = "on"] /\ timer' = [timer EXCEPT ![c] = FALSE]
        /\ silent' = silent
    BY <1>7 DEF OpenCall
  <2>. QED
    BY <1>1, <1>2, <2>1, <2>3, <2>4 DEF VarsTyped, TypeOK
<1>8. CASE Awaited(c) /\ SaltFails(c, p)
  <2>2. call' = [call EXCEPT ![c] = [id |-> p.id, token |-> p.token, pub |-> <<conn[c], room[c]>>]]
    BY <1>8 DEF SaltFails
  <2>3. call' \in [Clients -> Call \cup {None}] /\ call'[c] # None
        /\ \A d \in Clients \ {c} : call'[d] = call[d]
    BY <1>4, <2>2, NoneAssumption DEF VarsTyped, TypeOK
  <2>4. timer' = [timer EXCEPT ![c] = FALSE] /\ UNCHANGED <<state, up, silent>> /\ state[c] = "joining"
    BY <1>8 DEF SaltFails, Awaited
  <2>. QED
    BY <1>1, <1>2, <2>3, <2>4 DEF VarsTyped, TypeOK
<1>. QED
  BY <1>2, <1>5, <1>6, <1>7, <1>8 DEF OnJoined

\* Somebody's place in the call: the id and token stay, and what is announced.
SameCall(q, p) == q # None /\ q.id = p.id /\ q.token = p.token /\ (p.salted => q.salted)

\* A participant whose room, salt or address is told stays what it is.
LEMMA ParticipantEdited ==
    ASSUME VarsTyped, NEW k \in Conns, part[k] # None
    PROVE  /\ part[k] \in Participant
           /\ \A r \in Rooms : LET q == [part[k] EXCEPT !.room = r]
                               IN q \in Participant /\ SameCall(q, part[k])
           /\ LET q == [part[k] EXCEPT !.salted = TRUE]
              IN q \in Participant /\ SameCall(q, part[k]) /\ q.salted
           /\ LET q == [part[k] EXCEPT !.bound = TRUE]
              IN q \in Participant /\ SameCall(q, part[k])
<1>1. part[k] \in Participant
  BY DEF VarsTyped, TypeOK
<1> DEFINE p == part[k]
<1> HIDE DEF p
<1>2. ASSUME NEW q \in Participant, q.id = p.id, q.token = p.token, p.salted => q.salted
      PROVE  SameCall(q, p)
  BY <1>2, NoneAssumption DEF SameCall
<1>3. p \in Participant
  BY <1>1 DEF p
<1>4. ASSUME NEW r \in Rooms
      PROVE  LET q == [p EXCEPT !.room = r] IN q \in Participant /\ SameCall(q, p)
  <2> DEFINE q == [p EXCEPT !.room = r]
  <2>1. q \in Participant /\ q.id = p.id /\ q.token = p.token /\ q.salted = p.salted
    BY <1>3 DEF Participant
  <2>. QED
    BY <1>2, <2>1
<1>5. LET q == [p EXCEPT !.salted = TRUE] IN q \in Participant /\ SameCall(q, p) /\ q.salted
  <2> DEFINE q == [p EXCEPT !.salted = TRUE]
  <2>1. q \in Participant /\ q.id = p.id /\ q.token = p.token /\ q.salted
    BY <1>3 DEF Participant
  <2>. QED
    BY <1>2, <2>1
<1>6. LET q == [p EXCEPT !.bound = TRUE] IN q \in Participant /\ SameCall(q, p)
  <2> DEFINE q == [p EXCEPT !.bound = TRUE]
  <2>1. q \in Participant /\ q.id = p.id /\ q.token = p.token /\ q.salted = p.salted
    BY <1>3 DEF Participant
  <2>. QED
    BY <1>2, <2>1
<1>. QED
  BY <1>1, <1>4, <1>5, <1>6 DEF p

\* The request in hand, and the rest of them.
LEMMA RequestTaken ==
    ASSUME VarsTyped, NEW k \in Conns, HostHandles(k)
    PROVE  /\ up[k] \in Seq(UpPackets) /\ up[k] # << >> /\ Head(up[k]) \in UpPackets
           /\ up' \in [Conns -> Seq(UpPackets)]
           /\ \A j \in Conns : up'[j] = IF j = k THEN Tail(up[j]) ELSE up[j]
<1>1. up[k] \in Seq(UpPackets) /\ up[k] # << >> /\ up' = [up EXCEPT ![k] = Tail(@)]
  BY DEF VarsTyped, HostHandles
<1>2. Head(up[k]) \in UpPackets /\ Tail(up[k]) \in Seq(UpPackets)
  BY <1>1, OneLess
<1>. QED
  BY <1>1, <1>2 DEF VarsTyped

\* What joining does at the Host: a participant with the next id and token, and
\* the answer to it.
LEMMA JoinHandled ==
    ASSUME VarsTyped, NEW k \in Conns, seat[k] # None, NEW p \in UpPackets,
           p.type = "voice_join", ~old, HandleVoiceJoin(k, p)
    PROVE  \E q \in Participant, a \in Answers :
             /\ part' = [part EXCEPT ![k] = q] /\ down' = [down EXCEPT ![k] = Append(@, a)]
             /\ q.id = a.id /\ q.token = a.token
             /\ tokens' \in 0 .. MaxTokens /\ next_id' \in 1 .. tokens' + 1
<1> DEFINE q == [id |-> next_id, token |-> tokens + 1, room |-> seat[k],
                 pub |-> p.pub, salted |-> FALSE, bound |-> FALSE]
           a(b) == [type |-> "voice_joined", id |-> next_id, token |-> tokens + 1,
                    speakable |-> b]
<1>1. /\ tokens < MaxTokens /\ tokens' = tokens + 1 /\ next_id' = next_id + 1
      /\ part' = [part EXCEPT ![k] = q]
  BY DEF HandleVoiceJoin, Renewed
<1>2. PICK b \in BOOLEAN : down' = [down EXCEPT ![k] = Append(@, a(b))]
  BY DEF HandleVoiceJoin
<1>3. /\ next_id \in 1 .. MaxTokens /\ tokens + 1 \in 1 .. MaxTokens
      /\ tokens' \in 0 .. MaxTokens /\ next_id' \in 1 .. tokens' + 1
  BY <1>1, BoundAssumption DEF VarsTyped
<1>4. q \in Participant
  BY <1>3, UpShapes DEF VarsTyped, TypeOK, Participant
<1>5. a(b) \in Answers
  BY <1>3 DEF Answers
<1>6. q.id = a(b).id /\ q.token = a(b).token
  OBVIOUS
<1> HIDE DEF q, a
<1>. QED
  BY <1>1, <1>2, <1>3, <1>4, <1>5, <1>6

\* The Host's threads keep the types.
LEMMA HandlesTyped ==
    ASSUME VarsTyped, NEW k \in Conns, HostHandles(k)
    PROVE  VarsTyped'
<1> DEFINE p == Head(up[k])
<1>1. p \in UpPackets /\ up' \in [Conns -> Seq(UpPackets)] /\ seat[k] # None
  BY RequestTaken DEF HostHandles
<1>2. UNCHANGED <<room, conn, state, timer, call, stale, silent, restarts, old, open>>
  BY DEF HostHandles, clientVars
<1>3. seat' = IF p.type = "join" THEN [seat EXCEPT ![k] = p.room] ELSE seat
  BY DEF HostHandles
<1>4. \/ p.type = "voice_join" /\ HandleVoiceJoin(k, p)
      \/ p.type = "voice_salt" /\ HandleVoiceSalt(k)
      \/ p.type = "voice_leave" /\ HandleVoiceLeave(k)
      \/ p.type = "join" /\ HandleRoom(k, p.room)
  BY DEF HostHandles
<1> HIDE DEF p
<1>5. seat' \in [Conns -> Rooms \cup {None}]
  BY <1>1, <1>3, UpShapes DEF VarsTyped, TypeOK
<1>6. SUFFICES /\ part' \in [Conns -> Participant \cup {None}]
               /\ down' \in [Conns -> Seq(Answers)]
               /\ tokens' \in 0 .. MaxTokens /\ next_id' \in 1 .. tokens' + 1
  BY <1>1, <1>2, <1>5, <1>6 DEF VarsTyped, TypeOK
<1>7. CASE p.type = "voice_join" /\ HandleVoiceJoin(k, p)
  <2>1. CASE old
    BY <1>7, <2>1 DEF HandleVoiceJoin, VarsTyped, TypeOK
  <2>2. CASE ~old
    <3>1. PICK q \in Participant, a \in Answers :
             /\ part' = [part EXCEPT ![k] = q] /\ down' = [down EXCEPT ![k] = Append(@, a)]
             /\ q.id = a.id /\ q.token = a.token
             /\ tokens' \in 0 .. MaxTokens /\ next_id' \in 1 .. tokens' + 1
      BY <1>1, <1>7, <2>2, JoinHandled
    <3>2. Append(down[k], a) \in Seq(Answers)
      BY DEF VarsTyped
    <3>. QED
      BY <3>1, <3>2 DEF VarsTyped, TypeOK
  <2>. QED
    BY <2>1, <2>2
<1>8. CASE p.type = "voice_salt" /\ HandleVoiceSalt(k)
  <2>1. part' \in [Conns -> Participant \cup {None}]
    BY <1>8, ParticipantEdited DEF HandleVoiceSalt, VarsTyped, TypeOK
  <2>. QED
    BY <1>8, <2>1 DEF HandleVoiceSalt, VarsTyped
<1>9. CASE p.type = "voice_leave" /\ HandleVoiceLeave(k)
  BY <1>9 DEF HandleVoiceLeave, Renewed, VarsTyped, TypeOK
<1>10. CASE p.type = "join" /\ HandleRoom(k, p.room)
  <2>1. part' \in [Conns -> Participant \cup {None}]
    BY <1>1, <1>10, UpShapes, ParticipantEdited DEF HandleRoom, VarsTyped, TypeOK
  <2>. QED
    BY <1>10, <2>1 DEF HandleRoom, VarsTyped
<1>. QED
  BY <1>4, <1>7, <1>8, <1>9, <1>10

\* So do the ends of threads, of the Host and of connections, and a new one.
LEMMA EndsTyped ==
    ASSUME VarsTyped,
           \/ HostRestarts \/ \E k \in Conns : HostEnds(k)
           \/ \E c \in Clients : Hello(c) \/ Lose(c) \/ Reconnect(c)
    PROVE  VarsTyped'
<1>1. << >> \in Seq(UpPackets)
  OBVIOUS
<1>2. CASE HostRestarts
  BY <1>1, <1>2, BoundAssumption DEF HostRestarts, VarsTyped, TypeOK
<1>3. ASSUME NEW k \in Conns, HostEnds(k)
      PROVE  VarsTyped'
  BY <1>1, <1>3 DEF HostEnds, Renewed, clientVars, VarsTyped, TypeOK
<1>4. ASSUME NEW c \in Clients, Hello(c)
      PROVE  VarsTyped'
  <2>1. PICK k \in Conns : Greets(c, k) /\ part' = [part EXCEPT ![k].bound = TRUE]
    BY <1>4 DEF Hello
  <2>2. part' \in [Conns -> Participant \cup {None}]
    BY <2>1, ParticipantEdited DEF Greets, VarsTyped, TypeOK
  <2>. QED
    BY <1>4, <2>2 DEF Hello, clientVars, VarsTyped, TypeOK
<1>5. ASSUME NEW c \in Clients, Lose(c)
      PROVE  VarsTyped'
  <2> DEFINE k == conn[c]
  <2>1. k \in Conns /\ down[k] \in Seq(Answers)
    BY DEF VarsTyped, TypeOK
  <2>2. PICK n \in 0 .. Len(down[k]) : down' = [down EXCEPT ![k] = SubSeq(@, 1, n)]
    BY <1>5 DEF Lose
  <2>3. SubSeq(down[k], 1, n) \in Seq(Answers)
    BY <2>1
  <2>4. down' \in [Conns -> Seq(Answers)]
    BY <2>1, <2>2, <2>3 DEF VarsTyped
  <2>. QED
    BY <1>5, <2>4 DEF Lose, hostVars, VarsTyped, TypeOK
<1>6. ASSUME NEW c \in Clients, Reconnect(c)
      PROVE  VarsTyped'
  <2>1. PICK k \in Conns : /\ conn' = [conn EXCEPT ![c] = k] /\ open' = open \cup {k}
                           /\ seat' = [seat EXCEPT ![k] = room[c]]
    BY <1>6 DEF Reconnect
  <2>2. UNCHANGED <<room, state, timer, call, part, next_id, tokens, old, up, down, stale, silent>>
    BY <1>6 DEF Reconnect
  <2>. QED
    BY <2>1, <2>2 DEF VarsTyped, TypeOK
<1>. QED
  BY <1>2, <1>3, <1>4, <1>5, <1>6

-------------------------------------------------------------------------------
(* Connections *)

\* Requests and answers are of connections that there are.
LEMMA ConnStep ==
    ASSUME VarsTyped, ConnInv, OldInv, Next
    PROVE  (ConnInv /\ OldInv)'
<1> USE DEF ConnInv, OldInv
<1>0. \A c \in Clients : conn[c] \in Conns /\ ~(conn[c] > conn[c])
  <2>1. \A c \in Clients : conn[c] \in Conns
    BY DEF VarsTyped, TypeOK
  <2>2. \A k \in Conns : ~(k > k)
    BY BoundAssumption DEF Conns
  <2>. QED
    BY <2>1, <2>2
<1>1. ASSUME NEW c \in Clients,
             Toggle(c) \/ JoinTimeout(c) \/ Receive(c) \/ \E r \in Rooms : ChangeRoom(c, r)
      PROVE  (ConnInv /\ OldInv)'
  <2>1. UNCHANGED <<conn, open, seat, part, old>>
    BY <1>1 DEF Toggle, Join, Leave, JoinTimeout, Receive, ChangeRoom, hostVars
  <2>2. \A k \in Conns : k # conn[c] => down'[k] = down[k] /\ up'[k] = up[k]
    <3>1. CASE Receive(c)
      <4>1. \/ UNCHANGED up \/ Sent(conn[c], <<VoiceLeave>>) \/ Sent(conn[c], <<VoiceSalt>>)
        BY <3>1 DEF Receive, OnJoined, RefuseCodec, OpenCall, NoDevice, SaltFails
      <4>. QED
        BY <3>1, <4>1, AnswerTaken, SentOne, ClientPackets
    <3>2. CASE Join(c)
      BY <3>2, SentOne, ClientPackets DEF Join
    <3>3. CASE Leave(c)
      BY <3>3, SentOne, ClientPackets DEF Leave
    <3>4. CASE JoinTimeout(c)
      BY <3>4 DEF JoinTimeout
    <3>5. ASSUME NEW r \in Rooms, ChangeRoom(c, r)
          PROVE  \A k \in Conns : k # conn[c] => down'[k] = down[k] /\ up'[k] = up[k]
      BY <3>5, SentOne, ClientPackets DEF ChangeRoom
    <3>. QED
      BY <1>1, <3>1, <3>2, <3>3, <3>4, <3>5 DEF Toggle
  <2>. QED
    BY <1>0, <2>1, <2>2
<1>2. ASSUME NEW c \in Clients, Hello(c)
      PROVE  (ConnInv /\ OldInv)'
  <2>1. PICK k \in Conns : part[k] # None /\ part' = [part EXCEPT ![k].bound = TRUE]
    BY <1>2 DEF Hello, Greets
  <2>2. \A j \in Conns : part[j] = None => part'[j] = None
    BY <2>1 DEF VarsTyped, TypeOK
  <2>3. UNCHANGED <<conn, open, seat, old, up, down>>
    BY <1>2 DEF Hello, clientVars
  <2>. QED
    BY <2>2, <2>3, <2>1
<1>3. ASSUME NEW c \in Clients, Lose(c)
      PROVE  (ConnInv /\ OldInv)'
  <2>1. /\ UNCHANGED <<conn, seat, part, old, up>>
        /\ open' = open \ {conn[c]}
    BY <1>3 DEF Lose, hostVars
  <2>2. \A k \in Conns : k # conn[c] => down'[k] = down[k]
    BY <1>3 DEF Lose, VarsTyped
  <2>. QED
    BY <1>0, <2>1, <2>2
<1>4. ASSUME NEW c \in Clients, Reconnect(c)
      PROVE  (ConnInv /\ OldInv)'
  <2>1. PICK k \in Conns : /\ \A d \in Clients : k > conn[d]
                           /\ conn' = [conn EXCEPT ![c] = k] /\ open' = open \cup {k}
                           /\ seat' = [seat EXCEPT ![k] = room[c]]
    BY <1>4 DEF Reconnect
  <2>2. UNCHANGED <<part, old, up, down>>
    BY <1>4 DEF Reconnect
  <2>3. room[c] # None /\ room[c] \in Rooms
    BY NoneAssumption DEF VarsTyped, TypeOK
  <2>4. \A d \in Clients : conn[d] # k /\ conn'[d] = IF d = c THEN k ELSE conn[d]
    BY <1>0, <2>1 DEF VarsTyped, TypeOK
  <2>5. \A j \in Conns : seat'[j] = IF j = k THEN room[c] ELSE seat[j]
    BY <2>1 DEF VarsTyped, TypeOK
  <2>6. \A j \in Conns : (\A d \in Clients : j > conn'[d]) => j # k /\ \A d \in Clients : j > conn[d]
    <3> SUFFICES ASSUME NEW j \in Conns, \A d \in Clients : j > conn'[d]
                 PROVE  j # k /\ \A d \in Clients : j > conn[d]
      OBVIOUS
    <3>1. j > k
      BY <2>4
    <3>2. j \in Nat /\ k \in Nat /\ \A d \in Clients : conn[d] \in Nat
      BY <1>0, BoundAssumption DEF Conns
    <3>. QED
      BY <2>1, <3>1, <3>2
  <2>7. \A j \in open' : j \in Conns
    BY <2>1 DEF VarsTyped, TypeOK
  <2>. QED
    BY <2>1, <2>2, <2>3, <2>4, <2>5, <2>6, <2>7
<1>5. ASSUME NEW k \in Conns, HostHandles(k)
      PROVE  (ConnInv /\ OldInv)'
  <2> DEFINE p == Head(up[k])
  <2>1. UNCHANGED <<conn, open, old>> /\ seat[k] # None
    BY <1>5 DEF HostHandles, clientVars
  <2>2. seat' = IF p.type = "join" THEN [seat EXCEPT ![k] = p.room] ELSE seat
    BY <1>5 DEF HostHandles
  <2>3. p \in UpPackets /\ \A j \in Conns : j # k => up'[j] = up[j]
    BY <1>5, RequestTaken
  <2>4. \/ p.type = "voice_join" /\ HandleVoiceJoin(k, p)
        \/ p.type = "voice_salt" /\ HandleVoiceSalt(k)
        \/ p.type = "voice_leave" /\ HandleVoiceLeave(k)
        \/ p.type = "join" /\ HandleRoom(k, p.room)
    BY <1>5 DEF HostHandles
  <2> HIDE DEF p
  <2>5. p.type = "join" => p.room # None
    BY <2>3, UpShapes, NoneAssumption
  <2>6. \A j \in Conns : /\ j # k => part'[j] = part[j] /\ down'[j] = down[j] /\ seat'[j] = seat[j]
                         /\ seat[j] # None => seat'[j] # None
                         /\ old /\ part[j] = None => part'[j] = None
    <3>1. \A j \in Conns : /\ j # k => seat'[j] = seat[j]
                           /\ seat[j] # None => seat'[j] # None
      BY <2>2, <2>5 DEF VarsTyped, TypeOK
    <3>2. \A j \in Conns : /\ j # k => part'[j] = part[j] /\ down'[j] = down[j]
                           /\ old /\ part[j] = None => part'[j] = None
      BY <2>4 DEF HandleVoiceJoin, HandleVoiceSalt, HandleVoiceLeave, HandleRoom, Renewed,
                  VarsTyped, TypeOK
    <3>. QED
      BY <3>1, <3>2
  <2>7. open \subseteq Conns
    BY DEF VarsTyped, TypeOK
  <2>. QED
    BY <2>1, <2>3, <2>6, <2>7
<1>6. ASSUME NEW k \in Conns, HostEnds(k)
      PROVE  (ConnInv /\ OldInv)'
  BY <1>6 DEF HostEnds, Renewed, clientVars, VarsTyped, TypeOK
<1>7. CASE HostRestarts
  BY <1>7 DEF HostRestarts, VarsTyped, TypeOK
<1>. QED
  BY <1>1, <1>2, <1>3, <1>4, <1>5, <1>6, <1>7 DEF Next

-------------------------------------------------------------------------------
(* Clients *)

\* What the Host knows of a connection stays.
PartKept(k) ==
    /\ part'[k] = None <=> part[k] = None
    /\ part[k] # None => SameCall(part'[k], part[k])

\* A step that is about others.
LEMMA Untouched ==
    ASSUME NEW d \in Clients, NEW k, k = conn[d], k = conn'[d],
           state'[d] = state[d], call'[d] = call[d], up'[k] = up[k], down'[k] = down[k],
           k \in open' <=> k \in open, d \in stale => d \in stale', d \in silent => d \in silent',
           PartKept(k), ClientInv(d)
    PROVE  ClientInv(d)'
<1>1. WillBeOut(k) => WillBeOut(k)'
  BY DEF WillBeOut, PartKept
<1>2. AnswersDue(k) => AnswersDue(k)'
  BY DEF AnswersDue
<1>3. \A a : Admitted(k, a) => Admitted(k, a)'
  BY DEF Admitted, PartKept, SameCall
<1>4. OutInv(d)'
  BY <1>1, <1>2 DEF OutInv, ClientInv
<1>5. OnInv(d)'
  BY <1>3 DEF OnInv, ClientInv, Admitted, PartKept, SameCall
<1>6. JoiningInv(d)'
  BY <1>3 DEF JoiningInv, ClientInv
<1>. QED
  BY <1>4, <1>5, <1>6 DEF ClientInv

\* Whose connection nothing is on its way to or from waits for no answer.
LEMMA NoAnswerDue ==
    ASSUME VarsTyped, NEW k \in Conns
    PROVE  AnswersDue(k) <=> Has(up[k], "voice_join") \/ down[k] # << >>
<1>1. down[k] \in Seq(Answers)
  BY DEF VarsTyped
<1>2. \A i \in 1 .. Len(down[k]) : down[k][i].type = "voice_joined"
  BY <1>1, AnswerShapes
<1>3. down[k] # << >> <=> \E i \in 1 .. Len(down[k]) : TRUE
  BY <1>1, EmptySeq
<1>. QED
  BY <1>2, <1>3 DEF AnswersDue, Has

\* Asking, leaving and giving up.
LEMMA RequestsKeepClient ==
    ASSUME Inv, VarsTyped', NEW c \in Clients,
           Join(c) \/ Leave(c) \/ JoinTimeout(c) \/ \E r \in Rooms : ChangeRoom(c, r)
    PROVE  ClientInv(c)'
<1> DEFINE k == conn[c]
<1>1. /\ k \in Conns /\ conn'[c] = k /\ VarsTyped /\ ClientInv(c)
      /\ UNCHANGED <<conn, open, part, down>>
      /\ up[k] \in Seq(UpPackets)
  BY DEF Inv, VarsTyped, TypeOK, Join, Leave, JoinTimeout, ChangeRoom, hostVars
<1>2. CASE Join(c)
  <2>1. /\ VoiceJoin(c) \in UpPackets /\ VoiceJoin(c).type = "voice_join"
        /\ up'[k] = IF k \in open THEN up[k] \o <<VoiceJoin(c)>> ELSE up[k]
    BY <1>1, <1>2, ClientPackets, SentOne DEF Join
  <2>2. k \in open => Has(up'[k], "voice_join")
    BY <1>1, <2>1, OneMore
  <2>3. state'[c] = "joining"
    BY <1>1, <1>2 DEF Join, Ask, VarsTyped, TypeOK
  <2>4. c \notin stale' => ~Has(up[k], "voice_join") /\ down[k] = << >>
    BY <1>1, <1>2, NoAnswerDue DEF Join
  <2>5. c \notin stale' /\ k \in open => Asked(up'[k])
    BY <1>1, <2>1, <2>4, OneMore
  <2>6. k \in open' => AnswersDue(k)'
    BY <1>1, <2>2 DEF AnswersDue, Has
  <2>. QED
    BY <1>1, <2>1, <2>3, <2>4, <2>5, <2>6 DEF ClientInv, JoiningInv, OnInv, OutInv
<1>3. CASE Leave(c)
  <2>1. /\ VoiceLeave \in UpPackets /\ VoiceLeave.type = "voice_leave"
        /\ up'[k] = IF k \in open THEN up[k] \o <<VoiceLeave>> ELSE up[k]
    BY <1>1, <1>3, ClientPackets, SentOne DEF Leave
  <2>2. k \in open => LeavesLast(up'[k])
    BY <1>1, <2>1, OneMore
  <2>3. state'[c] = "off"
    BY <1>1, <1>3, TeardownTyped DEF Leave
  <2>. QED
    BY <1>1, <2>2, <2>3 DEF ClientInv, JoiningInv, OnInv, OutInv, WillBeOut
<1>4. CASE JoinTimeout(c)
  <2>1. state'[c] = "off" /\ c \in silent'
    BY <1>1, <1>4, TeardownTyped DEF JoinTimeout
  <2>. QED
    BY <2>1 DEF ClientInv, JoiningInv, OnInv, OutInv
<1>5. ASSUME NEW r \in Rooms, ChangeRoom(c, r)
      PROVE  ClientInv(c)'
  <2> DEFINE p == [type |-> "join", room |-> r]
  <2>1. /\ p \in UpPackets /\ p.type = "join" /\ k \in open
        /\ up'[k] = up[k] \o <<p>>
    BY <1>1, <1>5, ClientPackets, SentOne DEF ChangeRoom
  <2>2. UNCHANGED <<state, call, stale, silent>>
    BY <1>5 DEF ChangeRoom
  <2> HIDE DEF p
  <2>3. /\ \A type : type # "join" => (Has(up'[k], type) <=> Has(up[k], type))
        /\ Asked(up[k]) => Asked(up'[k])
        /\ LeavesLast(up[k]) => LeavesLast(up'[k])
    BY <1>1, <2>1, OneMore
  <2>4. \A a : Admitted(k, a) => Admitted(k, a)'
    BY <1>1, <2>3 DEF Admitted
  <2>5. WillBeOut(k) => WillBeOut(k)'
    BY <1>1, <2>3 DEF WillBeOut
  <2>6. AnswersDue(k) => AnswersDue(k)'
    <3>1. AnswersDue(k) <=> Has(up[k], "voice_join") \/ Has(down[k], "voice_joined")
      BY DEF AnswersDue, Has
    <3>2. AnswersDue(k)' <=> Has(up'[k], "voice_join") \/ Has(down'[k], "voice_joined")
      BY <1>1 DEF AnswersDue, Has
    <3>. QED
      BY <1>1, <2>3, <3>1, <3>2
  <2>7. JoiningInv(c)'
    BY <1>1, <2>2, <2>3, <2>4 DEF ClientInv, JoiningInv
  <2>8. OnInv(c)'
    BY <1>1, <2>2, <2>3, <2>4 DEF ClientInv, OnInv
  <2>9. OutInv(c)'
    BY <1>1, <2>2, <2>5, <2>6 DEF ClientInv, OutInv
  <2>. QED
    BY <2>7, <2>8, <2>9 DEF ClientInv
<1>. QED
  BY <1>2, <1>3, <1>4, <1>5

\* The answer: an awaited one opens the call on what the Host admitted, or the
\* Host is told that it does not; one that comes late changes nothing.
LEMMA ReceiveKeepsClient ==
    ASSUME Inv, VarsTyped', NEW c \in Clients, Receive(c)
    PROVE  ClientInv(c)'
<1> DEFINE k == conn[c]  p == Head(down[k])
<1>1. /\ k \in Conns /\ conn'[c] = k /\ VarsTyped /\ ClientInv(c)
      /\ UNCHANGED <<conn, open, part, stale>>
      /\ up[k] \in Seq(UpPackets) /\ down[k] \in Seq(Answers)
      /\ down[k] # << >> /\ down'[k] = Tail(down[k])
      /\ IF Awaited(c) THEN OnJoined(c, p) ELSE UNCHANGED <<state, timer, call, up, silent>>
      /\ state \in [Clients -> {"off", "joining", "on"}]
  BY AnswerTaken DEF Inv, VarsTyped, TypeOK, Receive, hostVars
<1>2. \A q \in UpPackets : Sent(k, <<q>>) =>
          up'[k] = IF k \in open THEN up[k] \o <<q>> ELSE up[k]
  BY <1>1, SentOne
<1>3. CASE ~Awaited(c)
  <2>1. UNCHANGED <<state, call, up, silent>> /\ state[c] # "joining"
    BY <1>1, <1>3 DEF Awaited
  <2>2. OnInv(c)'
    BY <1>1, <2>1 DEF ClientInv, OnInv
  <2>3. WillBeOut(k) => WillBeOut(k)'
    BY <1>1, <2>1 DEF WillBeOut
  <2>4. OutInv(c)'
    BY <1>1, <2>1, <2>3 DEF ClientInv, OutInv
  <2>. QED
    BY <2>1, <2>2, <2>4 DEF ClientInv, JoiningInv
<1>4. CASE Awaited(c) /\ RefuseCodec(c)
  <2>1. state'[c] = "off" /\ Sent(k, <<VoiceLeave>>)
    BY <1>1, <1>4, TeardownTyped DEF RefuseCodec
  <2>2. k \in open => LeavesLast(up'[k])
    <3>1. VoiceLeave \in UpPackets /\ VoiceLeave.type = "voice_leave"
      BY <1>1, ClientPackets
    <3>2. LeavesLast(up[k] \o <<VoiceLeave>>)
      BY <1>1, <3>1, OneMore
    <3>. QED
      BY <1>2, <2>1, <3>1, <3>2
  <2>. QED
    BY <1>1, <2>1, <2>2 DEF ClientInv, JoiningInv, OnInv, OutInv, WillBeOut
<1>5. CASE Awaited(c) /\ NoDevice(c)
  <2>1. state'[c] = "off" /\ c \in silent'
    BY <1>1, <1>5, TeardownTyped DEF NoDevice
  <2>. QED
    BY <2>1 DEF ClientInv, JoiningInv, OnInv, OutInv
<1>6. CASE Awaited(c) /\ SaltFails(c, p)
  <2>1. k \notin open /\ state' = state /\ state[c] = "joining"
    BY <1>6 DEF SaltFails, Awaited
  <2>2. c \in stale
    BY <1>1, <2>1 DEF ClientInv, JoiningInv, Admitted
  <2>. QED
    BY <1>1, <2>1, <2>2 DEF ClientInv, JoiningInv, OnInv, OutInv
<1>7. CASE Awaited(c) /\ OpenCall(c, p)
  <2>1. state'[c] = "on" /\ state[c] = "joining" /\ Sent(k, <<VoiceSalt>>)
    BY <1>1, <1>7 DEF OpenCall, Awaited
  <2>2. SUFFICES ASSUME c \notin stale
                 PROVE  /\ down'[k] = << >> /\ Admitted(k, call[c])'
                        /\ Has(up'[k], "voice_salt")
    BY <1>1, <2>1 DEF ClientInv, JoiningInv, OnInv, OutInv
  <2>3. Len(down[k]) = 1 /\ Admitted(k, down[k][1]) /\ down[k][1] = p
    BY <1>1, <2>1, <2>2 DEF ClientInv, JoiningInv
  <2>4. down'[k] = << >>
    <3>1. Tail(down[k]) \in Seq(Answers) /\ Len(Tail(down[k])) = 0
      BY <1>1, <2>3, HeadTailProperties
    <3>. QED
      BY <1>1, <3>1, EmptySeq
  <2>5. up'[k] = up[k] \o <<VoiceSalt>>
    BY <1>1, <1>2, <2>1, <2>3, ClientPackets DEF Admitted
  <2>6. /\ \A type : type # "voice_salt" => (Has(up'[k], type) <=> Has(up[k], type))
        /\ Has(up'[k], "voice_salt")
    BY <1>1, <2>5, ClientPackets, OneMore
  <2>7. call'[c].id = p.id /\ call'[c].token = p.token
    BY <1>1, <1>7 DEF OpenCall, VarsTyped, TypeOK
  <2>8. Admitted(k, call[c])'
    BY <1>1, <2>3, <2>6, <2>7 DEF Admitted
  <2>. QED
    BY <2>4, <2>6, <2>8
<1>. QED
  BY <1>1, <1>3, <1>4, <1>5, <1>6, <1>7 DEF OnJoined

\* A thread of the Host takes the next packet of its client.
LEMMA HandlesKeepsClient ==
    ASSUME Inv, NEW c \in Clients, NEW k \in Conns, k = conn[c], HostHandles(k)
    PROVE  ClientInv(c)'
<1> DEFINE p == Head(up[k])  s == up[k]  t == Tail(up[k])
<1>1. /\ VarsTyped /\ ClientInv(c)
      /\ s \in Seq(UpPackets) /\ s # << >> /\ p \in UpPackets /\ up'[k] = t
      /\ UNCHANGED <<conn, state, call, stale, silent, open, old>> /\ seat[k] # None
  BY RequestTaken DEF Inv, HostHandles, clientVars
<1>2. \/ p.type = "voice_join" /\ HandleVoiceJoin(k, p)
      \/ p.type = "voice_salt" /\ HandleVoiceSalt(k)
      \/ p.type = "voice_leave" /\ HandleVoiceLeave(k)
      \/ p.type = "join" /\ HandleRoom(k, p.room)
  BY DEF HostHandles
<1>3. /\ \A type : Has(s, type) <=> p.type = type \/ Has(t, type)
      /\ Asked(s) /\ p.type = "voice_join" => ~Has(t, "voice_join") /\ ~Has(t, "voice_leave")
      /\ Asked(s) /\ p.type # "voice_join" => Asked(t)
      /\ LeavesLast(s) /\ p.type # "voice_leave" => LeavesLast(t)
      /\ LeavesLast(s) => LeavesLast(t) \/ ~Has(t, "voice_join")
  BY <1>1, OneLess
<1>4. AnswersDue(k) <=> Has(s, "voice_join") \/ Has(down[k], "voice_joined")
  BY DEF AnswersDue, Has
<1>5. AnswersDue(k)' <=> Has(t, "voice_join") \/ Has(down'[k], "voice_joined")
  BY <1>1 DEF AnswersDue, Has
<1>6. /\ part \in [Conns -> Participant \cup {None}] /\ down \in [Conns -> Seq(Answers)]
      /\ old => part[k] = None
  BY DEF Inv, VarsTyped, TypeOK, OldInv
<1> HIDE DEF p, t, s
<1>7. WillBeOut(k) <=> LeavesLast(s) \/ (part[k] = None /\ ~Has(s, "voice_join"))
  BY DEF WillBeOut, s
<1>8. WillBeOut(k)' <=> LeavesLast(t) \/ (part'[k] = None /\ ~Has(t, "voice_join"))
  BY <1>1 DEF WillBeOut
<1>9. CASE p.type = "voice_join" /\ old
  <2>1. part' = part /\ down' = down
    BY <1>2, <1>9 DEF HandleVoiceJoin
  <2>2. JoiningInv(c)'
    BY <1>1, <1>3, <1>9, <2>1 DEF ClientInv, JoiningInv, Admitted, s
  <2>3. OnInv(c)'
    BY <1>1, <1>3, <1>9, <2>1 DEF ClientInv, OnInv, Admitted, s
  <2>4. OutInv(c)'
    BY <1>1, <1>3, <1>5, <1>6, <1>7, <1>8, <1>9, <2>1 DEF ClientInv, OutInv
  <2>. QED
    BY <2>2, <2>3, <2>4 DEF ClientInv
<1>10. CASE p.type = "voice_join" /\ ~old
  <2>1. PICK q \in Participant, a \in Answers :
             /\ part' = [part EXCEPT ![k] = q] /\ down' = [down EXCEPT ![k] = Append(@, a)]
             /\ q.id = a.id /\ q.token = a.token
    BY <1>1, <1>2, <1>10, JoinHandled
  <2>2. part'[k] = q /\ q # None /\ down'[k] = Append(down[k], a)
    BY <1>6, <2>1, NoneAssumption
  <2>3. Has(down'[k], "voice_joined")
    <3>1. down[k] \in Seq(Answers) /\ a.type = "voice_joined"
      BY <1>6, AnswerShapes
    <3>2. Len(down'[k]) \in 1 .. Len(down'[k]) /\ down'[k][Len(down'[k])] = a
      BY <2>2, <3>1
    <3>. QED
      BY <3>1, <3>2 DEF Has
  <2>4. JoiningInv(c)'
    <3> SUFFICES ASSUME state[c] = "joining", c \notin stale
                 PROVE  Len(down'[k]) = 1 /\ Admitted(k, down[k][1])'
      BY <1>1 DEF JoiningInv
    <3>1. down[k] = << >> /\ k \in open /\ Asked(s)
      BY <1>1, <1>3, <1>10 DEF ClientInv, JoiningInv, Admitted, s
    <3>2. Len(down'[k]) = 1 /\ down'[k][1] = a
      BY <2>2, <3>1
    <3>. QED
      BY <1>1, <1>3, <1>10, <2>1, <2>2, <3>1, <3>2 DEF Admitted
  <2>5. OnInv(c)'
    BY <1>1, <1>3, <1>10 DEF ClientInv, OnInv, Admitted, s
  <2>6. OutInv(c)'
    BY <1>1, <1>3, <1>5, <1>7, <1>8, <1>10, <2>3 DEF ClientInv, OutInv
  <2>. QED
    BY <2>4, <2>5, <2>6 DEF ClientInv
<1>11. CASE p.type = "voice_leave"
  <2>1. part'[k] = None /\ down' = down
    BY <1>2, <1>6, <1>11 DEF HandleVoiceLeave, Renewed
  <2>2. JoiningInv(c)'
    BY <1>1, <1>3, <1>11, <2>1 DEF ClientInv, JoiningInv, Admitted, s
  <2>3. OnInv(c)'
    BY <1>1, <1>3, <1>11, <2>1 DEF ClientInv, OnInv, Admitted, s
  <2>4. OutInv(c)'
    BY <1>1, <1>3, <1>4, <1>5, <1>7, <1>8, <1>11, <2>1 DEF ClientInv, OutInv
  <2>. QED
    BY <2>2, <2>3, <2>4 DEF ClientInv
<1>12. CASE p.type \in {"voice_salt", "join"}
  <2>1. down' = down /\ PartKept(k)
    <3>1. down' = down
      BY <1>2, <1>12 DEF HandleVoiceSalt, HandleRoom
    <3>2. CASE part[k] = None
      BY <1>2, <1>12, <3>2 DEF HandleVoiceSalt, HandleRoom, PartKept
    <3>3. CASE part[k] # None
      <4>1. SameCall(part'[k], part[k])
        <5>1. CASE p.type = "voice_salt"
          <6>1. part'[k] = [part[k] EXCEPT !.salted = TRUE]
            BY <1>2, <1>6, <3>3, <5>1 DEF HandleVoiceSalt
          <6>. QED
            BY <1>1, <3>3, <6>1, ParticipantEdited
        <5>2. CASE p.type = "join"
          <6>1. p.room \in Rooms
            BY <1>1, <5>2, UpShapes
          <6>2. part'[k] = [part[k] EXCEPT !.room = p.room]
            BY <1>2, <1>6, <3>3, <5>2 DEF HandleRoom
          <6>3. \A r \in Rooms : SameCall([part[k] EXCEPT !.room = r], part[k])
            BY <1>1, <3>3, ParticipantEdited
          <6>. QED
            BY <6>1, <6>2, <6>3
        <5>. QED
          BY <1>12, <5>1, <5>2
      <4>. QED
        BY <3>1, <3>3, <4>1 DEF PartKept, SameCall
    <3>. QED
      BY <3>1, <3>2, <3>3
  <2>2. p.type = "voice_salt" /\ part[k] # None => part'[k].salted
    BY <1>2, <1>6, <1>12 DEF HandleVoiceSalt, Participant
  <2>3. \A a : Admitted(k, a) => Admitted(k, a)'
    BY <1>1, <1>3, <2>1 DEF Admitted, PartKept, SameCall, s
  <2>4. JoiningInv(c)'
    BY <1>1, <1>3, <1>12, <2>1, <2>3 DEF ClientInv, JoiningInv, s
  <2>5. OnInv(c)'
    <3> SUFFICES ASSUME state[c] = "on", c \notin stale
                 PROVE  /\ down'[k] = << >> /\ Admitted(k, call[c])'
                        /\ part'[k].salted \/ Has(t, "voice_salt")
      BY <1>1 DEF OnInv
    <3>1. /\ down[k] = << >> /\ Admitted(k, call[c]) /\ part[k] # None
          /\ part[k].salted \/ Has(s, "voice_salt")
      BY <1>1 DEF ClientInv, OnInv, Admitted, s
    <3>2. part'[k].salted \/ Has(t, "voice_salt")
      BY <1>3, <2>1, <2>2, <3>1 DEF PartKept, SameCall
    <3>3. Admitted(k, call[c])'
      BY <1>1, <2>3, <3>1
    <3>. QED
      BY <2>1, <3>1, <3>2, <3>3
  <2>6. OutInv(c)'
    BY <1>1, <1>3, <1>4, <1>5, <1>7, <1>8, <1>12, <2>1 DEF ClientInv, OutInv, PartKept
  <2>. QED
    BY <2>4, <2>5, <2>6 DEF ClientInv
<1>. QED
  BY <1>2, <1>9, <1>10, <1>11, <1>12

\* What one client does is nothing to another's call.
LEMMA OthersKept ==
    ASSUME Inv, VarsTyped', NEW c \in Clients, NEW d \in Clients, c # d,
           \/ Join(c) \/ Leave(c) \/ JoinTimeout(c) \/ Receive(c)
           \/ \E r \in Rooms : ChangeRoom(c, r)
    PROVE  ClientInv(d)'
<1> DEFINE k == conn[d]
<1>1. /\ VarsTyped /\ ClientInv(d) /\ k \in Conns /\ k # conn[c]
      /\ state \in [Clients -> {"off", "joining", "on"}] /\ call \in [Clients -> Call \cup {None}]
  BY DEF Inv, VarsTyped, TypeOK, ConnInv
<1>2. UNCHANGED <<conn, open, part>>
  BY DEF Join, Leave, JoinTimeout, Receive, ChangeRoom, hostVars
<1>3. \A q \in UpPackets : Sent(conn[c], <<q>>) => up'[k] = up[k]
  BY <1>1, SentOne
<1>4. Teardown(c) => state'[d] = state[d] /\ call'[d] = call[d]
  BY <1>1, TeardownTyped
<1>5. /\ state'[d] = state[d] /\ call'[d] = call[d]
      /\ up'[k] = up[k] /\ down'[k] = down[k]
      /\ d \in stale => d \in stale'
      /\ d \in silent => d \in silent'
  <2>1. CASE Join(c)
    <3>1. up'[k] = up[k]
      BY <1>1, <1>3, <2>1, ClientPackets DEF Join
    <3>. QED
      BY <1>1, <2>1, <3>1 DEF Join, Ask
  <2>2. CASE Leave(c)
    <3>1. up'[k] = up[k]
      BY <1>1, <1>3, <2>2, ClientPackets DEF Leave
    <3>. QED
      BY <1>4, <2>2, <3>1 DEF Leave
  <2>3. CASE JoinTimeout(c)
    BY <1>4, <2>3 DEF JoinTimeout
  <2>4. CASE Receive(c)
    <3>1. down'[k] = down[k] /\ UNCHANGED stale
      BY <1>1, <2>4, AnswerTaken DEF Receive
    <3>2. CASE ~Awaited(c)
      BY <2>4, <3>1, <3>2 DEF Receive
    <3>3. CASE Awaited(c)
      <4> DEFINE p == Head(down[conn[c]])
      <4>1. OnJoined(c, p)
        BY <2>4, <3>3 DEF Receive
      <4> HIDE DEF p
      <4>2. CASE RefuseCodec(c)
        BY <1>1, <1>3, <1>4, <3>1, <4>2, ClientPackets DEF RefuseCodec
      <4>3. CASE OpenCall(c, p)
        <5>1. up'[k] = up[k]
          BY <1>1, <1>3, <4>3, ClientPackets DEF OpenCall
        <5>. QED
          BY <1>1, <3>1, <4>3, <5>1 DEF OpenCall
      <4>4. CASE NoDevice(c)
        BY <1>1, <1>3, <1>4, <3>1, <4>4, ClientPackets DEF NoDevice
      <4>5. CASE SaltFails(c, p)
        BY <1>1, <3>1, <4>5 DEF SaltFails
      <4>. QED
        BY <4>1, <4>2, <4>3, <4>4, <4>5 DEF OnJoined
    <3>. QED
      BY <3>2, <3>3
  <2>5. ASSUME NEW r \in Rooms, ChangeRoom(c, r)
        PROVE  /\ up'[k] = up[k]
               /\ UNCHANGED <<state, call, down, stale, silent>>
    BY <1>1, <1>3, <2>5, ClientPackets DEF ChangeRoom
  <2>. QED
    BY <2>1, <2>2, <2>3, <2>4, <2>5
<1>6. PartKept(k)
  <2>1. part[k] # None => part[k] \in Participant
    BY <1>1 DEF VarsTyped, TypeOK
  <2>. QED
    BY <1>2, <2>1 DEF PartKept, SameCall
<1>7. k = conn'[d] /\ (k \in open' <=> k \in open)
  BY <1>2
<1> HIDE DEF k
<1>8. k = conn[d]
  BY DEF k
<1>. QED
  BY <1>1, <1>5, <1>6, <1>7, <1>8, Untouched

\* What the Host does for a connection, and a hello, is nothing to those of others.
LEMMA ElsewhereKept ==
    ASSUME Inv, NEW d \in Clients, 
           \/ \E k \in Conns : k # conn[d] /\ (HostHandles(k) \/ HostEnds(k))
           \/ \E c \in Clients : Hello(c)
    PROVE  ClientInv(d)'
<1> DEFINE j == conn[d]
<1>1. /\ VarsTyped /\ ClientInv(d) /\ j \in Conns
      /\ part \in [Conns -> Participant \cup {None}]
  BY DEF Inv, VarsTyped, TypeOK
<1>2. UNCHANGED <<conn, open, state, call, stale, silent>>
  BY DEF HostHandles, HostEnds, Hello, clientVars
<1>3. up'[j] = up[j] /\ down'[j] = down[j] /\ PartKept(j)
  <2>1. ASSUME NEW k \in Conns, k # j, HostHandles(k)
        PROVE  up'[j] = up[j] /\ down'[j] = down[j] /\ part'[j] = part[j]
    <3> DEFINE p == Head(up[k])
    <3>1. up'[j] = up[j]
      BY <1>1, <2>1, RequestTaken
    <3>2. HandleVoiceJoin(k, p) \/ HandleVoiceSalt(k) \/ HandleVoiceLeave(k) \/ HandleRoom(k, p.room)
      BY <2>1 DEF HostHandles
    <3> HIDE DEF p
    <3>3. down'[j] = down[j] /\ part'[j] = part[j]
      BY <1>1, <2>1, <3>2 DEF HandleVoiceJoin, HandleVoiceSalt, HandleVoiceLeave, HandleRoom, Renewed,
                  VarsTyped
    <3>. QED
      BY <3>1, <3>3
  <2>2. ASSUME NEW k \in Conns, k # j, HostEnds(k)
        PROVE  up'[j] = up[j] /\ down'[j] = down[j] /\ part'[j] = part[j]
    BY <1>1, <2>2 DEF HostEnds, Renewed, VarsTyped
  <2>3. ASSUME NEW c \in Clients, Hello(c)
        PROVE  up'[j] = up[j] /\ down'[j] = down[j] /\ PartKept(j)
    <3>1. PICK k \in Conns : part[k] # None /\ part' = [part EXCEPT ![k].bound = TRUE]
      BY <2>3 DEF Hello, Greets
    <3>2. part'[k] = [part[k] EXCEPT !.bound = TRUE] /\ \A i \in Conns : i # k => part'[i] = part[i]
      BY <1>1, <3>1
    <3>3. SameCall(part'[k], part[k])
      BY <1>1, <3>1, <3>2, ParticipantEdited
    <3>4. PartKept(j)
      <4>1. CASE j = k
        BY <3>1, <3>3, <4>1 DEF PartKept, SameCall
      <4>2. CASE j # k
        BY <1>1, <3>2, <4>2 DEF PartKept, SameCall
      <4>. QED
        BY <4>1, <4>2
    <3>. QED
      BY <2>3, <3>4 DEF Hello
  <2>4. part'[j] = part[j] => PartKept(j)
    BY DEF PartKept, SameCall
  <2>. QED
    BY <2>1, <2>2, <2>3, <2>4
<1>4. j = conn[d] /\ j = conn'[d]
  BY <1>2
<1> HIDE DEF j
<1>. QED
  BY <1>1, <1>2, <1>3, <1>4, Untouched

\* The Host's threads, its end, and that of a connection.
LEMMA EndsKeepClient ==
    ASSUME Inv, NEW d \in Clients,
           \/ \E k \in Conns : HostEnds(k) \/ HostHandles(k)
           \/ HostRestarts
           \/ \E c \in Clients : Hello(c) \/ Lose(c)
    PROVE  ClientInv(d)'
<1> DEFINE j == conn[d]
<1>1. /\ VarsTyped /\ ClientInv(d) /\ j \in Conns
      /\ part \in [Conns -> Participant \cup {None}]
      /\ state[d] \in {"off", "joining", "on"}
      /\ up \in [Conns -> Seq(UpPackets)] /\ down \in [Conns -> Seq(Answers)]
  BY DEF Inv, VarsTyped, TypeOK
<1>2. ASSUME NEW k \in Conns, HostHandles(k)
      PROVE  ClientInv(d)'
  BY <1>2, HandlesKeepsClient, ElsewhereKept
<1>3. ASSUME NEW k \in Conns, HostEnds(k)
      PROVE  ClientInv(d)'
  <2>1. CASE k # conn[d]
    BY <1>3, <2>1, ElsewhereKept
  <2>2. CASE k = conn[d]
    <3>1. /\ j \notin open /\ j \notin open' /\ up'[j] = << >> /\ conn'[d] = j
          /\ UNCHANGED <<state, call, stale, silent, down>>
      BY <1>1, <1>3, <2>2 DEF HostEnds, clientVars
    <3>2. ~Has(up'[j], "voice_join")
      BY <3>1 DEF Has
    <3> HIDE DEF j
    <3>3. j = conn[d]
      BY DEF j
    <3>. QED
      BY <1>1, <3>1, <3>2, <3>3 DEF ClientInv, JoiningInv, OnInv, OutInv, Admitted
  <2>. QED
    BY <2>1, <2>2
<1>4. CASE HostRestarts
  <2>1. /\ open' = {} /\ state' = state
        /\ stale' = stale \cup {c \in Clients : state[c] # "off"}
    BY <1>4 DEF HostRestarts
  <2>. QED
    BY <2>1 DEF ClientInv, JoiningInv, OnInv, OutInv
<1>5. ASSUME NEW c \in Clients, Hello(c)
      PROVE  ClientInv(d)'
  BY <1>5, ElsewhereKept
<1>6. ASSUME NEW c \in Clients, Lose(c)
      PROVE  ClientInv(d)'
  <2>1. /\ open' = open \ {conn[c]}
        /\ stale' = IF state[c] # "off" THEN stale \cup {c} ELSE stale
        /\ UNCHANGED <<conn, state, call, silent, part, up>>
    BY <1>6 DEF Lose, hostVars
  <2>2. CASE c = d
    BY <2>1, <2>2 DEF ClientInv, JoiningInv, OnInv, OutInv
  <2>3. CASE c # d
    <3>1. j # conn[c]
      BY <2>3 DEF Inv, ConnInv
    <3>2. down'[j] = down[j]
      BY <1>1, <1>6, <3>1 DEF Lose
    <3>3. PartKept(j)
      BY <2>1 DEF PartKept, SameCall
    <3>4. (j \in open' <=> j \in open) /\ (d \in stale => d \in stale') /\ j = conn[d] /\ j = conn'[d]
      BY <2>1, <3>1
    <3> HIDE DEF j
    <3>. QED
      BY <1>1, <2>1, <3>2, <3>3, <3>4, Untouched
  <2>. QED
    BY <2>2, <2>3
<1>. QED
  BY <1>2, <1>3, <1>4, <1>5, <1>6

\* Connecting again: nothing is known of the new connection.
LEMMA ReconnectKeepsClient ==
    ASSUME Inv, NEW c \in Clients, Reconnect(c), NEW d \in Clients
    PROVE  ClientInv(d)'
<1>1. PICK k \in Conns : /\ \A e \in Clients : k > conn[e]
                         /\ conn' = [conn EXCEPT ![c] = k] /\ open' = open \cup {k}
  BY DEF Reconnect
<1>2. UNCHANGED <<state, call, part, up, down, stale, silent>> /\ conn[c] \notin open
  BY DEF Reconnect
<1>3. VarsTyped /\ ClientInv(d) /\ conn \in [Clients -> Conns]
  BY DEF Inv, VarsTyped, TypeOK
<1>4. part[k] = None /\ up[k] = << >> /\ down[k] = << >>
  BY <1>1 DEF Inv, ConnInv
<1>5. CASE d = c
  <2>1. conn'[d] = k
    BY <1>1, <1>3, <1>5
  <2>2. ~Has(up'[k], "voice_join")
    BY <1>2, <1>4 DEF Has
  <2>3. state'[d] = "on" => d \in stale'
    BY <1>2, <1>3, <1>5 DEF ClientInv, OnInv, Admitted
  <2>. QED
    BY <1>2, <1>4, <2>1, <2>2, <2>3 DEF ClientInv, JoiningInv, OnInv, OutInv, WillBeOut
<1>6. CASE d # c
  <2> DEFINE j == conn[d]
  <2>1. j = conn[d] /\ j = conn'[d] /\ j # k
    <3>1. j \in Nat /\ k > j
      BY <1>1, <1>3, BoundAssumption DEF Conns
    <3>. QED
      BY <1>1, <1>3, <1>6, <3>1
  <2>2. PartKept(j) /\ (j \in open' <=> j \in open)
    BY <1>1, <1>2, <2>1 DEF PartKept, SameCall
  <2> HIDE DEF j
  <2>. QED
    BY <1>2, <1>3, <2>1, <2>2, Untouched
<1>. QED
  BY <1>5, <1>6

-------------------------------------------------------------------------------
(* The theorems *)

\* Everyone is connected, and nobody is in a call.
LEMMA InvInit == Init => Inv
<1> SUFFICES ASSUME Init
             PROVE  Inv
  OBVIOUS
<1>1. PICK f \in [Clients -> Conns] :
         /\ \A c, d \in Clients : c # d => f[c] # f[d]
         /\ conn = f
         /\ open = {f[c] : c \in Clients}
         /\ seat = [k \in Conns |-> IF k \in open THEN FirstRoom ELSE None]
  BY DEF Init
<1>2. VarsTyped
  <2>1. << >> \in Seq(UpPackets) /\ << >> \in Seq(Answers)
    OBVIOUS
  <2>2. tokens \in 0 .. MaxTokens /\ next_id \in 1 .. tokens + 1
    BY BoundAssumption DEF Init
  <2>3. up \in [Conns -> Seq(UpPackets)] /\ down \in [Conns -> Seq(Answers)]
    BY <2>1 DEF Init
  <2>4. open \subseteq Conns /\ seat \in [Conns -> Rooms \cup {None}]
    BY <1>1, RoomAssumption
  <2>. QED
    BY <1>1, <2>2, <2>3, <2>4, RoomAssumption DEF Init, VarsTyped, TypeOK
<1>3. ConnInv
  <2>1. ASSUME NEW k \in Conns, \A d \in Clients : k > conn[d]
        PROVE  k \notin open
    <3>1. ~(k > k)
      BY BoundAssumption DEF Conns
    <3>. QED
      BY <1>1, <2>1, <3>1
  <2>2. \A k \in open : k \in Conns /\ seat[k] # None
    BY <1>1, RoomAssumption, NoneAssumption
  <2>. QED
    BY <1>1, <2>1, <2>2 DEF Init, ConnInv
<1>4. OldInv
  BY DEF Init, OldInv
<1>5. ASSUME NEW c \in Clients
      PROVE  ClientInv(c)
  <2>1. conn[c] \in Conns
    BY <1>1
  <2>2. ~Has(up[conn[c]], "voice_join")
    BY <2>1 DEF Init, Has
  <2>. QED
    BY <2>1, <2>2 DEF Init, ClientInv, JoiningInv, OnInv, OutInv, WillBeOut
<1>. QED
  BY <1>2, <1>3, <1>4, <1>5 DEF Inv

\* Every step keeps the types.
LEMMA TypedStep == VarsTyped /\ [Next]_vars => VarsTyped'
<1>1. ASSUME VarsTyped, UNCHANGED vars
      PROVE  VarsTyped'
  BY <1>1 DEF vars, VarsTyped, TypeOK
<1>. QED
  BY <1>1, RequestsTyped, ReceiveTyped, HandlesTyped, EndsTyped DEF Next, Toggle

\* Every step keeps the invariant.
LEMMA InvStep == Inv /\ [Next]_vars => Inv'
<1>1. ASSUME Inv, UNCHANGED vars
      PROVE  Inv'
  <2>1. VarsTyped'
    BY <1>1, TypedStep DEF Inv
  <2>2. (ConnInv /\ OldInv)'
    BY <1>1 DEF Inv, vars, ConnInv, OldInv
  <2>3. \A c \in Clients : ClientInv(c)'
    BY <1>1 DEF Inv, vars, ClientInv, JoiningInv, OnInv, OutInv, Admitted, WillBeOut, AnswersDue
  <2>. QED
    BY <2>1, <2>2, <2>3 DEF Inv
<1>2. ASSUME Inv, Next
      PROVE  Inv'
  <2>1. VarsTyped' /\ VarsTyped
    BY <1>2, TypedStep DEF Inv
  <2>2. (ConnInv /\ OldInv)'
    BY <1>2, ConnStep DEF Inv
  <2>3. ASSUME NEW d \in Clients
        PROVE  ClientInv(d)'
    <3>1. ASSUME NEW c \in Clients,
                 \/ Join(c) \/ Leave(c) \/ JoinTimeout(c) \/ Receive(c)
                 \/ \E r \in Rooms : ChangeRoom(c, r)
          PROVE  ClientInv(d)'
      BY <1>2, <2>1, <3>1, OthersKept, RequestsKeepClient, ReceiveKeepsClient
    <3>2. ASSUME \/ \E k \in Conns : HostEnds(k) \/ HostHandles(k)
                 \/ HostRestarts
                 \/ \E c \in Clients : Hello(c) \/ Lose(c)
          PROVE  ClientInv(d)'
      BY <1>2, <3>2, EndsKeepClient
    <3>3. ASSUME NEW c \in Clients, Reconnect(c)
          PROVE  ClientInv(d)'
      BY <1>2, <3>3, ReconnectKeepsClient
    <3>. QED
      BY <1>2, <3>1, <3>2, <3>3 DEF Next, Toggle
  <2>. QED
    BY <2>1, <2>2, <2>3 DEF Inv
<1>. QED
  BY <1>1, <1>2

\* The invariant holds in every state.
LEMMA InvAlways == Spec => []Inv
BY InvInit, InvStep, PTL DEF Spec

\* Clients, Host and connections keep their types: ids and tokens are numbers
\* that were given, and the timer runs for those only who wait.
THEOREM TypeCorrect == Spec => []TypeOK
<1>1. Inv => TypeOK
  BY DEF Inv, VarsTyped
<1>. QED
  BY <1>1, InvAlways, PTL

\* Whoever thinks to be in the call is in it, under the id and token of its own
\* answer and with its salt announced (voice.py, join to _on_joined; server.py,
\* voice_join to voice_leave).
THEOREM CallIsAlwaysOurs == Spec => []CallIsOurs
<1>1. Inv => CallIsOurs
  <2>1. \A s : s = << >> => ~Has(s, "voice_salt")
    BY DEF Has
  <2>. QED
    BY <2>1 DEF Inv, ClientInv, OnInv, Admitted, CallIsOurs, Settled
<1>. QED
  BY <1>1, InvAlways, PTL

\* Whoever left the call, or was refused, is out of it at the Host as well,
\* unless it gave up without a word.
THEOREM NobodyHauntsTheCall == Spec => []NoGhostInCall
<1>1. Inv => NoGhostInCall
  <2> SUFFICES ASSUME Inv, NEW c \in Clients, Settled(c), part[conn[c]] # None, c \notin silent
               PROVE  state[c] = "on"
    BY DEF NoGhostInCall
  <2>1. conn[c] \in Conns /\ conn[c] \in open /\ up[conn[c]] = << >> /\ down[conn[c]] = << >>
    BY DEF Settled, Inv, VarsTyped, TypeOK
  <2>2. ~WillBeOut(conn[c])
    BY <2>1 DEF WillBeOut, LeavesLast
  <2>3. ~AnswersDue(conn[c])
    BY <2>1 DEF AnswersDue
  <2>. QED
    BY <2>1, <2>2, <2>3 DEF Inv, ClientInv, OutInv
<1>. QED
  BY <1>1, InvAlways, PTL
===============================================================================
