------------------------------ MODULE KeyExchange ------------------------------
(***************************************************************************)
(* The key exchange of a chat: ChatClients (core/client.py), the server    *)
(* threads that carry their packets (core/server.py), and a FIFO per       *)
(* direction of each TCP connection.                                       *)
(*                                                                         *)
(* A member of Conns is one connection.  Every connection has a ChatClient *)
(* of its own, whose sessions end with it, so a reconnect is another       *)
(* member of Conns.  The session of c in room r has the public key         *)
(* <<c, r>>.  No lock is held while a packet is broadcast: reading a member *)
(* list, reading the targets of a broadcast and each of its sends are steps *)
(* of their own, and so are the three assignments of join_room.  A packet  *)
(* that reaches a client is handled in one step.                           *)
(*                                                                         *)
(* Of a room session this module keeps what RoomSession is proved to offer *)
(* its client, a key ring: pairs and the peers on the ring.  A sender_key  *)
(* goes to one recipient here: the others drop it by its "to" field.       *)
(* The rate limit of key packets and the cap on waiting keys are not       *)
(* reached by what the bounds allow, and are left out.                     *)
(***************************************************************************)
EXTENDS Naturals, SequencesExt

CONSTANTS
    Conns, Rooms, Users, Passwords,
    UserOf,       \* the name a connection asks for
    PasswordOf,   \* the room password it was given
    None,
    Leavers,      \* bound: the connections that may end
    MaxActs       \* bound: room changes and messages of each connection

ASSUME UserAssumption == UserOf \in [Conns -> Users]
ASSUME PasswordAssumption == PasswordOf \in [Conns -> Passwords]
ASSUME NoneAssumption == None \notin Rooms \cup Users \cup Conns

VARIABLES
    \* ChatClient
    phase,        \* "new", "up" (connected), "down"
    room,         \* self.room
    cipher,       \* the room of self._cipher
    moving,       \* the join_room call under way and what it does next
    pairs, ring,  \* per cached session: verified offers, sender keys held
    peerUsers,    \* _peer_users
    pending,      \* _pending_keys
    mismatched,   \* _mismatched
    \* ChatServer
    where,        \* the room a connection's thread has registered it in
    members,      \* RoomRegistry: per room, in the order of joining
    name,         \* its username there
    todo,         \* what its thread has still to do for the current packet
    \* TCP
    up,           \* packets on the way to the server
    down,         \* packets on the way to the client
    acts,         \* how much of MaxActs is used
    \* History
    leftOut       \* members an outdated list has left out, see LeftOut

at     == <<phase, room, cipher, moving>>
keys   == <<pairs, ring, peerUsers, pending, mismatched>>
server == <<where, members, name, todo>>
vars   == <<at, keys, server, up, down, acts, leftOut>>

Pubs  == Conns \X Rooms
Names == Users \cup Conns       \* a taken name gets a suffix: the connection
OwnPub(c) == <<c, cipher[c]>>
Calls == {"derive", "send"} \X Rooms
Idle  == << >>                  \* no join_room call is under way

TypeOK ==
    /\ phase \in [Conns -> {"new", "up", "down"}]
    /\ room \in [Conns -> Rooms \cup {None}]
    /\ cipher \in [Conns -> Rooms \cup {None}]
    /\ moving \in [Conns -> Calls \cup {Idle}]
    /\ pairs \in [Conns -> [Rooms -> SUBSET Pubs]]
    /\ ring \in [Conns -> [Rooms -> SUBSET Pubs]]
    /\ peerUsers \in [Conns -> [Pubs -> Names \cup {None}]]
    /\ pending \in [Conns -> SUBSET Pubs]
    /\ mismatched \in [Conns -> SUBSET Pubs]
    /\ where \in [Conns -> Rooms \cup {None}]
    /\ members \in [Rooms -> Seq(Conns)]
    /\ name \in [Conns -> Names \cup {None}]
    /\ leftOut \subseteq Conns

Init ==
    /\ phase = [c \in Conns |-> "new"]
    /\ room = [c \in Conns |-> None]
    /\ cipher = [c \in Conns |-> None]
    /\ moving = [c \in Conns |-> Idle]
    /\ pairs = [c \in Conns |-> [r \in Rooms |-> {}]]
    /\ ring = [c \in Conns |-> [r \in Rooms |-> {}]]
    /\ peerUsers = [c \in Conns |-> [p \in Pubs |-> None]]
    /\ pending = [c \in Conns |-> {}]
    /\ mismatched = [c \in Conns |-> {}]
    /\ where = [c \in Conns |-> None]
    /\ members = [r \in Rooms |-> << >>]
    /\ name = [c \in Conns |-> None]
    /\ todo = [c \in Conns |-> << >>]
    /\ up = [c \in Conns |-> << >>]
    /\ down = [c \in Conns |-> << >>]
    /\ acts = [c \in Conns |-> 0]
    /\ leftOut = {}

-------------------------------------------------------------------------------
(* Packets.                                                                *)

Join(r)       == [type |-> "join", room |-> r]
Joined(r, u)  == [type |-> "joined", room |-> r, user |-> u]
Snapshot(us)  == [type |-> "room_snapshot", users |-> us]
Offer(p)      == [type |-> "key_offer", pub |-> p, user |-> None]
SenderKey(p, q) == [type |-> "sender_key", pub |-> p, to |-> q]
Message       == [type |-> "message"]
Eof           == [type |-> "eof"]

Present(r) == {d \in Conns : where[d] = r}
NamesIn(r) == {name[d] : d \in Present(r)}

\* RoomRegistry.leave: a room without c.
Without(ds, c) ==
    IF \E i \in 1..Len(ds) : ds[i] = c
      THEN RemoveAt(ds, CHOOSE i \in 1..Len(ds) : ds[i] = c) ELSE ds

-------------------------------------------------------------------------------
(* The user of the client.                                                 *)

Connect(c, r) ==
    /\ phase[c] = "new"
    /\ phase' = [phase EXCEPT ![c] = "up"]
    /\ room' = [room EXCEPT ![c] = r]
    /\ cipher' = [cipher EXCEPT ![c] = r]
    /\ up' = [up EXCEPT ![c] = <<Join(r)>>]
    /\ UNCHANGED <<moving, keys, server, down, acts, leftOut>>

\* join_room: the client names the new room, then takes its session (Argon2id
\* may run here), and only then asks the server; the listen thread may handle
\* packets in between.
JoinRoom(c, r) ==
    /\ phase[c] = "up" /\ moving[c] = Idle /\ r # room[c] /\ acts[c] < MaxActs[c]
    /\ room' = [room EXCEPT ![c] = r]
    /\ moving' = [moving EXCEPT ![c] = <<"derive", r>>]
    /\ acts' = [acts EXCEPT ![c] = @ + 1]
    /\ UNCHANGED <<phase, cipher, keys, server, up, down, leftOut>>

TakeCipher(c, r) ==
    /\ moving[c] = <<"derive", r>>
    /\ cipher' = [cipher EXCEPT ![c] = r]
    /\ moving' = [moving EXCEPT ![c] = <<"send", r>>]
    /\ UNCHANGED <<phase, room, keys, server, up, down, acts, leftOut>>

SendJoin(c, r) ==
    /\ moving[c] = <<"send", r>>
    /\ up' = [up EXCEPT ![c] = Append(@, Join(r))]
    /\ moving' = [moving EXCEPT ![c] = Idle]
    /\ UNCHANGED <<phase, room, cipher, keys, server, down, acts, leftOut>>

SendMessage(c) ==
    /\ phase[c] = "up" /\ acts[c] < MaxActs[c]
    /\ up' = [up EXCEPT ![c] = Append(@, Message)]
    /\ acts' = [acts EXCEPT ![c] = @ + 1]
    /\ UNCHANGED <<at, keys, server, down, leftOut>>

\* disconnect, or the connection breaks: the server reads some of what was
\* sent and then the end of the stream.
Disconnect(c) ==
    /\ phase[c] = "up" /\ c \in Leavers
    /\ phase' = [phase EXCEPT ![c] = "down"]
    /\ room' = [room EXCEPT ![c] = None]
    /\ cipher' = [cipher EXCEPT ![c] = None]
    /\ moving' = [moving EXCEPT ![c] = Idle]
    /\ pairs' = [pairs EXCEPT ![c] = [r \in Rooms |-> {}]]
    /\ ring' = [ring EXCEPT ![c] = [r \in Rooms |-> {}]]
    /\ peerUsers' = [peerUsers EXCEPT ![c] = [p \in Pubs |-> None]]
    /\ pending' = [pending EXCEPT ![c] = {}]
    /\ mismatched' = [mismatched EXCEPT ![c] = {}]
    /\ \E n \in 0..Len(up[c]) :
          up' = [up EXCEPT ![c] = Append(SubSeq(@, 1, n), Eof)]
    /\ down' = [down EXCEPT ![c] = << >>]
    /\ UNCHANGED <<server, acts, leftOut>>

-------------------------------------------------------------------------------
(* The client's listen thread: one packet at a time, handled to the end.   *)

Arrives(c, type) == down[c] # << >> /\ Head(down[c]).type = type

Consume(c) == down' = [down EXCEPT ![c] = Tail(@)]

\* _forget_absent_peers acts on the session the client uses now, whatever room the list is about; then the offer is announced again.
AbsentNobody(c, users) == {}   \* mutant: nobody's key is dropped
Absent(c, users) ==
    {p \in Pubs : peerUsers[c][p] # None /\ peerUsers[c][p] \notin users}
NotReannounced(c) == up[c]     \* mutant: the offer is announced on joining only
Reannounced(c) == Append(up[c], Offer(OwnPub(c)))
OnSnapshot(c) ==
    LET users == Head(down[c]).users
        gone == Absent(c, users)
    IN /\ Arrives(c, "room_snapshot")
       /\ pairs' = [pairs EXCEPT ![c][cipher[c]] = @ \ gone]
       /\ ring' = [ring EXCEPT ![c][cipher[c]] = @ \ gone]
       /\ peerUsers' = [peerUsers EXCEPT ![c] =
                          [p \in Pubs |-> IF p \in gone THEN None ELSE @[p]]]
       /\ pending' = [pending EXCEPT ![c] = @ \ gone]
       /\ up' = [up EXCEPT ![c] = Reannounced(c)]
       /\ Consume(c)
       /\ UNCHANGED <<at, mismatched, server, acts, leftOut>>

\* _absorb_session_state for "joined": _drop_all_peers only if the server
\* settled on another room than the client is in.
OnJoined(c) ==
    LET r == Head(down[c]).room
        held == {p \in Pubs : peerUsers[c][p] # None}
    IN /\ Arrives(c, "joined")
       /\ IF r # room[c]
            THEN /\ pairs' = [pairs EXCEPT ![c][cipher[c]] = @ \ held]
                 /\ ring' = [ring EXCEPT ![c][cipher[c]] = @ \ held]
                 /\ peerUsers' = [peerUsers EXCEPT ![c] = [p \in Pubs |-> None]]
                 /\ pending' = [pending EXCEPT ![c] = {}]
                 /\ mismatched' = [mismatched EXCEPT ![c] = {}]
                 /\ room' = [room EXCEPT ![c] = r]
                 /\ cipher' = [cipher EXCEPT ![c] = r]
            ELSE UNCHANGED <<keys, room, cipher>>
       /\ up' = [up EXCEPT ![c] = Append(@, Offer(<<c, cipher'[c]>>))]
       /\ Consume(c)
       /\ UNCHANGED <<phase, moving, server, acts, leftOut>>

\* accept_offer: the tag depends on the room and the password, and pair_key
\* refuses our own public key.
VerifiesAnyRoom(c, p) ==       \* mutant: the tag does not cover the room
    PasswordOf[p[1]] = PasswordOf[c]
Verifies(c, p) ==
    /\ p[2] = cipher[c] /\ p # OwnPub(c)
    /\ PasswordOf[p[1]] = PasswordOf[c]

\* Our own announcement comes back from the server.
Echo(c, p) == p = OwnPub(c)

\* The wrapped key that came before the offer, if one did.
WaitingLost(c, p) == {}        \* mutant: it is not retried
Waiting(c, p) == {p} \cap pending[c]

\* _accept_offer: our wrapped key goes back, and a waiting one is taken.
OnKeyOffer(c) ==
    LET p == Head(down[c]).pub
        here == cipher[c]
    IN /\ Arrives(c, "key_offer")
       /\ IF Echo(c, p)
            THEN UNCHANGED <<keys, up>>
          ELSE IF Verifies(c, p)
            THEN /\ pairs' = [pairs EXCEPT ![c][here] = @ \cup {p}]
                 /\ peerUsers' = [peerUsers EXCEPT ![c][p] = Head(down[c]).user]
                 /\ up' = [up EXCEPT ![c] = Append(@, SenderKey(OwnPub(c), p))]
                 /\ ring' = [ring EXCEPT ![c][here] = @ \cup Waiting(c, p)]
                 /\ pending' = [pending EXCEPT ![c] = @ \ Waiting(c, p)]
                 /\ UNCHANGED mismatched
            ELSE /\ mismatched' = [mismatched EXCEPT ![c] = @ \cup {p}]
                 /\ UNCHANGED <<pairs, ring, peerUsers, pending, up>>
       /\ Consume(c)
       /\ UNCHANGED <<at, server, acts, leftOut>>

\* _accept_sender_key: without the peer's offer the wrapped key has to wait.
OnSenderKey(c) ==
    LET p == Head(down[c]).pub
        here == cipher[c]
    IN /\ Arrives(c, "sender_key")
       /\ IF Head(down[c]).to # OwnPub(c)
            THEN UNCHANGED <<ring, pending>>
          ELSE IF p \in pairs[c][here]
            THEN /\ ring' = [ring EXCEPT ![c][here] = @ \cup {p}]
                 /\ UNCHANGED pending
            ELSE /\ pending' = [pending EXCEPT ![c] = @ \cup {p}]
                 /\ UNCHANGED ring
       /\ Consume(c)
       /\ UNCHANGED <<at, pairs, peerUsers, mismatched, server, up, acts,
                      leftOut>>

-------------------------------------------------------------------------------
(* The server thread of a connection.  todo holds the rest of a handler:   *)
(* enter a room, read its member list, read the targets of a broadcast,    *)
(* send a packet to the targets that are left.                             *)

Enter(r)      == [op |-> "enter", room |-> r]
ReadList(r)   == [op |-> "read", room |-> r]
Cast(r, packet)  == [op |-> "cast", room |-> r, packet |-> packet]
Send(ds, packet) == [op |-> "send", to |-> ds, packet |-> packet]

\* The targets a broadcast has still to reach; after the last it is over.
SendTo(ds, packet) == IF ds = << >> THEN << >> ELSE <<Send(ds, packet)>>

\* broadcast_targets: whoever is in the room now; the targets who would drop a
\* sender_key by its "to" are left out.
Targets(r, packet) ==
    LET ds == IF r \in Rooms THEN members[r] ELSE << >>
    IN IF packet.type # "sender_key" THEN ds
       ELSE IF packet.to[1] \in ToSet(ds) THEN <<packet.to[1]>> ELSE << >>

Reads(c, type) ==
    todo[c] = << >> /\ up[c] # << >> /\ Head(up[c]).type = type

Advance(c) == up' = [up EXCEPT ![c] = Tail(@)]

\* A join packet: a registered member first leaves the old room.
HandleJoin(c) ==
    LET r == Head(up[c]).room
        old == where[c]
    IN /\ Reads(c, "join")
       /\ IF old \in {None, r}
            THEN /\ todo' = [todo EXCEPT ![c] = <<Enter(r), ReadList(r)>>]
                 /\ UNCHANGED <<where, members>>
            ELSE /\ todo' = [todo EXCEPT ![c] = <<ReadList(old), Enter(r), ReadList(r)>>]
                 /\ where' = [where EXCEPT ![c] = None]
                 /\ members' = [members EXCEPT ![old] = Without(@, c)]
       /\ Advance(c)
       /\ UNCHANGED <<at, keys, name, down, acts, leftOut>>

\* A key packet goes to the room under the name the server settled on.  What
\* comes before the targets are read is the thread's own.
HandleKeyPacket(c) ==
    LET packet == IF Head(up[c]).type = "key_offer"
                    THEN [Head(up[c]) EXCEPT !.user = name[c]] ELSE Head(up[c])
    IN /\ Reads(c, "key_offer") \/ Reads(c, "sender_key")
       /\ todo' = [todo EXCEPT ![c] = SendTo(Targets(where[c], packet), packet)]
       /\ Advance(c)
       /\ UNCHANGED <<at, keys, where, members, name, down, acts, leftOut>>

\* A chat message is broadcast (its content is not modelled) and followed by
\* the member list.
HandleMessage(c) ==
    /\ Reads(c, "message")
    /\ todo' = [todo EXCEPT ![c] = <<ReadList(where[c])>>]
    /\ Advance(c)
    /\ UNCHANGED <<at, keys, where, members, name, down, acts, leftOut>>

\* The finally block: leave the room, then tell it.
HandleEof(c) ==
    /\ Reads(c, "eof")
    /\ IF where[c] = None
         THEN UNCHANGED <<where, members, todo>>
         ELSE /\ where' = [where EXCEPT ![c] = None]
              /\ members' = [members EXCEPT ![where[c]] = Without(@, c)]
              /\ todo' = [todo EXCEPT ![c] = <<ReadList(where[c])>>]
    /\ Advance(c)
    /\ UNCHANGED <<at, keys, name, down, acts, leftOut>>

Doing(c, op) == todo[c] # << >> /\ Head(todo[c]).op = op

\* _unique_username and join_room; the joined packet comes next.
EnterRoom(c) ==
    LET r == Head(todo[c]).room
        taken == {name[d] : d \in Present(r) \ {c}}
        u == IF UserOf[c] \in taken THEN c ELSE UserOf[c]
    IN /\ Doing(c, "enter")
       /\ where' = [where EXCEPT ![c] = r]
       /\ members' = IF c \in ToSet(members[r]) THEN members
                     ELSE [members EXCEPT ![r] = Append(@, c)]
       /\ name' = [name EXCEPT ![c] = u]
       /\ todo' = [todo EXCEPT ![c] = SendTo(<<c>>, Joined(r, u)) \o Tail(@)]
       /\ UNCHANGED <<at, keys, up, down, acts, leftOut>>

ReadMembers(c) ==
    LET r == Head(todo[c]).room
    IN /\ Doing(c, "read")
       /\ todo' = [todo EXCEPT ![c] = <<Cast(r, Snapshot(NamesIn(r)))>> \o Tail(@)]
       /\ UNCHANGED <<at, keys, where, members, name, up, down, acts, leftOut>>

ReadTargets(c) ==
    LET t == Head(todo[c])
    IN /\ Doing(c, "cast")
       /\ todo' = [todo EXCEPT ![c] = SendTo(Targets(t.room, t.packet), t.packet) \o Tail(@)]
       /\ UNCHANGED <<at, keys, where, members, name, up, down, acts, leftOut>>

\* History: a list on its way to d leaves out the members of d's room it does
\* not name, until a list is sent to them.
LeftOut(d, packet) ==
    IF packet.type # "room_snapshot" THEN leftOut
    ELSE (leftOut \ {d}) \cup
         {e \in Conns \ {d} : /\ where[e] = where[d] /\ where[e] # None
                              /\ name[e] \notin packet.users}

\* The next send of a broadcast.  The target may have changed room or closed by
\* now.
SendOne(c) ==
    LET t == Head(todo[c])
        d == Head(t.to)
    IN /\ Doing(c, "send")
       /\ todo' = [todo EXCEPT ![c] = SendTo(Tail(t.to), t.packet) \o Tail(@)]
       /\ IF phase[d] = "up"
            THEN /\ down' = [down EXCEPT ![d] = Append(@, t.packet)]
                 /\ leftOut' = LeftOut(d, t.packet)
            ELSE UNCHANGED <<down, leftOut>>
       /\ UNCHANGED <<at, keys, where, members, name, up, acts>>

-------------------------------------------------------------------------------
Client(c) == OnSnapshot(c) \/ OnJoined(c) \/ OnKeyOffer(c) \/ OnSenderKey(c)

Server(c) ==
    \/ HandleJoin(c) \/ HandleKeyPacket(c) \/ HandleMessage(c) \/ HandleEof(c)
    \/ EnterRoom(c) \/ ReadMembers(c) \/ ReadTargets(c) \/ SendOne(c)

User(c) ==
    \/ \E r \in Rooms : Connect(c, r) \/ JoinRoom(c, r)
    \/ SendMessage(c)
    \/ Disconnect(c)

\* The rest of a join_room call.
Mover(c) == \E r \in Rooms : TakeCipher(c, r) \/ SendJoin(c, r)

Next == \E c \in Conns : Client(c) \/ Server(c) \/ User(c) \/ Mover(c)

Spec == Init /\ [][Next]_vars

\* Threads and connections make progress; nobody has to do anything.
Fairness ==
    \A c \in Conns : WF_vars(Client(c)) /\ WF_vars(Server(c)) /\ WF_vars(Mover(c))
-------------------------------------------------------------------------------
Quiet ==
    \A c \in Conns : /\ up[c] = << >> /\ down[c] = << >> /\ todo[c] = << >>
                     /\ moving[c] = Idle

Keyed(c, d) == <<d, room[c]>> \in ring[c][cipher[c]]

\* verified_users: the names filed for the peers whose keys are on the ring.
VerifiedUsers(c) == {peerUsers[c][p] : p \in ring[c][cipher[c]]} \ {None}

\* Sessions of two rooms never mix: whatever is still on its way when a client
\* changes room, no session verifies or keys a peer of another room, or one
\* with another password.
SessionsApart ==
    \A c \in Conns, r \in Rooms :
        /\ ring[c][r] \subseteq pairs[c][r]
        /\ \A p \in pairs[c][r] : p[2] = r /\ PasswordOf[p[1]] = PasswordOf[c]

\* A wrapped key does not wait for an offer that has already come, in whichever
\* order the two packets arrive and whatever lists arrive in between
\* (client.py:134 "so we hold it and retry once the offer arrives").
NothingWaitsInVain ==
    \A c \in Conns : \A p \in pending[c] : p \notin pairs[c][p[2]]

\* When nothing is on its way any more, the names a client shows as verified
\* are names of members of its room, whatever order the lists of leavers and
\* joiners came in.  This is about names: the key behind one may still be that
\* of a departed connection, see KeysOnlyOfMembers.
VerifiedAreMembers ==
    Quiet => \A c \in Conns :
        phase[c] = "up" => VerifiedUsers(c) \subseteq NamesIn(room[c])

Together(c, d) ==
    /\ c # d /\ phase[c] = "up" /\ phase[d] = "up" /\ room[c] = room[d]
    /\ PasswordOf[c] = PasswordOf[d]

\* Two members of a room who share its password are keyed to each other in the
\* end, whatever the order of offers, wrapped keys and member lists: unless an
\* outdated list, read before the one had joined, is the last list either gets.
KeyedUnlessLeftOut ==
    \A c, d \in Conns :
        <>[](Together(c, d) /\ d \notin leftOut => Keyed(c, d))

-------------------------------------------------------------------------------
(* What comments promise and the code does not keep.                       *)

\* No exchange stays half done (client.py:133 "the exchange would stay half
\* done; so we hold it and retry once the offer arrives").
KeyedInTheEnd ==
    \A c, d \in Conns : <>[](Together(c, d) => Keyed(c, d))

\* When nothing is on its way any more, the session a client uses holds keys
\* only of connections that are in its room (client.py:561 "Drops the key of
\* whoever left the room").
KeysOnlyOfMembers ==
    Quiet => \A c \in Conns :
        phase[c] = "up" => \A p \in ring[c][cipher[c]] : where[p[1]] = room[c]

\* Who has moved to another room holds no key of the one it left (client.py:317
\* "We are leaving the room, so we drop the keys of the peers here").
OldNeighboursForgotten ==
    Quiet => \A c \in Conns, r \in Rooms :
        phase[c] = "up" /\ r # room[c] => ring[c][r] = {}

\* An offer that fails to verify comes from someone with another password
\* (client.py:123 "not a guess but direct proof").
MismatchIsProof ==
    \A c \in Conns : \A p \in mismatched[c] : PasswordOf[p[1]] # PasswordOf[c]
===============================================================================
