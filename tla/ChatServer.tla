------------------------------ MODULE ChatServer -------------------------------
(***************************************************************************)
(* The threads of core/server.py and the membership they share: one        *)
(* _client_loop per connection, the accept loop and stop().                *)
(*                                                                         *)
(* RoomRegistry (core/server_state.py) and MessageHub are used without a   *)
(* lock.  Only single operations on a dict are atomic in CPython, so a     *)
(* step here is one of them; a thread may stop between any two.  rooms     *)
(* maps a name to a dict object, and a thread that has fetched the object  *)
(* keeps its reference when the name is dropped.  A dict object without    *)
(* references is garbage and its identity is used again.                   *)
(*                                                                         *)
(* What the broadcasts carry is left out: KeyExchange models what the      *)
(* member lists do at the clients.                                         *)
(***************************************************************************)
EXTENDS Naturals, FiniteSets

CONSTANTS
    Conns, Rooms, Users,
    UserOf,       \* the name a connection asks for
    Dicts,        \* dict objects; enough for every room and every thread
    None,
    MaxClients,   \* MAX_CLIENTS
    MaxPackets    \* bound: join packets each connection sends in its loop

ASSUME UserAssumption == UserOf \in [Conns -> Users]
ASSUME BoundAssumption == MaxPackets \in [Conns -> Nat] /\ MaxClients \in Nat \ {0}
ASSUME NoneAssumption == None \notin Rooms \cup Dicts \cup Users \cup Conns
ASSUME DictAssumption ==
    /\ IsFiniteSet(Conns) /\ IsFiniteSet(Rooms) /\ IsFiniteSet(Dicts)
    /\ Cardinality(Dicts) >= Cardinality(Rooms) + Cardinality(Conns)

VARIABLES
    running,      \* _running
    transports,   \* keys of _transports, under _lock
    rooms,        \* RoomRegistry._rooms: name -> dict object
    dict,         \* the contents of the dict objects: connection -> username
    pc,           \* where a connection's thread is
    room, name,   \* its local variables room and username
    target,       \* the room of the join packet it is handling
    ref,          \* the dict object it has fetched
    packets       \* how much of MaxPackets is used
locals == <<pc, room, name, target, ref>>
vars == <<running, transports, rooms, dict, locals, packets>>

Names == Users \cup Conns        \* a taken name gets a suffix: the connection
Empty == [c \in Conns |-> None]
Labels == {"none", "accepted", "handshake", "unique", "fetch", "store", "loop",
           "close", "get", "pop", "check", "drop", "ended"}

TypeOK ==
    /\ running \in BOOLEAN
    /\ transports \subseteq Conns
    /\ rooms \in [Rooms -> Dicts \cup {None}]
    /\ dict \in [Dicts -> [Conns -> Names \cup {None}]]
    /\ pc \in [Conns -> Labels]
    /\ room \in [Conns -> Rooms \cup {None}]
    /\ target \in [Conns -> Rooms \cup {None}]
    /\ name \in [Conns -> Names \cup {None}]
    /\ ref \in [Conns -> Dicts \cup {None}]

Init ==
    /\ running = TRUE
    /\ transports = {}
    /\ rooms = [r \in Rooms |-> None]
    /\ dict = [d \in Dicts |-> Empty]
    /\ pc = [c \in Conns |-> "none"]
    /\ room = [c \in Conns |-> None]
    /\ name = [c \in Conns |-> None]
    /\ target = [c \in Conns |-> None]
    /\ ref = [c \in Conns |-> None]
    /\ packets = [c \in Conns |-> 0]

Goto(c, from, to) == pc[c] = from /\ pc' = [pc EXCEPT ![c] = to]

-------------------------------------------------------------------------------
(* Connections come and go.                                                *)

\* _accept_loop: the limit is checked here, the connection counts only once
\* its thread has registered it.
Accept(c) ==
    /\ running
    /\ Cardinality(transports) < MaxClients
    /\ Goto(c, "none", "accepted")
    /\ UNCHANGED <<running, transports, rooms, dict, room, name, target, ref, packets>>

Register(c) ==
    /\ Goto(c, "accepted", "handshake")
    /\ transports' = transports \cup {c}
    /\ UNCHANGED <<running, rooms, dict, room, name, target, ref, packets>>

\* The first packet is a join, or the thread gives up: a timeout, another
\* packet, or the connection closed.
Handshake(c, r) ==
    /\ Goto(c, "handshake", "unique")
    /\ target' = [target EXCEPT ![c] = r]
    /\ room' = [room EXCEPT ![c] = r]
    /\ UNCHANGED <<running, transports, rooms, dict, name, ref, packets>>

GiveUp(c) ==
    /\ Goto(c, "handshake", "close")
    /\ UNCHANGED <<running, transports, rooms, dict, room, name, target, ref, packets>>

\* stop(): the loops notice within a poll interval.
Stop ==
    /\ running
    /\ running' = FALSE
    /\ UNCHANGED <<transports, rooms, dict, locals, packets>>

-------------------------------------------------------------------------------
(* Entering a room: _unique_username, then RoomRegistry.join in two steps. *)

NamesIn(r, c) ==
    IF rooms[r] = None THEN {}
    ELSE {dict[rooms[r]][d] : d \in Conns \ {c}} \ {None}

UniqueUsername(c) ==
    /\ Goto(c, "unique", "fetch")
    /\ name' = [name EXCEPT ![c] =
                  IF UserOf[c] \in NamesIn(target[c], c) THEN c ELSE UserOf[c]]
    /\ room' = [room EXCEPT ![c] = target[c]]
    /\ UNCHANGED <<running, transports, rooms, dict, target, ref, packets>>

Unused(d) == d \notin {rooms[r] : r \in Rooms} \cup {ref[c] : c \in Conns}

\* self._rooms.setdefault(room, {})
FetchOrCreate(c) ==
    /\ Goto(c, "fetch", "store")
    /\ IF rooms[room[c]] # None
         THEN /\ ref' = [ref EXCEPT ![c] = rooms[room[c]]]
              /\ UNCHANGED <<rooms, dict>>
         ELSE LET d == CHOOSE d \in Dicts : Unused(d)
              IN /\ ref' = [ref EXCEPT ![c] = d]
                 /\ rooms' = [rooms EXCEPT ![room[c]] = d]
                 /\ dict' = [dict EXCEPT ![d] = Empty]
    /\ UNCHANGED <<running, transports, room, name, target, packets>>

\* ...[client_id] = RoomMember(...), then joined, history and the lists.
Store(c) ==
    /\ Goto(c, "store", "loop")
    /\ dict' = [dict EXCEPT ![ref[c]][c] = name[c]]
    /\ ref' = [ref EXCEPT ![c] = None]
    /\ UNCHANGED <<running, transports, rooms, room, name, target, packets>>

-------------------------------------------------------------------------------
(* Packets of a member.                                                    *)

\* Mutant of JoinPacket: the old room is not left.
JoinPacketStaying(c, r) ==
    /\ running /\ packets[c] < MaxPackets[c]
    /\ Goto(c, "loop", "unique")
    /\ target' = [target EXCEPT ![c] = r]
    /\ packets' = [packets EXCEPT ![c] = @ + 1]
    /\ UNCHANGED <<running, transports, rooms, dict, room, name, ref>>

\* A join packet: to the same room again, or out of the old one first.
JoinPacket(c, r) ==
    /\ running /\ packets[c] < MaxPackets[c]
    /\ Goto(c, "loop", IF r = room[c] THEN "unique" ELSE "get")
    /\ target' = [target EXCEPT ![c] = r]
    /\ packets' = [packets EXCEPT ![c] = @ + 1]
    /\ UNCHANGED <<running, transports, rooms, dict, room, name, ref>>

\* The connection ends (closed, idle, a packet too large), or the server
\* stops.
LeaveLoop(c) ==
    /\ Goto(c, "loop", "close")
    /\ UNCHANGED <<running, transports, rooms, dict, room, name, target, ref, packets>>

\* Mutant of Unregister: the thread ends without leave_room.
UnregisterOnly(c) ==
    /\ Goto(c, "close", "ended")
    /\ transports' = transports \ {c}
    /\ UNCHANGED <<running, rooms, dict, room, name, target, ref, packets>>

\* The first lines of the finally block.
Unregister(c) ==
    /\ Goto(c, "close", IF room[c] = None THEN "ended" ELSE "get")
    /\ transports' = transports \ {c}
    /\ UNCHANGED <<running, rooms, dict, room, name, target, ref, packets>>

-------------------------------------------------------------------------------
(* RoomRegistry.leave, on the way to another room or at the end: members = *)
(* get; members.pop; if not members; rooms.pop.                            *)

\* An unregistered thread is in its finally block.
AfterLeave(c) == IF c \in transports THEN "unique" ELSE "ended"

IsEmpty(d) == dict[d] = Empty

GetMembers(c) ==
    /\ pc[c] = "get"
    /\ IF rooms[room[c]] = None \/ IsEmpty(rooms[room[c]])
         THEN /\ Goto(c, "get", AfterLeave(c))
              /\ UNCHANGED ref
         ELSE /\ Goto(c, "get", "pop")
              /\ ref' = [ref EXCEPT ![c] = rooms[room[c]]]
    /\ UNCHANGED <<running, transports, rooms, dict, room, name, target, packets>>

PopMember(c) ==
    /\ Goto(c, "pop", "check")
    /\ dict' = [dict EXCEPT ![ref[c]][c] = None]
    /\ UNCHANGED <<running, transports, rooms, room, name, target, ref, packets>>

\* Mutant of CheckEmpty: an empty room is kept.
RoomKept(c) ==
    /\ Goto(c, "check", AfterLeave(c))
    /\ ref' = [ref EXCEPT ![c] = None]
    /\ UNCHANGED <<running, transports, rooms, dict, room, name, target, packets>>

CheckEmpty(c) ==
    /\ pc[c] = "check"
    /\ Goto(c, "check", IF IsEmpty(ref[c]) THEN "drop" ELSE AfterLeave(c))
    /\ ref' = [ref EXCEPT ![c] = None]
    /\ UNCHANGED <<running, transports, rooms, dict, room, name, target, packets>>

DropRoom(c) ==
    /\ Goto(c, "drop", AfterLeave(c))
    /\ rooms' = [rooms EXCEPT ![room[c]] = None]
    /\ UNCHANGED <<running, transports, dict, room, name, target, ref, packets>>

-------------------------------------------------------------------------------
\* Mutant of Thread: a thread blocks in recv and never looks at running.
ThreadBlocked(c) ==
    \/ Register(c) \/ GiveUp(c) \/ UniqueUsername(c) \/ FetchOrCreate(c) \/ Store(c)
    \/ Unregister(c) \/ GetMembers(c) \/ PopMember(c) \/ CheckEmpty(c) \/ DropRoom(c)

\* What a thread does by itself; a thread in its loop waits for packets until
\* the server stops.
Thread(c) ==
    \/ Register(c) \/ GiveUp(c) \/ UniqueUsername(c) \/ FetchOrCreate(c) \/ Store(c)
    \/ ~running /\ LeaveLoop(c)
    \/ Unregister(c) \/ GetMembers(c) \/ PopMember(c) \/ CheckEmpty(c) \/ DropRoom(c)

Peer(c) ==
    \/ Accept(c)
    \/ \E r \in Rooms : Handshake(c, r) \/ JoinPacket(c, r)
    \/ LeaveLoop(c)

Next == Stop \/ \E c \in Conns : Thread(c) \/ Peer(c)

Spec == Init /\ [][Next]_vars /\ \A c \in Conns : WF_vars(Thread(c))
-------------------------------------------------------------------------------
Live(r, c) == rooms[r] # None /\ dict[rooms[r]][c] # None

\* A connection whose thread has ended is in no room, whatever the other
\* threads did to the rooms while it was leaving.
NoGhost ==
    \A c \in Conns : pc[c] = "ended" => \A r \in Rooms : ~Live(r, c)

\* A connection is in one room at a time, and it is the one its thread writes
\* to: nobody hears two rooms after a change of room.
OneRoom ==
    \A c \in Conns, r \in Rooms : Live(r, c) => r = room[c]

\* "A room with no members left falls off by itself" (server.py:360): when no
\* thread is in the middle of something, every room on the list has a member,
\* also after its last two members left at the same time.
EmptyRoomsFallOff ==
    (\A c \in Conns : pc[c] \in {"none", "handshake", "loop", "ended"})
        => \A r \in Rooms : rooms[r] # None => \E c \in Conns : Live(r, c)

\* After stop() every thread ends, the ones it has not seen included, and no
\* room and no connection is left.
StopEndsAll ==
    ~running ~> /\ \A c \in Conns : pc[c] \in {"none", "ended"}
                /\ \A r \in Rooms : rooms[r] = None
                /\ transports = {}
===============================================================================
