------------------------------ MODULE VoiceRelay -------------------------------
(***************************************************************************)
(* core/voice_relay.py: the table of those who joined voice, and the       *)
(* routing of their datagrams by it.  Every call is made under the         *)
(* server's _lock (server.py), so a call is one step.                      *)
(*                                                                         *)
(* A VoiceParticipant is known by its sender_id: both dictionaries refer   *)
(* to it, _by_client through the id here and _by_sender by the id itself.  *)
(* The token of an id is 16 random bytes and stands for the id: a datagram *)
(* carries the id its sender writes and the id whose token it presents.    *)
(* A client's datagrams come from its own sockets; two clients may share   *)
(* an ip, never a socket.                                                  *)
(***************************************************************************)
EXTENDS Naturals, FiniteSets, FiniteSetsExt

CONSTANTS
    Clients, Rooms, None,
    Codecs, Unset,    \* the codecs, and the empty string
    Addrs,            \* addresses datagrams come from
    SocketsOf,        \* the addresses that are a client's
    IpOf,             \* address -> ip; also client -> the ip of its connection
    MaxSenderId,      \* MAX_SENDER_ID
    RateLimit         \* RATE_LIMIT_PACKETS

ASSUME LimitAssumption == MaxSenderId \in Nat /\ RateLimit \in Nat \ {0}
ASSUME SocketAssumption ==
    /\ SocketsOf \in [Clients -> SUBSET Addrs]
    /\ \A c, d \in Clients : c # d => SocketsOf[c] \cap SocketsOf[d] = {}

VARIABLES
    next_sender_id,
    by_client,   \* _by_client: client -> id of its participant, or None
    by_sender,   \* the keys of _by_sender
    peer,        \* the participants: id -> VoiceParticipant, None if nobody's
    given,       \* history: the client an id and its token were handed to
    result       \* what the last handle() told the server to send, and from whom
vars == <<next_sender_id, by_client, by_sender, peer, given, result>>

Ids == 1 .. MaxSenderId
Participant == [client : Clients, room : Rooms, codec : Codecs \cup {Unset},
                salted : BOOLEAN, address : Addrs \cup {None}, count : 0 .. RateLimit]
ASSUME NobodyAssumption ==
    None \notin Addrs /\ None \notin Nat /\ None \notin Participant

Nothing == [from |-> None, to |-> {}]

TypeOK ==
    /\ next_sender_id \in 1 .. MaxSenderId + 1
    /\ by_client \in [Clients -> Ids \cup {None}]
    /\ by_sender \subseteq Ids
    /\ peer \in [Ids -> Participant \cup {None}]
    /\ given \in [Ids -> Clients \cup {None}]
    /\ result \in [from : Addrs \cup {None}, to : SUBSET Addrs]

Init ==
    /\ next_sender_id = 1
    /\ by_client = [c \in Clients |-> None]
    /\ by_sender = {}
    /\ peer = [i \in Ids |-> None]
    /\ given = [i \in Ids |-> None]
    /\ result = Nothing

-------------------------------------------------------------------------------
(* Signalling, from the TCP side.                                          *)

InVoice(c) == by_client[c] # None
Listed == {by_client[c] : c \in Clients} \ {None}
Without(c) == Listed \ {by_client[c]}
PeerWithout(c) == [i \in Ids |-> IF i = by_client[c] THEN None ELSE peer[i]]

\* Mutant of RoomCodec: every joiner brings its own.
OwnCodec(members, r, proposed) == proposed

\* The codec of the room's oldest member that has one.  (A dict keeps the
\* order of insertion, and ids grow with it.)
Decided(members, r) == {i \in members : peer[i].room = r /\ peer[i].codec # Unset}
RoomCodec(members, r, proposed) ==
    IF Decided(members, r) = {} THEN proposed ELSE peer[Min(Decided(members, r))].codec

\* Mutant of Removed: the id stays in _by_sender.
RemovedFromOne(c) ==
    /\ by_client' = [by_client EXCEPT ![c] = None]
    /\ UNCHANGED <<by_sender, peer>>

Removed(c) ==
    /\ by_client' = [by_client EXCEPT ![c] = None]
    /\ by_sender' = by_sender \ {by_client[c]}
    /\ peer' = PeerWithout(c)

\* Mutant of Join: the smallest id nobody uses.
JoinFreeId(c, r, proposed) ==
    /\ next_sender_id <= MaxSenderId
    /\ LET i == Min(Ids \ Without(c))
       IN /\ by_client' = [by_client EXCEPT ![c] = i]
          /\ by_sender' = (by_sender \ {by_client[c]}) \cup {i}
          /\ peer' = [PeerWithout(c) EXCEPT ![i] =
                        [client |-> c, room |-> r, salted |-> FALSE, address |-> None,
                         codec |-> RoomCodec(Without(c), r, proposed), count |-> 0]]
          /\ given' = [given EXCEPT ![i] = c]
    /\ next_sender_id' = next_sender_id + 1
    /\ result' = Nothing

\* voice_join, in the client's room; salt and address come later.
Join(c, r, proposed) ==
    /\ next_sender_id <= MaxSenderId
    /\ LET i == next_sender_id
       IN /\ by_client' = [by_client EXCEPT ![c] = i]
          /\ by_sender' = (by_sender \ {by_client[c]}) \cup {i}
          /\ peer' = [PeerWithout(c) EXCEPT ![i] =
                        [client |-> c, room |-> r, salted |-> FALSE, address |-> None,
                         codec |-> RoomCodec(Without(c), r, proposed), count |-> 0]]
          /\ given' = [given EXCEPT ![i] = c]
    /\ next_sender_id' = next_sender_id + 1
    /\ result' = Nothing

\* The ids are exhausted: join has already removed the old entry when it
\* raises, and the exception ends the client's thread.
JoinExhausted(c) ==
    /\ next_sender_id > MaxSenderId
    /\ Removed(c)
    /\ result' = Nothing
    /\ UNCHANGED <<next_sender_id, given>>

\* voice_leave, or the connection ended.
Leave(c) ==
    /\ InVoice(c)
    /\ Removed(c)
    /\ result' = Nothing
    /\ UNCHANGED <<next_sender_id, given>>

\* The client went to another room of the chat.
Move(c, r) ==
    /\ InVoice(c)
    /\ peer' = [peer EXCEPT ![by_client[c]].room = r]
    /\ result' = Nothing
    /\ UNCHANGED <<next_sender_id, by_client, by_sender, given>>

SetSalt(c) ==
    /\ InVoice(c)
    /\ peer' = [peer EXCEPT ![by_client[c]].salted = TRUE]
    /\ result' = Nothing
    /\ UNCHANGED <<next_sender_id, by_client, by_sender, given>>

-------------------------------------------------------------------------------
(* The voice path: handle().                                               *)

\* The first check of every datagram: its id is known and its ip is the one
\* of that participant's connection.
Known(i, a) == i \in by_sender /\ IpOf[peer[i].client] = IpOf[a]

Rejected == result' = Nothing /\ UNCHANGED <<next_sender_id, by_client, by_sender, peer, given>>

\* Mutant of TokenMatches: the ip is proof enough.
TokenIgnored(i, token) == TRUE

TokenMatches(i, token) == token = i

CanBind(i, token, a) == Known(i, a) /\ TokenMatches(i, token)

Hello(i, token, a) ==
    /\ CanBind(i, token, a)
    /\ peer' = [peer EXCEPT ![i].address = a]
    /\ result' = Nothing
    /\ UNCHANGED <<next_sender_id, by_client, by_sender, given>>

\* Mutant of Targets: the sender is not left out.
TargetsAll(i) ==
    {j \in Listed : peer[j].room = peer[i].room /\ peer[j].address # None}

Targets(i) ==
    {j \in Listed : peer[j].room = peer[i].room /\ j # i /\ peer[j].address # None}

\* Mutant of CanSpeak: the limit is compared with <= instead of <.
OneMore(i, a, fresh) ==
    Known(i, a) /\ peer[i].address = a /\ (fresh \/ peer[i].count <= RateLimit)

\* _within_rate_limit: count is that of the running window, and a fresh
\* window begins when that one has run out.
CanSpeak(i, a, fresh) ==
    Known(i, a) /\ peer[i].address = a /\ (fresh \/ peer[i].count < RateLimit)

Audio(i, a, fresh) ==
    /\ CanSpeak(i, a, fresh)
    /\ peer' = [peer EXCEPT ![i].count = IF fresh THEN 1 ELSE @ + 1]
    /\ result' = [from |-> a, to |-> {peer[j].address : j \in Targets(i)}]
    /\ UNCHANGED <<next_sender_id, by_client, by_sender, given>>

\* No answer: the datagram is a hello, or audio, that fails a check.
Refused(i, token, a) ==
    /\ ~CanBind(i, token, a) \/ ~CanSpeak(i, a, FALSE)
    /\ Rejected

\* A client uses the ids and tokens it was handed, those of an earlier
\* joining included: a datagram may be late, or repeated.  Its socket may
\* change.
Datagram(c) ==
    \E i \in Ids, token \in {k \in Ids : given[k] = c}, a \in SocketsOf[c] :
        \/ Hello(i, token, a)
        \/ \E fresh \in BOOLEAN : Audio(i, a, fresh)
        \/ Refused(i, token, a)

-------------------------------------------------------------------------------
Signalling(c) ==
    \/ \E r \in Rooms, proposed \in Codecs \cup {Unset} : Join(c, r, proposed)
    \/ JoinExhausted(c) \/ Leave(c) \/ SetSalt(c)
    \/ \E r \in Rooms : Move(c, r)

Next == \E c \in Clients : Signalling(c) \/ Datagram(c)

Spec == Init /\ [][Next]_vars
-------------------------------------------------------------------------------
\* The two dictionaries hold the same participants, each under the client
\* that joined and under the id it was handed: no join, renewal or leave
\* leaves an entry in one of them.
IndexesAgree ==
    /\ by_sender = Listed
    /\ \A i \in Ids : i \in by_sender <=> peer[i] # None
    /\ \A c \in Clients : InVoice(c) => /\ peer[by_client[c]].client = c
                                        /\ given[by_client[c]] = c

\* An address is bound to an id only after the client the id was handed to
\* said hello from it, from the ip of its connection, although others may
\* share that ip and every datagram may be late: no voice is routed to
\* somebody else's socket.
BoundTo(i, c) == peer[i].address \in SocketsOf[c] /\ IpOf[peer[i].address] = IpOf[c]
BoundToOwner == \A i \in by_sender : peer[i].address # None => BoundTo(i, given[i])

\* "never back to the sender" (voice_relay.py:38), to the socket it came from.
NeverBack == result.from \notin result.to

\* "a number is never reused" (voice_relay.py:23): an id that was handed out
\* and is not in use is never in use again.
Retired(i) == i < next_sender_id /\ i \notin by_sender
RetiredStaysRetired == \A i \in Ids : Retired(i) => Retired(i)'
NeverReused == [][RetiredStaysRetired]_vars

\* "Everyone must speak the same codec" (voice_relay.py:141): the members of
\* a room whose codec is set have the same.
Speakers(r) == Decided(by_sender, r)
OneCodecIn(r) == \A i, j \in Speakers(r) : peer[i].codec = peer[j].codec

\* Joining keeps the rule: a room loses its one codec only by somebody moving
\* in, never by a joiner whatever it proposes.
LostByMove(r) ==
    \/ OneCodecIn(r)'
    \/ \E i \in by_sender : peer[i].room # r /\ i \in by_sender' /\ (peer[i].room)' = r
OneCodecUntilMoved == \A r \in Rooms : OneCodecIn(r) => LostByMove(r)
JoinersFollow == [][OneCodecUntilMoved]_vars
===============================================================================
