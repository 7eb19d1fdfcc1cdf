------------------------------- MODULE VoiceCall -------------------------------
(***************************************************************************)
(* The life of a call: apps/proxychat/voice.py (VoiceController),          *)
(* core/voice_net.py (VoiceLink) and the voice handlers of core/server.py. *)
(*                                                                         *)
(* A client joins in two steps over its TCP connection: it asks, the Host  *)
(* answers with an id and a token, the client opens its session, tells the *)
(* salt and greets the Host over UDP until the Host knows the address.     *)
(* Around it everything may happen that the code meets: the answer may be  *)
(* late or (from an old Host) never come, the user may leave and join      *)
(* again meanwhile, the sound card may fail, the connection may be lost    *)
(* and renewed by the reconnection of ui.py, which leaves the call alone,  *)
(* the client may change rooms, and the Host may restart.                  *)
(*                                                                         *)
(* The Host knows connections, not clients: to it, whoever connects again  *)
(* is somebody new.  A public key of a room session belongs to a           *)
(* connection and a room (client.py: sessions are cached per room and die  *)
(* with the connection).                                                   *)
(***************************************************************************)
EXTENDS Naturals, Sequences

CONSTANTS
    Clients, Rooms, None,
    FirstRoom,
    MaxConns,   \* bound: connections in all
    MaxTokens,  \* bound: times the Host hands out a token
    MaxQueue,   \* bound: packets of one connection and direction on their way
    MaxRestarts \* bound: restarts of the Host

Conns == 1 .. MaxConns
Publics == Conns \X Rooms
Call == [id : 1 .. MaxTokens, token : 1 .. MaxTokens, pub : Publics]
Participant == [id : 1 .. MaxTokens, token : 1 .. MaxTokens, room : Rooms,
                pub : Publics, salted : BOOLEAN, bound : BOOLEAN]

ASSUME RoomAssumption == FirstRoom \in Rooms
ASSUME BoundAssumption == MaxConns \in Nat /\ MaxTokens \in Nat
ASSUME NoneAssumption == None \notin Rooms \cup Call \cup Participant

VARIABLES
    (* the clients *)
    room,     \* client.room
    conn,     \* its latest connection
    state,    \* VoiceController.state: "off", "joining", "on"
    timer,    \* is _join_timeout running?
    call,     \* its VoiceSession and VoiceLink: the id, the token and own key, or None
    (* the Host *)
    seat,     \* connection -> the room its thread works for, None when it has ended
    part,     \* VoiceRelay._by_client: connection -> participant, or None
    next_id,  \* VoiceRelay._next_sender_id
    tokens,   \* how many tokens were drawn
    restarts,
    old,      \* a Host of 1.7.0 or before, which ignores voice_join
    (* between them *)
    open,     \* the connections that are up
    up, down, \* connection -> packets to the Host, to the client
    (* history *)
    stale,    \* clients whose call does not rest on the answer to their last voice_join
    silent    \* clients that gave their call up without telling the Host
clientVars == <<room, conn, state, timer, call, stale, silent>>
hostVars == <<seat, part, next_id, tokens, restarts, old>>
vars == <<room, conn, state, timer, call, seat, part, next_id, tokens, restarts,
          old, open, up, down, stale, silent>>

TypeOK ==
    /\ room \in [Clients -> Rooms]
    /\ conn \in [Clients -> Conns]
    /\ state \in [Clients -> {"off", "joining", "on"}]
    /\ timer \in [Clients -> BOOLEAN]
    /\ call \in [Clients -> Call \cup {None}]
    /\ seat \in [Conns -> Rooms \cup {None}]
    /\ part \in [Conns -> Participant \cup {None}]
    /\ open \subseteq Conns
    /\ stale \subseteq Clients /\ silent \subseteq Clients
    /\ \A c \in Clients : /\ timer[c] => state[c] = "joining"
                          /\ state[c] = "off" => call[c] = None
                          /\ state[c] = "on" => call[c] # None

\* All are connected and seated in the first room; who is who does not matter.
Init ==
    /\ room = [c \in Clients |-> FirstRoom]
    /\ \E f \in [Clients -> Conns] :
         /\ \A c, d \in Clients : c # d => f[c] # f[d]
         /\ conn = f
         /\ open = {f[c] : c \in Clients}
         /\ seat = [k \in Conns |-> IF k \in open THEN FirstRoom ELSE None]
    /\ state = [c \in Clients |-> "off"]
    /\ timer = [c \in Clients |-> FALSE]
    /\ call = [c \in Clients |-> None]
    /\ part = [k \in Conns |-> None]
    /\ next_id = 1 /\ tokens = 0 /\ restarts = 0
    /\ old \in BOOLEAN
    /\ up = [k \in Conns |-> <<>>] /\ down = [k \in Conns |-> <<>>]
    /\ stale = {} /\ silent = {}

----------------------------------------------------------------------------
(* The client: requests *)

\* The answers to voice_join this connection still owes the client.
AnswersDue(k) ==
    \/ \E i \in 1 .. Len(up[k]) : up[k][i].type = "voice_join"
    \/ \E i \in 1 .. Len(down[k]) : down[k][i].type = "voice_joined"

\* What is sent on a connection that is lost goes nowhere.
Sent(k, packets) ==
    up' = IF k \in open THEN [up EXCEPT ![k] = @ \o packets] ELSE up

VoiceJoin(c) == [type |-> "voice_join", pub |-> <<conn[c], room[c]>>]
VoiceLeave == [type |-> "voice_leave"]
VoiceSalt == [type |-> "voice_salt"]

\* A bug to be told apart from the code: nothing ends the waiting.
AskWithoutTimer(c) ==
    /\ state' = [state EXCEPT ![c] = "joining"]
    /\ UNCHANGED timer

Ask(c) ==
    /\ state' = [state EXCEPT ![c] = "joining"]
    /\ timer' = [timer EXCEPT ![c] = TRUE]

Join(c) ==
    /\ state[c] = "off"
    /\ Len(up[conn[c]]) < MaxQueue
    /\ Ask(c)
    /\ Sent(conn[c], <<VoiceJoin(c)>>)
    /\ stale' = IF AnswersDue(conn[c]) THEN stale \cup {c} ELSE stale \ {c}
    /\ silent' = silent \ {c}
    /\ UNCHANGED <<room, conn, call, hostVars, open, down>>

\* The socket is closed and its thread waited for: no hello after this.
StopLink(c) == call' = [call EXCEPT ![c] = None]

\* Stops the timers, the sound card, the link and the session.
Teardown(c) ==
    /\ state' = [state EXCEPT ![c] = "off"]
    /\ timer' = [timer EXCEPT ![c] = FALSE]
    /\ StopLink(c)

Leave(c) ==
    /\ state[c] # "off"
    /\ Len(up[conn[c]]) < MaxQueue
    /\ Sent(conn[c], <<VoiceLeave>>)
    /\ Teardown(c)
    /\ UNCHANGED <<room, conn, hostVars, open, down, stale, silent>>

JoinTimeout(c) ==
    /\ timer[c] /\ state[c] = "joining"
    /\ Teardown(c)
    /\ silent' = silent \cup {c}
    /\ UNCHANGED <<room, conn, hostVars, open, up, down, stale>>

\* One button for both (ui.py, _toggle_voice).
Toggle(c) == Join(c) \/ Leave(c)

\* client.join_room: the call goes on.
ChangeRoom(c, r) ==
    /\ conn[c] \in open
    /\ r # room[c]
    /\ Len(up[conn[c]]) < MaxQueue
    /\ room' = [room EXCEPT ![c] = r]
    /\ Sent(conn[c], <<[type |-> "join", room |-> r]>>)
    /\ UNCHANGED <<conn, state, timer, call, hostVars, open, down, stale, silent>>

----------------------------------------------------------------------------
(* The client: the answer *)

\* A bug to be told apart from the code: refusing without a word.
RefuseCodecSilently(c) ==
    /\ UNCHANGED up
    /\ Teardown(c)
    /\ UNCHANGED silent

\* The codec of the room is one we lack.
RefuseCodec(c) ==
    /\ Sent(conn[c], <<VoiceLeave>>)
    /\ Teardown(c)
    /\ UNCHANGED silent

OpenCall(c, p) ==
    /\ state' = [state EXCEPT ![c] = "on"]
    /\ timer' = [timer EXCEPT ![c] = FALSE]
    /\ call' = [call EXCEPT ![c] = [id |-> p.id, token |-> p.token,
                                    pub |-> <<conn[c], room[c]>>]]
    /\ Sent(conn[c], <<VoiceSalt>>)
    /\ UNCHANGED silent

\* The sound card does not open: the salt is out, the call is given up.
NoDevice(c) ==
    /\ Sent(conn[c], <<VoiceSalt>>)
    /\ Teardown(c)
    /\ silent' = silent \cup {c}

\* The connection is lost and telling the salt raises: the timer is stopped
\* already, and what there is of the session stays.
SaltFails(c, p) ==
    /\ conn[c] \notin open
    /\ timer' = [timer EXCEPT ![c] = FALSE]
    /\ call' = [call EXCEPT ![c] = [id |-> p.id, token |-> p.token,
                                    pub |-> <<conn[c], room[c]>>]]
    /\ UNCHANGED <<state, up, silent>>

OnJoined(c, p) ==
    IF ~p.speakable THEN RefuseCodec(c)
    ELSE OpenCall(c, p) \/ NoDevice(c) \/ SaltFails(c, p)

\* A bug to be told apart from the code: an answer nobody waits for counts.
AwaitedOrLate(c) == state[c] # "on"

Awaited(c) == state[c] = "joining"

Receive(c) ==
    LET k == conn[c] IN
    /\ down[k] # <<>>
    /\ Len(up[k]) < MaxQueue
    /\ down' = [down EXCEPT ![k] = Tail(@)]
    /\ IF Awaited(c) THEN OnJoined(c, Head(down[k]))
                     ELSE UNCHANGED <<state, timer, call, up, silent>>
    /\ UNCHANGED <<room, conn, hostVars, open, stale>>

----------------------------------------------------------------------------
(* The Host *)

Renewed(f, k, v) == [f EXCEPT ![k] = v]

HandleVoiceJoin(k, p) ==
    IF old THEN UNCHANGED <<part, next_id, tokens, down>>
    ELSE /\ tokens < MaxTokens
         /\ tokens' = tokens + 1 /\ next_id' = next_id + 1
         /\ part' = Renewed(part, k, [id |-> next_id, token |-> tokens + 1, room |-> seat[k],
                                      pub |-> p.pub, salted |-> FALSE, bound |-> FALSE])
         /\ \E speakable \in BOOLEAN :
              down' = [down EXCEPT ![k] = Append(@,
                         [type |-> "voice_joined", id |-> next_id, token |-> tokens + 1,
                          speakable |-> speakable])]

HandleVoiceSalt(k) ==
    /\ part' = IF part[k] = None THEN part ELSE [part EXCEPT ![k].salted = TRUE]
    /\ UNCHANGED <<next_id, tokens, down>>

HandleVoiceLeave(k) ==
    /\ part' = Renewed(part, k, None)
    /\ UNCHANGED <<next_id, tokens, down>>

\* VoiceRelay.move: the id, the token and the public key stay.
HandleRoom(k, r) ==
    /\ part' = IF part[k] = None THEN part ELSE [part EXCEPT ![k].room = r]
    /\ UNCHANGED <<next_id, tokens, down>>

\* One packet of a client's thread.
HostHandles(k) ==
    /\ seat[k] # None /\ up[k] # <<>>
    /\ LET p == Head(up[k]) IN
       /\ \/ p.type = "voice_join" /\ HandleVoiceJoin(k, p)
          \/ p.type = "voice_salt" /\ HandleVoiceSalt(k)
          \/ p.type = "voice_leave" /\ HandleVoiceLeave(k)
          \/ p.type = "join" /\ HandleRoom(k, p.room)
       /\ seat' = IF p.type = "join" THEN [seat EXCEPT ![k] = p.room] ELSE seat
    /\ up' = [up EXCEPT ![k] = Tail(@)]
    /\ UNCHANGED <<clientVars, restarts, old, open>>

\* The finally block of a thread whose connection is gone.
HostEnds(k) ==
    /\ seat[k] # None /\ k \notin open
    /\ seat' = [seat EXCEPT ![k] = None]
    /\ part' = Renewed(part, k, None)
    /\ up' = [up EXCEPT ![k] = <<>>]
    /\ UNCHANGED <<clientVars, next_id, tokens, restarts, old, open, down>>

\* Connections and the voice table go; a new Host counts ids from the start.
HostRestarts ==
    /\ restarts < MaxRestarts
    /\ restarts' = restarts + 1
    /\ open' = {}
    /\ seat' = [k \in Conns |-> None]
    /\ part' = [k \in Conns |-> None]
    /\ next_id' = 1
    /\ up' = [k \in Conns |-> <<>>]
    /\ stale' = stale \cup {c \in Clients : state[c] # "off"}
    /\ UNCHANGED <<room, conn, state, timer, call, tokens, old, down, silent>>

\* A hello of the call reaches the relay; the link sends it again and again.
\* It counts if somebody has that id and this is the token of it.
Greets(c, k) ==
    /\ call[c] # None /\ part[k] # None
    /\ part[k].id = call[c].id /\ part[k].token = call[c].token

Hello(c) ==
    /\ state[c] = "on"
    /\ \E k \in Conns : /\ Greets(c, k) /\ ~part[k].bound
                        /\ part' = [part EXCEPT ![k].bound = TRUE]
    /\ UNCHANGED <<clientVars, seat, next_id, tokens, restarts, old, open, up, down>>

----------------------------------------------------------------------------
(* The connection *)

\* Lost for a reason of its own; of what was on its way to the client, some
\* has been received.
Lose(c) ==
    LET k == conn[c] IN
    /\ k \in open
    /\ open' = open \ {k}
    /\ \E n \in 0 .. Len(down[k]) : down' = [down EXCEPT ![k] = SubSeq(@, 1, n)]
    /\ stale' = IF state[c] # "off" THEN stale \cup {c} ELSE stale
    /\ UNCHANGED <<room, conn, state, timer, call, silent, hostVars, up>>

\* ui.py, _try_reconnect: a new client in the same room.  What the old
\* connection brought was handled before the news of its end.
Reconnect(c) ==
    /\ conn[c] \notin open /\ down[conn[c]] = <<>>
    /\ \E k \in Conns :
         /\ \A d \in Clients : k > conn[d]
         /\ \E d \in Clients : k = conn[d] + 1
         /\ conn' = [conn EXCEPT ![c] = k]
         /\ open' = open \cup {k}
         /\ seat' = [seat EXCEPT ![k] = room[c]]
    /\ UNCHANGED <<room, state, timer, call, part, next_id, tokens, restarts, old,
                   up, down, stale, silent>>

Next ==
    \/ \E c \in Clients :
         Toggle(c) \/ JoinTimeout(c) \/ Receive(c) \/ Hello(c) \/ Lose(c) \/ Reconnect(c)
    \/ \E c \in Clients, r \in Rooms : ChangeRoom(c, r)
    \/ \E k \in Conns : HostHandles(k) \/ HostEnds(k)
    \/ HostRestarts

\* The timer of a join runs down, and the link says hello again and again, so
\* that one arrives.  Nothing is assumed of the Host or of the connection.
Fairness == \A c \in Clients : WF_vars(JoinTimeout(c)) /\ WF_vars(Hello(c))

Spec == Init /\ [][Next]_vars /\ Fairness

----------------------------------------------------------------------------
(* Properties *)

\* The client is connected and nothing is on its way.
Settled(c) ==
    LET k == conn[c] IN
    k \in open /\ seat[k] # None /\ up[k] = <<>> /\ down[k] = <<>>

\* A client that thinks it is in the call is in it, under the id and with the
\* token it got and with its salt announced, whatever was asked and answered
\* before (voice.py, join to _on_joined; server.py, voice_join to voice_leave).
\* Not so when two answers were due at once: the client takes the first one
\* and the Host keeps the second.
CallIsOurs ==
    \A c \in Clients :
      Settled(c) /\ state[c] = "on" /\ c \notin stale =>
        LET p == part[conn[c]] IN
        p # None /\ p.id = call[c].id /\ p.token = call[c].token /\ p.salted

\* Whoever left the call, or could not enter it for want of the codec, is not
\* left in it at the Host; only those who gave up without a word are
\* (_on_join_timeout and the failing sound card tell the Host nothing).
NoGhostInCall ==
    \A c \in Clients :
      Settled(c) /\ part[conn[c]] # None /\ c \notin silent => state[c] = "on"

\* Nobody waits for ever to get in: a Host that knows no calls never answers, a
\* lost connection brings no answer, and the timer ends the waiting
\* (voice.py:66-69).  The one way to stay is that the connection is lost between
\* the answer and the telling of the salt.
JoiningEnds ==
    \A c \in Clients : state[c] = "joining" ~> (state[c] # "joining" \/ call[c] # None)

\* "The hello is refreshed at intervals, so the connection recovers by itself if
\* NAT changes the port or the Host restarts" (voice_net.py:26-28): a client in a
\* call from before a restart, whose new connection stays, gets its address to
\* the new Host in the end.
CallRecovers ==
    \A c \in Clients :
      LET k == conn[c]
          Connected == restarts > 0 /\ Settled(c) /\ state[c] = "on"
      IN Connected /\ call[c].pub[1] # k
           ~> ~Connected \/ (part[k] # None /\ part[k].bound)

\* "Voice moves with the person as well: the old room no longer hears them, the
\* new room does" (server.py:589-590).  To be heard the announced key must be
\* that of the session in the room the person is in.
NewRoomHears ==
    \A c \in Clients :
      Settled(c) /\ state[c] = "on" /\ c \notin stale /\ part[conn[c]] # None =>
        part[conn[c]].pub = <<conn[c], part[conn[c]].room>>
===============================================================================
