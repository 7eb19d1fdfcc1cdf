------------------------------ MODULE Conversation ------------------------------
(***************************************************************************)
(* What one user sees of a room: the history the server keeps and sends    *)
(* (core/server.py), and the log of messages and the lines about people    *)
(* coming and going of the chat page (ui.py, ChatPage).                    *)
(*                                                                         *)
(* The server's threads run side by side and without a lock: those of the  *)
(* authors take a room's list out of the history, put it back with the     *)
(* message and then broadcast it; those of the people who come and go      *)
(* change the membership and broadcast who is left; the viewer's seats it  *)
(* in the room, tells it so and sends the history.  Every broadcast reads  *)
(* what it says, then to whom, and only then sends.  The viewer changes    *)
(* rooms, loses the connection and comes back, or leaves and starts anew.  *)
(* In a room with a password nothing is written to the history, and        *)
(* whoever is in the list counts only once its key is here.                *)
(*                                                                         *)
(* A message is its number; the timestamp it gets goes by the number.      *)
(*                                                                         *)
(* The names of the specification are its own, talkVars, TalkInit and so   *)
(* on: a module may extend this one beside another component.              *)
(***************************************************************************)
EXTENDS Naturals, Sequences, FiniteSets, SequencesExt

CONSTANTS
    Authors, People, Rooms, FirstRoom,
    Absent,        \* Python's None
    Long,          \* messages that take two units of a packet, not one
    LineBudget,    \* units a history packet holds
    HistoryLimit,  \* MAX_HISTORY_MESSAGES
    HistoryRooms,  \* MAX_HISTORY_ROOMS
    LogLimit,      \* ROOM_LOG_LIMIT
    Backlog,       \* bound: packets on their way to the viewer
    MaxEvents,     \* bound: messages of the authors and moves of the people
    MaxMoves       \* bound: what the viewer does

Messages == 1 .. MaxEvents

ASSUME TalkAssumption ==
    /\ FirstRoom \in Rooms /\ Absent \notin Rooms /\ \A P \in SUBSET People : Absent # P
    /\ HistoryLimit \in Nat \ {0} /\ HistoryRooms \in Nat \ {0} /\ LogLimit \in Nat \ {0}
    /\ LineBudget \in Nat /\ MaxEvents \in Nat /\ MaxMoves \in Nat

VARIABLES
    (* the server *)
    keep_history, encrypted, \* as the server and the room were set up
    history,   \* _history: pairs of a room and its list, in the dict's order
    thread,    \* where each thread is in its handler, and what it has in hand
    place,     \* the room each of the people is in, or Absent
    run,       \* how often each has connected: whoever connects again has new keys
    seat,      \* the room the viewer is a member of, or Absent
    joining,   \* the viewer's thread: what it has still to send of a join
    (* between *)
    up, down,
    (* the viewer: client and chat page *)
    keyed,     \* the keys of people whose sender key a room's session holds
    peer_users,\* _peer_users: the keys that are known with their name
    current_room, room_logs, away_gap,
    known_users, initial_users, verified_users, snapshot_users, moved_away,
    lines,     \* the lines about people the last packet brought
    (* history variables *)
    events, moves,
    missed,    \* room -> the messages said after one the viewer has, that it lacks
    torn,      \* two threads were at the history at once
    stayed,    \* people in the viewer's room ever since it was seated there
    omitted    \* those of them missing in a list it was sent since
setUp == <<keep_history, encrypted>>
logVars == <<current_room, room_logs, away_gap>>
newsVars == <<known_users, initial_users, verified_users, snapshot_users, moved_away, lines>>
placeVars == <<place, run>>
keyVars == <<keyed, peer_users>>
viewerVars == <<keyVars, logVars, newsVars>>
talkVars == <<keep_history, encrypted, history, thread, place, run, seat, joining, up, down,
          keyed, peer_users, current_room, room_logs, away_gap, known_users, initial_users,
          verified_users, snapshot_users, moved_away, lines, events, moves,
          missed, torn, stayed, omitted>>
newsHistory == <<stayed, omitted>>
placesVars == <<placeVars, newsHistory>>

\* The room a thread deals with, its message, the list it has taken out of the
\* history, the packet it has built, whether the viewer is a target of it, and
\* the room it will enter next.
Threads == Authors \cup People
Thread(pc, r, m, packet, goal) ==
    [pc |-> pc, room |-> r, msg |-> m, held |-> <<>>, packet |-> packet, to |-> FALSE, goal |-> goal]
Idle == Thread("idle", Absent, 0, Absent, Absent)
AtList(r, goal) == Thread("list", r, 0, Absent, goal)

TalkInit ==
    /\ keep_history \in BOOLEAN /\ encrypted \in BOOLEAN
    /\ history = <<>>
    /\ thread = [t \in Threads |-> Idle]
    /\ place \in [People -> {FirstRoom, Absent}]
    /\ run = [p \in People |-> 0]
    /\ seat = Absent /\ joining = <<>>
    /\ up = <<FirstRoom>> /\ down = <<>>
    /\ keyed = {} /\ peer_users = {}
    /\ current_room = FirstRoom
    /\ room_logs = [r \in Rooms |-> <<>>]
    /\ away_gap = FALSE
    /\ known_users = Absent /\ initial_users = {} /\ verified_users = {}
    /\ snapshot_users = {} /\ moved_away = {} /\ lines = {}
    /\ events = 0 /\ moves = 0
    /\ missed = [r \in Rooms |-> {}]
    /\ torn = FALSE /\ stayed = {} /\ omitted = {}

----------------------------------------------------------------------------
(* The server: messages and the history *)

\* The last n of a list.
Newest(s, n) == IF Len(s) <= n THEN s ELSE SubSeq(s, Len(s) - n + 1, Len(s))

\* Where the room has its list in the history, if it has one.
At(r) == {i \in 1 .. Len(history) : history[i].room = r}

\* _history.get(room, []).
Kept(r) == IF At(r) = {} THEN <<>> ELSE history[CHOOSE i \in At(r) : TRUE].list

\* _history.pop(room, ...).
Without(r) == IF At(r) = {} THEN history ELSE RemoveAt(history, CHOOSE i \in At(r) : TRUE)

Cost(s) == Len(s) + Cardinality({i \in 1 .. Len(s) : s[i] \in Long})

\* _history_packet: the newest messages that fit a line.
Selected(s) ==
    LET fits == {n \in 0 .. HistoryLimit : n <= Len(s) /\ Cost(Newest(s, n)) <= LineBudget}
    IN Newest(s, CHOOSE n \in fits : \A m \in fits : m <= n)

InRoom(r) == {p \in People : place[p] = r}

Packet(type, r, body) == [type |-> type, room |-> r, body |-> body]
Snapshot(r, users, moved) == Packet("room_snapshot", r, [users |-> users, moved |-> moved])

\* Is a message of this kind written down?
Written == keep_history /\ ~encrypted

\* A bug to be told apart from the code: a message is broadcast, then written.
AfterCastFirst(pc) ==
    CASE pc = "idle"   -> "aim"
      [] pc = "aim"    -> "cast"
      [] pc = "cast"   -> IF Written THEN "take" ELSE "list"
      [] pc = "take"   -> "put"
      [] pc = "put"    -> "list"

\* The steps of the message handler, one after the other: the list is taken out
\* of the history, put back with the message, the message is broadcast, and
\* then the list of members.
After(pc) ==
    CASE pc = "idle" -> IF Written THEN "take" ELSE "aim"
      [] pc = "take" -> "put"
      [] pc = "put"  -> "aim"
      [] pc = "aim"  -> "cast"
      [] pc = "cast" -> "list"

\* A message is taken up; its timestamp is drawn, its packet built.
Write(a, r) ==
    /\ thread[a].pc = "idle"
    /\ events < MaxEvents
    /\ events' = events + 1
    /\ LET m == events + 1
       IN thread' = [thread EXCEPT ![a] =
                       Thread(After("idle"), r, m, Packet("message", r, m), Absent)]
    /\ UNCHANGED <<setUp, history, placesVars, seat, joining, up, down, viewerVars,
                   moves, missed, torn>>

TakeOut(a) ==
    LET r == thread[a].room IN
    /\ thread[a].pc = "take"
    /\ history' = Without(r)
    /\ thread' = [thread EXCEPT ![a].pc = After("take"), ![a].held = Kept(r)]
    /\ torn' = (torn \/ \E b \in Threads : thread[b].pc = "put" /\ thread[b].room = r)
    /\ UNCHANGED <<setUp, placesVars, seat, joining, up, down, viewerVars, events, moves,
                   missed>>

\* With too many rooms, the one written to least recently goes.
PutBack(a) ==
    LET r == thread[a].room
        list == Newest(Append(thread[a].held, thread[a].msg), HistoryLimit)
    IN
    /\ thread[a].pc = "put"
    /\ history' = Newest(Append(Without(r), [room |-> r, list |-> list]), HistoryRooms)
    /\ thread' = [thread EXCEPT ![a].pc = After("put"), ![a].held = <<>>]
    /\ UNCHANGED <<setUp, placesVars, seat, joining, up, down, viewerVars, events, moves,
                   missed, torn>>

\* hub.broadcast_packet, as far as the viewer is concerned: whether it is among
\* the targets is read once, and whoever is gets the packet, wherever it has
\* moved meanwhile.
Deliver(t) ==
    /\ Len(down) < Backlog
    /\ down' = IF thread[t].to THEN Append(down, thread[t].packet) ELSE down

Aim(a) ==
    LET r == thread[a].room IN
    /\ thread[a].pc = "aim"
    /\ thread' = IF seat = r THEN [thread EXCEPT ![a].pc = After("aim"), ![a].to = TRUE]
                 ELSE [thread EXCEPT ![a].pc = After("cast")]
    /\ missed' = IF room_logs[r] = <<>> THEN missed
                 ELSE [missed EXCEPT ![r] = @ \cup {thread[a].msg}]
    /\ UNCHANGED <<setUp, history, placesVars, seat, joining, up, down, viewerVars, events,
                   moves, torn>>

Cast(a) ==
    /\ thread[a].pc = "cast"
    /\ Deliver(a)
    /\ thread' = [thread EXCEPT ![a].pc = After("cast"), ![a].to = FALSE]
    /\ UNCHANGED <<setUp, history, placesVars, seat, joining, up, viewerVars, events, moves,
                   missed, torn>>

----------------------------------------------------------------------------
(* The server: who is where *)

\* _send_room_snapshot: the members are read, then the targets, then it is sent.
\* Whoever leaves for another room is named as moved.
ReadList(t) ==
    LET r == thread[t].room
        moved == IF thread[t].goal = Absent THEN {} ELSE {t}
    IN
    /\ thread[t].pc = "list"
    /\ thread' = [thread EXCEPT ![t].pc = "target", ![t].packet = Snapshot(r, InRoom(r), moved)]
    /\ UNCHANGED <<setUp, history, placesVars, seat, joining, up, down, viewerVars, events,
                   moves, missed, torn>>

\* The handler is done, or enters the room that was asked for.
Done(t) ==
    IF thread[t].goal = Absent THEN Idle
    ELSE Thread("enter", Absent, 0, Absent, thread[t].goal)

ReadTargets(t) ==
    /\ thread[t].pc = "target"
    /\ thread' = IF seat = thread[t].room
                 THEN [thread EXCEPT ![t].pc = "tell", ![t].to = TRUE]
                 ELSE [thread EXCEPT ![t] = Done(t)]
    /\ UNCHANGED <<setUp, history, placesVars, seat, joining, up, down, viewerVars, events,
                   moves, missed, torn>>

\* Of those who stayed, whom a list of the viewer's room leaves out.
Omitted(packet) == IF packet.room = seat THEN stayed \ packet.body.users ELSE {}

Tell(t) ==
    /\ thread[t].pc = "tell"
    /\ Deliver(t)
    /\ omitted' = IF thread[t].to THEN omitted \cup Omitted(thread[t].packet) ELSE omitted
    /\ thread' = [thread EXCEPT ![t] = Done(t)]
    /\ UNCHANGED <<setUp, history, placeVars, seat, joining, up, viewerVars, events, moves,
                   missed, torn, stayed>>

\* One of the people connects.
Connect(p, r) ==
    /\ thread[p].pc = "idle" /\ place[p] = Absent
    /\ events < MaxEvents
    /\ events' = events + 1
    /\ place' = [place EXCEPT ![p] = r]
    /\ run' = [run EXCEPT ![p] = @ + 1]
    /\ thread' = [thread EXCEPT ![p] = AtList(r, Absent)]
    /\ UNCHANGED <<setUp, history, seat, joining, up, down, viewerVars, moves, missed, torn,
                   newsHistory>>

\* One of the people leaves the room, for another one or for good.
Leave(p, goal) ==
    /\ thread[p].pc = "idle" /\ place[p] # Absent /\ goal # place[p]
    /\ events < MaxEvents
    /\ events' = events + 1
    /\ place' = [place EXCEPT ![p] = Absent]
    /\ stayed' = stayed \ {p}
    /\ thread' = [thread EXCEPT ![p] = AtList(place[p], goal)]
    /\ UNCHANGED <<setUp, history, run, seat, joining, up, down, viewerVars, moves, missed, torn,
                   omitted>>

\* And enters the other one, when the old room has been told.
Enter(p) ==
    /\ thread[p].pc = "enter"
    /\ place' = [place EXCEPT ![p] = thread[p].goal]
    /\ thread' = [thread EXCEPT ![p] = AtList(thread[p].goal, Absent)]
    /\ UNCHANGED <<setUp, history, run, seat, joining, up, down, viewerVars, events, moves,
                   missed, torn, newsHistory>>

\* The viewer's thread takes up a join: it is a member from now on.
TakeSeat ==
    /\ up # <<>> /\ joining = <<>>
    /\ LET r == Head(up) IN
       /\ seat' = r
       /\ stayed' = InRoom(r) /\ omitted' = {}
       /\ joining' = <<Packet("joined", r, Absent), Packet("history", r, Absent),
                       Packet("room_snapshot", r, Absent)>>
    /\ up' = Tail(up)
    /\ UNCHANGED <<setUp, history, thread, placeVars, down, viewerVars, events, moves, missed, torn>>

\* What belongs to a join is read, each with what is true by then ...
ReadJoined ==
    /\ joining # <<>> /\ Head(joining).body = Absent
    /\ LET p == Head(joining)
           Read(body) == joining' = [joining EXCEPT ![1].body = body]
       IN
       \/ p.type = "joined" /\ Read(InRoom(p.room)) /\ UNCHANGED torn
       \/ /\ p.type = "history"
          /\ IF keep_history THEN Read(Selected(Kept(p.room))) ELSE joining' = Tail(joining)
          /\ torn' = (torn \/ \E a \in Threads : thread[a].pc = "put" /\ thread[a].room = p.room)
       \/ /\ p.type = "room_snapshot"
          /\ Read([users |-> InRoom(p.room), moved |-> {}])
          /\ UNCHANGED torn
    /\ UNCHANGED <<setUp, history, thread, placesVars, seat, up, down, viewerVars, events, moves,
                   missed>>

\* ... and sent.
SendJoined ==
    /\ joining # <<>> /\ Head(joining).body # Absent
    /\ Len(down) < Backlog
    /\ joining' = Tail(joining) /\ down' = Append(down, Head(joining))
    /\ omitted' = IF Head(joining).type = "room_snapshot"
                  THEN omitted \cup Omitted(Head(joining)) ELSE omitted
    /\ UNCHANGED <<setUp, history, thread, placeVars, seat, up, viewerVars, events, moves,
                   missed, torn, stayed>>

\* A public key belongs to a connection and a room.
KeyOf(p) == [who |-> p, run |-> run[p], room |-> place[p]]

\* The key of somebody in the room, sent in answer to the viewer's offer.  (An
\* answer that changes nothing is left out.)
SendKey(p) ==
    /\ encrypted
    /\ seat # Absent /\ joining = <<>> /\ place[p] = seat
    /\ KeyOf(p) \notin keyed \cap peer_users \/ p \notin verified_users
    /\ LET packet == Packet("key", seat, KeyOf(p))
       IN packet \notin ToSet(down) /\ Len(down) < Backlog /\ down' = Append(down, packet)
    /\ UNCHANGED <<setUp, history, thread, placesVars, seat, joining, up, viewerVars, events,
                   moves, missed, torn>>

----------------------------------------------------------------------------
(* The viewer *)

\* switch_room.  The session of each room is kept, with the keys in it.
SwitchRoom(r) ==
    /\ r # current_room
    /\ moves < MaxMoves
    /\ moves' = moves + 1
    /\ current_room' = r
    /\ known_users' = Absent /\ initial_users' = {} /\ verified_users' = {} /\ lines' = {}
    /\ up' = Append(up, r)
    /\ UNCHANGED <<setUp, history, thread, placesVars, seat, joining, down, keyVars, room_logs,
                   away_gap, snapshot_users, moved_away, events, missed, torn>>

\* The connection is lost, with what is on its way to it, and a new one made: by
\* the reconnection or, with everything forgotten (forget_messages), by the user.
Reconnect(forget) ==
    /\ seat # Absent
    /\ moves < MaxMoves
    /\ moves' = moves + 1
    /\ seat' = Absent /\ joining' = <<>> /\ stayed' = {} /\ omitted' = {}
    /\ thread' = [t \in Threads |-> [thread[t] EXCEPT !.to = FALSE]]
    /\ up' = <<current_room>> /\ down' = <<>>
    /\ keyed' = {} /\ peer_users' = {}
    /\ room_logs' = IF forget THEN [r \in Rooms |-> <<>>] ELSE room_logs
    /\ away_gap' = (away_gap /\ ~forget)
    /\ missed' = [r \in Rooms |-> IF forget THEN {} ELSE missed[r]]
    /\ UNCHANGED <<setUp, history, placeVars, current_room, newsVars, events, torn>>

\* Whose key is held in the session of the room and whose name is known by it.
VerifiedUsers(keys, named) == {k.who : k \in {j \in keys \cap named : j.room = current_room}}

\* forget_peer goes to the session of the room the client is in by now.
DropPeers(these) ==
    /\ keyed' = keyed \ {k \in these : k.room = current_room}
    /\ peer_users' = peer_users \ these

\* A bug to be told apart from the code: whoever was here before counts as new.
ArrivedAll(shown, initial) == shown \ known_users

\* Who of those shown has come since: not those who were here before us and
\* whose key took its time.
Arrived(shown, initial) == (shown \ known_users) \ initial

\* _is_verified: without a password there is nothing to prove.
Verified(users, verified) == IF encrypted THEN users \cap verified ELSE users

\* The line about somebody who is new, and about somebody who is gone.
Came(u) == <<u, IF u \in moved_away THEN "returned" ELSE "joined">>
Went(u, moved) == <<u, IF u \in moved THEN "moved" ELSE "left">>

\* _announce_membership_change.
Announce(users, moved, verified) ==
    LET shown == Verified(users, verified)
        new == Arrived(shown, initial_users)
        gone == known_users \ users
    IN IF known_users = Absent
       THEN /\ known_users' = shown
            /\ initial_users' = users
            /\ lines' = {}
            /\ UNCHANGED moved_away
       ELSE /\ lines' = {Came(u) : u \in new} \cup {Went(u, moved) : u \in gone}
            /\ known_users' = (known_users \cap users) \cup shown
            /\ initial_users' = initial_users \ gone
            /\ moved_away' = ((moved_away \ new) \ gone) \cup (gone \cap moved)

\* A bug to be told apart from the code: the note is kept for the empty log.
GapOfEmpty(log) == log = <<>>

\* Messages seen here before come back, those in between do not.
Gap(log) == log # <<>>

\* "joined": a new start, and its list the first (_apply_snapshot).
OnJoined(p) ==
    /\ current_room' = p.room
    /\ IF p.room = current_room THEN UNCHANGED keyVars ELSE DropPeers(peer_users)
    /\ away_gap' = Gap(room_logs[p.room])
    /\ known_users' = IF encrypted THEN {} ELSE p.body
    /\ initial_users' = p.body /\ snapshot_users' = p.body
    /\ verified_users' = {} /\ moved_away' = {} /\ lines' = {}
    /\ UNCHANGED <<room_logs, missed>>

\* list.sort: each in its place, equals as they stood.
Place(s, i) ==
    Cardinality({j \in 1 .. Len(s) : s[j] < s[i] \/ (s[j] = s[i] /\ j <= i)})
Sorted(s) ==
    [n \in 1 .. Len(s) |-> s[CHOOSE i \in 1 .. Len(s) : Place(s, i) = n]]

\* What was not in the log is put in where its time is.
Merged(log, list) == Sorted(log \o SetToSeq(ToSet(list) \ ToSet(log)))

OnHistory(p) ==
    /\ IF p.room = current_room
       THEN /\ room_logs' = [room_logs EXCEPT ![p.room] = Newest(Merged(@, p.body), LogLimit)]
            /\ missed' = [missed EXCEPT ![p.room] = @ \ ToSet(p.body)]
            /\ away_gap' = FALSE
       ELSE UNCHANGED <<room_logs, missed, away_gap>>
    /\ lines' = {}
    /\ UNCHANGED <<keyVars, current_room, known_users, initial_users, verified_users,
                   snapshot_users, moved_away>>

OnMessage(p) ==
    /\ IF p.room = current_room
       THEN /\ room_logs' = [room_logs EXCEPT ![p.room] = Newest(Append(@, p.body), LogLimit)]
            /\ missed' = [missed EXCEPT ![p.room] = @ \ {p.body}]
       ELSE UNCHANGED <<room_logs, missed>>
    /\ lines' = {}
    /\ UNCHANGED <<keyVars, current_room, away_gap, known_users, initial_users,
                   verified_users, snapshot_users, moved_away>>

\* The client drops the keys of those who are gone and, if there were any, says
\* who is left; then the page applies the list.
OnSnapshot(p) ==
    LET users == p.body.users
        absent == {k \in peer_users : k.who \notin users}
        verified == IF absent = {} THEN verified_users ELSE VerifiedUsers(keyed', peer_users')
    IN
    /\ DropPeers(absent)
    /\ verified_users' = verified
    /\ IF p.room = current_room
       THEN snapshot_users' = users /\ Announce(users, p.body.moved, verified)
       ELSE /\ lines' = {}
            /\ UNCHANGED <<snapshot_users, known_users, initial_users, moved_away>>
    /\ UNCHANGED <<logVars, missed>>

\* A key opens in the session of its room only; peers_verified tells the page.
OnKey(p) ==
    /\ IF p.room = current_room
       THEN /\ keyed' = keyed \cup {p.body} /\ peer_users' = peer_users \cup {p.body}
            /\ verified_users' = VerifiedUsers(keyed', peer_users')
            /\ Announce(snapshot_users, {}, verified_users')
       ELSE /\ lines' = {}
            /\ UNCHANGED <<keyVars, known_users, initial_users, verified_users, moved_away>>
    /\ UNCHANGED <<logVars, snapshot_users, missed>>

ViewerReceives ==
    /\ down # <<>>
    /\ down' = Tail(down)
    /\ LET p == Head(down) IN
       \/ p.type = "joined" /\ OnJoined(p)
       \/ p.type = "history" /\ OnHistory(p)
       \/ p.type = "message" /\ OnMessage(p)
       \/ p.type = "room_snapshot" /\ OnSnapshot(p)
       \/ p.type = "key" /\ OnKey(p)
    /\ UNCHANGED <<setUp, history, thread, placesVars, seat, joining, up, events, moves, torn>>

TalkNext ==
    \/ \E a \in Authors, r \in Rooms : Write(a, r)
    \/ \E a \in Authors : TakeOut(a) \/ PutBack(a) \/ Aim(a) \/ Cast(a)
    \/ \E t \in Threads : ReadList(t) \/ ReadTargets(t) \/ Tell(t)
    \/ \E p \in People, r \in Rooms : Connect(p, r)
    \/ \E p \in People, goal \in Rooms \cup {Absent} : Leave(p, goal)
    \/ \E p \in People : Enter(p) \/ SendKey(p)
    \/ TakeSeat \/ ReadJoined \/ SendJoined \/ ViewerReceives
    \/ \E r \in Rooms : SwitchRoom(r)
    \/ \E forget \in BOOLEAN : Reconnect(forget)

TalkSpec == TalkInit /\ [][TalkNext]_talkVars

----------------------------------------------------------------------------
(* Properties *)

Settled ==
    /\ seat # Absent /\ joining = <<>> /\ up = <<>> /\ down = <<>>
    /\ \A t \in Threads : thread[t].pc = "idle"

\* With a history nothing of it is missing on the screen: a message is in the
\* history by the time the viewer asks for it or is broadcast to it, whichever
\* way the threads run (server.py, "the write must happen BEFORE the
\* broadcast").  Not so when two threads were at the list at once: it is taken
\* out and put back without a lock.
HistoryReaches ==
    Settled /\ keep_history /\ ~torn =>
      ToSet(Selected(Kept(seat))) \subseteq ToSet(room_logs[seat])

\* Without a history, a log that lacks what was sent to the room when there was
\* something in it says that there is a gap, however the viewer went and came
\* (ui.py, _away_gap).
GapTold ==
    Settled /\ ~keep_history /\ missed[seat] # {} => away_gap

\* What is written before the "joined" packet does not count: with it the screen
\* is cleared.
JoinedToCome ==
    up # <<>> \/ \E i \in 1 .. Len(joining \o down) : (joining \o down)[i].type = "joined"

\* "The server sends a snapshot of the room at every change of the membership,
\* the difference is taken from it" (ui.py:2055-2056): no line says that somebody
\* came or went who has been here all the time since the viewer came.
NewsIsTrue ==
    [][ViewerReceives /\ ~JoinedToCome => \A l \in lines' : l[1] \notin stayed]_talkVars

\* The page itself makes up no news, however late lists and keys come, before or
\* after one another, and in whatever room the viewer was meanwhile (ui.py,
\* _announce_membership_change): such a line is about somebody whom a list sent
\* to the viewer since it came left out, being older than that person's coming.
OnlyListsLie ==
    [][ViewerReceives /\ ~JoinedToCome => \A l \in lines' : l[1] \notin stayed \ omitted]_talkVars
===============================================================================
