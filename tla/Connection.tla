------------------------------ MODULE Connection ------------------------------
(***************************************************************************)
(* Connecting, losing the connection and connecting again: ui.py           *)
(* (ConnectionController and the window's side of it) with the connection  *)
(* part of core/client.py.                                                 *)
(*                                                                         *)
(* Three kinds of threads: the window's; a worker per attempt to connect,  *)
(* which opens the server in Host and Demo mode; and a listener per        *)
(* connection, which says when it ended.  Workers and listeners talk to    *)
(* the window through queued signals.  In Demo mode one more thread sends  *)
(* made-up users into the room.                                            *)
(*                                                                         *)
(* The names of the specification are its own, linkVars, LinkInit and so   *)
(* on: a module may extend this one beside another component.              *)
(***************************************************************************)
EXTENDS Naturals, Sequences, FiniteSets

CONSTANTS
    Ids,       \* ChatClient objects; one that nobody uses is used again
    Attempts,  \* RECONNECT_ATTEMPTS
    BusyWaits, \* MAX_RECONNECT_BUSY_WAITS
    Tries,     \* how often a Host's worker tries its own server
    Nobody     \* Python's None for a client or a thread

Modes == {"Join", "Host", "Demo"}

\* A worker's thread: where it is, what it was started for, and the client it
\* is connecting.
Worker == [pc : {"server", "client", "connect", "flying", "made", "launch"},
           mode : Modes, tries : 0 .. Tries, id : Ids \cup {Nobody}]

ASSUME ConnectionAssumption ==
    /\ Attempts \in Nat \ {0} /\ BusyWaits \in Nat /\ Tries \in Nat \ {0}
    /\ Nobody \notin Ids \cup Worker

VARIABLES
    (* the window *)
    page,        \* "connect" or "chat"
    ui_busy,     \* connect_page._busy
    attempt,     \* _reconnect_attempt
    waits,       \* _reconnect_busy_waits
    timer,       \* is _reconnect_timer running?
    mode,        \* of _last_connection
    signals,     \* queued for the window's thread
    (* the controller *)
    client,      \* _client
    server,      \* is there a _server?
    worker,      \* the worker thread, Nobody when there is none alive
    intentional, \* _intentional_disconnect
    bots,        \* the thread of the demo users and what it opened
    (* the clients *)
    sock,        \* "new", "open", "lost" (ended by the other side), "closed"
    listener,    \* "none", "on", "erred" (has said so and is to end)
    (* history *)
    crossed      \* a connection ended, or the user left, while a worker was at it
windowVars == <<page, ui_busy, attempt, waits, timer, mode>>
controllerVars == <<client, server, worker, intentional, bots>>
clientVars == <<sock, listener>>
linkVars == <<page, ui_busy, attempt, waits, timer, mode, signals, client, server,
          worker, intentional, bots, sock, listener, crossed>>

Signals == {"connected", "failed", "disconnected", "disconnected on purpose"}

LinkTypeOK ==
    /\ page \in {"connect", "chat"}
    /\ ui_busy \in BOOLEAN /\ timer \in BOOLEAN /\ crossed \in BOOLEAN
    /\ attempt \in 0 .. Attempts + 1
    /\ waits \in 0 .. BusyWaits + 1
    /\ mode \in Modes
    /\ signals \in Seq(Signals)
    /\ client \in Ids \cup {Nobody}
    /\ server \in BOOLEAN /\ intentional \in BOOLEAN
    /\ worker \in Worker \cup {Nobody}
    /\ bots \in [pc : {"none", "asleep", "flying", "in"},
                stale : BOOLEAN, late : BOOLEAN, open : BOOLEAN]
    /\ sock \in [Ids -> {"new", "open", "lost", "closed"}]
    /\ listener \in [Ids -> {"none", "on", "erred"}]

\* stale: _session is not what the thread read; late (history): it read it when
\* its session had ended already.
NoBots == [pc |-> "none", stale |-> TRUE, late |-> FALSE, open |-> FALSE]

LinkInit ==
    /\ page = "connect" /\ ui_busy = FALSE
    /\ attempt = 0 /\ waits = 0 /\ timer = FALSE
    /\ mode \in Modes
    /\ signals = <<>>
    /\ client = Nobody /\ server = FALSE /\ worker = Nobody /\ intentional = FALSE
    /\ bots = NoBots
    /\ sock = [k \in Ids |-> "new"]
    /\ listener = [k \in Ids |-> "none"]
    /\ crossed = FALSE

Live == client # Nobody /\ sock[client] = "open"

\* A listener that has not said yet that its connection ended.
Ending(k) == listener[k] # "none" /\ sock[k] # "open"

\* Threads are quick: the reconnection timer (3 s) does not run out, nor does
\* the user fill in the connect page, while a listener is about to say that its
\* connection ended or the window has a signal to see to.
Prompt == signals = <<>> /\ \A k \in Ids : ~Ending(k)

Send(s) == signals' = Append(signals, s)

----------------------------------------------------------------------------
(* Shared: opening and closing *)

\* An object nobody holds any more.
Unused(k) ==
    /\ k # client /\ listener[k] = "none" /\ sock[k] # "open"
    /\ worker # Nobody => worker.id # k

\* _cleanup: the demo users, the client and the server go.  A client whose
\* connect is still under way has no connection to close.
Cleanup ==
    /\ client' = Nobody
    /\ server' = FALSE
    /\ sock' = [k \in Ids |->
                  IF sock[k] # "open" THEN sock[k]
                  ELSE IF k = client THEN "closed"
                  ELSE IF server THEN "lost" ELSE "open"]
    /\ bots' = [bots EXCEPT !.stale = TRUE, !.open = FALSE]

\* disconnect.
Disconnect ==
    /\ intentional' = TRUE
    /\ Cleanup

\* A bug to be told apart from the code: the flag of the last end stays.
StartOnPurpose(m) ==
    /\ UNCHANGED intentional
    /\ worker' = [pc |-> "server", mode |-> m, tries |-> 0, id |-> Nobody]

\* connect_async: a new worker, unless one is at it.
Start(m) ==
    /\ intentional' = FALSE
    /\ worker' = [pc |-> "server", mode |-> m, tries |-> 0, id |-> Nobody]

----------------------------------------------------------------------------
(* The worker: _connect_worker *)

WorkerGoes(pc) == worker' = [worker EXCEPT !.pc = pc]

\* The server of a Host or a Demo; the port may be taken.
StartServer ==
    /\ worker # Nobody /\ worker.pc = "server"
    /\ WorkerGoes("client")
    /\ server' = (worker.mode # "Join" \/ server)
    /\ UNCHANGED <<windowVars, signals, client, intentional, bots, clientVars, crossed>>

\* The outer except: what there is goes, and the window is told.
Fail ==
    /\ Cleanup
    /\ Send("failed")
    /\ worker' = Nobody
    /\ UNCHANGED <<intentional, listener>>

PortTaken ==
    /\ worker # Nobody /\ worker.pc = "server" /\ worker.mode # "Join"
    /\ Fail
    /\ UNCHANGED <<windowVars, crossed>>

MakeClient ==
    /\ worker # Nobody /\ worker.pc = "client"
    /\ \E k \in Ids : Unused(k)
    /\ client' = CHOOSE k \in Ids : Unused(k)
    /\ sock' = [sock EXCEPT ![client'] = "new"]
    /\ WorkerGoes("connect")
    /\ UNCHANGED <<windowVars, signals, server, intentional, bots, listener, crossed>>

\* self._client.connect(...) begins.
BeginConnect ==
    /\ worker # Nobody /\ worker.pc = "connect" /\ client # Nobody
    /\ worker' = [worker EXCEPT !.pc = "flying", !.id = client]
    /\ UNCHANGED <<windowVars, signals, client, server, intentional, bots, clientVars, crossed>>

\* The attempt failed; a Host tries again.
Retry ==
    IF worker.mode = "Host" /\ worker.tries + 1 < Tries
    THEN /\ worker' = [worker EXCEPT !.pc = "connect", !.tries = @ + 1]
         /\ UNCHANGED <<signals, client, server, intentional, bots, clientVars>>
    ELSE Fail

ConnectFails ==
    /\ worker # Nobody
    /\ \/ worker.pc = "flying"
       \/ worker.pc \in {"connect", "made"} /\ client = Nobody \* AttributeError
    /\ Retry
    /\ UNCHANGED <<windowVars, crossed>>

\* client.connect is through: the listener runs.
Connects ==
    /\ worker # Nobody /\ worker.pc = "flying"
    /\ worker.mode # "Join" => server
    /\ sock' = [sock EXCEPT ![worker.id] = "open"]
    /\ listener' = [listener EXCEPT ![worker.id] = "on"]
    /\ WorkerGoes("made")
    /\ UNCHANGED <<windowVars, signals, client, server, intentional, bots, crossed>>

\* connected.emit; in Demo mode the worker is not done yet.
Tell ==
    /\ worker # Nobody /\ worker.pc = "made" /\ client # Nobody
    /\ Send("connected")
    /\ IF worker.mode = "Demo" THEN WorkerGoes("launch") ELSE worker' = Nobody
    /\ UNCHANGED <<windowVars, client, server, intentional, bots, clientVars, crossed>>

\* The thread of the demo users starts with the session that is on now.  (Bound:
\* one such thread at a time.)
Launch ==
    /\ worker # Nobody /\ worker.pc = "launch"
    /\ worker' = Nobody
    /\ bots' = IF bots.pc = "none"
               THEN [pc |-> "asleep", stale |-> FALSE, late |-> client = Nobody, open |-> FALSE]
               ELSE bots
    /\ UNCHANGED <<windowVars, signals, client, server, intentional, clientVars, crossed>>

----------------------------------------------------------------------------
(* The demo users: _launch_demo_clients *)

BotWakes ==
    /\ bots.pc = "asleep"
    /\ bots' = [bots EXCEPT !.pc = IF bots.stale THEN "none" ELSE "flying"]
    /\ UNCHANGED <<windowVars, signals, client, server, worker, intentional, clientVars, crossed>>

\* A bug the code had: nobody looks whether the session goes on.
BotEntersAnyway ==
    [bots EXCEPT !.pc = "in", !.open = TRUE]

\* Connected, which takes a server, and listed; if the session has ended meanwhile, closed again.
BotEnters ==
    IF bots.stale THEN [bots EXCEPT !.pc = "none"]
    ELSE [bots EXCEPT !.pc = "in", !.open = TRUE]

BotConnects ==
    /\ bots.pc = "flying"
    /\ (server /\ bots' = BotEnters) \/ bots' = [bots EXCEPT !.pc = "none"]
    /\ UNCHANGED <<windowVars, signals, client, server, worker, intentional, clientVars, crossed>>

\* It says its line, and the next one may follow.
BotSpeaks ==
    /\ bots.pc = "in"
    /\ \E pc \in {"asleep", "none"} :
         /\ bots.stale => pc = "none"
         /\ bots' = [bots EXCEPT !.pc = pc]
    /\ UNCHANGED <<windowVars, signals, client, server, worker, intentional, clientVars, crossed>>

----------------------------------------------------------------------------
(* The listener: _listen_loop and _emit_status *)

\* The other side ends the connection.
Lost(k) ==
    /\ sock[k] = "open"
    /\ sock' = [sock EXCEPT ![k] = "lost"]
    /\ UNCHANGED <<windowVars, signals, controllerVars, listener, crossed>>

\* An OSError that is nobody's intention is reported before the end.
ListenerErrs(k) ==
    /\ listener[k] = "on" /\ sock[k] = "lost"
    /\ listener' = [listener EXCEPT ![k] = "erred"]
    /\ Send("failed")
    /\ UNCHANGED <<windowVars, controllerVars, sock, crossed>>

\* Whether it was on purpose is looked up now.
ListenerEnds(k) ==
    /\ Ending(k)
    /\ listener' = [listener EXCEPT ![k] = "none"]
    /\ Send(IF intentional THEN "disconnected on purpose" ELSE "disconnected")
    /\ crossed' = (crossed \/ (worker # Nobody /\ worker.id = k))
    /\ UNCHANGED <<windowVars, controllerVars, sock>>

----------------------------------------------------------------------------
(* The window *)

\* set_busy: the fields and the button of the connect page are locked, or not.
SetBusy(busy) == ui_busy' = busy

\* A bug to be told apart from the code: the timer is left running.
ReturnWithTimer ==
    /\ UNCHANGED timer
    /\ Disconnect
    /\ page' = "connect" /\ SetBusy(FALSE)
    /\ crossed' = (crossed \/ worker # Nobody
                   \/ \E i \in 1 .. Len(signals) : signals[i] = "connected")

\* _return_to_connect_page.
ReturnToConnectPage ==
    /\ timer' = FALSE
    /\ Disconnect
    /\ page' = "connect" /\ SetBusy(FALSE)
    /\ crossed' = (crossed \/ worker # Nobody
                   \/ \E i \in 1 .. Len(signals) : signals[i] = "connected")

\* _emit_connect: the button is not locked and the fields are filled in.
MayConnect == page = "connect" /\ ~ui_busy /\ Prompt

\* _start_connection.  What connect_async says is not looked at.  (Bound: no
\* more connections may be left over than there are objects to spare.)
UserConnects(m) ==
    /\ MayConnect
    /\ worker = Nobody => \E k \in Ids : Unused(k)
    /\ mode' = m /\ attempt' = 0 /\ waits' = 0
    /\ SetBusy(TRUE)
    /\ IF worker = Nobody THEN Start(m) ELSE UNCHANGED <<worker, intentional>>
    /\ UNCHANGED <<page, timer, signals, client, server, bots, clientVars, crossed>>

\* _leave_session.
UserLeaves ==
    /\ page = "chat"
    /\ attempt' = 0
    /\ ReturnToConnectPage
    /\ UNCHANGED <<waits, mode, signals, worker, listener>>

\* _schedule_reconnect.
Schedule ==
    IF timer THEN UNCHANGED <<page, ui_busy, attempt, timer, client, server, intentional,
                              bots, sock, crossed>>
    ELSE /\ attempt' = attempt + 1
         /\ IF attempt + 1 > Attempts THEN ReturnToConnectPage
            ELSE /\ timer' = TRUE
                 /\ UNCHANGED <<page, ui_busy, client, server, intentional, bots, sock, crossed>>

\* _on_connected.
OnConnected ==
    /\ attempt' = 0 /\ waits' = 0 /\ timer' = FALSE
    /\ page' = "chat" /\ SetBusy(FALSE)
    /\ UNCHANGED <<client, server, intentional, bots, sock, crossed>>

\* _on_connect_failed.
OnConnectFailed ==
    IF page = "chat" THEN Schedule /\ UNCHANGED waits
    ELSE /\ SetBusy(FALSE)
         /\ UNCHANGED <<page, attempt, waits, timer, client, server, intentional, bots, sock, crossed>>

\* _on_status: is this an end nobody asked for?
Unwanted(s) == s = "disconnected"

OnDisconnected(s) ==
    IF page = "chat" /\ Unwanted(s) THEN Schedule /\ UNCHANGED waits
    ELSE UNCHANGED <<page, ui_busy, attempt, waits, timer, client, server, intentional,
                     bots, sock, crossed>>

HandleSignal ==
    /\ signals # <<>>
    /\ signals' = Tail(signals)
    /\ LET s == Head(signals) IN
       \/ s = "connected" /\ OnConnected
       \/ s = "failed" /\ OnConnectFailed
       \/ s \in {"disconnected", "disconnected on purpose"} /\ OnDisconnected(s)
    /\ UNCHANGED <<mode, worker, listener>>

\* _try_reconnect.
TryReconnect ==
    /\ timer /\ Prompt
    /\ IF worker # Nobody
       THEN /\ waits' = waits + 1
            /\ UNCHANGED <<worker>>
            /\ IF waits + 1 <= BusyWaits
               THEN UNCHANGED <<page, ui_busy, timer, client, server, intentional, bots, sock, crossed>>
               ELSE ReturnToConnectPage
       ELSE /\ waits' = 0
            /\ timer' = FALSE
            /\ Cleanup
            /\ Start(mode)
            /\ UNCHANGED <<page, ui_busy, crossed>>
    /\ UNCHANGED <<attempt, mode, signals, listener>>

----------------------------------------------------------------------------
WorkerSteps ==
    \/ StartServer \/ PortTaken \/ MakeClient \/ BeginConnect \/ ConnectFails
    \/ Connects \/ Tell \/ Launch
BotSteps == BotWakes \/ BotConnects \/ BotSpeaks
ListenerSteps(k) == ListenerErrs(k) \/ ListenerEnds(k)

LinkNext ==
    \/ WorkerSteps \/ BotSteps
    \/ \E k \in Ids : Lost(k) \/ ListenerSteps(k)
    \/ \E m \in Modes : UserConnects(m)
    \/ UserLeaves \/ HandleSignal \/ TryReconnect

\* Threads run, the window's handlers get their turn, the timer runs down, and
\* an attempt to connect ends (its socket has a timeout).
Fairness ==
    /\ WF_linkVars(WorkerSteps) /\ WF_linkVars(HandleSignal) /\ WF_linkVars(TryReconnect)
    /\ \A k \in Ids : WF_linkVars(ListenerSteps(k))

LinkSpec == LinkInit /\ [][LinkNext]_linkVars /\ Fairness

----------------------------------------------------------------------------
(* Properties *)

\* When a worker and a listener do not cross, the controller's connection is
\* the only one there is, and no demo user goes on when the session its thread
\* read has ended (ui.py, _cleanup, _connect_worker and _launch_demo_clients).
NoOrphan ==
    /\ ~crossed /\ worker = Nobody =>
         \A k \in Ids : sock[k] = "open" => k = client
    /\ bots.open => ~bots.stale

\* A chat without a connection gets one again, or the user is told and is back
\* on the connect page: the chain of attempts never breaks (ui.py, _on_status
\* to _try_reconnect), except where a connection ended, or the user left, while
\* a worker was at it.
Recovers ==
    (page = "chat" /\ ~Live /\ ~crossed) ~> (Live \/ page = "connect" \/ crossed)

\* A connection that works is given up for the user only: no late word of an
\* older one takes it down.
LiveKept ==
    [][Live /\ ~crossed /\ client' # client => UserLeaves]_linkVars

\* What ui.py:426-429 says of the demo users: they stop when the Demo is closed,
\* and do not enter the room of whoever hosts on its port after it.
DemoUsersStop == bots.open => ~bots.stale /\ ~bots.late
===============================================================================
