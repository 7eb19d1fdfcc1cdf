# ProxyNet: models, checks and proofs

TLA+ models of ProxyNet (the Python package `core/` and the desktop client
`apps/proxychat/`), the TLC runs that check them on small instances and the
proofs about them. `PROJECT.json` ties every definition to the lines it models,
lists the hazards and says which property covers which.

## 1. The system

A *Host* runs a TCP server that relays text chat in rooms and, on the same port
number, a UDP relay for voice. *Clients* encrypt end to end inside a room: each
session has ephemeral keys, announces them with a tag derived from the room
password, and hands its sender key to every verified peer. The server carries
these packets and cannot open them.

| Component | State it keeps | Operations | Interacts through |
|---|---|---|---|
| `RoomSession` (`core/room_session.py`) | `_pairs`, `_by_id`, `_holders`, `_peer_ids`, `_seen` | `accept_offer`, `accept_sender_key`, `forget_peer`, `first_sight`, `decrypt` | called by the client's listen thread |
| `ChatClient` (`core/client.py`) | room, session per room, `_peer_users`, `_pending_keys`, `_mismatched`, `_deferred` | connect, join_room, disconnect, one handler per packet; a tick thread | TCP to the server, callbacks to the interface |
| `ChatServer` (`core/server.py`, `hub.py`, `server_state.py`) | rooms and members, transports, history | accept, one `_client_loop` thread per connection, `stop` | TCP; shared dictionaries, mostly without a lock |
| `VoiceRelay` (`core/voice_relay.py`) | participants by client and by sender id, the id counter | join, leave, move, set_salt, handle | called under the server's `_lock` by client threads and the UDP thread |
| `VoiceLink`, `VoiceSession` (`core/voice_net.py`, `voice_session.py`) | socket, peers with buffer and codec | hello, send, receive, play | UDP thread, audio callback and Qt thread share them without a lock |
| Voice encryption (`core/voice_crypto.py`) | session keys, replay windows | seal, open, add_sender, forget | used by VoiceSession |
| `JitterBuffer` (`core/voice_jitter.py`) | frames, next slot, catch-up state | push (network), pop (sound card) | two threads |
| Noise gate, padding, codecs, packet formats | little or none | pure functions and small machines | |
| `ConnectionController`, window (`apps/proxychat/ui.py`) | client, server, worker, flag for meant disconnects; page, attempts, timer | connect, retry, give up, leave | Qt signals from workers and listeners |
| `ChatPage` (`apps/proxychat/ui.py`) | logs per room, the gap, who is known, verified and moved away | joined, history, message, snapshot, keys | packets of the client |
| `VoiceController` (`apps/proxychat/voice.py`) | off / joining / on, link, session, timers; devices, muting, gate | join, leave, on_packet, timeouts, devices | packets of the client, the relay, the system's devices |
| settings (`apps/proxychat/settings.py`) | a file | load, save | the voice settings are in `VoiceAudio` |
| i18n, emoji, splash, logging, tools, installer | texts, files | no concurrency | not modelled |

What is hard: threads that share dictionaries without a lock and are
interleaved between any two operations; member lists read before, addressed
amid and sent after other changes; packets of the old room that arrive in the new one; wrapped
keys that overtake offers; a reconnect the room has not heard of yet; short ids
that collide; repeated and late datagrams; delay that accumulates; answers to
requests that were given up; a Host that restarts under a running call; devices
that come, go and fail; an attempt to connect that overlaps the end of another
connection.

What makes each component correct:

* room session: its dictionaries describe one relation between members, keys
  and ids; an id names one member; nothing is shown twice;
* client and server together: two members of a room who share its password are
  keyed to each other in the end, unless a list that was outdated when it was sent
  left one of them out; the names shown as verified are names of members; no session
  takes a key of another room. (More is promised by comments and not kept: section 4.)
* server: nobody is in two rooms, nobody stays behind in one, empty rooms go,
  `stop` ends every thread; a message is in the history or broadcast to whoever
  is joining;
* relay: its two dictionaries agree, voice goes only to addresses their owners
  introduced and never back to the speaker, ids are not reused, one codec;
* call: who thinks to be in it is in it, with the id and token of its own answer,
  and who left it is not; joining ends;
* voice session and encryption: exactly those on the list are heard, no nonce is
  used twice, no frame is heard twice;
* jitter buffer: no frame stays behind but those overtaken between two steps of a push,
  no delay that stays, no reserve given away;
* sound card and gate: on the devices that are chosen and there, muted as the box
  says; words go out whole;
* window: a lost connection is made again or the user is told; a working one is
  kept; the log says when something is missing from it.

## 2. Modules

| Module | Models | State and actions |
|---|---|---|
| `KeyTable` | the dictionaries of a `RoomSession` as a record | operators for each mutating method; a dictionary is a total function with `None` for a missing entry |
| `RoomSession` | one session (extends `KeyTable`) | `session` (the table), `seen` (`_seen`), history `shown`; `AcceptOffer`, `AcceptSenderKey`, `ForgetPeer`, `Receive` |
| `KeyRing` | what a session promises: one key per member, one member per id | abstract specification; `RoomSession` implements it |
| `KeyExchange` | clients, server threads and TCP FIFOs | client: `OnSnapshot`, `OnJoined`, `OnKeyOffer`, `OnSenderKey`, `Connect`, `SendMessage`, `Disconnect`; `join_room` in its three assignments `JoinRoom`, `TakeCipher`, `SendJoin`; server: `HandleJoin`, `HandleKeyPacket`, `HandleMessage`, `HandleEof`, then for the rest of a handler `EnterRoom`, `ReadMembers` (a list), `ReadTargets` (of a broadcast) and `SendOne` (each of its sends) |
| `ChatServer` | `_client_loop` threads, accept loop, `stop`, `RoomRegistry` | a program counter per thread, one dict operation per step; `rooms` maps a name to a dict *object* in `dict`, so that a thread can hold one that was dropped |
| `Conversation` | the history of the server and what one viewer sees of a room | authors' threads `Write`, `TakeOut`, `PutBack`, `Aim`, `Cast`; the threads of people `Connect`, `Leave`, `Enter`; of either the member list `ReadList`, `ReadTargets`, `Tell`; the viewer's thread `TakeSeat`, `ReadJoined`, `SendJoined`; the viewer `SwitchRoom`, `Reconnect`, `ViewerReceives` with one handler per packet type (`OnJoined`, `OnHistory`, `OnMessage`, `OnSnapshot`, `OnKey`) |
| `VoiceRelay` | the relay | one action per call; `by_client`, `by_sender`, `peer`, `next_sender_id`; histories `given` (who was handed an id) and `result` (what a datagram caused) |
| `VoiceCall` | `VoiceController` and `VoiceLink` against the voice handlers of the server | client `Join`, `Leave`, `JoinTimeout`, `ChangeRoom`, `Receive` (`_on_joined` with its ways to fail), `Hello`; Host `HostHandles`, `HostEnds`, `HostRestarts`; the connection `Lose`, `Reconnect` |
| `VoiceSession` | `VoiceSession` and the cipher of one listener | Qt thread `HearList`, `HearVerified`, `AddSender`, `AddPeer`, `PopPeer`, `Forget`, one dictionary each; UDP thread `LookUp`, `FindSender`, `Open`; talkers join, tell their salt, speak and leave |
| `ReplayWindow` | `ReplayWindow` of `voice_crypto.py`, as a bitmap | pure operators `Repeated`, `Marked` |
| `VoiceStream` | what a listener promises: within a stream a frame is opened once | abstract specification; `VoiceSession` implements it |
| `JitterBuffer` | the buffer, its two threads and its surroundings | the UDP thread `Arrive` (push up to the test of being late), `Store`; the interface's thread `Listen`, `Align`, `Turn`, `TakeOne` (pop); `Send`, `Lose`; and in the calm `Period`, a whole `Push` and a whole `Pop` |
| `NoiseGate` | `NoiseGate` of `voice_gate.py` | pure operator `Process` on a gate record |
| `VoiceAudio` | `VoiceAudio`, the devices and settings of `VoiceController`, the device boxes of the window, the voice settings (extends `NoiseGate`) | `Join`, `Leave`, `ChooseDevice`, `Refresh`, `Plug`, `Unplug`, `ToggleMute`, `ToggleGate`, `SetThreshold`, `Restart`, `Microphone` |
| `Connection` | `ConnectionController` and the window's side of connecting | worker (`Tell` says that it is connected, `Launch` reads the session for the demo users), demo users, listeners and window as four kinds of thread; `signals` is Qt's queue |
| `MC*` | instances for TLC | model values and functions for the constants |
| `RoomSessionProofs`, `KeyExchangeProofs`, `ChatServerProofs`, `VoiceRelayProofs`, `VoiceCallProofs`, `VoiceSessionProofs`, `VoiceAudioProofs`, `JitterBufferProofs` | theorems | see section 5; those of `Conversation` are in `RoomSessionProofs`, those of `Connection` in `VoiceAudioProofs` |

How they compose. `RoomSession` extends `KeyTable` and is shown to implement
`KeyRing`. `KeyExchange` runs one session per client and room and keeps of it
what the ring promises (who is paired, whose key is held). `ChatServer` takes
the membership of `KeyExchange` apart: there leaving a room and entering one are a step each, here every
dict operation is. `VoiceCall` composes controller, link, the server's threads
and the relay's table over TCP and UDP. `VoiceSession` extends `ReplayWindow` and
is shown to implement `VoiceStream`; what it takes from the call is a list of
participants. `VoiceAudio` puts the gate into a sound card that is opened and
closed around it. `Conversation` and `Connection` cover the two halves of
`ui.py` that have state: what is shown, and whether there is a connection. The
names of their specifications are their own (`TalkSpec`, `LinkSpec`), so that a
proof module can extend them beside the component they stand next to: the session
that opens the messages of a room, and the sound card of the same window.

Abstractions worth knowing:

* A pair key is determined by two public keys and the password, so `_pairs` is
  the set of verified peers. A wrapped key opens exactly for a verified peer. A
  verified peer may announce any sender key of the room, because every member
  holds all of them. `first_sight` is asked by the listen thread only: the tick thread,
  which asks it for messages that waited (`client.py:540-546`, `590`), is not modelled.
* `RoomSession.Receive` is `_open_message` for a message that opens and whose
  envelope names its author: the cases that show a placeholder instead change no
  state.
* In `KeyExchange` the server's broadcast of a `sender_key` reaches only its
  addressee; the others drop the packet by its `to` field. Rate limits and caps
  on strangers are not reached.
* A name that is taken becomes the connection itself (`ann` becomes `x`), which
  stands for the numbered suffix.
* In `VoiceRelay` the token of an id is the id: it cannot be guessed, so a client
  presents only tokens it was handed. `fresh` says whether a rate window has run
  out; there is no clock. In `VoiceCall` tokens are numbered, because a restarted
  Host gives ids again and draws new tokens.
* `VoiceSession`: a datagram opens under an entry with its salt and its talker's
  key, which is what HKDF and AES-GCM with id and salt amount to; without a
  password everything opens. The bitmap of the window is the set of its one bits.
  A datagram once sent may arrive at any later time, any number of times.
* In `JitterBuffer` a frame is its number and the counters are left out. `push` is
  taken apart at the store and `pop` at each thing it changes; starting anew, beginning
  to play and one round of catching up are one step each. (A restart in the middle of
  catching up could take away the frame that is about to be deleted.)
* `NoiseGate`: a level is loud, in between or soft, relative to the thresholds; a
  frame is speech if it was loud. `GateAssumption` asks for a hold at least as long
  as the look-ahead, as in the code (15 and 2): then `_flush_left` is never what
  makes a frame go out.
* `Conversation`: a message is its number and its timestamp goes by it. `Sorted`
  spells out what `list.sort` does (`Place` is where an element goes; equals stay as
  they stood). A
  broadcast is taken apart as in `KeyExchange`, as far as the viewer is concerned: what it
  says, whether the viewer is among its targets, and the send.
  A public key belongs to a connection and a room; the session of a room keeps the
  keys it verified when the viewer goes to another room, and a new connection
  starts with none.
* `Connection`: `Prompt` says that the reconnection timer (3 s) and the user are
  slower than a listener reporting its end or the window handling a signal.

Some behaviours are reached by the models and excepted from a property, because
nothing in the code prevents them. What a property says is said outside of them only:

* `leftOut` (`KeyExchange`): the latest list sent to somebody leaves this member of the
  room out, and no list has been sent to the member since. `KeyedUnlessLeftOut`
  excepts it; the run `late_list` shows what happens then.
* `overtaken` (`JitterBuffer`): `pop` passed the frame between `push`'s test and its
  store. `OnlyOvertakenBehind` excepts it (section 4).
* `omitted` (`Conversation`): a list sent to the viewer left out somebody who had stayed.
  `OnlyListsLie` excepts it (section 4).
* `torn` (`Conversation`): two threads were at a room's list at once, or one asked
  for it while another had it out. A list lost in this way (`server.py:419`) is thus
  not caught by `HistoryReaches`.
* `stale` (`VoiceCall`): two answers to `voice_join` were due at once, or the
  connection or the Host was lost under the call. The client then stays in a call
  the relay does not know. `CallIsOurs` excepts it (section 4).
* `silent` (`VoiceCall`): the client gave up after a timeout or for want of a sound
  card and told the Host nothing; the Host keeps the participant until the
  connection ends or somebody joins again on it. `NoGhostInCall` excepts it, so what
  it says is that leaving and refusing reach the Host.
* `JoiningEnds` excepts a call whose connection was lost between the answer and the
  telling of the salt (`voice.py:340-404`): the timer is stopped by then, and the state
  stays "joining" until the user leaves.
* `JoinersFollow` excepts moves: whoever changes rooms brings a second codec
  (section 4).
* `WordsWhole` counts as speech what an enabled gate judged: loud frames that were queued
  while the gate was off, and silenced when it was switched on, are not counted.
* `crossed` (`Connection`): a connection ended, or the user left, while a worker
  was at it. `NoOrphan`, `Recovers` and `LiveKept` except it, and `Prompt` (above) keeps
  most late words of a listener out.

## 3. Runs

Every passing run's properties have a mutant in `PROJECT.json`: a plausible bug
in one mapped definition that breaks that property under the same bounds. The
definitions commented "a bug to be told apart from the code" are these mutants;
several are bugs the code's own comments say it once had.

| Run | Instance | What it shows |
|---|---|---|
| `room_session` | two peers, five keys, three ids: one id shared by two keys of peers, one shared with our own key; replay memory 2, four messages shown | `HoldersAgree`, `HolderNotDisplaced`, `ShownOnce`, `SeenIsTail`, and `RingSpec` (refinement) |
| `key_exchange` | `a`, `b` settled in one of two rooms; either `b`'s connection has just broken and `b2` (the same user again) connects at any time, or `a` changes rooms or talks twice and `b` may leave | `SessionsApart`, `VerifiedAreMembers`, `KeyedUnlessLeftOut`, `NothingWaitsInVain` (a wrapped key overtakes its offer when an outdated list makes its receiver forget the sender in between) |
| `late_list` | the same | refutes `KeyedInTheEnd` (finding) |
| `server` | three connections, two rooms, at most two clients, one of which changes rooms, `Stop` at any time | `NoGhost`, `OneRoom`, `EmptyRoomsFallOff`, `StopEndsAll` |
| `voice_relay` | two clients, one ip shared, one socket on another ip; four ids, two packets per window | `IndexesAgree`, `BoundToOwner`, `NeverBack`, `NeverReused`, `JoinersFollow` |
| `jitter` | target 3, slack 1, a drop every 2 pops, capacity 6; a storm of 8 frames, 12 calm periods | `OnlyOvertakenBehind`, `SpikeMelts`, `ReserveIsKept` |
| `voice_session` | two talkers, two ids, two salts, three frames, window 2, two lists on their way; room with and without a password | `ListIsHeard`, `NonceOnce`, `HeardOnce` (refinement of `VoiceStream`) |
| `voice_call` | one client, two rooms, two connections, two tokens, one restart; Host new or old | `CallIsOurs`, `NoGhostInCall`, `JoiningEnds` |
| `voice_call_room` | the same | refutes `NewRoomHears` (finding) |
| `voice_audio` | two devices for each end, one fixed, microphones that may lack the format; look-ahead 2, hold 2, fading 1 | `CardInPlace`, `SettingsKept`, `WordsWhole` |
| `connection` | two client objects, two attempts, one busy wait, two tries of a Host; all three modes | `NoOrphan`, `Recovers`, `LiveKept` |
| `conversation` | two authors, one person, two rooms, history of 2 in one room, log of 4, a long message; two events, two moves of the viewer, two packets on their way to it; history kept or not, password or not | `HistoryReaches`, `GapTold`, `OnlyListsLie` |

`TypeOK` is among a run's properties where a proof rests on it; elsewhere it is
stated for the reader.

Why the bounds are enough. `room_session`: a collision needs two keys on one id,
a displacement a third party; a memory of two already evicts, and four messages
let the evicted one come again. `KeyExchange`: the exchange is pairwise, so two
members (and the same user's second connection) meet every order of offer,
wrapped key and list; a broadcast that reaches one and not the other needs two; two
room changes are the least that brings a client back.
Behaviours start from settled members (`SettledSpec`: `Returns` or `Moves`), states
`Init` reaches; starting before the first joins only multiplies it by their orders. `server`:
the races are between two threads on one dict, the third connection meets the
limit and the aftermath. `Dicts` has an object for each room and each thread that
may hold one, which `DictAssumption` asks for: memory does not run out. `voice_relay`: four ids exhaust the counter after renewals.
`jitter`: the target is the code's (60 ms of 20 ms frames); slack,
interval and capacity are 1, 2 and 6 for the code's 2, 5 and 50, so that a storm of
eight frames fills, overfills and drains the buffer and restarts it; `pop` is not asked
again once its slot is beyond `Storm + Capacity + 1`, where every frame of the storm is far
from it; with
`Calm = 12` the bound `MeltTime = Max({Interval * (Capacity - Target), Capacity}) + 1 = 7`
is passed (the first is the time it takes to drop a full buffer's excess, the second
the time until the last of its empty slots has come to the head; which is longer
depends on the sizes).
`voice_session`: two salts let a talker return, or two talkers take one id in
turn; three frames in a window of two reach every case of it: beyond, at and
within the edge. Talkers and ids are interchangeable and all properties are of
safety, so symmetry is used. `voice_call`: the second token is that of a second
joining or of a restarted Host, the second connection that of a reconnection;
clients of a call meet only in the relay, which has a run of its own.
`voice_audio` has no bound but the sizes: a hold as long as the look-ahead
is the tightest `GateAssumption` allows. `connection`: two objects are the old
connection and the new one; two attempts are the least in which the second
overlaps the first. `conversation`: `LogLimit` is twice `HistoryLimit` as in the code (200
and 100); with one of two rooms and a packet that does not hold the long message
beside another, both the dropping of rooms and the cutting of a packet happen; the
limit of messages per room, cut by the same operator, would take a third message.
`Backlog` bounds what is on its way to the viewer: two packets already let one be sent
before another is handled, and a room change behind both. One event brings somebody
and the other takes them away, or is a message, whose list may have been read before they
came. `Bounded` keeps apart what does not touch: people about (what the lists say) and a
history (what authors write), and gives the viewer its second move where a message can be
missed meanwhile.
The authors are interchangeable, and symmetry is used here too.

`CHECK_DEADLOCK FALSE` stands where the system really stops: when all clients
have gone and the server is stopped, when the bounded acts are used up and nothing
is on its way, when the storm and the calm are over, or when the window waits for
a user. `RoomSession`, `VoiceRelay` and `VoiceAudio` never stop, and there TLC
looks for deadlocks.

### Fairness

`KeyExchange` assumes weak fairness of the steps of a client's listen thread, of
a server thread and of a `join_room` call under way: the first two block only for input,
TCP delivers, and the last blocks for nothing. `ChatServer`
assumes weak fairness of what a thread does by itself; `LeaveLoop` is fair only
once the server has stopped, because the loop polls `running` every second, and
`GiveUp` because the handshake has a deadline. `VoiceCall` assumes that the timer
of a join runs down and that one of the hellos, which the link repeats for as
long as the call lasts, arrives in the end; nothing is assumed of the Host or of
the connection. `Connection` assumes that workers, listeners and the window's
handlers get their turn and that its timer runs down; an attempt to connect ends
because its socket has a timeout. Users, peers, `Stop`, the network and the
restart of a Host are never forced to act.

### Two results that were not obvious

A member list is read, its targets are read, and it is sent to one after the other,
all without a lock. A stale list that reaches everybody does no harm: every list makes
every client announce its offer again, and an offer makes its receiver send its
wrapped key again. But its targets are as old as itself: one that reaches the older
member only makes that one drop the newcomer's key, and the newcomer, who got no list,
does not announce its offer again. `KeyedInTheEnd` therefore fails (`late_list`), and
`KeyedUnlessLeftOut` says that this is the only way: without such a list as the last
one, two members are keyed in the end, whatever the order of the rest.

The listener of a call changes two dictionaries in two steps, without a lock, and
the UDP thread may stand between looking a sender up and opening its datagram
while its id changes hands. `HeardOnce` and `ListIsHeard` hold all the same: the
datagram is opened under whatever entry the id has by then, and an entry of
another salt does not open it. In a room without a password it may open under the
new entry, but then once only.

## 4. Findings, and other disagreements

Two runs refute what a comment of the code says; `PROJECT.json` quotes it and tells
what happens.

* `late_list`: `core/client.py:133-134`, "the exchange would stay half done; so we hold
  it and retry once the offer arrives". An outdated list that reaches only one of two
  leaves their exchange half done until the next list (`server.py:333-340`,
  `hub.py:103-109`).
* `voice_call_room`: `core/server.py:589-590`, "Voice moves with the person as well: the
  old room no longer hears them, the new room does". `VoiceRelay.move`
  (`voice_relay.py:189-193`) keeps the public key that was announced when joining was
  asked for, that of the old room's session, and the client sends no other, whether its
  room changes in the call or while it is still joining; in the new room nobody has a
  sender key for it (`voice.py:327-338`).

Seven more comments are stated as properties that do not hold either. They are no
runs of `PROJECT.json`; `tlc -config <cfg> <module>` shows each within seconds.

| Property | cfg | Comment | What the code does |
|---|---|---|---|
| `KeysOnlyOfMembers` | `MCKeyExchangeNameReuse` | `core/client.py:561`, "Drops the key of whoever left the room" | Keys are dropped by name (572). Who is back under it before a list without it was read leaves the key of the departed connection with everyone. What the interface shows is not wrong by this: it shows names (`VerifiedAreMembers`). |
| `OldNeighboursForgotten` | `MCKeyExchangeOldKeys` | `core/client.py:317-320`, "We are leaving the room, so we drop the keys of the peers here" | `join_room` has already set `self.room` (199), so that branch does not run on an ordinary change; the session of the old room keeps its keys. |
| `MismatchIsProof` | `MCKeyExchangeMismatch` | `core/client.py:122-123`, "that is not a guess but direct proof" | `join_room` (199-200) switches room and session before the server has moved the connection; an offer of the old room fails to verify in the new session and is noted as proof of another password (394). |
| `NothingBehind` | `MCJitterBufferRace` | `core/voice_jitter.py:192`, "The frame's turn has passed, it cannot be played" | Between this test and the store (206) `pop` of the other thread may pass the slot; the frame then stays in the buffer for good, which is never empty again, and an outage no longer starts the stream anew (216-224). |
| `CallRecovers` | `MCVoiceCallRestart` | `core/voice_net.py:26-28`, "The hello is refreshed at intervals, so the connection recovers by itself if NAT changes the port or the Host restarts" | A restarted relay knows neither id nor token and ignores the hellos (`voice_relay.py:241-264`); the window makes a new chat connection and keeps the dead call. |
| `DemoUsersStop` | `MCConnectionDemo` | `apps/proxychat/ui.py:426-429`, the demo users must stop once the Demo is closed | The worker reads `_session` (430) after it has said that it is connected (336): if the user leaves in between, the demo users belong to the next session and enter the room of the Host started in it. |
| `NewsIsTrue` | `MCConversationLateList` | `apps/proxychat/ui.py:2055-2056`, the server sends a snapshot at every change of the membership and the difference is taken from it | A list read before somebody entered may come after one that names them (`server.py:333-340`, `hub.py:103-109`); the page says that they left. |

The models also reach the following states, in which the code does not do what a
comment of it says, without a property that states it:

* `core/server.py:437`: "Appends a number if somebody else in the room has the same
  name". Two threads may both find the name free.
* `core/server.py:358-360`: the room list is "based on the membership the server
  knows". A member that enters between the test and the dropping of an empty room
  (`server_state.py:43-44`) is in a dict that is no longer on the list.
* `core/voice_relay.py:141`: "Everyone must speak the same codec". Moving to a room
  keeps the codec of the old one. `JoinersFollow` says that only moves do this.
* `core/voice_jitter.py:25`: frames are "consumed in order every 20 ms". Lateness is
  tested only while playing; after an underrun older frames are accepted and
  played after newer ones.
* `apps/proxychat/ui.py:1900-1901`: "ayni mesaj iki kez gorunmez" (no message is
  seen twice). A message that is in the history the viewer was sent and is broadcast
  to it afterwards is appended without a comparison.

Smaller things met on the way, without a comment that says otherwise: a threshold
of zero, the gate's own, reaches the gate only with the next card (`voice.py:546-550`);
an empty history packet clears the note about the gap (`ui.py:1914`), also in a room
with a password on a Host that keeps a history of others; somebody who was in the
room before us, was never verified, left and came back is announced, if at all, by
its verification only (`ui.py:2078-2082`); frames that waited in the look-ahead when
the microphone was muted go out after it is unmuted (`voice.py:188`).

## 5. Proofs

`tlapm` checks every theorem for all values of the constants: any number of
connections, clients, rooms, keys, devices, tokens and restarts, and every size of
the windows and buffers. What is assumed of the constants are the named
assumptions of the modules: `None` is nothing else, functions have their domains,
sizes are natural numbers; what goes beyond that is said below. The theorems are
about `Spec`, also where a run starts from `SettledSpec`. Each inductive invariant
was model-checked before it was proved.

**`RoomSessionProofs`** proves `TypeCorrect`, `HoldersAlwaysAgree`,
`NothingShownTwice`, `MemoryIsTail`, `NoHolderDisplaced`, `SessionImplementsKeyRing`
and `IdsNameOneMember`. One lemma per operation of `KeyTable` says that it maps a
consistent table to a consistent table; ids may collide. The invariant is in two
halves. `TableInv` (the table is typed and consistent) follows from these lemmas.
`ReplayInv` strengthens `ShownOnce` with `SeenIsTail`: that a message outside
`_seen` was shown long ago only follows if `_seen` is exactly the tail of the
history. The refinement maps the ring to `SenderKeyOf`; a step of the session
learns a key, drops one, or stutters.

**`KeyExchangeProofs`** proves `TypeCorrect`, `RoomsNeverMix` and
`WaitingIsForAnOffer`, for any number of clients that come, go and change rooms and
whatever is on its way when they do. They rest on what a session holds and what waits
for it (`SessionsInv`): an offer is filed in the session it verified in, and a waiting
key is taken the moment its offer is. That keys are of members cannot be proved,
because it is false (`KeysOnlyOfMembers`, section 4); that the names shown as verified are,
`VerifiedAreMembers`, is only model-checked.

**`ChatServerProofs`** proves `TypeCorrect`, `NobodyStays`, `OneRoomAtATime` and
`RoomsFallOff`. Where a thread is tells which of its locals are set (`LocalsInv`); a
dict object is listed under one name and held under that of the holder's own
room (`RefsInv`); a connection is in no room but its own, and what its thread is
about to pop it from is the listed object (`MemberInv`); an empty room has a thread
that will fill it or drop it (`KeeperInv`). That a thread which creates a dict
finds memory for it is counted: each listed room and each thread uses one object
at most, and the creator's room and itself use none (`DictAssumption`).

**`VoiceRelayProofs`** proves `TypeCorrect`, `DictionariesAgree`,
`AddressesBoundByOwners`, `VoiceNeverComesBack`, `IdsNeverReused` and
`OnlyMovesMixCodecs`. The invariant `Inv` adds to the type and to the agreement of the
dictionaries that an id from `next_sender_id` on is in neither, which
gives `NeverReused`. `NeverBack` follows from `BoundToOwner` and the assumption
that two clients share no socket: an address bound to another participant is
another client's. `JoinersFollow` rests on `MinIsLeast`: the codec of a room is
that of one of its members.

**`VoiceCallProofs`** proves `TypeCorrect`, `CallIsAlwaysOurs` and
`NobodyHauntsTheCall`. Both properties speak of a moment when nothing is on its way,
so the invariants say what the packets on their way will come to. Who waits has one
request that no leaving follows, or one answer that is what the Host admitted, or
nothing to come (`JoiningInv`); who is in the call was admitted, and its salt is told
or on its way (`OnInv`); who is not in it has a leaving on the way that no request
follows, or is out already (`OutInv`). `ConnInv` keeps clients off each other's
connections, and nothing is known of a connection still to come.

**`VoiceSessionProofs`** proves `TypeCorrect`, `NoncesAreFresh`, `ListAlwaysHeard` and
the refinement `SessionImplementsStream`. `StreamInv` carries it: a number that was
opened in the current stream is repeated for the window, however far that has moved
on; a lemma about `Marked` gives it for every size. `HandlingInv` says what the two
dictionaries differ by between the steps of a list: the id in hand only.

**`VoiceAudioProofs`** proves `TypeCorrect`, `CardStaysInPlace`, `SettingsAreKept` and
`WordsGoOutWhole`. The last rests on `GateInv`: speech that waits in the look-ahead
keeps the gate open, since the hold has been counted down once for each later frame
at most and is as long as the look-ahead (`GateAssumption`). The first two rest on
what a card is between two calls (`CardInv`): set as chosen, and on the chosen
devices unless news of them is on its way.

**`JitterBufferProofs`** proves `TypeCorrect`, `OnlyOvertakenStayBehind`,
`FullReserveIsKept` and `SpikesMelt`, for every target, slack, interval and capacity and
with the steps of `push` and `pop` interleaved in any order.
For the first three the invariant is that of the buffer (`GoodBut`: no frame is behind the slot but those that were overtaken) and what the two threads
have in hand: a frame that was let through was not behind the slot of that
time, so if it is behind when it is stored, `pop` has passed it. The work is in
the lemmas about `Skipped` and `CatchUp`, which count the frames a skip passes
(none) and a drop takes (one, above the target). `SpikesMelt` is the timed bound, for storms that
leave no overtaken frame behind (`overtaken = {}`; in the run the bound holds with them as
well, but a frame that is never taken out is none the argument can count). Its
invariant (`MeltInv`) says what any state of the storm can have become after `k` calm
periods (`Calmed`): the buffer waits for its target, plays with the delay it should
have, is so far behind that the next frame starts it anew, or catches up; and then
`k` and what is still `Due`, an interval for each frame above the target less the
pops since the last drop, are together within the bound, and each slot sent in the
calm is filled, so that once the slots of the storm have passed the delay is what the
frames make it. The theorem assumes `Capacity > Target` (`voice_session.py:106` takes
the defaults, 50 and 3): with as much room as target and no slack, TLC finds that the
melt takes one period more.

`VoiceAudioProofs` also holds the theorems about `Connection`, for any number of clients,
attempts and waits: `ConnectionTypes`, `NobodyOutlives` (`NoOrphan`: no connection
stays open that the window does not know, and no demo user goes on when the session
its thread read has ended, whichever that was: section 4) and `OnlyTheUserLeaves` (`LiveKept`: no
step of the program gives up a working connection). Their invariant (`LinkInv`) says
what each thread may count on while the others run. While a worker is at it, no
other client is open, and only the one it has made may have a listener, so
whatever signal or timer there is comes of that one having ended (`AttemptInv`);
without a worker, a working connection is the only one, and nothing in Qt's queue
speaks against it (`OnlyInv`); the demo users of a session that ended are
closed (`BotInv`). It needs the history variable `crossed` (section 2): where a
connection ended or the user left under a worker, the first two parts are not
claimed.

**`RoomSessionProofs`** goes on, after the session, with what is seen of its room:
the theorems about `Conversation`, for any number of rooms, people, authors, messages
and moves and any limits of history, packet and log. `TalkTypes` is the type. Three
invariants carry the rest, and each is about what is still on its way to the viewer.

* `ListsAreToBlame` (`OnlyListsLie`) rests on `StreamInv` (theorem `StreamAgrees`). Lists
  and keys of a room that was left may still arrive, so nothing can be said of the packets
  before the last "joined"; those behind it (`Fresh`) are about the room the viewer sits
  in, and their lists hold everybody who stayed but those in `omitted` (`FreshInv`), as do
  the lists that threads still have in hand. Once no "joined" is to come, so do the
  page's own sets (`ViewInv`). What a list leaves out because it is older than
  somebody's coming is what refutes `NewsIsTrue` (section 4); the theorem says that there is
  no other source of false lines: no late key, no packet of another room, no move.
* `GapIsTold` (`GapTold`) rests on `GapInv`: without a history, a missed message is
  announced by the note, or is still on its way, or a new "joined" is to come.
* `HistoryIsSeen` (`HistoryReaches`) rests on `HistoryInv`: from the moment the
  viewer's history was drawn, each message that would be selected of the room's list
  is covered, that is, on the screen, about to be broadcast, or brought by a fresh
  packet. The list may be in the history or in an author's hands (`Lists`), and there is
  one in the history at most (`OneListEach`). The work is in the lemmas about the
  operators: what is selected of a list with one message more, cut to its limit, is
  what was selected before and that message (`SelectedOfNewest`), and merging a
  history into a log keeps and adds exactly the elements (`MergedIs`, `SortedIs`).
  The theorem assumes `[]NotFull`, that no log has reached `ROOM_LOG_LIMIT`. A full log
  drops its oldest entry by timestamp, and with a message that was stamped early and
  broadcast late this may be one the history still has; then the screen lacks
  it and the code means it to. In the run, too, logs stay below the limit.

Only model-checked: liveness (`KeyedUnlessLeftOut`, `StopEndsAll`, `JoiningEnds`,
`Recovers`), because fairness and ENABLED are out of the prover's reach,
`VerifiedAreMembers`, and `SpikeMelts` where frames were overtaken. Every
other property of a passing run is stated by a theorem.

## 6. Not modelled, and the plan

Not modelled, because there is nothing in it for a model checker: cryptographic
primitives, byte layouts, partial writes and line splitting, native codecs, mixing
and concealment, texts and widgets, build tools. Left out of what is modelled: rate
limiters of the server; exceptions of iterating over a dictionary that changes; the
statistics of a call; the password-derived scheme of the measuring tool
(`VoiceCipher`); the list of rooms on the chat page.

What comes next, by what can go wrong:

1. `Delivery`: the queue of messages waiting for a key (`client.py:485-606`), its
   two threads and its timeout, with `_check_origin` and with `first_sight` asked from the
   tick thread as well.
2. `VerifiedAreMembers` as a theorem: the order in which the lists of a leaver and a joiner
   are read, addressed and sent, for any number of them.
3. The rate limiters, composed with the key exchange.
