------------------------------ MODULE VoiceSession -----------------------------
(***************************************************************************)
(* core/voice_session.py and core/voice_crypto.py: who is heard in a call, *)
(* and which of their datagrams.  One listener is modelled in full, with   *)
(* the two threads that share its dictionaries:                            *)
(*   - the Qt thread handles voice_peers (VoiceController._on_peers), one  *)
(*     change of a dictionary at a time;                                   *)
(*   - the UDP thread (VoiceLink._receive_loop) looks the peer up, then    *)
(*     the sender, then opens the datagram with the sender it found.       *)
(* The others in the call are talkers: they join with an id the Host       *)
(* gives, announce the salt they drew, seal frames, and leave.  An id may  *)
(* be given again (a restarted Host counts from the start).  Datagrams are *)
(* reordered, lost and repeated at will; a list of participants is         *)
(* overtaken by another one when two server threads send at once.          *)
(*                                                                         *)
(* A key stands for whoever holds it: a datagram opens under an entry with *)
(* its salt and its talker's key (nonce and header are bound to both).     *)
(***************************************************************************)
EXTENDS ReplayWindow, FiniteSets

CONSTANTS
    Talkers, Ids, None,
    MaxSalt,     \* bound: salts drawn in all
    MaxSequence, \* bound: frames of one session
    MaxLists     \* bound: voice_peers packets on their way

Salts == 1 .. MaxSalt
Numbers == 1 .. MaxSequence

Datagram == [id : Ids, salt : Salts, who : Talkers, number : Numbers]
Incoming == [frame : Datagram, sender : {"sought", "held", "gone"}]
Entry == [id : Ids, salt : Salts, who : Talkers]
Sender == [salt : Salts, key : Talkers, window : Window]

ASSUME NothingAssumption ==
    /\ MaxSalt \in Nat /\ MaxSequence \in Nat /\ MaxLists \in Nat
    /\ None \notin Salts /\ None \notin Incoming /\ None \notin Sender

VARIABLES
    talk,     \* talker -> its session in the call, or None
    drawn,    \* how many salts were drawn
    net,      \* the datagrams sent so far
    lists,    \* voice_peers packets on their way to the listener
    secret,   \* has the room a password?
    keyed,    \* talkers whose sender key the room session holds
    notice,   \* peers_verified is on its way to the controller
    last,     \* _last_peers; before the first packet nobody is listed
    todo,     \* what is left to do of the list being handled
    senders,  \* cipher._senders: id -> Sender, or None
    peers,    \* the keys of _peers
    udp,      \* the datagram the UDP thread has found a peer for, or None, and
              \* its sender: "sought", "held" or "gone" from the dictionary
    opened    \* history: how often each number was opened since the id's entry was made
talkVars == <<talk, drawn, net>>
roomVars == <<secret, keyed>>
heardVars == <<senders, peers, opened>>
vars == <<talk, drawn, net, lists, secret, keyed, notice, last, todo, senders, peers, udp, opened>>

NoneOpened == [n \in Numbers |-> 0]

Idle == [add |-> {}, make |-> {}, drop |-> {}, forget |-> {}]

TypeOK ==
    /\ talk \in [Talkers -> [id : Ids, salt : Salts, told : BOOLEAN,
                             number : 0 .. MaxSequence] \cup {None}]
    /\ drawn \in 0 .. MaxSalt
    /\ net \subseteq Datagram
    /\ lists \subseteq SUBSET Entry
    /\ secret \in BOOLEAN
    /\ keyed \subseteq Talkers
    /\ notice \in BOOLEAN
    /\ last \subseteq Entry
    /\ todo \in [add : SUBSET Entry, make : SUBSET Ids,
                 drop : SUBSET Ids, forget : SUBSET Ids]
    /\ senders \in [Ids -> Sender \cup {None}]
    /\ peers \subseteq Ids
    /\ udp \in Incoming \cup {None}
    /\ opened \in [Ids -> [Numbers -> Nat]]

Init ==
    /\ talk = [p \in Talkers |-> None]
    /\ drawn = 0
    /\ net = {}
    /\ lists = {}
    /\ secret \in BOOLEAN
    /\ keyed = {}
    /\ notice = FALSE
    /\ last = {}
    /\ todo = Idle
    /\ senders = [i \in Ids |-> None]
    /\ peers = {}
    /\ udp = None
    /\ opened = [i \in Ids |-> NoneOpened]

----------------------------------------------------------------------------
(* The talkers *)

Talking(t) == {p \in Talkers : t[p] # None}

\* What the Host announces of them, once they have told their salt.
ListOf(t) ==
    {[id |-> t[p].id, salt |-> t[p].salt, who |-> p] : p \in {q \in Talking(t) : t[q].told}}

\* A bug to be told apart from the code: the first scheme, without a salt.
NewSessionUnsalted(i) == [id |-> i, salt |-> 1, told |-> FALSE, number |-> 0]

\* A cipher is made for one session and draws the salt of it.
NewSession(i) == [id |-> i, salt |-> drawn + 1, told |-> FALSE, number |-> 0]

\* The Host tells everyone of the call what has changed.
Announce(t) ==
    /\ Cardinality(lists) < MaxLists
    /\ lists' = lists \cup {ListOf(t)}

TalkerJoins(p) ==
    /\ talk[p] = None
    /\ drawn < MaxSalt
    /\ \E i \in Ids \ {talk[q].id : q \in Talking(talk)} :
         LET t == [talk EXCEPT ![p] = NewSession(i)]
         IN  talk' = t /\ Announce(t)
    /\ drawn' = drawn + 1
    /\ UNCHANGED <<net, roomVars, notice, last, todo, heardVars, udp>>

TalkerTellsSalt(p) ==
    /\ talk[p] # None /\ ~talk[p].told
    /\ LET t == [talk EXCEPT ![p].told = TRUE]
       IN  talk' = t /\ Announce(t)
    /\ UNCHANGED <<drawn, net, roomVars, notice, last, todo, heardVars, udp>>

Sealed(p, n) == [id |-> talk[p].id, salt |-> talk[p].salt, who |-> p, number |-> n]

\* outgoing(): the number grows by one with every frame.
TalkerSpeaks(p) ==
    /\ talk[p] # None
    /\ talk[p].number < MaxSequence
    /\ LET n == talk[p].number + 1
       IN  /\ talk' = [talk EXCEPT ![p].number = n]
           /\ net' = net \cup {Sealed(p, n)}
    /\ UNCHANGED <<drawn, lists, roomVars, notice, last, todo, heardVars, udp>>

TalkerLeaves(p) ==
    /\ talk[p] # None
    /\ LET t == [talk EXCEPT ![p] = None]
       IN  talk' = t /\ Announce(t)
    /\ UNCHANGED <<drawn, net, roomVars, notice, last, todo, heardVars, udp>>

----------------------------------------------------------------------------
(* The listener's Qt thread *)

\* In a room with a password, an entry whose key has not come is skipped.
Usable(e) == secret => e.who \in keyed

\* Who is not on the list goes, usable or not.
Handle(list) ==
    /\ last' = list
    /\ todo' = [Idle EXCEPT !.add = {e \in list : Usable(e)},
                            !.drop = peers \ {e.id : e \in list}]

HearList ==
    /\ todo = Idle
    /\ \E l \in lists : Handle(l) /\ lists' = lists \ {l}
    /\ UNCHANGED <<talkVars, roomVars, notice, heardVars, udp>>

\* A wrapped key opened on the listen thread, which tells the controller.
KeyArrives(p) ==
    /\ secret /\ p \notin keyed
    /\ keyed' = keyed \cup {p}
    /\ notice' = TRUE
    /\ UNCHANGED <<talkVars, lists, secret, last, todo, heardVars, udp>>

HearVerified ==
    /\ todo = Idle /\ notice
    /\ notice' = FALSE
    /\ Handle(last)
    /\ UNCHANGED <<talkVars, lists, roomVars, heardVars, udp>>

\* A bug to be told apart from the code: an id is taken for a session.
KnownById(e) == senders[e.id] # None

\* Known with this salt already: the key and the window stay as they are.
Known(e) == senders[e.id] # None /\ senders[e.id].salt = e.salt

\* The UDP thread may hold the entry that goes: it goes on with that object,
\* and what it marks there nobody looks at any more.
EntryGoes(i) ==
    udp' = IF udp # None /\ udp.frame.id = i /\ udp.sender = "held"
           THEN [udp EXCEPT !.sender = "gone"] ELSE udp

AddSender(e) ==
    /\ e \in todo.add /\ todo.make = {}
    /\ IF Known(e) THEN UNCHANGED <<senders, opened, udp>>
       ELSE /\ senders' = [senders EXCEPT ![e.id] =
                             [salt |-> e.salt, key |-> e.who, window |-> NewWindow]]
            /\ opened' = [opened EXCEPT ![e.id] = NoneOpened]
            /\ EntryGoes(e.id)
    /\ todo' = [todo EXCEPT !.add = @ \ {e}, !.make = {e.id}]
    /\ UNCHANGED <<talkVars, lists, roomVars, notice, last, peers>>

AddPeer(i) ==
    /\ i \in todo.make
    /\ peers' = peers \cup {i}
    /\ todo' = [todo EXCEPT !.make = {}]
    /\ UNCHANGED <<talkVars, lists, roomVars, notice, last, senders, opened, udp>>

\* remove_peer: out of _peers first, out of the cipher after it.
PopPeer(i) ==
    /\ todo.add = {} /\ todo.make = {} /\ todo.forget = {}
    /\ i \in todo.drop
    /\ peers' = peers \ {i}
    /\ todo' = [todo EXCEPT !.drop = @ \ {i}, !.forget = {i}]
    /\ UNCHANGED <<talkVars, lists, roomVars, notice, last, senders, opened, udp>>

Forget(i) ==
    /\ i \in todo.forget
    /\ senders' = [senders EXCEPT ![i] = None]
    /\ opened' = [opened EXCEPT ![i] = NoneOpened]
    /\ EntryGoes(i)
    /\ todo' = [todo EXCEPT !.forget = {}]
    /\ UNCHANGED <<talkVars, lists, roomVars, notice, last, peers>>

----------------------------------------------------------------------------
(* The listener's UDP thread: incoming() *)

\* _receive_loop: the socket brings anything sent before, in any order, any
\* number of times or never; errors but the last one do not end the loop.
Arrives(d) == d \in net

LookUp(d) ==
    /\ udp = None
    /\ Arrives(d) /\ d.id \in peers
    /\ udp' = [frame |-> d, sender |-> "sought"]
    /\ UNCHANGED <<talkVars, lists, roomVars, notice, last, todo, heardVars>>

\* open() begins: the sender is taken out of the dictionary by its id.
FindSender ==
    /\ udp # None /\ udp.sender = "sought"
    /\ udp' = [udp EXCEPT !.sender = IF senders[udp.frame.id] = None THEN "gone" ELSE "held"]
    /\ UNCHANGED <<talkVars, lists, roomVars, notice, last, todo, heardVars>>

\* HKDF: another sender key, salt or id gives another key.
SessionKey(key, salt, id) == <<key, salt, id>>

SecretOpens(s, d) == SessionKey(s.key, s.salt, d.id) = SessionKey(d.who, d.salt, d.id)

\* Nothing in a datagram tells whose or of which session it is.
NullOpens(s, d) == TRUE

\* make_voice_cipher: the password-derived scheme is the prototype's only.
Decrypts(s, d) == IF secret THEN SecretOpens(s, d) ELSE NullOpens(s, d)

\* The window is asked, and moved, only after the frame decrypted.
Accepts(s, d) == s # None /\ Decrypts(s, d) /\ ~Repeated(s.window, d.number)

Opens == udp.sender = "held" /\ Accepts(senders[udp.frame.id], udp.frame)

\* open() ends.  (The key of an entry never changes and only this thread moves
\* its window: decrypting and asking the window are one step.)
Open ==
    /\ udp # None /\ udp.sender # "sought"
    /\ udp' = None
    /\ LET d == udp.frame IN
       IF Opens
       THEN /\ senders' = [senders EXCEPT ![d.id].window = Marked(@, d.number)]
            /\ opened' = [opened EXCEPT ![d.id][d.number] = @ + 1]
       ELSE UNCHANGED <<senders, opened>>
    /\ UNCHANGED <<talkVars, lists, roomVars, notice, last, todo, peers>>

----------------------------------------------------------------------------
Next ==
    \/ \E p \in Talkers : \/ TalkerJoins(p)
                          \/ TalkerTellsSalt(p)
                          \/ TalkerSpeaks(p)
                          \/ TalkerLeaves(p)
                          \/ KeyArrives(p)
    \/ HearList
    \/ HearVerified
    \/ \E e \in todo.add : AddSender(e)
    \/ \E i \in Ids : AddPeer(i) \/ PopPeer(i) \/ Forget(i)
    \/ \E d \in net : LookUp(d)
    \/ FindSender \/ Open

Spec == Init /\ [][Next]_vars

----------------------------------------------------------------------------
(* Properties *)

\* Once a list is handled, exactly those are heard whom it names, with the
\* salts it names, as far as their keys are held: whichever of key, salt and
\* list came first, and whichever id somebody else had before.
ListIsHeard ==
    todo = Idle /\ ~notice =>
        /\ \A e \in last : Usable(e) =>
              e.id \in peers /\ senders[e.id] # None /\ senders[e.id].salt = e.salt
        /\ peers \subseteq {e.id : e \in last}
        /\ \A i \in Ids : i \in peers <=> senders[i] # None

\* No two frames are sealed under one nonce and key, although ids and
\* sequence numbers start over with every session (voice_crypto.py:42-58).
NonceOnce ==
    [][\A d \in net, p \in Talkers :
         talk[p] # None /\ talk'[p] # None /\ talk'[p].number > talk[p].number =>
            ~(/\ d.who = p /\ d.id = talk[p].id /\ d.salt = talk[p].salt
              /\ d.number = talk'[p].number)]_vars

\* No frame is heard twice as long as its sender is known with one salt:
\* the window of voice_crypto.py, however small, implements the stream that
\* remembers every number.
Stream == INSTANCE VoiceStream
            WITH stream <- [i \in Ids |-> IF senders[i] = None THEN None
                                          ELSE senders[i].salt]
HeardOnce == Stream!StreamSpec
===============================================================================
