-------------------------- MODULE VoiceSessionProofs ---------------------------
(***************************************************************************)
(* VoiceSession for every set of talkers and ids, every number of salts,   *)
(* frames and lists on their way, and every size of the replay window.     *)
(***************************************************************************)
EXTENDS VoiceSession, TLAPS

(* The replay window (voice_crypto.py, ReplayWindow.check) *)

\* A new window is a window.
LEMMA NewWindowTyped == NewWindow \in Window
BY WindowAssumption DEF NewWindow, Window

\* The mask keeps the bitmap as wide as the window.
LEMMA MarkedTyped ==
    ASSUME NEW w \in Window, NEW n \in Nat, ~Repeated(w, n)
    PROVE  Marked(w, n) \in Window
<1> USE WindowAssumption
<1>1. CASE n > w.highest
  <2>1. Shifted(w, n - w.highest) \in SUBSET (0 .. WindowSize - 1)
    BY DEF Shifted
  <2>. QED
    BY <1>1, <2>1 DEF Marked, Window
<1>2. CASE ~(n > w.highest)
  <2>1. w.highest - n \in 0 .. WindowSize - 1
    BY <1>2 DEF Repeated, Window
  <2>. QED
    BY <1>2, <2>1 DEF Marked, Window
<1>. QED
  BY <1>1, <1>2

\* A number that was marked counts as repeated from then on, and so does every
\* number that did before: shifting forgets only what is too old anyway.
LEMMA MarkedRepeats ==
    ASSUME NEW w \in Window, NEW n \in Nat, ~Repeated(w, n),
           NEW m \in Nat, m = n \/ Repeated(w, m)
    PROVE  Repeated(Marked(w, n), m)
<1> USE WindowAssumption
<1> DEFINE h == w.highest
<1>0. h \in Int /\ h >= -1 /\ w.seen \in SUBSET (0 .. WindowSize - 1)
  BY DEF Window
<1>1. CASE n > h
  <2>1. /\ Marked(w, n).highest = n
        /\ Marked(w, n).seen = {0} \cup Shifted(w, n - h)
    BY <1>1 DEF Marked
  <2>2. CASE m = n
    BY <2>1, <2>2 DEF Repeated
  <2>3. CASE m # n
    <3>1. m <= h /\ (h - m >= WindowSize \/ h - m \in w.seen)
      BY <2>3 DEF Repeated
    <3>2. n - m >= WindowSize \/ n - m \in 0 .. WindowSize - 1
      BY <1>0, <1>1, <3>1
    <3>3. (n - m) - (n - h) = h - m
      BY <1>0
    <3>4. n - m >= WindowSize \/ n - m \in Shifted(w, n - h)
      BY <1>0, <1>1, <3>1, <3>2, <3>3 DEF Shifted
    <3>. QED
      BY <1>0, <1>1, <2>1, <3>1, <3>4 DEF Repeated
  <2>. QED
    BY <2>2, <2>3
<1>2. CASE ~(n > h)
  <2>1. /\ Marked(w, n).highest = h
        /\ Marked(w, n).seen = w.seen \cup {h - n}
    BY <1>2 DEF Marked, Window
  <2>. QED
    BY <1>0, <1>2, <2>1 DEF Repeated
<1>. QED
  BY <1>1, <1>2

-------------------------------------------------------------------------------
(* Types *)

\* No link is open at first.
LEMMA TypeInit == Init => TypeOK
<1> SUFFICES ASSUME Init
             PROVE  TypeOK
  OBVIOUS
<1>1. drawn \in 0 .. MaxSalt
  BY NothingAssumption DEF Init
<1>2. opened \in [Ids -> [Numbers -> Nat]]
  BY DEF Init, NoneOpened
<1>3. todo \in [add : SUBSET Entry, make : SUBSET Ids,
                drop : SUBSET Ids, forget : SUBSET Ids]
  BY DEF Init, Idle
<1>. QED
  BY <1>1, <1>2, <1>3 DEF Init, TypeOK

\* What the Host announces is a list of entries.
LEMMA ListTyped ==
    ASSUME NEW t \in [Talkers -> [id : Ids, salt : Salts, told : BOOLEAN,
                                  number : 0 .. MaxSequence] \cup {None}]
    PROVE  ListOf(t) \in SUBSET Entry
BY DEF ListOf, Talking, Entry

\* What Handle leaves to do is typed.
LEMMA HandleTyped ==
    ASSUME TypeOK, NEW l \in SUBSET Entry, Handle(l)
    PROVE  /\ last' \subseteq Entry
           /\ todo' \in [add : SUBSET Entry, make : SUBSET Ids,
                         drop : SUBSET Ids, forget : SUBSET Ids]
BY DEF TypeOK, Handle, Idle, Entry

\* The UDP thread may be left with an entry that is gone.
LEMMA EntryGoesTyped ==
    ASSUME TypeOK, NEW i \in Ids, EntryGoes(i)
    PROVE  udp' \in Incoming \cup {None}
BY DEF TypeOK, EntryGoes, Incoming

\* Every step keeps the types.
LEMMA TypeStep == TypeOK /\ [Next]_vars => TypeOK'
<1> SUFFICES ASSUME TypeOK, [Next]_vars
             PROVE  TypeOK'
  OBVIOUS
<1> USE NothingAssumption
<1>1. ASSUME NEW p \in Talkers, TalkerJoins(p)
      PROVE  TypeOK'
  <2>1. PICK i \in Ids : talk' = [talk EXCEPT ![p] = NewSession(i)] /\ Announce(talk')
    BY <1>1 DEF TalkerJoins
  <2>2. talk' \in [Talkers -> [id : Ids, salt : Salts, told : BOOLEAN,
                               number : 0 .. MaxSequence] \cup {None}]
    BY <1>1, <2>1 DEF TalkerJoins, NewSession, TypeOK, Salts
  <2>3. ListOf(talk') \in SUBSET Entry
    BY <2>2, ListTyped
  <2>4. lists' \subseteq SUBSET Entry
    BY <2>1, <2>3 DEF Announce, TypeOK
  <2>. QED
    BY <1>1, <2>2, <2>4 DEF TalkerJoins, roomVars, heardVars, TypeOK
<1>2. ASSUME NEW p \in Talkers, TalkerTellsSalt(p)
      PROVE  TypeOK'
  <2>1. talk' = [talk EXCEPT ![p].told = TRUE] /\ Announce(talk')
    BY <1>2 DEF TalkerTellsSalt
  <2>2. talk' \in [Talkers -> [id : Ids, salt : Salts, told : BOOLEAN,
                               number : 0 .. MaxSequence] \cup {None}]
    BY <1>2, <2>1 DEF TalkerTellsSalt, TypeOK
  <2>3. ListOf(talk') \in SUBSET Entry
    BY <2>2, ListTyped
  <2>4. lists' \subseteq SUBSET Entry
    BY <2>1, <2>3 DEF Announce, TypeOK
  <2>. QED
    BY <1>2, <2>2, <2>4 DEF TalkerTellsSalt, roomVars, heardVars, TypeOK
<1>3. ASSUME NEW p \in Talkers, TalkerSpeaks(p)
      PROVE  TypeOK'
  <2>1. talk[p] \in [id : Ids, salt : Salts, told : BOOLEAN, number : 0 .. MaxSequence]
    BY <1>3 DEF TalkerSpeaks, TypeOK
  <2>2. talk[p].number + 1 \in Numbers
    BY <1>3, <2>1 DEF TalkerSpeaks, Numbers
  <2>3. talk' = [talk EXCEPT ![p].number = talk[p].number + 1]
    BY <1>3 DEF TalkerSpeaks
  <2>4. talk' \in [Talkers -> [id : Ids, salt : Salts, told : BOOLEAN,
                               number : 0 .. MaxSequence] \cup {None}]
    <3>1. [talk[p] EXCEPT !.number = talk[p].number + 1]
            \in [id : Ids, salt : Salts, told : BOOLEAN, number : 0 .. MaxSequence]
      BY <2>1, <2>2 DEF Numbers
    <3>. QED
      BY <2>3, <3>1 DEF TypeOK
  <2>5. Sealed(p, talk[p].number + 1) \in Datagram
    BY <2>1, <2>2 DEF Sealed, Datagram
  <2>. QED
    BY <1>3, <2>4, <2>5 DEF TalkerSpeaks, roomVars, heardVars, TypeOK
<1>4. ASSUME NEW p \in Talkers, TalkerLeaves(p)
      PROVE  TypeOK'
  <2>1. talk' = [talk EXCEPT ![p] = None] /\ Announce(talk')
    BY <1>4 DEF TalkerLeaves
  <2>2. talk' \in [Talkers -> [id : Ids, salt : Salts, told : BOOLEAN,
                               number : 0 .. MaxSequence] \cup {None}]
    BY <1>4, <2>1 DEF TalkerLeaves, TypeOK
  <2>3. ListOf(talk') \in SUBSET Entry
    BY <2>2, ListTyped
  <2>4. lists' \subseteq SUBSET Entry
    BY <2>1, <2>3 DEF Announce, TypeOK
  <2>. QED
    BY <1>4, <2>2, <2>4 DEF TalkerLeaves, roomVars, heardVars, TypeOK
<1>5. ASSUME NEW p \in Talkers, KeyArrives(p)
      PROVE  TypeOK'
  BY <1>5 DEF KeyArrives, TypeOK, talkVars, heardVars
<1>6. CASE HearList
  <2>1. PICK l \in lists : Handle(l) /\ lists' = lists \ {l}
    BY <1>6 DEF HearList
  <2>. QED
    BY <1>6, <2>1, HandleTyped DEF HearList, TypeOK, talkVars, roomVars, heardVars
<1>7. CASE HearVerified
  <2>1. last \in SUBSET Entry /\ Handle(last)
    BY <1>7 DEF HearVerified, TypeOK
  <2>. QED
    BY <1>7, <2>1, HandleTyped DEF HearVerified, TypeOK, talkVars, roomVars, heardVars
<1>8. ASSUME NEW e \in todo.add, AddSender(e)
      PROVE  TypeOK'
  <2>1. e \in Entry
    BY DEF TypeOK
  <2>2. [salt |-> e.salt, key |-> e.who, window |-> NewWindow] \in Sender
    BY <2>1, NewWindowTyped DEF Sender, Entry
  <2>3. senders' \in [Ids -> Sender \cup {None}]
    BY <1>8, <2>1, <2>2 DEF AddSender, TypeOK, Entry
  <2>4. opened' \in [Ids -> [Numbers -> Nat]]
    BY <1>8, <2>1 DEF AddSender, TypeOK, Entry, NoneOpened
  <2>5. todo' \in [add : SUBSET Entry, make : SUBSET Ids,
                   drop : SUBSET Ids, forget : SUBSET Ids]
    BY <1>8, <2>1 DEF AddSender, TypeOK, Entry
  <2>. QED
    BY <1>8, <2>3, <2>4, <2>5, EntryGoesTyped DEF AddSender, TypeOK, talkVars, roomVars
<1>9. ASSUME NEW i \in Ids, AddPeer(i)
      PROVE  TypeOK'
  BY <1>9 DEF AddPeer, TypeOK, talkVars, roomVars
<1>10. ASSUME NEW i \in Ids, PopPeer(i)
       PROVE  TypeOK'
  BY <1>10 DEF PopPeer, TypeOK, talkVars, roomVars
<1>11. ASSUME NEW i \in Ids, Forget(i)
       PROVE  TypeOK'
  BY <1>11, EntryGoesTyped DEF Forget, TypeOK, talkVars, roomVars, NoneOpened
<1>12. ASSUME NEW d \in net, LookUp(d)
       PROVE  TypeOK'
  BY <1>12 DEF LookUp, TypeOK, Incoming, talkVars, roomVars, heardVars
<1>15. CASE FindSender
  BY <1>15 DEF FindSender, TypeOK, Incoming, talkVars, roomVars, heardVars
<1>13. CASE Open
  <2>1. udp.frame.id \in Ids /\ udp.frame.number \in Numbers /\ udp.frame.number \in Nat
    BY <1>13 DEF Open, TypeOK, Incoming, Datagram, Numbers
  <2>2. CASE Opens
    <3>1. senders[udp.frame.id] \in Sender /\ ~Repeated(senders[udp.frame.id].window, udp.frame.number)
      BY <2>1, <2>2 DEF Opens, Accepts, TypeOK
    <3>2. Marked(senders[udp.frame.id].window, udp.frame.number) \in Window
      BY <2>1, <3>1, MarkedTyped DEF Sender
    <3>3. senders' \in [Ids -> Sender \cup {None}]
      <4>1. senders' = [senders EXCEPT ![udp.frame.id].window =
                          Marked(senders[udp.frame.id].window, udp.frame.number)]
        BY <1>13, <2>2 DEF Open
      <4>2. [senders[udp.frame.id] EXCEPT !.window = Marked(senders[udp.frame.id].window, udp.frame.number)]
              \in Sender
        BY <3>1, <3>2 DEF Sender
      <4>. QED
        BY <2>1, <4>1, <4>2 DEF TypeOK
    <3>4. opened' \in [Ids -> [Numbers -> Nat]]
      <4>1. opened' = [opened EXCEPT ![udp.frame.id][udp.frame.number] = @ + 1]
        BY <1>13, <2>2 DEF Open
      <4>2. [opened[udp.frame.id] EXCEPT ![udp.frame.number] = @ + 1] \in [Numbers -> Nat]
        BY <2>1 DEF TypeOK
      <4>. QED
        BY <2>1, <4>1, <4>2 DEF TypeOK
    <3>. QED
      BY <1>13, <3>3, <3>4 DEF Open, TypeOK, talkVars, roomVars
  <2>3. CASE ~Opens
    BY <1>13, <2>3 DEF Open, TypeOK, talkVars, roomVars
  <2>. QED
    BY <2>2, <2>3
<1>14. CASE UNCHANGED vars
  BY <1>14 DEF vars, TypeOK
<1>. QED
  BY <1>1, <1>2, <1>3, <1>4, <1>5, <1>6, <1>7, <1>8, <1>9, <1>10, <1>11, <1>12,
     <1>13, <1>14, <1>15 DEF Next

\* Every variable keeps its type.
THEOREM TypeCorrect == Spec => []TypeOK
BY TypeInit, TypeStep, PTL DEF Spec

-------------------------------------------------------------------------------
(* The inductive invariants *)

\* What was opened in a stream is repeated for its window, however far the
\* window has moved on; where there is no sender nothing counts as opened.
WindowCovers(i) ==
    /\ senders[i] = None => opened[i] = NoneOpened
    /\ senders[i] # None =>
         \A n \in Numbers : \/ opened[i][n] = 0
                            \/ opened[i][n] = 1 /\ Repeated(senders[i].window, n)
StreamInv == \A i \in Ids : WindowCovers(i)

\* A salt belongs to one session, and what was sealed in it is numbered up to
\* the session's own number.
NonceInv ==
    /\ \A d \in net : d.salt <= drawn
    /\ \A p \in Talkers : talk[p] # None => talk[p].salt <= drawn
    /\ \A d \in net, p \in Talkers :
         talk[p] # None /\ d.who = p /\ d.salt = talk[p].salt => d.number <= talk[p].number

\* Nobody shares an id with another, in the call and on the lists.
OnePerId(list) == \A e, f \in list : e.id = f.id => e = f
IdsApart ==
    /\ \A p, q \in Talkers :
         talk[p] # None /\ talk[q] # None /\ talk[p].id = talk[q].id => p = q
    /\ \A l \in lists : OnePerId(l)
    /\ OnePerId(last)

\* Between the steps of a list being handled: what is still to do, and that the
\* two dictionaries differ by the id in hand only.
Named(list) == {e.id : e \in list}
AtMostOne(S) == \A i, j \in S : i = j
Held(e) == senders[e.id] # None /\ senders[e.id].salt = e.salt
HandlingInv ==
    /\ todo.add \subseteq last
    /\ todo.make \subseteq Named(last)
    /\ (todo.drop \cup todo.forget) \cap Named(last) = {}
    /\ AtMostOne(todo.make) /\ AtMostOne(todo.forget)
    /\ todo.forget # {} => todo.add = {} /\ todo.make = {}
    /\ peers \subseteq Named(last) \cup todo.drop
    /\ peers \cap todo.forget = {}
    /\ \A i \in peers \cup todo.make : senders[i] # None
    /\ \A i \in Ids : senders[i] # None => i \in peers \cup todo.make \cup todo.forget
    /\ ~notice => \A e \in last : Usable(e) => e \in todo.add \/ Held(e)

-------------------------------------------------------------------------------
(* No nonce twice *)

\* No nonce is used at first.
LEMMA NonceInit == Init => NonceInv
BY DEF Init, NonceInv

\* Every step keeps the nonces apart.
LEMMA NonceStep == TypeOK /\ NonceInv /\ [Next]_vars => NonceInv'
<1> SUFFICES ASSUME TypeOK, NonceInv, [Next]_vars
             PROVE  NonceInv'
  OBVIOUS
<1>0. /\ drawn \in Nat
      /\ \A d \in net : d.salt \in Int /\ d.number \in Int
      /\ \A p \in Talkers : talk[p] # None => talk[p].salt \in Int /\ talk[p].number \in Int
  BY NothingAssumption DEF TypeOK, Datagram, Salts, Numbers
<1>1. ASSUME NEW p \in Talkers, TalkerJoins(p)
      PROVE  NonceInv'
  <2>1. PICK i \in Ids : talk' = [talk EXCEPT ![p] = NewSession(i)]
    BY <1>1 DEF TalkerJoins
  <2>2. drawn' = drawn + 1 /\ net' = net
    BY <1>1 DEF TalkerJoins
  <2>3. \A q \in Talkers : talk'[q] = IF q = p THEN NewSession(i) ELSE talk[q]
    BY <2>1 DEF TypeOK
  <2>4. NewSession(i).salt = drawn + 1
    BY DEF NewSession
  <2>. QED
    BY <1>0, <2>2, <2>3, <2>4 DEF NonceInv
<1>2. ASSUME NEW p \in Talkers, TalkerTellsSalt(p)
      PROVE  NonceInv'
  <2>1. drawn' = drawn /\ net' = net /\ talk' = [talk EXCEPT ![p].told = TRUE]
    BY <1>2 DEF TalkerTellsSalt
  <2>2. \A q \in Talkers : talk[q] # None =>
           talk'[q].salt = talk[q].salt /\ talk'[q].number = talk[q].number
    BY <2>1 DEF TypeOK
  <2>3. \A q \in Talkers : talk'[q] # None => talk[q] # None
    BY <1>2, <2>1 DEF TypeOK, TalkerTellsSalt
  <2>. QED
    BY <2>1, <2>2, <2>3 DEF NonceInv
<1>3. ASSUME NEW p \in Talkers, TalkerSpeaks(p)
      PROVE  NonceInv'
  <2>1. /\ talk[p] # None /\ drawn' = drawn
        /\ talk' = [talk EXCEPT ![p].number = talk[p].number + 1]
        /\ net' = net \cup {Sealed(p, talk[p].number + 1)}
    BY <1>3 DEF TalkerSpeaks
  <2>2. \A q \in Talkers : talk[q] # None =>
          /\ talk'[q].salt = talk[q].salt
          /\ talk'[q].number = IF q = p THEN talk[q].number + 1 ELSE talk[q].number
    BY <2>1 DEF TypeOK
  <2>3. \A q \in Talkers : talk'[q] # None => talk[q] # None
    BY <2>1 DEF TypeOK
  <2>4. /\ Sealed(p, talk[p].number + 1).salt = talk[p].salt
        /\ Sealed(p, talk[p].number + 1).who = p
        /\ Sealed(p, talk[p].number + 1).number = talk[p].number + 1
    BY DEF Sealed
  <2>. QED
    BY <1>0, <2>1, <2>2, <2>3, <2>4 DEF NonceInv
<1>4. ASSUME NEW p \in Talkers, TalkerLeaves(p)
      PROVE  NonceInv'
  <2>1. drawn' = drawn /\ net' = net /\ talk' = [talk EXCEPT ![p] = None]
    BY <1>4 DEF TalkerLeaves
  <2>2. \A q \in Talkers : talk'[q] # None => talk[q] # None /\ talk'[q] = talk[q]
    BY <2>1 DEF TypeOK
  <2>. QED
    BY <2>1, <2>2 DEF NonceInv
<1>5. CASE UNCHANGED talkVars
  BY <1>5 DEF talkVars, NonceInv
<1>. QED
  BY <1>1, <1>2, <1>3, <1>4, <1>5
     DEF Next, vars, talkVars, KeyArrives, HearList, HearVerified, AddSender, AddPeer,
         PopPeer, Forget, LookUp, FindSender, Open

\* outgoing() never seals two frames under one key, salt and number.
THEOREM NoncesAreFresh == Spec => NonceOnce
<1> DEFINE Fresh == \A d \in net, p \in Talkers :
              talk[p] # None /\ talk'[p] # None /\ talk'[p].number > talk[p].number =>
                ~(/\ d.who = p /\ d.id = talk[p].id /\ d.salt = talk[p].salt
                  /\ d.number = talk'[p].number)
<1>1. TypeOK /\ NonceInv /\ [Next]_vars => [Fresh]_vars
  <2> SUFFICES ASSUME TypeOK, NonceInv, NEW d \in net, NEW p \in Talkers,
                      talk[p] # None, talk'[p].number > talk[p].number,
                      d.who = p, d.salt = talk[p].salt, d.number = talk'[p].number
               PROVE  FALSE
    OBVIOUS
  <2>1. d.number <= talk[p].number
    BY DEF NonceInv
  <2>2. d.number \in Int /\ talk[p].number \in Int
    BY NothingAssumption DEF TypeOK, Datagram, Numbers
  <2>. QED
    BY <2>1, <2>2
<1>. QED
  BY <1>1, TypeInit, TypeStep, NonceInit, NonceStep, PTL DEF Spec, NonceOnce

-------------------------------------------------------------------------------
(* The window implements the stream *)

\* Nothing is sent or heard at first.
LEMMA StreamInit == Init => StreamInv
BY DEF Init, StreamInv, WindowCovers

\* What AddSender, Forget and Open do to the dictionary of senders.
LEMMA AddSenderEffect ==
    ASSUME TypeOK, NEW e \in todo.add, AddSender(e), ~Known(e)
    PROVE  /\ e \in Entry
           /\ senders' = [senders EXCEPT ![e.id] =
                            [salt |-> e.salt, key |-> e.who, window |-> NewWindow]]
           /\ opened' = [opened EXCEPT ![e.id] = NoneOpened]
BY DEF AddSender, TypeOK

\* A datagram that is accepted marks its number in the window.
LEMMA OpenEffect ==
    ASSUME TypeOK, Open, Opens
    PROVE  /\ udp.frame.id \in Ids /\ udp.frame.number \in Numbers /\ udp.frame.number \in Nat
           /\ senders[udp.frame.id] \in Sender
           /\ ~Repeated(senders[udp.frame.id].window, udp.frame.number)
           /\ senders' = [senders EXCEPT ![udp.frame.id].window =
                            Marked(senders[udp.frame.id].window, udp.frame.number)]
           /\ opened' = [opened EXCEPT ![udp.frame.id][udp.frame.number] =
                           opened[udp.frame.id][udp.frame.number] + 1]
<1>1. udp.frame.id \in Ids /\ udp.frame.number \in Numbers /\ udp.frame.number \in Nat
  BY NothingAssumption DEF Open, TypeOK, Incoming, Datagram, Numbers
<1>2. senders[udp.frame.id] \in Sender /\ ~Repeated(senders[udp.frame.id].window, udp.frame.number)
  BY <1>1 DEF Opens, Accepts, TypeOK
<1>. QED
  BY <1>1, <1>2 DEF Open

\* Every step keeps what is heard and what is accepted in agreement.
LEMMA StreamStep == TypeOK /\ StreamInv /\ [Next]_vars => StreamInv'
<1> SUFFICES ASSUME TypeOK, StreamInv, [Next]_vars, NEW i \in Ids
             PROVE  WindowCovers(i)'
  BY DEF StreamInv
<1> USE NothingAssumption
<1>0. WindowCovers(i)
  BY DEF StreamInv
<1>1. ASSUME UNCHANGED <<senders, opened>>
      PROVE  WindowCovers(i)'
  BY <1>0, <1>1 DEF WindowCovers
<1>2. ASSUME NEW e \in todo.add, AddSender(e)
      PROVE  WindowCovers(i)'
  <2>1. CASE Known(e)
    BY <1>1, <1>2, <2>1 DEF AddSender
  <2>2. CASE ~Known(e) /\ e.id = i
    <3>1. opened'[i] = NoneOpened /\ senders'[i] # None
      <4>1. [salt |-> e.salt, key |-> e.who, window |-> NewWindow] \in Sender
        BY <1>2, <2>2, AddSenderEffect, NewWindowTyped DEF Sender, Entry
      <4>. QED
        BY <1>2, <2>2, <4>1, AddSenderEffect DEF TypeOK
    <3>. QED
      BY <3>1 DEF WindowCovers, NoneOpened
  <2>3. CASE ~Known(e) /\ e.id # i
    <3>1. senders'[i] = senders[i] /\ opened'[i] = opened[i]
      BY <1>2, <2>3, AddSenderEffect DEF TypeOK
    <3>. QED
      BY <1>0, <3>1 DEF WindowCovers
  <2>. QED
    BY <2>1, <2>2, <2>3
<1>3. ASSUME NEW j \in Ids, Forget(j)
      PROVE  WindowCovers(i)'
  <2>1. /\ senders'[i] = IF i = j THEN None ELSE senders[i]
        /\ opened'[i] = IF i = j THEN NoneOpened ELSE opened[i]
    BY <1>3 DEF Forget, TypeOK
  <2>. QED
    BY <1>0, <2>1 DEF WindowCovers
<1>4. CASE Open
  <2>1. CASE ~Opens
    BY <1>1, <1>4, <2>1 DEF Open
  <2>2. CASE Opens /\ udp.frame.id # i
    <3>1. senders'[i] = senders[i] /\ opened'[i] = opened[i]
      BY <1>4, <2>2, OpenEffect DEF TypeOK
    <3>. QED
      BY <1>0, <3>1 DEF WindowCovers
  <2>3. CASE Opens /\ udp.frame.id = i
    <3> DEFINE w == senders[i].window
               n == udp.frame.number
    <3>1. w \in Window /\ n \in Numbers /\ n \in Nat /\ ~Repeated(w, n) /\ senders[i] \in Sender
      BY <1>4, <2>3, OpenEffect DEF Sender
    <3>2. senders'[i] = [senders[i] EXCEPT !.window = Marked(w, n)]
      BY <1>4, <2>3, <3>1, OpenEffect DEF TypeOK
    <3>3. senders'[i] # None /\ senders'[i].window = Marked(w, n)
      <4>1. Marked(w, n) \in Window
        BY <3>1, MarkedTyped
      <4>2. senders'[i] \in Sender
        BY <3>1, <3>2, <4>1 DEF Sender
      <4>. QED
        BY <3>1, <3>2, <4>2 DEF Sender
    <3>4. senders[i] # None /\ opened[i] \in [Numbers -> Nat]
      BY <3>1 DEF TypeOK
    <3>5. opened'[i] = [opened[i] EXCEPT ![n] = opened[i][n] + 1]
      BY <1>4, <2>3, OpenEffect DEF TypeOK
    <3>6. opened[i][n] = 0
      BY <1>0, <3>1, <3>4 DEF WindowCovers
    <3>7. ASSUME NEW m \in Numbers
          PROVE  \/ opened'[i][m] = 0
                 \/ opened'[i][m] = 1 /\ Repeated(Marked(w, n), m)
      <4>1. m \in Nat
        BY DEF Numbers
      <4>2. CASE m = n
        BY <3>1, <3>4, <3>5, <3>6, <4>1, <4>2, MarkedRepeats
      <4>3. CASE m # n
        <5>1. opened'[i][m] = opened[i][m]
          BY <3>4, <3>5, <4>3
        <5>2. \/ opened[i][m] = 0
              \/ opened[i][m] = 1 /\ Repeated(w, m)
          BY <1>0, <3>4 DEF WindowCovers
        <5>. QED
          BY <3>1, <4>1, <5>1, <5>2, MarkedRepeats
      <4>. QED
        BY <4>2, <4>3
    <3>. QED
      BY <3>3, <3>7 DEF WindowCovers
  <2>. QED
    BY <2>1, <2>2, <2>3
<1>. QED
  BY <1>1, <1>2, <1>3, <1>4
     DEF Next, vars, heardVars, TalkerJoins, TalkerTellsSalt, TalkerSpeaks, TalkerLeaves,
         KeyArrives, HearList, HearVerified, AddPeer, PopPeer, LookUp, FindSender

\* No frame is heard twice in a stream, whatever the network repeats and however
\* small the window; and the UDP thread may stand between looking a sender up
\* and opening its datagram while the Qt thread gives the id to another.
THEOREM SessionImplementsStream == Spec => HeardOnce
<1> DEFINE StreamOf == [i \in Ids |-> IF senders[i] = None THEN None ELSE senders[i].salt]
<1> USE NothingAssumption
<1>1. Init => Stream!StreamInit
  BY DEF Init, Stream!StreamInit, NoneOpened, Stream!NoneOpened
<1>2. TypeOK /\ StreamInv /\ [Next]_vars => [Stream!StreamNext]_<<StreamOf, opened>>
  <2> SUFFICES ASSUME TypeOK, StreamInv, [Next]_vars
               PROVE  [Stream!StreamNext]_<<StreamOf, opened>>
    OBVIOUS
  <2>0. ASSUME NEW i \in Ids
        PROVE  /\ senders[i] # None => senders[i].salt # None
               /\ StreamOf[i] # None <=> senders[i] # None
    BY DEF TypeOK, Sender
  <2>1. ASSUME UNCHANGED <<senders, opened>>
        PROVE  UNCHANGED <<StreamOf, opened>>
    BY <2>1
  <2>2. ASSUME NEW e \in todo.add, AddSender(e)
        PROVE  [Stream!StreamNext]_<<StreamOf, opened>>
    <3>1. CASE Known(e)
      BY <2>1, <2>2, <3>1 DEF AddSender
    <3>2. CASE ~Known(e)
      <4>1. e.id \in Ids /\ e.salt \in Salts
        BY <2>2, <3>2, AddSenderEffect DEF Entry
      <4>2. [salt |-> e.salt, key |-> e.who, window |-> NewWindow] # None
        <5>1. [salt |-> e.salt, key |-> e.who, window |-> NewWindow] \in Sender
          BY <2>2, <3>2, AddSenderEffect, NewWindowTyped DEF Sender, Entry
        <5>. QED
          BY <5>1
      <4>3. StreamOf' = [StreamOf EXCEPT ![e.id] = e.salt]
        <5> DEFINE new == [salt |-> e.salt, key |-> e.who, window |-> NewWindow]
        <5>1. new # None /\ new.salt = e.salt
          BY <4>2
        <5>2. senders' = [senders EXCEPT ![e.id] = new]
          BY <2>2, <3>2, AddSenderEffect
        <5> HIDE DEF new
        <5>. QED
          BY <4>1, <5>1, <5>2 DEF TypeOK
      <4>4. StreamOf[e.id] # e.salt
        BY <3>2, <4>1 DEF Known
      <4>5. Stream!Begin(e.id, e.salt)
        BY <2>2, <3>2, <4>3, <4>4, AddSenderEffect
           DEF Stream!Begin, NoneOpened, Stream!NoneOpened
      <4>. QED
        BY <4>1, <4>5 DEF Stream!StreamNext
    <3>. QED
      BY <3>1, <3>2
  <2>3. ASSUME NEW i \in Ids, Forget(i)
        PROVE  [Stream!StreamNext]_<<StreamOf, opened>>
    <3>1. /\ senders' = [senders EXCEPT ![i] = None]
          /\ opened' = [opened EXCEPT ![i] = NoneOpened]
      BY <2>3 DEF Forget
    <3>2. StreamOf' = [StreamOf EXCEPT ![i] = None]
      BY <3>1 DEF TypeOK
    <3>3. CASE senders[i] = None
      <4>1. opened' = opened
        BY <3>1, <3>3 DEF StreamInv, WindowCovers, TypeOK
      <4>2. StreamOf' = StreamOf
        BY <3>2, <3>3
      <4>. QED
        BY <4>1, <4>2
    <3>4. CASE senders[i] # None
      <4>1. Stream!End(i)
        BY <2>0, <3>1, <3>2, <3>4 DEF Stream!End, NoneOpened, Stream!NoneOpened
      <4>. QED
        BY <4>1 DEF Stream!StreamNext
    <3>. QED
      BY <3>3, <3>4
  <2>4. CASE Open
    <3>1. CASE ~Opens
      BY <2>1, <2>4, <3>1 DEF Open
    <3>2. CASE Opens
      <4> DEFINE i == udp.frame.id
                 n == udp.frame.number
                 moved == [senders[i] EXCEPT !.window = Marked(senders[i].window, n)]
      <4>1. i \in Ids /\ n \in Numbers /\ n \in Nat /\ senders[i] \in Sender
        BY <2>4, <3>2, OpenEffect
      <4>2. moved \in Sender /\ moved.salt = senders[i].salt
        <5>1. Marked(senders[i].window, n) \in Window
          BY <2>4, <3>2, <4>1, OpenEffect, MarkedTyped DEF Sender
        <5>. QED
          BY <4>1, <5>1 DEF Sender
      <4>3. senders' = [senders EXCEPT ![i] = moved]
        BY <2>4, <3>2, OpenEffect
      <4>4. StreamOf' = StreamOf
        BY <4>1, <4>2, <4>3 DEF TypeOK
      <4>5. opened[i][n] = 0
        BY <2>4, <3>2, <4>1, OpenEffect DEF StreamInv, WindowCovers
      <4>6. opened' = [opened EXCEPT ![i][n] = 1]
        BY <2>4, <3>2, <4>1, <4>5, OpenEffect DEF TypeOK
      <4>7. StreamOf[i] # None
        BY <2>0, <4>1
      <4>8. Stream!Hear(i, n)
        BY <4>4, <4>5, <4>6, <4>7 DEF Stream!Hear
      <4>. QED
        BY <4>1, <4>8 DEF Stream!StreamNext
    <3>. QED
      BY <3>1, <3>2
  <2>. QED
    BY <2>1, <2>2, <2>3, <2>4
       DEF Next, vars, heardVars, TalkerJoins, TalkerTellsSalt, TalkerSpeaks, TalkerLeaves,
           KeyArrives, HearList, HearVerified, AddPeer, PopPeer, LookUp, FindSender
<1>. QED
  BY <1>1, <1>2, TypeInit, TypeStep, StreamInit, StreamStep, PTL
     DEF Spec, HeardOnce, Stream!StreamSpec, Stream!streamVars

-------------------------------------------------------------------------------
(* Whom the list names is heard *)

\* No session has an id at first.
LEMMA IdsApartInit == Init => IdsApart
BY DEF Init, IdsApart, OnePerId

\* The Host's list names each id once if no two talkers share one.
LEMMA ListNamesOnce ==
    ASSUME NEW t,
           \A p, q \in Talkers : t[p] # None /\ t[q] # None /\ t[p].id = t[q].id => p = q
    PROVE  OnePerId(ListOf(t))
<1> SUFFICES ASSUME NEW e \in ListOf(t), NEW f \in ListOf(t), e.id = f.id
             PROVE  e = f
  BY DEF OnePerId
<1>1. PICK p \in Talkers : t[p] # None /\ e = [id |-> t[p].id, salt |-> t[p].salt, who |-> p]
  BY DEF ListOf, Talking
<1>2. PICK q \in Talkers : t[q] # None /\ f = [id |-> t[q].id, salt |-> t[q].salt, who |-> q]
  BY DEF ListOf, Talking
<1>. QED
  BY <1>1, <1>2

\* Every step keeps the session ids apart.
LEMMA IdsApartStep == TypeOK /\ IdsApart /\ [Next]_vars => IdsApart'
<1> SUFFICES ASSUME TypeOK, IdsApart, [Next]_vars
             PROVE  IdsApart'
  OBVIOUS
<1>1. ASSUME \A p, q \in Talkers :
                talk'[p] # None /\ talk'[q] # None /\ talk'[p].id = talk'[q].id => p = q,
             Announce(talk'), last' = last
      PROVE  IdsApart'
  <2>1. OnePerId(ListOf(talk'))
    BY <1>1, ListNamesOnce
  <2>. QED
    BY <1>1, <2>1 DEF IdsApart, Announce
<1>2. ASSUME NEW p \in Talkers, TalkerJoins(p)
      PROVE  IdsApart'
  <2>1. PICK i \in Ids \ {talk[q].id : q \in Talking(talk)} :
              talk' = [talk EXCEPT ![p] = NewSession(i)] /\ Announce(talk')
    BY <1>2 DEF TalkerJoins
  <2>2. \A q \in Talkers : talk'[q] = IF q = p THEN NewSession(i) ELSE talk[q]
    BY <2>1 DEF TypeOK
  <2>3. NewSession(i).id = i /\ \A q \in Talkers : talk[q] # None => talk[q].id # i
    BY <2>1 DEF NewSession, Talking
  <2>4. last' = last
    BY <1>2 DEF TalkerJoins
  <2>. QED
    BY <1>1, <2>1, <2>2, <2>3, <2>4 DEF IdsApart
<1>3. ASSUME NEW p \in Talkers, TalkerTellsSalt(p)
      PROVE  IdsApart'
  <2>1. talk[p] # None /\ talk' = [talk EXCEPT ![p].told = TRUE] /\ Announce(talk') /\ last' = last
    BY <1>3 DEF TalkerTellsSalt
  <2>2. \A q \in Talkers : talk'[q] # None => talk[q] # None /\ talk'[q].id = talk[q].id
    BY <2>1 DEF TypeOK
  <2>. QED
    BY <1>1, <2>1, <2>2 DEF IdsApart
<1>4. ASSUME NEW p \in Talkers, TalkerSpeaks(p)
      PROVE  IdsApart'
  <2>1. /\ talk[p] # None /\ lists' = lists /\ last' = last
        /\ talk' = [talk EXCEPT ![p].number = talk[p].number + 1]
    BY <1>4 DEF TalkerSpeaks
  <2>2. \A q \in Talkers : talk'[q] # None => talk[q] # None /\ talk'[q].id = talk[q].id
    BY <2>1 DEF TypeOK
  <2>. QED
    BY <2>1, <2>2 DEF IdsApart
<1>5. ASSUME NEW p \in Talkers, TalkerLeaves(p)
      PROVE  IdsApart'
  <2>1. talk' = [talk EXCEPT ![p] = None] /\ Announce(talk') /\ last' = last
    BY <1>5 DEF TalkerLeaves
  <2>2. \A q \in Talkers : talk'[q] # None => talk[q] # None /\ talk'[q] = talk[q]
    BY <2>1 DEF TypeOK
  <2>. QED
    BY <1>1, <2>1, <2>2 DEF IdsApart
<1>6. CASE HearList
  BY <1>6 DEF HearList, Handle, IdsApart, talkVars
<1>7. CASE HearVerified
  BY <1>7 DEF HearVerified, Handle, IdsApart, talkVars
<1>8. CASE UNCHANGED <<talk, lists, last>>
  BY <1>8 DEF IdsApart
<1>. QED
  BY <1>2, <1>3, <1>4, <1>5, <1>6, <1>7, <1>8
     DEF Next, vars, talkVars, KeyArrives, AddSender, AddPeer, PopPeer, Forget, LookUp, FindSender, Open

\* No list is being handled at first.
LEMMA HandlingInit == Init => HandlingInv
BY DEF Init, HandlingInv, Idle, Named, AtMostOne

\* A list taken up: nothing was left of the one before, so the dictionaries
\* agree, and what can be added is still to add.
LEMMA HandleStarts ==
    ASSUME TypeOK, HandlingInv, todo = Idle, NEW l \in SUBSET Entry, Handle(l),
           notice' \in {notice, FALSE}, UNCHANGED <<senders, peers, secret, keyed>>
    PROVE  HandlingInv'
<1>1. /\ todo.make = {} /\ todo.forget = {} /\ last' = l
      /\ todo'.add = {e \in l : Usable(e)} /\ todo'.make = {} /\ todo'.forget = {}
      /\ todo'.drop = peers \ Named(l)
  BY DEF Idle, Handle, Named
<1>2. \A e \in l : Usable(e)' <=> Usable(e)
  BY DEF Usable
<1>. QED
  BY <1>1, <1>2 DEF HandlingInv, Named, AtMostOne, TypeOK

\* Every step keeps the handling of a list in order.
LEMMA HandlingStep == TypeOK /\ IdsApart /\ HandlingInv /\ [Next]_vars => HandlingInv'
<1> SUFFICES ASSUME TypeOK, IdsApart, HandlingInv, [Next]_vars
             PROVE  HandlingInv'
  OBVIOUS
<1> USE NothingAssumption
<1>1. ASSUME UNCHANGED <<last, todo, senders, peers, notice, secret, keyed>>
      PROVE  HandlingInv'
  BY <1>1 DEF HandlingInv, Named, AtMostOne, Usable, Held
<1>2. ASSUME NEW p \in Talkers, KeyArrives(p)
      PROVE  HandlingInv'
  BY <1>2 DEF KeyArrives, heardVars, HandlingInv, Named, AtMostOne
<1>3. CASE HearList
  <2>1. PICK l \in lists : Handle(l)
    BY <1>3 DEF HearList
  <2>. QED
    BY <1>3, <2>1, HandleStarts DEF HearList, roomVars, heardVars, TypeOK
<1>4. CASE HearVerified
  BY <1>4, HandleStarts DEF HearVerified, roomVars, heardVars, TypeOK
<1>5. ASSUME NEW e \in todo.add, AddSender(e)
      PROVE  HandlingInv'
  <2> DEFINE new == [salt |-> e.salt, key |-> e.who, window |-> NewWindow]
  <2>0. e \in Entry /\ e.id \in Ids /\ e.salt \in Salts /\ e \in last
    BY DEF TypeOK, HandlingInv, Entry
  <2>1. new # None /\ new.salt = e.salt
    <3>1. new \in Sender
      BY <2>0, NewWindowTyped DEF Sender, Entry
    <3>. QED
      BY <3>1
  <2> HIDE DEF new
  <2>2. \/ Known(e) /\ senders' = senders
        \/ senders' = [senders EXCEPT ![e.id] = new]
    BY <1>5 DEF AddSender, new
  <2>3. \A i \in Ids : i # e.id => senders'[i] = senders[i]
    BY <2>0, <2>2 DEF TypeOK
  <2>4. senders'[e.id] # None /\ senders'[e.id].salt = e.salt
    BY <2>0, <2>1, <2>2 DEF Known, TypeOK
  <2>5. /\ todo.make = {} /\ todo'.make = {e.id} /\ todo'.add = todo.add \ {e}
        /\ todo'.drop = todo.drop /\ todo'.forget = todo.forget
        /\ UNCHANGED <<last, peers, notice, secret, keyed>>
    BY <1>5 DEF AddSender, TypeOK, roomVars
  <2>6. todo.forget = {}
    BY DEF HandlingInv
  <2>7. ASSUME ~notice', NEW f \in last, Usable(f)
        PROVE  f \in todo'.add \/ Held(f)'
    <3>1. CASE f.id = e.id
      BY <2>0, <2>4, <2>5, <3>1 DEF IdsApart, OnePerId, Held
    <3>2. CASE f.id # e.id
      BY <2>3, <2>5, <2>7, <3>2 DEF HandlingInv, Held, TypeOK, Entry
    <3>. QED
      BY <3>1, <3>2
  <2>8. \A f \in last : Usable(f)' <=> Usable(f)
    BY <2>5 DEF Usable
  <2>9. \A i \in peers' \cup todo'.make : senders'[i] # None
    BY <2>3, <2>4, <2>5 DEF HandlingInv, TypeOK
  <2>10. \A i \in Ids : senders'[i] # None => i \in peers' \cup todo'.make \cup todo'.forget
    BY <2>3, <2>5 DEF HandlingInv, TypeOK
  <2>. QED
    BY <2>0, <2>5, <2>6, <2>7, <2>8, <2>9, <2>10 DEF HandlingInv, Named, AtMostOne
<1>6. ASSUME NEW i \in Ids, AddPeer(i)
      PROVE  HandlingInv'
  <2>1. /\ i \in todo.make /\ todo'.make = {} /\ todo'.add = todo.add
        /\ todo'.drop = todo.drop /\ todo'.forget = todo.forget
        /\ peers' = peers \cup {i}
        /\ UNCHANGED <<last, senders, notice, secret, keyed>>
    BY <1>6 DEF AddPeer, TypeOK, roomVars
  <2>2. todo.make = {i} /\ todo.forget = {} /\ i \in Named(last)
    BY <2>1 DEF HandlingInv, AtMostOne
  <2>3. \A e \in last : (Usable(e)' <=> Usable(e)) /\ (Held(e)' <=> Held(e))
    BY <2>1 DEF Usable, Held
  <2>. QED
    BY <2>1, <2>2, <2>3 DEF HandlingInv, Named, AtMostOne
<1>7. ASSUME NEW i \in Ids, PopPeer(i)
      PROVE  HandlingInv'
  <2>1. /\ todo.add = {} /\ todo.make = {} /\ todo.forget = {} /\ i \in todo.drop
        /\ todo'.make = {} /\ todo'.add = {}
        /\ todo'.drop = todo.drop \ {i} /\ todo'.forget = {i}
        /\ peers' = peers \ {i}
        /\ UNCHANGED <<last, senders, notice, secret, keyed>>
    BY <1>7 DEF PopPeer, TypeOK, roomVars
  <2>2. \A e \in last : (Usable(e)' <=> Usable(e)) /\ (Held(e)' <=> Held(e))
    BY <2>1 DEF Usable, Held
  <2>. QED
    BY <2>1, <2>2 DEF HandlingInv, Named, AtMostOne
<1>8. ASSUME NEW i \in Ids, Forget(i)
      PROVE  HandlingInv'
  <2>1. /\ i \in todo.forget /\ todo'.forget = {}
        /\ todo'.make = todo.make /\ todo'.add = todo.add /\ todo'.drop = todo.drop
        /\ senders' = [senders EXCEPT ![i] = None]
        /\ UNCHANGED <<last, peers, notice, secret, keyed>>
    BY <1>8 DEF Forget, TypeOK, roomVars
  <2>2. todo.forget = {i} /\ todo.make = {} /\ i \notin Named(last) /\ i \notin peers
    BY <2>1 DEF HandlingInv, AtMostOne
  <2>3. \A j \in Ids : senders'[j] = IF j = i THEN None ELSE senders[j]
    BY <2>1 DEF TypeOK
  <2>4. \A e \in last : (Usable(e)' <=> Usable(e)) /\ (Held(e)' <=> Held(e))
    BY <2>1, <2>2, <2>3 DEF Usable, Held, Named, TypeOK, Entry
  <2>. QED
    BY <2>1, <2>2, <2>3, <2>4 DEF HandlingInv, Named, AtMostOne, TypeOK
<1>9. CASE Open
  <2>1. CASE ~Opens
    BY <1>1, <1>9, <2>1 DEF Open, roomVars
  <2>2. CASE Opens
    <3> DEFINE moved == [senders[udp.frame.id] EXCEPT
                            !.window = Marked(senders[udp.frame.id].window, udp.frame.number)]
    <3>1. udp.frame.id \in Ids /\ udp.frame.number \in Nat /\ senders[udp.frame.id] \in Sender
      BY <1>9, <2>2, OpenEffect
    <3>2. moved \in Sender /\ moved.salt = senders[udp.frame.id].salt
      <4>1. Marked(senders[udp.frame.id].window, udp.frame.number) \in Window
        BY <1>9, <2>2, <3>1, OpenEffect, MarkedTyped DEF Sender
      <4>. QED
        BY <3>1, <4>1 DEF Sender
    <3>3. senders' = [senders EXCEPT ![udp.frame.id] = moved]
      BY <1>9, <2>2, OpenEffect
    <3> HIDE DEF moved
    <3>4. \A i \in Ids : /\ senders'[i] # None <=> senders[i] # None
                         /\ senders[i] # None => senders'[i].salt = senders[i].salt
      BY <3>1, <3>2, <3>3 DEF TypeOK
    <3>5. UNCHANGED <<todo, last, peers, notice, secret, keyed>>
      BY <1>9 DEF Open, roomVars
    <3>6. \A e \in last : (Usable(e)' <=> Usable(e)) /\ (Held(e)' <=> Held(e))
      BY <3>4, <3>5 DEF Usable, Held, TypeOK, Entry
    <3>. QED
      BY <3>4, <3>5, <3>6 DEF HandlingInv, Named, AtMostOne, TypeOK
  <2>. QED
    BY <2>1, <2>2
<1>. QED
  BY <1>1, <1>2, <1>3, <1>4, <1>5, <1>6, <1>7, <1>8, <1>9
     DEF Next, vars, roomVars, heardVars, TalkerJoins, TalkerTellsSalt, TalkerSpeaks,
         TalkerLeaves, LookUp, FindSender

\* Exactly those the last list names are heard, as far as their keys are held,
\* in whatever order lists, keys and datagrams came.
THEOREM ListAlwaysHeard == Spec => []ListIsHeard
<1>1. TypeOK /\ HandlingInv => ListIsHeard
  <2> SUFFICES ASSUME TypeOK, HandlingInv, todo = Idle, ~notice
               PROVE  /\ \A e \in last : Usable(e) =>
                            e.id \in peers /\ senders[e.id] # None /\ senders[e.id].salt = e.salt
                      /\ peers \subseteq {e.id : e \in last}
                      /\ \A i \in Ids : i \in peers <=> senders[i] # None
    BY DEF ListIsHeard
  <2>1. todo.add = {} /\ todo.make = {} /\ todo.drop = {} /\ todo.forget = {}
    BY DEF Idle
  <2>2. \A i \in Ids : i \in peers <=> senders[i] # None
    BY <2>1 DEF HandlingInv
  <2>3. ASSUME NEW e \in last, Usable(e)
        PROVE  e.id \in peers /\ senders[e.id] # None /\ senders[e.id].salt = e.salt
    BY <2>1, <2>2, <2>3 DEF HandlingInv, Held, TypeOK, Entry
  <2>. QED
    BY <2>1, <2>2, <2>3 DEF HandlingInv, Named
<1>. QED
  BY <1>1, TypeInit, TypeStep, IdsApartInit, IdsApartStep, HandlingInit, HandlingStep, PTL
     DEF Spec
================================================================================
