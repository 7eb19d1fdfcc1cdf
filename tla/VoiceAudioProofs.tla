---------------------------- MODULE VoiceAudioProofs ----------------------------
(***************************************************************************)
(* What the window holds.  VoiceAudio for every set of devices, and its    *)
(* noise gate for every look-ahead, hold and release; then Connection, for *)
(* any number of clients, attempts and waits.                              *)
(***************************************************************************)
EXTENDS VoiceAudio, Connection, SequenceTheorems, TLAPS

(* The noise gate *)

\* The places of a queue where speech waits.
Talk(q) == {i \in 1 .. Len(q) : q[i]}

\* Speech that waits in the queue keeps the gate open: since its frame came in,
\* the hold has been counted down once for each later frame at most.
GateInv(g) ==
    /\ g \in Gates
    /\ Len(g.queue) <= LookAhead
    /\ g.flush <= LookAhead + 1
    /\ Talk(g.queue) # {} => g.open
    /\ \A i \in Talk(g.queue) : g.hold >= HoldFrames - (Len(g.queue) - i)

\* A frame joins the queue at its end.
LEMMA TalkAppended ==
    ASSUME NEW q \in Seq(BOOLEAN), NEW s \in BOOLEAN
    PROVE  /\ Append(q, s) \in Seq(BOOLEAN) /\ Len(Append(q, s)) = Len(q) + 1
           /\ \A i \in Talk(Append(q, s)) : i \in Talk(q) \/ (i = Len(q) + 1 /\ s)
<1>1. /\ Len(q) \in Nat /\ Append(q, s) \in Seq(BOOLEAN) /\ Len(Append(q, s)) = Len(q) + 1
      /\ \A i \in 1 .. Len(q) : Append(q, s)[i] = q[i]
      /\ Append(q, s)[Len(q) + 1] = s
  OBVIOUS
<1>2. ASSUME NEW i \in Talk(Append(q, s))
      PROVE  i \in Talk(q) \/ (i = Len(q) + 1 /\ s)
  <2>1. i \in 1 .. Len(q) + 1 /\ Append(q, s)[i]
    BY <1>1 DEF Talk
  <2>2. i \in 1 .. Len(q) \/ i = Len(q) + 1
    BY <1>1, <2>1
  <2>. QED
    BY <1>1, <2>1, <2>2, Zenon DEF Talk
<1>. QED
  BY <1>1, <1>2

\* A frame leaves it at its head.
LEMMA TalkPopped ==
    ASSUME NEW q \in Seq(BOOLEAN), Len(q) > 0
    PROVE  /\ Tail(q) \in Seq(BOOLEAN) /\ Len(Tail(q)) = Len(q) - 1
           /\ \A i \in Talk(Tail(q)) : i \in Nat /\ i + 1 \in Talk(q)
           /\ Head(q) => 1 \in Talk(q)
<1>1. /\ Len(q) \in Nat /\ Tail(q) \in Seq(BOOLEAN) /\ Len(Tail(q)) = Len(q) - 1
      /\ \A i \in 1 .. Len(q) - 1 : Tail(q)[i] = q[i + 1]
      /\ Head(q) = q[1]
  OBVIOUS
<1>2. ASSUME NEW i \in Talk(Tail(q))
      PROVE  i \in Nat /\ i + 1 \in Talk(q)
  <2>1. i \in 1 .. Len(q) - 1 /\ Tail(q)[i]
    BY <1>1 DEF Talk
  <2>2. i \in Nat /\ i + 1 \in 1 .. Len(q)
    BY <1>1, <2>1
  <2>. QED
    BY <1>1, <2>1, <2>2, Zenon DEF Talk
<1>3. Head(q) => 1 \in Talk(q)
  <2>1. 1 \in 1 .. Len(q)
    BY <1>1
  <2>. QED
    BY <1>1, <2>1, Zenon DEF Talk
<1>. QED
  BY <1>1, <1>2, <1>3

\* No frame is in a new gate.
LEMMA NewGateInv ==
    ASSUME NEW enabled \in BOOLEAN
    PROVE  GateInv(NewGate(enabled))
BY GateAssumption DEF GateInv, Gates, NewGate, Talk

\* Judging a frame (process) leaves the queue alone and closes the gate only
\* when no speech is in it: the hold is as long as the look-ahead.
LEMMA JudgedInv ==
    ASSUME NEW g, GateInv(g), NEW level \in Levels
    PROVE  LET j == Judged(g, level) IN
           /\ j \in Gates
           /\ j.queue = g.queue /\ j.enabled = g.enabled
           /\ j.flush <= LookAhead + 1
           /\ level = "loud" /\ g.enabled => j.open /\ j.hold = HoldFrames
           /\ Talk(j.queue) # {} => j.open
           /\ \A i \in Talk(j.queue) : j.hold >= HoldFrames - (Len(j.queue) - i) - 1
<1> DEFINE j == Judged(g, level)
<1> USE GateAssumption
<1>0. /\ g \in Gates /\ g.queue \in Seq(BOOLEAN) /\ Len(g.queue) \in Nat
      /\ Len(g.queue) <= LookAhead
      /\ g.hold \in 0 .. HoldFrames /\ g.flush \in Nat /\ g.flush <= LookAhead + 1
      /\ g.open \in BOOLEAN /\ g.release \in 0 .. ReleaseFrames /\ g.enabled \in BOOLEAN
  BY DEF GateInv, Gates
<1> DEFINE spoken == Talk(g.queue)
<1>w. /\ spoken # {} => g.open
      /\ \A i \in spoken : /\ i \in Nat /\ i >= 1 /\ i <= Len(g.queue)
                          /\ g.hold >= HoldFrames - (Len(g.queue) - i)
  <2>1. \A i \in spoken : i \in Nat /\ i >= 1 /\ i <= Len(g.queue)
    BY <1>0 DEF Talk
  <2>. QED
    BY <2>1 DEF GateInv
<1>g. SUFFICES /\ j \in Gates
               /\ j.queue = g.queue /\ j.enabled = g.enabled
               /\ j.flush <= LookAhead + 1
               /\ level = "loud" /\ g.enabled => j.open /\ j.hold = HoldFrames
               /\ spoken # {} => j.open
               /\ \A i \in spoken : j.hold >= HoldFrames - (Len(g.queue) - i) - 1
  OBVIOUS
<1> HIDE DEF j, spoken
<1>1. CASE ~g.enabled
  <2>1. j = g
    BY <1>1 DEF Judged, j
  <2>. QED
    BY <1>0, <1>1, <1>w, <2>1
<1>2. CASE g.enabled /\ level = "loud"
  <2>1. j = Opened(g)
    BY <1>2 DEF Judged, j
  <2>2. /\ j.queue = g.queue /\ j.enabled = g.enabled
        /\ j.open /\ j.hold = HoldFrames
        /\ j.flush = IF g.open THEN g.flush ELSE Len(g.queue) + 1
    BY <1>0, <2>1 DEF Opened, Gates
  <2>3. j \in Gates
    <3>1. (IF g.open THEN g.flush ELSE Len(g.queue) + 1) \in Nat
      BY <1>0
    <3>2. /\ HoldFrames \in 0 .. HoldFrames
          /\ 0 \in 0 .. ReleaseFrames
      OBVIOUS
    <3>. QED
      BY <1>0, <2>1, <3>1, <3>2 DEF Opened, Gates
  <2>4. j.flush <= LookAhead + 1
    BY <1>0, <2>2
  <2>. QED
    BY <1>0, <1>w, <2>2, <2>3, <2>4
<1>3. CASE g.enabled /\ level # "loud" /\ g.open
  <2>1. j = Lowered(g, level)
    BY <1>3 DEF Judged, j
  <2>2. CASE level = "mid"
    <3>1. j = [g EXCEPT !.hold = HoldFrames]
      BY <2>1, <2>2 DEF Lowered
    <3>2. /\ j \in Gates /\ j.queue = g.queue /\ j.enabled = g.enabled
          /\ j.open = g.open /\ j.hold = HoldFrames /\ j.flush = g.flush
      BY <1>0, <3>1 DEF Gates
    <3>. QED
      BY <1>0, <1>3, <1>w, <3>2
  <2>3. CASE level # "mid" /\ g.hold > 0
    <3>1. j = [g EXCEPT !.hold = g.hold - 1]
      BY <2>1, <2>3 DEF Lowered
    <3>2. /\ j \in Gates /\ j.queue = g.queue /\ j.enabled = g.enabled
          /\ j.open = g.open /\ j.hold = g.hold - 1 /\ j.flush = g.flush
      BY <1>0, <2>3, <3>1 DEF Gates
    <3>. QED
      BY <1>0, <1>3, <1>w, <3>2
  <2>4. CASE level # "mid" /\ ~(g.hold > 0)
    <3>1. j = [g EXCEPT !.open = FALSE, !.release = ReleaseFrames]
      BY <2>1, <2>4 DEF Lowered
    <3>2. /\ j.queue = g.queue /\ j.enabled = g.enabled /\ j.flush = g.flush
      BY <1>0, <3>1 DEF Gates
    <3>3. j \in Gates
      <4>1. ReleaseFrames \in 0 .. ReleaseFrames
        OBVIOUS
      <4>. QED
        BY <1>0, <3>1, <4>1 DEF Gates
    <3>4. spoken = {}
      BY <1>0, <1>w, <2>4
    <3>. QED
      BY <1>0, <1>3, <3>2, <3>3, <3>4
  <2>. QED
    BY <2>2, <2>3, <2>4
<1>4. CASE g.enabled /\ level # "loud" /\ ~g.open
  <2>1. j = g
    BY <1>4 DEF Judged, j
  <2>. QED
    BY <1>0, <1>4, <1>w, <2>1
<1>. QED
  BY <1>0, <1>1, <1>2, <1>3, <1>4

\* Whatever comes in, the gate keeps its invariant; and a frame that goes out
\* faded or as silence is not speech, and no speech is behind it in the queue.
LEMMA ProcessInv ==
    ASSUME NEW g, GateInv(g), NEW level \in Levels
    PROVE  LET r == Process(g, level) IN
           /\ GateInv(r.gate) /\ r.gate.enabled = g.enabled
           /\ r.how \in {"faded", "silent"} =>
                ~r.speech /\ Talk(r.gate.queue) = {}
<1> DEFINE j == Judged(g, level)
           s == g.enabled /\ level = "loud"
           q == Append(j.queue, s)
           r == Process(g, level)
<1> USE GateAssumption
<1>0. g.enabled \in BOOLEAN /\ g.queue \in Seq(BOOLEAN) /\ Len(g.queue) \in Nat
      /\ Len(g.queue) <= LookAhead
  BY DEF GateInv, Gates
<1>1. /\ j \in Gates
      /\ j.queue = g.queue /\ j.enabled = g.enabled
      /\ j.flush <= LookAhead + 1
      /\ s => j.open /\ j.hold = HoldFrames
      /\ Talk(j.queue) # {} => j.open
      /\ \A i \in Talk(j.queue) : j.hold >= HoldFrames - (Len(j.queue) - i) - 1
  BY JudgedInv
<1> HIDE DEF j
<1>2. r = Delayed(j, s, j.open \/ ~g.enabled)
  BY DEF Process, j
<1>3. /\ j.flush \in Nat /\ j.hold \in 0 .. HoldFrames /\ j.open \in BOOLEAN
      /\ j.release \in 0 .. ReleaseFrames
  BY <1>1 DEF Gates
<1>4. /\ q \in Seq(BOOLEAN) /\ Len(q) = Len(g.queue) + 1
      /\ \A i \in Talk(q) : i \in Talk(g.queue) \/ (i = Len(g.queue) + 1 /\ s)
  BY <1>0, <1>1, TalkAppended
<1>l. q \in Seq(BOOLEAN) /\ Len(q) = Len(g.queue) + 1
  BY <1>4, Zenon
<1>5. /\ Talk(q) # {} => j.open
      /\ \A i \in Talk(q) : i \in Nat /\ j.hold >= HoldFrames - (Len(q) - i)
  <2> HIDE DEF s, q
  <2>1. Talk(q) # {} => j.open
    <3>1. s => j.open
      BY <1>1
    <3>2. Talk(q) # {} => Talk(g.queue) # {} \/ s
      BY <1>4
    <3>. QED
      BY <1>1, <3>1, <3>2
  <2>2. \A i \in Talk(q) : i \in Nat
    BY DEF Talk
  <2>3. ASSUME NEW i \in Talk(q)
        PROVE  j.hold >= HoldFrames - (Len(q) - i)
    <3>1. CASE i \in Talk(g.queue)
      <4>1. j.hold >= HoldFrames - (Len(g.queue) - i) - 1
        BY <1>1, <3>1
      <4>. QED
        BY <1>0, <1>3, <1>4, <2>2, <4>1
    <3>2. CASE i = Len(g.queue) + 1 /\ s
      <4>1. j.hold = HoldFrames
        BY <1>1, <3>2
      <4>. QED
        BY <1>0, <1>3, <1>4, <3>2, <4>1
    <3>. QED
      BY <1>4, <3>1, <3>2
  <2>. QED
    BY <2>1, <2>2, <2>3
<1> HIDE DEF s, q, r
<1>6. CASE Len(q) <= LookAhead
  <2>1. r = [gate |-> [j EXCEPT !.queue = q], speech |-> FALSE, how |-> "filling"]
    BY <1>2, <1>6 DEF Delayed, q
  <2> DEFINE n == [j EXCEPT !.queue = q]
  <2>2. /\ n \in Gates /\ n.queue = q /\ n.open = j.open /\ n.hold = j.hold
        /\ n.flush = j.flush /\ n.enabled = g.enabled
    BY <1>1, <1>4 DEF Gates
  <2> HIDE DEF n
  <2>3. GateInv(n)
    BY <1>1, <1>5, <1>6, <2>2 DEF GateInv
  <2>4. r.gate = n /\ r.how = "filling"
    BY <2>1 DEF n
  <2>. QED
    BY <2>2, <2>3, <2>4 DEF r
<1>7. CASE Len(q) > LookAhead
  <2> DEFINE rest == Tail(q)
             p == [j EXCEPT !.queue = rest]
  <2>0. q \in Seq(BOOLEAN) /\ Len(q) \in Nat /\ Len(q) > 0
    BY <1>0, <1>l
  <2>1. /\ rest \in Seq(BOOLEAN) /\ Len(rest) = Len(q) - 1
        /\ \A i \in Talk(rest) : i \in Nat /\ i + 1 \in Talk(q)
        /\ Head(q) => 1 \in Talk(q)
    BY <2>0, TalkPopped
  <2>l. rest \in Seq(BOOLEAN) /\ Len(rest) = Len(q) - 1
    BY <2>1, Zenon
  <2> HIDE DEF rest
  <2>2. /\ p \in Gates /\ p.queue = rest /\ p.open = j.open /\ p.hold = j.hold
        /\ p.flush = j.flush /\ p.enabled = g.enabled /\ p.release = j.release
    BY <1>1, <2>1 DEF Gates
  <2> HIDE DEF p
  <2>3. /\ Talk(rest) # {} => j.open
        /\ \A i \in Talk(rest) : j.hold >= HoldFrames - (Len(rest) - i)
    <3>1. Talk(rest) # {} => Talk(q) # {}
      BY <2>1
    <3>2. ASSUME NEW i \in Talk(rest)
          PROVE  j.hold >= HoldFrames - (Len(rest) - i)
      <4>1. i \in Nat /\ j.hold >= HoldFrames - (Len(q) - (i + 1))
        BY <1>5, <2>1
      <4>2. Len(q) \in Nat /\ Len(rest) = Len(q) - 1
        BY <2>0, <2>l
      <4>. QED
        BY <1>3, <4>1, <4>2
    <3>. QED
      BY <1>5, <3>1, <3>2
  <2>4. GateInv(p)
    <3>1. Len(rest) <= LookAhead
      BY <1>0, <1>l, <2>l
    <3>. QED
      BY <1>1, <2>2, <2>3, <3>1 DEF GateInv
  <2>5. CASE j.flush > 0
    <3> DEFINE n == [p EXCEPT !.flush = p.flush - 1]
    <3>1. r = [gate |-> n, speech |-> Head(q), how |-> "whole"]
      BY <1>2, <1>7, <2>5 DEF Delayed, q, p, rest
    <3>2. /\ n \in Gates /\ n.queue = p.queue /\ n.open = p.open /\ n.hold = p.hold
          /\ n.flush = p.flush - 1 /\ n.enabled = g.enabled
      BY <1>3, <2>2, <2>5 DEF Gates
    <3> HIDE DEF n
    <3>3. GateInv(n)
      BY <1>1, <1>3, <2>2, <2>4, <3>2 DEF GateInv
    <3>4. r.gate = n /\ r.how = "whole"
      BY <3>1
    <3>. QED
      BY <3>2, <3>3, <3>4 DEF r
  <2>6. CASE ~(j.flush > 0)
    <3>1. r = Emit(p, Head(q), j.open \/ ~g.enabled)
      BY <1>2, <1>7, <2>6 DEF Delayed, q, p, rest
    <3>2. CASE j.open \/ ~g.enabled
      <4>1. r.gate = p /\ r.how = "whole"
        BY <3>1, <3>2 DEF Emit
      <4>. QED
        BY <2>2, <2>4, <4>1 DEF r
    <3>3. CASE ~(j.open \/ ~g.enabled)
      <4>1. ~Head(q) /\ Talk(rest) = {}
        BY <1>5, <2>1, <2>3, <3>3
      <4>2. CASE p.release > 0
        <5> DEFINE n == [p EXCEPT !.release = p.release - 1]
        <5>1. r.gate = n /\ r.speech = Head(q)
          BY <3>1, <3>3, <4>2 DEF Emit
        <5>2. /\ n \in Gates /\ n.queue = p.queue /\ n.open = p.open /\ n.hold = p.hold
              /\ n.flush = p.flush /\ n.enabled = g.enabled
          BY <1>3, <2>2, <4>2 DEF Gates
        <5> HIDE DEF n
        <5>3. GateInv(n)
          BY <2>4, <5>2 DEF GateInv
        <5>. QED
          BY <2>2, <4>1, <5>1, <5>2, <5>3 DEF r
      <4>3. CASE ~(p.release > 0)
        <5>1. r.gate = p /\ r.speech = Head(q)
          BY <3>1, <3>3, <4>3 DEF Emit
        <5>. QED
          BY <2>2, <2>4, <4>1, <5>1 DEF r
      <4>. QED
        BY <4>2, <4>3
    <3>. QED
      BY <3>2, <3>3
  <2>. QED
    BY <2>5, <2>6
<1>. QED
  BY <1>0, <1>4, <1>6, <1>7

-------------------------------------------------------------------------------
(* The inductive invariant *)

\* TypeOK without the card, and the types it does not mention.
VarsTyped ==
    /\ plugged \in [Ends -> SUBSET Devices]
    /\ \A e \in Ends : Fixed \in plugged[e] /\ default[e] \in plugged[e]
    /\ wanted \in [Ends -> Devices \cup {None}]
    /\ news \in BOOLEAN /\ box \in BOOLEAN
    /\ gate_enabled \in BOOLEAN /\ gate_threshold \in {0, Threshold}
    /\ default \in [Ends -> Devices]

\* What is saved is what is in use.
SavedInv == saved = [device |-> wanted, enabled |-> gate_enabled, threshold |-> gate_threshold]

\* The list is what is plugged in unless news is on its way, and the boxes show
\* what is chosen as far as it is on the list.
ListInv ==
    /\ listed \in [Ends -> SUBSET Devices] \cup {None}
    /\ listed = None => shown = [e \in Ends |-> None]
    /\ listed # None => shown = Line(listed, wanted)
    /\ listed # None /\ ~news => listed = plugged

\* A card is as it was set.
AsSet(c) ==
    /\ c \in Cards
    /\ GateInv(c.gate)
    /\ c.muted = box
    /\ c.gate.enabled = gate_enabled
    /\ gate_threshold # 0 => c.threshold = gate_threshold

\* Its devices are there, and the chosen ones where these are.
OnDevices(c) ==
    \A e \in Ends : /\ c.device[e] \in plugged[e]
                    /\ wanted[e] \in plugged[e] => c.device[e] = wanted[e]

\* From the first card on the list is watched; so nothing happens to the
\* devices of a card without news on its way.
CardInv ==
    /\ box => card # None
    /\ card # None => listed # None /\ AsSet(card) /\ (news \/ OnDevices(card))

Inv == VarsTyped /\ SavedInv /\ ListInv /\ CardInv

\* pick_device finds a device that is there, the chosen one if that is.
LEMMA PickedIsThere ==
    ASSUME VarsTyped, NEW w \in [Ends -> Devices \cup {None}]
    PROVE  /\ Picked(w) \in [Ends -> Devices]
           /\ \A e \in Ends : /\ Picked(w)[e] \in plugged[e]
                              /\ w[e] \in plugged[e] => Picked(w)[e] = w[e]
BY DEF VarsTyped, Picked

\* A new card has the gate and the devices that are set.
LEMMA NewCardInv ==
    ASSUME VarsTyped, NEW w \in [Ends -> Devices \cup {None}], NEW muted \in BOOLEAN
    PROVE  LET c == Card(w, muted) IN
           /\ c \in Cards /\ GateInv(c.gate) /\ c.device = Picked(w)
           /\ c.muted = muted /\ c.gate.enabled = gate_enabled
           /\ c.threshold = gate_threshold
<1> DEFINE g == NewGate(gate_enabled)
<1>1. GateInv(g) /\ g \in Gates /\ g.enabled = gate_enabled
  BY NewGateInv DEF VarsTyped, GateInv, NewGate
<1> HIDE DEF g
<1>2. Card(w, muted) = [device |-> Picked(w), muted |-> muted, threshold |-> gate_threshold, gate |-> g]
  BY DEF Card, g
<1>. QED
  BY <1>1, <1>2, PickedIsThere DEF VarsTyped, Cards

\* The invariant contains the type invariant: a box shows a device or the
\* system's default.
LEMMA InvGivesTypes == Inv => TypeOK
<1> SUFFICES ASSUME Inv
             PROVE  TypeOK
  OBVIOUS
<1>1. shown \in [Ends -> Devices \cup {None}]
  <2>1. CASE listed = None
    BY <2>1 DEF Inv, ListInv
  <2>2. CASE listed # None
    BY <2>2 DEF Inv, ListInv, Line
  <2>. QED
    BY <2>1, <2>2
<1>2. card # None => /\ card \in Cards
                     /\ Len(card.gate.queue) <= LookAhead
                     /\ card.gate.flush <= LookAhead + 1
  BY DEF Inv, CardInv, AsSet, Cards, GateInv
<1>. QED
  BY <1>1, <1>2 DEF Inv, VarsTyped, SavedInv, ListInv, TypeOK

\* When the program starts there is no card and no list.
LEMMA InvInit == Init => Inv
<1> SUFFICES ASSUME Init
             PROVE  Inv
  OBVIOUS
<1>1. /\ plugged \in [Ends -> SUBSET Devices]
      /\ \A e \in Ends : Fixed \in plugged[e]
  BY DEF Init
<1>2. Fixed \in Devices
  BY <1>1 DEF Ends
<1>. QED
  BY <1>1, <1>2 DEF Init, Inv, VarsTyped, SavedInv, ListInv, CardInv

\* The card that a choice or a change of the devices opens is as the old one was
\* set, and the list is not touched.
LEMMA OpenedInv ==
    ASSUME VarsTyped, VarsTyped', listed' # None,
           NEW w \in [Ends -> Devices \cup {None}], NEW muted \in BOOLEAN, Open(w, muted),
           muted = box, w = wanted', UNCHANGED <<plugged, gate_enabled, gate_threshold>>
    PROVE  CardInv' /\ OnDevices(card)'
<1>1. AsSet(card)'
  <2>1. card' = Card(w, muted) /\ box' = box
    BY DEF Open
  <2>. QED
    BY <2>1, NewCardInv DEF AsSet
<1>2. OnDevices(card)'
  <2>1. card'.device = Picked(w)
    BY NewCardInv DEF Open
  <2>. QED
    BY <2>1, PickedIsThere DEF OnDevices
<1>. QED
  BY <1>1, <1>2, NoneAssumption DEF CardInv, AsSet

\* Without a card there is nothing to say of it.
LEMMA ClosedInv == Close => CardInv'
BY DEF Close, CardInv

\* A card that only changes in what is set stays where it is.
LEMMA KeptInv ==
    ASSUME CardInv, AsSet(card)', card # None, card'.device = card.device,
           UNCHANGED <<listed, news, plugged, wanted>>
    PROVE  CardInv'
BY NoneAssumption DEF CardInv, AsSet, OnDevices

\* set_devices: on the new choice or back on the old one, or out of the call.
LEMMA SetDevicesInv ==
    ASSUME Inv, VarsTyped', listed # None,
           NEW w \in [Ends -> Devices \cup {None}], SetDevices(w),
           UNCHANGED <<plugged, gate_enabled, gate_threshold, listed, news>>
    PROVE  CardInv'
<1> USE DEF Inv
<1>1. CASE card = None
  BY <1>1 DEF SetDevices, CardInv
<1>2. CASE card # None /\ w = wanted
  BY <1>2 DEF SetDevices, CardInv, AsSet, OnDevices
<1>3. CASE card # None /\ w # wanted /\ Openable(w)
  <2>1. wanted' = w /\ Open(w, card.muted) /\ card.muted = box /\ card.muted \in BOOLEAN
    BY <1>3 DEF SetDevices, CardInv, AsSet, VarsTyped
  <2>. QED
    BY <2>1, OpenedInv
<1>4. CASE card # None /\ w # wanted /\ ~Openable(w)
  <2>1. wanted' = wanted /\ Return(wanted) /\ card.muted = box /\ card.muted \in BOOLEAN
    BY <1>4 DEF SetDevices, CardInv, AsSet, VarsTyped
  <2>2. CASE Openable(wanted)
    <3>1. Open(wanted, card.muted)
      BY <2>1, <2>2 DEF Return
    <3>. QED
      BY <2>1, <3>1, OpenedInv DEF VarsTyped
  <2>3. CASE ~Openable(wanted)
    BY <2>1, <2>3, ClosedInv DEF Return
  <2>. QED
    BY <2>2, <2>3
<1>. QED
  BY <1>1, <1>2, <1>3, <1>4

-------------------------------------------------------------------------------
(* The steps *)

\* Every step keeps the invariant.
LEMMA InvStep == Inv /\ [Next]_vars => Inv'
<1> SUFFICES ASSUME Inv, [Next]_vars
             PROVE  Inv'
  OBVIOUS
<1>t. VarsTyped /\ SavedInv /\ ListInv /\ CardInv
  BY DEF Inv
<1> USE <1>t DEF systemVars, gateVars, listVars
<1>1. CASE ShowDevices
  <2>1. VarsTyped' /\ SavedInv'
    BY <1>1 DEF ShowDevices, VarsTyped, SavedInv
  <2>2. ListInv'
    BY <1>1, NoneAssumption DEF ShowDevices, FillBoxes, VarsTyped, ListInv
  <2>3. CardInv'
    BY <1>1 DEF ShowDevices, CardInv
  <2>. QED
    BY <2>1, <2>2, <2>3 DEF Inv
<1>2. CASE Join
  <2>1. VarsTyped' /\ SavedInv'
    BY <1>2 DEF Join, Open, VarsTyped, SavedInv
  <2>2. listed' # None /\ ListInv'
    BY <1>2, NoneAssumption DEF Join, FillBoxes, VarsTyped, ListInv
  <2>3. card' = Card(wanted, FALSE) /\ UNCHANGED <<plugged, wanted, gate_enabled, gate_threshold, box>>
    BY <1>2 DEF Join, Open
  <2>4. box = FALSE /\ wanted \in [Ends -> Devices \cup {None}]
    BY <1>2 DEF Join, CardInv, VarsTyped
  <2>5. AsSet(card)'
    BY <2>3, <2>4, NewCardInv DEF AsSet
  <2>6. OnDevices(card)'
    BY <2>3, <2>4, NewCardInv, PickedIsThere DEF OnDevices
  <2>. QED
    BY <2>1, <2>2, <2>3, <2>4, <2>5, <2>6 DEF Inv, CardInv
<1>3. CASE Leave
  BY <1>3 DEF Leave, Close, Inv, VarsTyped, SavedInv, ListInv, CardInv
<1>4. CASE Refresh
  <2>1. VarsTyped' /\ SavedInv'
    BY <1>4 DEF Refresh, Open, Close, VarsTyped, SavedInv
  <2>2. listed' # None /\ ListInv'
    BY <1>4, NoneAssumption DEF Refresh, VarsTyped, ListInv
  <2>3. CASE card # None /\ Misplaced(card)
    <3>1. /\ wanted \in [Ends -> Devices \cup {None}] /\ card.muted = box /\ box \in BOOLEAN
          /\ listed # None
          /\ UNCHANGED <<plugged, wanted, gate_enabled, gate_threshold>>
      BY <1>4, <2>3 DEF Refresh, VarsTyped, CardInv, AsSet
    <3>2. CASE Openable(wanted)
      <4>1. Open(wanted, card.muted)
        BY <1>4, <2>3, <3>2 DEF Refresh
      <4>. QED
        BY <2>1, <2>2, <3>1, <4>1, OpenedInv DEF Inv
    <3>3. CASE ~Openable(wanted)
      BY <1>4, <2>1, <2>2, <2>3, <3>3, ClosedInv DEF Refresh, Inv
    <3>. QED
      BY <3>2, <3>3
  <2>4. CASE card # None /\ ~Misplaced(card)
    <3>1. OnDevices(card) /\ card' = card /\ box' = box /\ plugged' = plugged /\ wanted' = wanted
      BY <1>4, <2>4 DEF Refresh, Misplaced, OnDevices
    <3>2. AsSet(card)' /\ OnDevices(card)'
      BY <1>4, <2>4, <3>1 DEF Refresh, CardInv, AsSet, OnDevices
    <3>. QED
      BY <2>1, <2>2, <2>4, <3>1, <3>2 DEF Inv, CardInv
  <2>5. CASE card = None
    BY <1>4, <2>1, <2>2, <2>5 DEF Refresh, Inv, CardInv
  <2>. QED
    BY <2>3, <2>4, <2>5
<1>5. CASE ToggleMute
  <2>1. VarsTyped' /\ SavedInv' /\ ListInv'
    BY <1>5 DEF ToggleMute, VarsTyped, SavedInv, ListInv
  <2>2. card # None /\ card \in Cards /\ card' = [card EXCEPT !.muted = ~box]
    BY <1>5 DEF ToggleMute, CardInv, AsSet
  <2>3. /\ card' \in Cards /\ card'.muted = ~box /\ card'.device = card.device
        /\ card'.gate = card.gate /\ card'.threshold = card.threshold
    BY <2>2 DEF VarsTyped, Cards
  <2>4. AsSet(card)'
    BY <1>5, <2>2, <2>3 DEF ToggleMute, CardInv, AsSet
  <2>. QED
    BY <1>5, <2>1, <2>2, <2>3, <2>4, KeptInv, NoneAssumption DEF ToggleMute, Inv
<1>6. CASE ToggleGate
  <2>1. VarsTyped' /\ SavedInv' /\ ListInv'
    BY <1>6 DEF ToggleGate, SaveGate, VarsTyped, SavedInv, ListInv
  <2>2. CASE card = None
    BY <1>6, <2>1, <2>2 DEF ToggleGate, Inv, CardInv
  <2>3. CASE card # None
    <3> DEFINE g == [card.gate EXCEPT !.enabled = ~gate_enabled]
    <3>1. card \in Cards /\ GateInv(card.gate) /\ card' = [card EXCEPT !.gate = g]
      BY <1>6, <2>3 DEF ToggleGate, CardInv, AsSet, Cards
    <3>2. /\ g \in Gates /\ g.queue = card.gate.queue /\ g.open = card.gate.open
          /\ g.hold = card.gate.hold /\ g.flush = card.gate.flush /\ g.enabled = ~gate_enabled
      BY <3>1 DEF VarsTyped, Cards, Gates
    <3> HIDE DEF g
    <3>3. GateInv(g)
      BY <3>1, <3>2 DEF GateInv
    <3>4. /\ card' \in Cards /\ card'.muted = card.muted /\ card'.device = card.device
          /\ card'.gate = g /\ card'.threshold = card.threshold
      BY <3>1, <3>2 DEF Cards
    <3>5. AsSet(card)'
      BY <1>6, <2>3, <3>2, <3>3, <3>4 DEF ToggleGate, CardInv, AsSet
    <3>. QED
      BY <1>6, <2>1, <2>3, <3>4, <3>5, KeptInv DEF ToggleGate, Inv
  <2>. QED
    BY <2>2, <2>3
<1>7. ASSUME NEW t \in {0, Threshold}, SetThreshold(t)
      PROVE  Inv'
  <2>1. VarsTyped' /\ SavedInv' /\ ListInv'
    BY <1>7 DEF SetThreshold, SaveGate, VarsTyped, SavedInv, ListInv
  <2>2. CASE card = None
    BY <1>7, <2>1, <2>2 DEF SetThreshold, Inv, CardInv
  <2>3. CASE card # None /\ t = 0
    <3>1. AsSet(card)'
      BY <1>7, <2>3 DEF SetThreshold, CardInv, AsSet
    <3>. QED
      BY <1>7, <2>1, <2>3, <3>1, KeptInv DEF SetThreshold, Inv
  <2>4. CASE card # None /\ t # 0
    <3>1. card \in Cards /\ card' = [card EXCEPT !.threshold = t]
      BY <1>7, <2>4 DEF SetThreshold, CardInv, AsSet
    <3>2. /\ card' \in Cards /\ card'.muted = card.muted /\ card'.device = card.device
          /\ card'.gate = card.gate /\ card'.threshold = t
      BY <3>1 DEF Cards
    <3>3. AsSet(card)'
      BY <1>7, <2>4, <3>2 DEF SetThreshold, CardInv, AsSet
    <3>. QED
      BY <1>7, <2>1, <2>4, <3>2, <3>3, KeptInv DEF SetThreshold, Inv
  <2>. QED
    BY <2>2, <2>3, <2>4
<1>8. CASE Restart
  <2>1. wanted' = wanted /\ gate_enabled' = gate_enabled /\ gate_threshold' = gate_threshold
    BY <1>8 DEF Restart, LoadDevices, LoadGate, SavedInv
  <2>2. VarsTyped' /\ SavedInv'
    BY <1>8, <2>1 DEF Restart, Close, VarsTyped, SavedInv
  <2>3. ListInv' /\ CardInv'
    BY <1>8 DEF Restart, Close, ListInv, CardInv
  <2>. QED
    BY <2>2, <2>3 DEF Inv
<1>9. ASSUME NEW e \in Ends, NEW d \in Devices, Plug(e, d) \/ Unplug(e, d)
      PROVE  Inv'
  <2>1. plugged' \in [Ends -> SUBSET Devices] /\ default' \in [Ends -> Devices]
    BY <1>9 DEF Plug, Unplug, VarsTyped
  <2>2. \A f \in Ends : Fixed \in plugged'[f] /\ default'[f] \in plugged'[f]
    BY <1>9 DEF Plug, Unplug, VarsTyped
  <2>3. news' = (listed # None) /\ UNCHANGED <<wanted, gateVars, card, box, listVars, saved>>
    BY <1>9 DEF Plug, Unplug
  <2>4. VarsTyped' /\ SavedInv'
    BY <2>1, <2>2, <2>3 DEF VarsTyped, SavedInv
  <2>5. ListInv'
    BY <2>3 DEF ListInv
  <2>6. CardInv'
    BY <2>3 DEF CardInv, AsSet
  <2>. QED
    BY <2>4, <2>5, <2>6 DEF Inv
<1>10. ASSUME NEW e \in Ends, NEW d \in Devices \cup {None}, ChooseDevice(e, d)
       PROVE  Inv'
  <2> DEFINE w == [wanted EXCEPT ![e] = d]
  <2>1. w \in [Ends -> Devices \cup {None}]
    BY <1>10 DEF VarsTyped
  <2>2. /\ SetDevices(w) /\ listed # None
        /\ UNCHANGED <<plugged, default, gate_enabled, gate_threshold, listed, news>>
        /\ shown' = Line(listed, wanted') /\ saved' = [saved EXCEPT !.device = wanted']
    BY <1>10 DEF ChooseDevice, SaveDevices
  <2> HIDE DEF w
  <2>3. wanted' \in {w, wanted} /\ box' \in BOOLEAN
    BY <2>2 DEF SetDevices, Return, Open, Close, VarsTyped
  <2>4. VarsTyped' /\ SavedInv'
    BY <2>1, <2>2, <2>3 DEF VarsTyped, SavedInv
  <2>5. ListInv'
    BY <2>2 DEF ListInv
  <2>6. CardInv'
    BY <2>1, <2>2, <2>4, SetDevicesInv
  <2>. QED
    BY <2>4, <2>5, <2>6 DEF Inv
<1>11. ASSUME NEW level \in Levels, Microphone(level)
       PROVE  Inv'
  <2>1. VarsTyped' /\ SavedInv' /\ ListInv'
    BY <1>11 DEF Microphone, VarsTyped, SavedInv, ListInv
  <2>2. card # None /\ card \in Cards /\ GateInv(card.gate)
    BY <1>11 DEF Microphone, CardInv, AsSet
  <2>3. CASE card.muted
    BY <1>11, <2>1, <2>2, <2>3 DEF Microphone, Inv, CardInv, AsSet, OnDevices
  <2>4. CASE ~card.muted
    <3> DEFINE g == Gated(level).gate
    <3>1. GateInv(g) /\ g.enabled = card.gate.enabled
      BY <2>2, ProcessInv DEF Gated
    <3>2. card' = [card EXCEPT !.gate = g]
      BY <1>11, <2>4 DEF Microphone
    <3> HIDE DEF g
    <3>3. /\ card' \in Cards /\ card'.muted = card.muted /\ card'.device = card.device
          /\ card'.gate = g /\ card'.threshold = card.threshold
      BY <2>2, <3>1, <3>2 DEF Cards, GateInv
    <3>4. AsSet(card)'
      BY <1>11, <2>2, <3>1, <3>3 DEF Microphone, CardInv, AsSet
    <3>. QED
      BY <1>11, <2>1, <2>2, <3>3, <3>4, KeptInv DEF Microphone, Inv
  <2>. QED
    BY <2>3, <2>4
<1>12. CASE UNCHANGED vars
  BY <1>12 DEF vars, Inv, VarsTyped, SavedInv, ListInv, CardInv, AsSet, OnDevices
<1>. QED
  BY <1>1, <1>2, <1>3, <1>4, <1>5, <1>6, <1>7, <1>8, <1>9, <1>10, <1>11, <1>12 DEF Next

\* The invariant holds all the time.
LEMMA Invariant == Spec => []Inv
BY InvInit, InvStep, PTL DEF Spec

-------------------------------------------------------------------------------
(* The theorems *)

\* Types, and the gate's queue and flush within the look-ahead (voice_gate.py).
THEOREM TypeCorrect == Spec => []TypeOK
BY Invariant, InvGivesTypes, PTL

\* Whatever comes, goes and becomes the default, and in whichever order the
\* window hears of it: once it has, the card is on the devices it should be on.
THEOREM CardStaysInPlace == Spec => []CardInPlace
<1>1. Inv => CardInPlace
  <2> SUFFICES ASSUME Inv, card # None, ~news, NEW e \in Ends
               PROVE  /\ card.device[e] \in plugged[e]
                      /\ wanted[e] \in plugged[e] => card.device[e] = wanted[e]
                      /\ shown[e] # None => card.device[e] = shown[e]
    BY DEF CardInPlace
  <2>1. OnDevices(card) /\ shown = Line(plugged, wanted)
    BY DEF Inv, CardInv, ListInv
  <2>. QED
    BY <2>1 DEF OnDevices, Line
<1>. QED
  BY <1>1, Invariant, PTL

\* Opening the card anew, for any choice or change, loses nothing that is set,
\* and what is saved is what is in use.
THEOREM SettingsAreKept == Spec => []SettingsKept
<1>1. Inv => SettingsKept
  BY DEF Inv, SavedInv, CardInv, AsSet, SettingsKept
<1>. QED
  BY <1>1, Invariant, PTL

\* The gate passes speech and its onset whole, for every look-ahead that is not
\* longer than the hold, whenever it is switched or the card is opened anew.
THEOREM WordsGoOutWhole == Spec => []WordsWhole
<1>1. Inv => WordsWhole
  <2> SUFFICES ASSUME Inv, card # None, NEW level \in Levels,
                      Gated(level).how \in {"faded", "silent"}
               PROVE  /\ ~Gated(level).speech
                      /\ \A i \in 1 .. Len(Gated(level).gate.queue) : ~Gated(level).gate.queue[i]
    BY DEF WordsWhole
  <2>1. ~Gated(level).speech /\ Talk(Gated(level).gate.queue) = {}
    BY ProcessInv DEF Gated, Inv, CardInv, AsSet
  <2>. QED
    BY <2>1 DEF Talk
<1>. QED
  BY <1>1, Invariant, PTL

-------------------------------------------------------------------------------
(* The connection of the window that shows the call *)

(* The inductive invariant *)

\* Connecting again is for the chat page, and goes on for so long only.
PageInv ==
    /\ page = "connect" => ~timer
    /\ page = "chat" => attempt <= Attempts /\ waits <= BusyWaits

\* No client is open or has a listener; none but the controller's has.
Still == \A k \in Ids : listener[k] = "none" /\ sock[k] # "open"
Alone == \A k \in Ids : k # client => listener[k] = "none" /\ sock[k] # "open"

\* The worker is at its attempt; one that only lets the demo users in is not.
Trying == worker # Nobody /\ worker.pc # "launch"

\* While a worker is at it, only the client it has made may have a listener,
\* and the window is told, or waits to connect again, only if that one has ended.
AttemptInv ==
    Trying /\ ~crossed =>
      /\ signals # <<>> \/ timer => worker.pc = "made" /\ sock[client] = "lost"
      /\ worker.pc \in {"server", "client", "connect", "flying"} => Still
      /\ worker.pc \in {"connect", "flying", "made"} => client # Nobody
      /\ worker.pc \in {"flying", "made"} => worker.id = client
      /\ worker.pc = "made" => Alone /\ listener[client] # "none"

\* Without one, a connection that works is the only one, and nothing that is
\* still to be heard speaks against it.
OnlyInv ==
    ~Trying /\ ~crossed =>
      /\ \A k \in Ids : sock[k] = "open" => k = client
      /\ Live => /\ Alone
                 /\ signals = <<>> \/ signals = <<"connected">>
                 /\ signals = <<>> => page = "chat" /\ ~timer

\* The demo users of a session that has ended are closed.
BotInv == bots.open => ~bots.stale

\* The demo users' thread.
Thread == [pc : {"none", "asleep", "flying", "in"},
           stale : BOOLEAN, late : BOOLEAN, open : BOOLEAN]

\* What the window does.
WindowStep ==
    \/ \E m \in Modes : UserConnects(m)
    \/ UserLeaves \/ HandleSignal \/ TryReconnect

\* The whole of it.
LinkInv == LinkTypeOK /\ PageInv /\ AttemptInv /\ OnlyInv /\ BotInv

\* What a cleanup leaves of the sockets: no open one of the controller's, and
\* otherwise only fewer open ones.
LEMMA CleanupCloses ==
    ASSUME LinkTypeOK, Cleanup
    PROVE  /\ client' = Nobody /\ server' = FALSE
           /\ sock' \in [Ids -> {"new", "open", "lost", "closed"}]
           /\ \A k \in Ids : sock'[k] = "open" => sock[k] = "open" /\ k # client
           /\ \A k \in Ids : sock[k] # "open" => sock'[k] = sock[k]
           /\ bots' = [bots EXCEPT !.stale = TRUE, !.open = FALSE]
           /\ bots' \in Thread
BY DEF Cleanup, LinkTypeOK, Thread

\* The queue keeps its type.
LEMMA SignalsType ==
    ASSUME signals \in Seq(Signals)
    PROVE  /\ \A s \in Signals :
                Append(signals, s) \in Seq(Signals) /\ Append(signals, s) # <<>>
           /\ signals # <<>> =>
                Head(signals) \in Signals /\ Tail(signals) \in Seq(Signals)
<1>1. signals # <<>> => Head(signals) \in Signals /\ Tail(signals) \in Seq(Signals)
  BY HeadTailProperties
<1>2. \A s \in Signals :
        Append(signals, s) \in Seq(Signals) /\ Append(signals, s) # <<>>
  BY AppendProperties
<1>. QED
  BY <1>1, <1>2

LEMMA LinkTypeStep == LinkTypeOK /\ PageInv /\ [LinkNext]_linkVars => LinkTypeOK'
<1> SUFFICES ASSUME LinkTypeOK, PageInv, [LinkNext]_linkVars PROVE LinkTypeOK'
  OBVIOUS
<1> USE ConnectionAssumption DEF Thread
<1>0. /\ "connected" \in Signals /\ "failed" \in Signals
      /\ "disconnected" \in Signals
      /\ "disconnected on purpose" \in Signals
  BY DEF Signals
<1>s. /\ \A s \in Signals : Append(signals, s) \in Seq(Signals)
      /\ signals # <<>> => Head(signals) \in Signals /\ Tail(signals) \in Seq(Signals)
  BY SignalsType DEF LinkTypeOK
<1>z. 0 \in 0 .. Attempts + 1 /\ 0 \in 0 .. BusyWaits + 1 /\ 0 \in 0 .. Tries
  OBVIOUS
<1>w. ASSUME NEW m \in Modes
      PROVE  [pc |-> "server", mode |-> m, tries |-> 0, id |-> Nobody] \in Worker
  BY <1>z DEF Worker
<1>g. ASSUME worker # Nobody, NEW pc \in {"server", "client", "connect", "flying", "made", "launch"},
             WorkerGoes(pc)
      PROVE  worker' \in Worker
  BY <1>g DEF WorkerGoes, LinkTypeOK, Worker
<1>1. CASE StartServer
  <2>1. worker' \in Worker
    BY <1>1, <1>g DEF StartServer
  <2>. QED
    BY <1>1, <2>1 DEF StartServer, LinkTypeOK, windowVars, clientVars
<1>f. ASSUME Fail PROVE /\ client' = Nobody /\ server' = FALSE /\ worker' = Nobody
          /\ sock' \in [Ids -> {"new", "open", "lost", "closed"}]
          /\ bots' \in Thread
          /\ signals' \in Seq(Signals) /\ UNCHANGED <<intentional, listener>>
  BY <1>f, <1>0, <1>s, CleanupCloses DEF Fail, Send
<1>2. CASE PortTaken
  BY <1>2, <1>f DEF PortTaken, LinkTypeOK, windowVars
<1>3. CASE MakeClient
  <2>1. client' \in Ids
    BY <1>3 DEF MakeClient
  <2>. QED
    BY <1>3, <2>1 DEF MakeClient, WorkerGoes, LinkTypeOK, Worker,
       windowVars
<1>4. CASE BeginConnect
  <2>1. worker' \in Worker
    BY <1>4 DEF BeginConnect, LinkTypeOK, Worker
  <2>. QED
    BY <1>4, <2>1 DEF BeginConnect, LinkTypeOK, windowVars, clientVars
<1>5. CASE ConnectFails
  <2>1. CASE worker.mode = "Host" /\ worker.tries + 1 < Tries
    <3>1. worker # Nobody /\ worker' = [worker EXCEPT !.pc = "connect", !.tries = @ + 1]
      BY <1>5, <2>1 DEF ConnectFails, Retry
    <3>2. worker \in Worker /\ worker.tries + 1 \in 0 .. Tries
      BY <2>1, <3>1 DEF LinkTypeOK, Worker
    <3>3. worker' \in Worker
      BY <3>1, <3>2 DEF Worker
    <3>. QED
      BY <1>5, <2>1, <3>3 DEF ConnectFails, Retry, LinkTypeOK, windowVars,
         clientVars
  <2>2. CASE ~(worker.mode = "Host" /\ worker.tries + 1 < Tries)
    BY <1>5, <1>f, <2>2 DEF ConnectFails, Retry, LinkTypeOK, windowVars
  <2>. QED
    BY <2>1, <2>2
<1>6. CASE Connects
  <2>1. worker' \in Worker
    BY <1>6, <1>g DEF Connects
  <2>. QED
    <3>1. /\ sock' = [sock EXCEPT ![worker.id] = "open"]
          /\ listener' = [listener EXCEPT ![worker.id] = "on"]
      BY <1>6 DEF Connects
    <3>2. /\ sock' \in [Ids -> {"new", "open", "lost", "closed"}]
          /\ listener' \in [Ids -> {"none", "on", "erred"}]
      BY <3>1 DEF LinkTypeOK
    <3>. QED
      BY <1>6, <2>1, <3>2 DEF Connects, LinkTypeOK, windowVars
<1>7. CASE Tell
  <2>1. /\ signals' \in Seq(Signals)
        /\ UNCHANGED <<windowVars, client, server, intentional, bots, clientVars, crossed>>
    BY <1>0, <1>s, <1>7 DEF Tell, Send
  <2>2. worker' \in Worker \cup {Nobody}
    BY <1>7, <1>g DEF Tell
  <2>. QED
    BY <2>1, <2>2 DEF LinkTypeOK, windowVars, clientVars
<1>l. CASE Launch
  <2>1. bots' \in Thread
    BY <1>l DEF Launch, LinkTypeOK
  <2>. QED
    BY <1>l, <2>1 DEF Launch, LinkTypeOK, windowVars, clientVars
<1>8. CASE BotWakes
  BY <1>8 DEF BotWakes, LinkTypeOK, windowVars, clientVars
<1>9. CASE BotConnects
  <2>1. bots' \in Thread
    <3>1. BotEnters \in Thread
      BY DEF BotEnters, LinkTypeOK
    <3>2. [bots EXCEPT !.pc = "none"] \in Thread
      BY DEF LinkTypeOK
    <3>. QED
      BY <1>9, <3>1, <3>2 DEF BotConnects
  <2>. QED
    BY <1>9, <2>1 DEF BotConnects, LinkTypeOK, windowVars, clientVars
<1>10. CASE BotSpeaks
  BY <1>10 DEF BotSpeaks, LinkTypeOK, windowVars, clientVars
<1>11. ASSUME NEW k \in Ids, Lost(k) PROVE LinkTypeOK'
  BY <1>11 DEF Lost, LinkTypeOK, windowVars, controllerVars
<1>12. ASSUME NEW k \in Ids, ListenerErrs(k) PROVE LinkTypeOK'
  <2>1. /\ signals' \in Seq(Signals)
        /\ UNCHANGED <<windowVars, controllerVars>>
        /\ UNCHANGED <<sock, crossed>>
    BY <1>0, <1>s, <1>12 DEF ListenerErrs, Send
  <2>2. listener' \in [Ids -> {"none", "on", "erred"}]
    BY <1>12 DEF ListenerErrs, LinkTypeOK
  <2>. QED
    BY <2>1, <2>2 DEF LinkTypeOK, windowVars, controllerVars
<1>13. ASSUME NEW k \in Ids, ListenerEnds(k) PROVE LinkTypeOK'
  <2>1. signals' \in Seq(Signals) /\ UNCHANGED <<windowVars, controllerVars, sock>>
    BY <1>0, <1>s, <1>13 DEF ListenerEnds, Send
  <2>2. listener' \in [Ids -> {"none", "on", "erred"}] /\ crossed' \in BOOLEAN
    BY <1>13 DEF ListenerEnds, LinkTypeOK
  <2>. QED
    BY <2>1, <2>2 DEF LinkTypeOK, windowVars, controllerVars
<1>14. ASSUME NEW m \in Modes, UserConnects(m) PROVE LinkTypeOK'
  <2>1. worker' \in Worker \cup {Nobody} /\ intentional' \in BOOLEAN
    BY <1>14, <1>w DEF UserConnects, Start, LinkTypeOK
  <2>. QED
    BY <1>14, <1>z, <2>1 DEF UserConnects, SetBusy, LinkTypeOK, clientVars
<1>r. ASSUME ReturnToConnectPage
      PROVE  /\ client' = Nobody /\ server' = FALSE /\ timer' = FALSE /\ page' = "connect"
             /\ ui_busy' = FALSE /\ intentional' = TRUE /\ crossed' \in BOOLEAN
             /\ sock' \in [Ids -> {"new", "open", "lost", "closed"}]
             /\ bots' \in Thread
  BY <1>r, CleanupCloses DEF ReturnToConnectPage, Disconnect, SetBusy,
     LinkTypeOK
<1>15. CASE UserLeaves
  BY <1>15, <1>r DEF UserLeaves, LinkTypeOK
<1>h. ASSUME Schedule, page = "chat"
      PROVE  /\ client' \in Ids \cup {Nobody} /\ server' \in BOOLEAN /\ timer' \in BOOLEAN
             /\ page' \in {"connect", "chat"} /\ attempt' \in 0 .. Attempts + 1
             /\ ui_busy' \in BOOLEAN /\ intentional' \in BOOLEAN /\ crossed' \in BOOLEAN
             /\ sock' \in [Ids -> {"new", "open", "lost", "closed"}]
             /\ bots' \in Thread
  <2>1. CASE timer
    BY <1>h, <2>1 DEF Schedule, LinkTypeOK
  <2>2. CASE ~timer
    <3>1. attempt' = attempt + 1 /\ attempt <= Attempts
      BY <1>h, <2>2 DEF Schedule, PageInv
    <3>2. CASE attempt + 1 > Attempts
      BY <1>h, <1>r, <2>2, <3>1, <3>2 DEF Schedule, LinkTypeOK
    <3>3. CASE ~(attempt + 1 > Attempts)
      BY <1>h, <2>2, <3>1, <3>3 DEF Schedule, LinkTypeOK
    <3>. QED
      BY <3>2, <3>3
  <2>. QED
    BY <2>1, <2>2
<1>16. CASE HandleSignal
  <2>1. signals' \in Seq(Signals) /\ UNCHANGED <<mode, worker, listener>>
    BY <1>s, <1>16 DEF HandleSignal
  <2>2. CASE OnConnected
    BY <1>z, <2>1, <2>2 DEF OnConnected, SetBusy, LinkTypeOK
  <2>3. CASE Schedule /\ page = "chat" /\ UNCHANGED waits
    BY <1>h, <2>1, <2>3 DEF LinkTypeOK
  <2>4. CASE OnConnectFailed /\ page # "chat"
    BY <2>1, <2>4 DEF OnConnectFailed, SetBusy, LinkTypeOK
  <2>5. CASE UNCHANGED <<page, ui_busy, attempt, waits, timer, client, server, intentional,
                         bots, sock, crossed>>
    BY <2>1, <2>5 DEF LinkTypeOK
  <2>. QED
    BY <1>16, <2>2, <2>3, <2>4, <2>5 DEF HandleSignal, OnConnectFailed,
       OnDisconnected
<1>17. CASE TryReconnect
  <2>1. CASE worker = Nobody
    <3>1. /\ Cleanup /\ Start(mode) /\ waits' = 0 /\ timer' = FALSE
          /\ UNCHANGED <<page, ui_busy, crossed, attempt, mode, signals, listener>>
      BY <1>17, <2>1 DEF TryReconnect
    <3>2. worker' \in Worker /\ intentional' = FALSE
      BY <1>w, <3>1 DEF Start, LinkTypeOK
    <3>. QED
      BY <1>z, <3>1, <3>2, CleanupCloses DEF LinkTypeOK
  <2>2. CASE worker # Nobody
    <3>1. waits <= BusyWaits
      BY <1>17 DEF TryReconnect, PageInv, LinkTypeOK
    <3>2. CASE waits + 1 <= BusyWaits
      BY <1>17, <2>2, <3>1, <3>2 DEF TryReconnect, LinkTypeOK
    <3>3. CASE ~(waits + 1 <= BusyWaits)
      BY <1>17, <1>r, <2>2, <3>1, <3>3 DEF TryReconnect, LinkTypeOK
    <3>. QED
      BY <3>2, <3>3
  <2>. QED
    BY <2>1, <2>2
<1>18. CASE UNCHANGED linkVars
  BY <1>18 DEF linkVars, LinkTypeOK
<1>. QED
  BY <1>1, <1>2, <1>3, <1>4, <1>5, <1>6, <1>7, <1>8, <1>9, <1>10, <1>11, <1>12, <1>13, <1>14,
     <1>15, <1>16, <1>17, <1>18, <1>l DEF LinkNext, WorkerSteps, BotSteps,
     ListenerSteps

\* The window's part of the invariant.
LEMMA PageStep == LinkTypeOK /\ PageInv /\ [LinkNext]_linkVars => PageInv'
<1> SUFFICES ASSUME LinkTypeOK, PageInv, [LinkNext]_linkVars PROVE PageInv'
  OBVIOUS
<1> USE ConnectionAssumption
<1>1. CASE UNCHANGED <<page, attempt, waits, timer>>
  BY <1>1 DEF PageInv
<1>2. ASSUME NEW m \in Modes, UserConnects(m) PROVE PageInv'
  BY <1>2 DEF UserConnects, MayConnect, PageInv
<1>3. CASE page' = "connect" /\ timer' = FALSE
  BY <1>3 DEF PageInv
<1>4. ASSUME ReturnToConnectPage PROVE page' = "connect" /\ timer' = FALSE
  BY <1>4 DEF ReturnToConnectPage
<1>5. CASE HandleSignal
  <2>1. CASE OnConnected
    BY <2>1 DEF OnConnected, PageInv
  <2>2. CASE Schedule /\ page = "chat" /\ UNCHANGED waits
    <3>1. CASE timer
      BY <1>1, <2>2, <3>1 DEF Schedule
    <3>2. CASE ~timer /\ attempt + 1 > Attempts
      BY <1>3, <1>4, <2>2, <3>2 DEF Schedule
    <3>3. CASE ~timer /\ ~(attempt + 1 > Attempts)
      <4>1. page' = page /\ waits' = waits /\ attempt' = attempt + 1
        BY <2>2, <3>3 DEF Schedule
      <4>2. attempt + 1 <= Attempts
        BY <3>3 DEF LinkTypeOK
      <4>. QED
        BY <2>2, <4>1, <4>2 DEF PageInv
    <3>. QED
      BY <3>1, <3>2, <3>3
  <2>3. CASE OnConnectFailed /\ page # "chat"
    BY <1>1, <2>3 DEF OnConnectFailed
  <2>. QED
    BY <1>1, <1>5, <2>1, <2>2, <2>3 DEF HandleSignal, OnConnectFailed,
       OnDisconnected
<1>6. CASE TryReconnect
  <2>1. CASE worker = Nobody
    <3>1. waits' = 0 /\ timer' = FALSE /\ UNCHANGED <<page, attempt>>
      BY <1>6, <2>1 DEF TryReconnect
    <3>. QED
      BY <3>1 DEF PageInv
  <2>2. CASE worker # Nobody /\ waits + 1 <= BusyWaits
    BY <1>6, <2>2 DEF TryReconnect, PageInv
  <2>3. CASE worker # Nobody /\ ~(waits + 1 <= BusyWaits)
    BY <1>3, <1>4, <1>6, <2>3 DEF TryReconnect
  <2>. QED
    BY <2>1, <2>2, <2>3
<1>7. CASE UserLeaves
  BY <1>3, <1>4, <1>7 DEF UserLeaves
<1>8. CASE \/ WorkerSteps \/ BotSteps \/ UNCHANGED linkVars
           \/ \E k \in Ids : Lost(k) \/ ListenerSteps(k)
  <2>1. UNCHANGED windowVars
    BY <1>8 DEF WorkerSteps, StartServer, PortTaken, MakeClient,
       BeginConnect, ConnectFails, Connects, Tell, Launch, BotSteps,
       BotWakes, BotConnects, BotSpeaks, Lost, ListenerSteps,
       ListenerErrs, ListenerEnds, linkVars, windowVars
  <2>. QED
    BY <1>1, <2>1 DEF windowVars
<1>. QED
  BY <1>2, <1>5, <1>6, <1>7, <1>8 DEF LinkNext

\* Whatever closes the session tells the demo users' thread so.
LEMMA BotStep == LinkTypeOK /\ BotInv /\ [LinkNext]_linkVars => BotInv'
<1> SUFFICES ASSUME LinkTypeOK, BotInv, [LinkNext]_linkVars PROVE BotInv'
  OBVIOUS
<1>1. CASE UNCHANGED bots
  BY <1>1 DEF BotInv
<1>2. ASSUME Cleanup PROVE BotInv'
  BY <1>2 DEF Cleanup, BotInv, LinkTypeOK
<1>3. CASE WorkerSteps
  <2>1. CASE Fail
    BY <1>2, <2>1 DEF Fail
  <2>2. CASE Launch
    BY <2>2 DEF Launch, BotInv
  <2>. QED
    BY <1>1, <1>3, <2>1, <2>2 DEF WorkerSteps, StartServer, PortTaken,
       MakeClient, BeginConnect, ConnectFails, Retry, Connects, Tell
<1>4. CASE BotWakes
  BY <1>4 DEF BotWakes, BotInv, LinkTypeOK
<1>5. CASE BotConnects
  <2>1. CASE bots' = BotEnters
    BY <2>1 DEF BotEnters, BotInv, LinkTypeOK
  <2>2. CASE bots' = [bots EXCEPT !.pc = "none"]
    BY <2>2 DEF BotInv, LinkTypeOK
  <2>. QED
    BY <1>5, <2>1, <2>2 DEF BotConnects
<1>6. CASE BotSpeaks
  BY <1>6 DEF BotSpeaks, BotInv, LinkTypeOK
<1>7. CASE \E k \in Ids : Lost(k) \/ ListenerSteps(k)
  BY <1>1, <1>7 DEF Lost, ListenerSteps, ListenerErrs, ListenerEnds,
     controllerVars
<1>8. CASE \E m \in Modes : UserConnects(m)
  BY <1>1, <1>8 DEF UserConnects
<1>9. ASSUME ReturnToConnectPage PROVE BotInv'
  BY <1>2, <1>9 DEF ReturnToConnectPage, Disconnect
<1>10. CASE UserLeaves
  BY <1>9, <1>10 DEF UserLeaves
<1>11. CASE HandleSignal
  BY <1>1, <1>9, <1>11 DEF HandleSignal, OnConnected, OnConnectFailed,
     OnDisconnected, Schedule
<1>12. CASE TryReconnect
  BY <1>1, <1>2, <1>9, <1>12 DEF TryReconnect
<1>13. CASE UNCHANGED linkVars
  BY <1>1, <1>13 DEF linkVars
<1>. QED
  BY <1>3, <1>4, <1>5, <1>6, <1>7, <1>8, <1>10, <1>11, <1>12, <1>13 DEF LinkNext, BotSteps

\* Before anybody starts a worker all is quiet: there is no connection, and no
\* listener that has not ended.
LEMMA QuietBeforeStart ==
    ASSUME LinkTypeOK, PageInv, OnlyInv, worker = Nobody, ~crossed,
           Prompt, page = "connect" \/ timer,
           page = "connect" => ~timer
    PROVE  ~Live /\ Still /\ signals = <<>>
<1>1. signals = <<>>
  BY DEF Prompt
<1>2. ~Live
  <2>1. <<"connected">> # <<>>
    OBVIOUS
  <2>. QED
    BY <1>1, <2>1 DEF OnlyInv, Trying
<1>3. \A k \in Ids : sock[k] # "open"
  BY <1>2, ConnectionAssumption DEF OnlyInv, Live, Trying
<1>4. \A k \in Ids : listener[k] = "none"
  BY <1>3 DEF Prompt, Ending
<1>. QED
  BY <1>1, <1>2, <1>3, <1>4 DEF Still

\* A connection that works is given up by the user only.
LEMMA LiveKeptStep ==
    ASSUME LinkTypeOK, PageInv, AttemptInv, OnlyInv,
           LinkNext, Live, ~crossed, client' # client
    PROVE  UserLeaves
<1> USE ConnectionAssumption DEF Trying
<1>0. client \in Ids /\ sock[client] = "open"
  BY DEF Live, LinkTypeOK
<1>1. Trying => worker.pc = "made" /\ ~timer /\ signals = <<>>
  BY <1>0 DEF AttemptInv, Still, LinkTypeOK, Worker
<1>2. ~Trying => \/ signals = <<"connected">>
                 \/ signals = <<>> /\ page = "chat" /\ ~timer
  BY DEF OnlyInv
<1>3. ~WorkerSteps
  <2>1. client # Nobody
    BY DEF Live
  <2>. QED
    BY <1>1, <2>1 DEF WorkerSteps, StartServer, PortTaken, MakeClient,
       BeginConnect, ConnectFails, Connects, Tell, Launch
<1>4. ~BotSteps /\ ~\E k \in Ids : Lost(k) \/ ListenerSteps(k)
  BY DEF BotSteps, BotWakes, BotConnects, BotSpeaks, Lost,
     ListenerSteps, ListenerErrs, ListenerEnds, controllerVars
<1>5. ~\E m \in Modes : UserConnects(m)
  BY DEF UserConnects
<1>6. ~TryReconnect
  <2>1. <<"connected">> # <<>>
    OBVIOUS
  <2>. QED
    BY <1>1, <1>2, <2>1 DEF TryReconnect, Prompt
<1>7. ~HandleSignal
  <2>1. SUFFICES ASSUME HandleSignal PROVE FALSE
    OBVIOUS
  <2>2. signals = <<"connected">>
    BY <1>1, <1>2, <2>1 DEF HandleSignal
  <2>3. Head(signals) = "connected"
    BY <2>2
  <2>. QED
    BY <2>1, <2>3 DEF HandleSignal, OnConnected
<1>. QED
  BY <1>3, <1>4, <1>5, <1>6, <1>7 DEF LinkNext

\* Going back to the connect page crosses nobody when no worker is at it, and
\* then no connection is left.
LEMMA ReturnStep ==
    ASSUME LinkTypeOK, AttemptInv, OnlyInv, ReturnToConnectPage, ~crossed', UNCHANGED worker
    PROVE  worker = Nobody /\ \A k \in Ids : sock'[k] # "open"
<1> USE ConnectionAssumption DEF Trying
<1>1. worker = Nobody /\ ~crossed
  BY DEF ReturnToConnectPage, LinkTypeOK
<1>2. \A k \in Ids : sock[k] = "open" => k = client
  BY <1>1 DEF OnlyInv
<1>3. Cleanup
  BY DEF ReturnToConnectPage, Disconnect
<1>. QED
  BY <1>1, <1>2, <1>3, CleanupCloses

\* The worker: each of its steps finds no other connection than its own.
LEMMA WorkerKeeps ==
    ASSUME LinkTypeOK, LinkTypeOK', AttemptInv, OnlyInv, WorkerSteps
    PROVE  AttemptInv' /\ OnlyInv'
<1> USE ConnectionAssumption DEF Trying
<1>0. worker # Nobody /\ worker \in Worker /\ crossed' = crossed /\ UNCHANGED <<page, timer>>
  BY DEF WorkerSteps, StartServer, PortTaken, MakeClient, BeginConnect,
     ConnectFails, Connects, Tell, Launch, LinkTypeOK, windowVars
<1>1. CASE crossed
  BY <1>0, <1>1 DEF AttemptInv, OnlyInv
<1> SUFFICES ASSUME ~crossed PROVE AttemptInv' /\ OnlyInv'
  BY <1>1
<1>s. ASSUME Still PROVE \A k \in Ids : sock[k] # "open" /\ listener[k] = "none"
  BY <1>s DEF Still
<1>f. ASSUME Fail, \A k \in Ids : sock[k] = "open" => k = client
      PROVE  AttemptInv' /\ OnlyInv'
  <2>1. worker' = Nobody /\ client' = Nobody /\ \A k \in Ids : sock'[k] # "open"
    BY <1>f, CleanupCloses DEF Fail
  <2>. QED
    BY <2>1 DEF AttemptInv, OnlyInv, Live
<1>2. CASE StartServer
  <2>1. /\ worker.pc = "server" /\ worker'.pc = "client" /\ worker' \in Worker
        /\ UNCHANGED <<signals, timer, client, sock, listener, crossed>>
    BY <1>0, <1>2 DEF StartServer, WorkerGoes, windowVars, clientVars,
       Worker
  <2>2. worker' # Nobody
    BY <2>1
  <2>. QED
    BY <1>0, <2>1, <2>2 DEF AttemptInv, OnlyInv, Still
<1>3. CASE PortTaken
  <2>1. Still /\ Fail
    BY <1>0, <1>3 DEF PortTaken, AttemptInv
  <2>. QED
    BY <1>f, <1>s, <2>1
<1>4. CASE MakeClient
  <2>1. /\ worker.pc = "client" /\ worker'.pc = "connect" /\ worker' \in Worker
        /\ UNCHANGED <<signals, timer, listener, crossed>>
        /\ sock' = [sock EXCEPT ![client'] = "new"]
    BY <1>0, <1>4 DEF MakeClient, WorkerGoes, windowVars, Worker
  <2>2. client' \in Ids
    BY <1>4 DEF MakeClient
  <2>3. Still /\ worker' # Nobody
    BY <1>0, <2>1 DEF AttemptInv
  <2>4. Still'
    BY <2>1, <2>3 DEF Still, LinkTypeOK
  <2>. QED
    BY <1>0, <2>1, <2>2, <2>3, <2>4 DEF AttemptInv, OnlyInv
<1>5. CASE BeginConnect
  <2>1. /\ worker.pc = "connect" /\ worker'.pc = "flying" /\ worker'.id = client
        /\ worker' \in Worker
        /\ UNCHANGED <<signals, timer, client, sock, listener, crossed>>
    BY <1>0, <1>5 DEF BeginConnect, windowVars, clientVars, Worker,
       LinkTypeOK
  <2>2. worker' # Nobody
    BY <2>1
  <2>. QED
    BY <1>0, <2>1, <2>2 DEF AttemptInv, OnlyInv, Still
<1>6. CASE ConnectFails
  <2>1. worker.pc = "flying" /\ Still /\ client # Nobody
    BY <1>0, <1>6 DEF ConnectFails, AttemptInv
  <2>2. CASE Fail
    BY <1>f, <1>s, <2>1, <2>2
  <2>3. CASE ~Fail
    <3>1. /\ worker' = [worker EXCEPT !.pc = "connect", !.tries = @ + 1]
          /\ worker.tries + 1 < Tries
          /\ UNCHANGED <<signals, client, server, intentional, bots, clientVars>>
      BY <1>6, <2>3 DEF ConnectFails, Retry
    <3>2. worker'.pc = "connect" /\ worker' \in Worker
      <4>1. worker.tries + 1 \in 0 .. Tries
        BY <1>0, <3>1 DEF Worker
      <4>. QED
        BY <1>0, <3>1, <4>1 DEF Worker
    <3>3. worker' # Nobody
      BY <3>2
    <3>. QED
      BY <3>3, <1>0, <2>1, <3>1, <3>2 DEF AttemptInv, OnlyInv, Still, clientVars
  <2>. QED
    BY <2>2, <2>3
<1>7. CASE Connects
  <2>1. /\ worker.pc = "flying" /\ worker'.pc = "made" /\ worker'.id = worker.id
        /\ worker' \in Worker
        /\ UNCHANGED <<signals, timer, client, crossed>>
        /\ sock' = [sock EXCEPT ![worker.id] = "open"]
        /\ listener' = [listener EXCEPT ![worker.id] = "on"]
    BY <1>0, <1>7 DEF Connects, WorkerGoes, windowVars, Worker
  <2>2. Still /\ worker.id = client /\ client \in Ids /\ signals = <<>> /\ ~timer
    BY <1>0, <2>1 DEF AttemptInv, LinkTypeOK
  <2>3. worker' # Nobody
    BY <2>1
  <2>4. Alone' /\ listener'[client'] = "on"
    BY <2>1, <2>2 DEF Alone, Still, LinkTypeOK
  <2>. QED
    BY <1>0, <2>1, <2>2, <2>3, <2>4 DEF AttemptInv, OnlyInv
<1>8. CASE Tell
  <2>1. /\ worker.pc = "made" /\ ~Trying' /\ client # Nobody
        /\ signals' = Append(signals, "connected")
        /\ UNCHANGED <<client, sock, listener>>
    BY <1>0, <1>8 DEF Tell, Send, WorkerGoes, Worker, clientVars
  <2>2. Alone /\ (sock[client] = "open" => signals = <<>>) /\ client \in Ids
    BY <1>0, <2>1 DEF AttemptInv, LinkTypeOK
  <2>3. \A k \in Ids : sock'[k] = "open" => k = client'
    BY <2>1, <2>2 DEF Alone
  <2>4. ASSUME Live' PROVE Alone' /\ signals' = <<"connected">>
    <3>1. signals = <<>> /\ Alone'
      BY <2>1, <2>2, <2>4 DEF Live, Alone
    <3>2. signals' = <<"connected">>
      BY <2>1, <3>1
    <3>. QED
      BY <3>1, <3>2
  <2>5. <<"connected">> # <<>>
    OBVIOUS
  <2>. QED
    BY <1>0, <2>1, <2>3, <2>4, <2>5 DEF AttemptInv, OnlyInv
<1>9. CASE Launch
  <2>1. ~Trying /\ worker' = Nobody /\ UNCHANGED <<signals, client, sock, listener>>
    BY <1>9 DEF Launch, clientVars
  <2>. QED
    BY <1>0, <2>1 DEF AttemptInv, OnlyInv, Alone, Live
<1>. QED
  BY <1>2, <1>3, <1>4, <1>5, <1>6, <1>7, <1>8, <1>9 DEF WorkerSteps

\* The listeners: those of older connections have ended before an attempt begins.
LEMMA ListenerKeeps ==
    ASSUME LinkTypeOK, LinkTypeOK', AttemptInv, OnlyInv,
           NEW k \in Ids, Lost(k) \/ ListenerSteps(k)
    PROVE  AttemptInv' /\ OnlyInv'
<1> USE ConnectionAssumption DEF Trying
<1>0. UNCHANGED <<worker, client, page, timer>> /\ (crossed => crossed')
  <2>1. UNCHANGED <<worker, client, page, timer>>
    BY DEF Lost, ListenerSteps, ListenerErrs, ListenerEnds, windowVars,
       controllerVars
  <2>2. CASE Lost(k) \/ ListenerErrs(k)
    BY <2>1, <2>2 DEF Lost, ListenerErrs
  <2>3. CASE ListenerEnds(k)
    BY <2>1, <2>3 DEF ListenerEnds
  <2>. QED
    BY <2>2, <2>3 DEF ListenerSteps
<1> SUFFICES ASSUME ~crossed' PROVE AttemptInv' /\ OnlyInv'
  BY DEF AttemptInv, OnlyInv
<1>1. ~crossed
  BY <1>0
\* While a worker is at it, only its own client may lose the connection.
<1>2. ASSUME Trying, sock[k] = "open" \/ listener[k] # "none"
      PROVE  /\ worker.pc = "made" /\ k = client /\ worker.id = k /\ client # Nobody
             /\ Alone /\ listener[client] # "none"
  <2>1. ~Still
    BY <1>2 DEF Still
  <2>2. worker \in Worker
    BY <1>2 DEF LinkTypeOK
  <2>3. worker.pc = "made"
    BY <1>1, <1>2, <2>1, <2>2 DEF AttemptInv, Worker
  <2>. QED
    BY <1>1, <1>2, <2>3 DEF AttemptInv, Alone
<1>3. CASE Lost(k)
  <2>1. /\ sock[k] = "open" /\ sock' = [sock EXCEPT ![k] = "lost"]
        /\ UNCHANGED <<signals, listener>>
    BY <1>3 DEF Lost
  <2>2. CASE Trying
    <3>1. sock'[client] = "lost" /\ Alone'
      BY <1>0, <1>2, <2>1, <2>2 DEF Alone, LinkTypeOK
    <3>. QED
      BY <1>0, <1>2, <2>1, <2>2, <3>1 DEF AttemptInv, OnlyInv
  <2>3. CASE ~Trying
    <3>1. \A j \in Ids : sock[j] = "open" => j = client
      BY <1>1, <2>3 DEF OnlyInv
    <3>2. \A j \in Ids : sock'[j] # "open"
      BY <2>1, <3>1 DEF LinkTypeOK
    <3>. QED
      BY <1>0, <2>3, <3>2 DEF AttemptInv, OnlyInv, Live, LinkTypeOK
  <2>. QED
    BY <2>2, <2>3
\* The others have ended before; the connection's own listener ends with it.
<1>4. ASSUME listener[k] # "none", sock[k] # "open",
             listener' \in [Ids -> {"none", "on", "erred"}],
             UNCHANGED sock, \A j \in Ids : j # k => listener'[j] = listener[j], ~Trying
      PROVE  AttemptInv' /\ OnlyInv'
  <2>1. ~Live
    <3>1. SUFFICES ASSUME Live PROVE FALSE
      OBVIOUS
    <3>2. Alone /\ k # client
      BY <1>1, <1>4, <3>1 DEF OnlyInv, Live
    <3>. QED
      BY <1>4, <3>2 DEF Alone
  <2>2. ~Live'
    BY <1>0, <1>4, <2>1 DEF Live
  <2>. QED
    BY <1>0, <1>1, <1>4, <2>2 DEF AttemptInv, OnlyInv
<1>5. CASE ListenerErrs(k)
  <2>1. /\ listener[k] = "on" /\ sock[k] = "lost"
        /\ listener' = [listener EXCEPT ![k] = "erred"]
        /\ UNCHANGED sock
    BY <1>5 DEF ListenerErrs
  <2>2. CASE Trying
    <3>1. Alone' /\ listener'[client] # "none" /\ sock'[client] = "lost"
      BY <1>0, <1>2, <2>1, <2>2 DEF Alone, LinkTypeOK
    <3>. QED
      BY <1>0, <1>2, <2>1, <2>2, <3>1 DEF AttemptInv, OnlyInv
  <2>. QED
    BY <1>4, <2>1, <2>2 DEF LinkTypeOK
<1>6. CASE ListenerEnds(k)
  <2>1. /\ listener[k] # "none" /\ sock[k] # "open"
        /\ listener' = [listener EXCEPT ![k] = "none"]
        /\ UNCHANGED sock
        /\ crossed' = (crossed \/ (worker # Nobody /\ worker.id = k))
    BY <1>6 DEF ListenerEnds, Ending
  <2>2. ~Trying
    BY <1>2, <2>1
  <2>. QED
    BY <1>4, <2>1, <2>2 DEF LinkTypeOK
<1>. QED
  BY <1>3, <1>5, <1>6 DEF ListenerSteps

\* The window: whoever starts, is back on the connect page, or hears of a working
\* connection finds the rest as an attempt, or a connection, needs it.
LEMMA WindowKeeps ==
    ASSUME LinkTypeOK, LinkTypeOK', PageInv, AttemptInv, OnlyInv,
           WindowStep
    PROVE  AttemptInv' /\ OnlyInv'
<1> USE ConnectionAssumption DEF Trying
<1>0. UNCHANGED listener /\ (crossed => crossed')
  BY DEF WindowStep, UserConnects, clientVars, UserLeaves, HandleSignal,
     TryReconnect, ReturnToConnectPage, OnConnected, OnConnectFailed,
     OnDisconnected, Schedule
<1> SUFFICES ASSUME ~crossed' PROVE AttemptInv' /\ OnlyInv'
  BY DEF AttemptInv, OnlyInv
<1>1. ~crossed
  BY <1>0
\* Back on the connect page all connections are closed.
<1>r. ASSUME ReturnToConnectPage, UNCHANGED worker PROVE AttemptInv' /\ OnlyInv'
  BY <1>r, ReturnStep DEF AttemptInv, OnlyInv, Live, LinkTypeOK
\* An attempt starts when all is quiet.
<1>s. ASSUME worker = Nobody, NEW m \in Modes, Start(m), Still, signals' = <<>>, ~timer',
             sock' = sock \/ Cleanup
      PROVE  AttemptInv' /\ OnlyInv'
  <2>1. worker' # Nobody /\ worker'.pc = "server"
    <3>1. worker' = [pc |-> "server", mode |-> m, tries |-> 0, id |-> Nobody] /\ 0 \in 0 .. Tries
      BY <1>s DEF Start
    <3>2. worker' \in Worker
      BY <3>1 DEF Worker
    <3>. QED
      BY <3>1, <3>2
  <2>2. Still'
    BY <1>0, <1>s, CleanupCloses DEF Still
  <2>. QED
    BY <1>s, <2>1, <2>2 DEF AttemptInv, OnlyInv
<1>2. ASSUME NEW m \in Modes, UserConnects(m) PROVE AttemptInv' /\ OnlyInv'
  <2>1. /\ page = "connect" /\ Prompt
        /\ UNCHANGED <<page, timer, signals, client, sock>>
    BY <1>2 DEF UserConnects, MayConnect, clientVars
  <2>2. CASE worker = Nobody
    <3>1. Still /\ signals = <<>> /\ ~timer
      BY <1>1, <2>1, <2>2, QuietBeforeStart DEF PageInv
    <3>. QED
      BY <1>2, <1>s, <2>1, <2>2, <3>1 DEF UserConnects
  <2>3. CASE worker # Nobody
    BY <1>0, <1>1, <1>2, <2>1, <2>3 DEF UserConnects, AttemptInv, OnlyInv, Still, Alone, Live
  <2>. QED
    BY <2>2, <2>3
<1>3. CASE UserLeaves
  BY <1>3, <1>r DEF UserLeaves
<1>4. CASE TryReconnect
  <2>1. CASE worker = Nobody
    <3>1. /\ timer /\ Prompt /\ Cleanup /\ Start(mode)
          /\ ~timer' /\ mode \in Modes
          /\ UNCHANGED signals
      BY <1>4, <2>1 DEF TryReconnect, LinkTypeOK
    <3>2. Still /\ signals = <<>>
      BY <1>1, <2>1, <3>1, QuietBeforeStart DEF PageInv
    <3>. QED
      BY <1>s, <2>1, <3>1, <3>2
  <2>2. CASE worker # Nobody /\ waits + 1 <= BusyWaits
    <3>1. UNCHANGED <<page, timer, client, sock, worker, signals, crossed>>
      BY <1>4, <2>2 DEF TryReconnect
    <3>. QED
      BY <1>0, <1>1, <3>1 DEF AttemptInv, OnlyInv, Still, Alone, Live
  <2>3. CASE worker # Nobody /\ ~(waits + 1 <= BusyWaits)
    BY <1>4, <1>r, <2>3 DEF TryReconnect
  <2>. QED
    BY <2>1, <2>2, <2>3
<1>5. CASE HandleSignal
  <2>0. signals # <<>> /\ signals' = Tail(signals) /\ UNCHANGED worker
    BY <1>5 DEF HandleSignal
  <2>1. CASE ReturnToConnectPage
    BY <1>r, <2>0, <2>1
  <2>2. CASE ~ReturnToConnectPage
    <3>1. UNCHANGED <<client, sock, crossed>>
      BY <1>5, <2>2 DEF HandleSignal, OnConnected, OnConnectFailed,
         OnDisconnected, Schedule
    <3>2. CASE Trying
      BY <1>0, <1>1, <2>0, <3>1, <3>2 DEF AttemptInv, OnlyInv, Still, Alone
    <3>3. CASE ~Trying /\ ~Live
      BY <1>0, <1>1, <2>0, <3>1, <3>3 DEF AttemptInv, OnlyInv, Live
    <3>4. CASE ~Trying /\ Live
      <4>1. signals = <<"connected">> /\ Alone /\ \A k \in Ids : sock[k] = "open" => k = client
        BY <1>1, <2>0, <3>4 DEF OnlyInv
      <4>2. Head(signals) = "connected" /\ Tail(signals) = <<>>
        BY <4>1
      <4>3. page' = "chat" /\ timer' = FALSE /\ signals' = <<>>
        BY <1>5, <2>0, <4>2 DEF HandleSignal, OnConnected
      <4>. QED
        BY <1>0, <2>0, <3>1, <3>4, <4>1, <4>3 DEF AttemptInv, OnlyInv, Alone
    <3>. QED
      BY <3>2, <3>3, <3>4
  <2>. QED
    BY <2>1, <2>2
<1>. QED
  BY <1>2, <1>3, <1>4, <1>5 DEF WindowStep

\* Every step keeps the whole invariant.
LEMMA LinkInvStep == LinkInv /\ [LinkNext]_linkVars => LinkInv'
<1> SUFFICES ASSUME LinkInv, [LinkNext]_linkVars PROVE LinkInv'
  OBVIOUS
<1>1. LinkTypeOK' /\ PageInv' /\ BotInv'
  BY LinkTypeStep, PageStep, BotStep DEF LinkInv
<1>2. AttemptInv' /\ OnlyInv'
  <2>1. CASE WorkerSteps
    BY <1>1, <2>1, WorkerKeeps DEF LinkInv
  <2>2. CASE \E k \in Ids : Lost(k) \/ ListenerSteps(k)
    BY <1>1, <2>2, ListenerKeeps DEF LinkInv
  <2>3. CASE WindowStep
    BY <1>1, <2>3, WindowKeeps DEF LinkInv
  <2>4. CASE BotSteps \/ UNCHANGED linkVars
    <3>1. UNCHANGED <<page, timer, signals, client, worker, sock, listener, crossed>>
      BY <2>4 DEF BotSteps, BotWakes, BotConnects, BotSpeaks,
         windowVars, clientVars, linkVars
    <3>. QED
      BY <3>1 DEF LinkInv, AttemptInv, OnlyInv, Still, Alone, Live, Trying
  <2>. QED
    BY <2>1, <2>2, <2>3, <2>4 DEF LinkNext, WindowStep
<1>. QED
  BY <1>1, <1>2 DEF LinkInv

\* It holds at the start.
LEMMA LinkInvInit == LinkInit => LinkInv
<1> SUFFICES ASSUME LinkInit PROVE LinkInv
  OBVIOUS
<1> USE ConnectionAssumption
<1>1. signals \in Seq(Signals) /\ 0 \in 0 .. Attempts + 1 /\ 0 \in 0 .. BusyWaits + 1
  BY DEF LinkInit
<1>2. LinkTypeOK
  BY <1>1 DEF LinkInit, NoBots, LinkTypeOK
<1>3. AttemptInv /\ OnlyInv
  BY DEF LinkInit, AttemptInv, OnlyInv, Live, Trying
<1>. QED
  BY <1>2, <1>3 DEF LinkInit, NoBots, LinkInv, PageInv, BotInv

\* The inductive invariant always holds.
THEOREM LinkAlways == LinkSpec => []LinkInv
<1>1. LinkInit => LinkInv
  BY LinkInvInit
<1>2. LinkInv /\ [LinkNext]_linkVars => LinkInv'
  BY LinkInvStep
<1>. QED
  BY <1>1, <1>2, PTL DEF LinkSpec

\* The window, the controller, its threads and its clients keep their types,
\* whatever the order of workers, listeners, timer and user (Connection's
\* TypeOK): the chain of attempts stops at RECONNECT_ATTEMPTS, and the wait for a
\* busy worker at MAX_RECONNECT_BUSY_WAITS.
THEOREM ConnectionTypes == LinkSpec => []LinkTypeOK
<1>1. LinkInv => LinkTypeOK
  BY DEF LinkInv
<1>2. LinkSpec => []LinkInv
  BY LinkAlways
<1>. QED
  BY <1>1, <1>2, PTL

\* For any number of clients, attempts and waits: as long as a worker and a
\* listener have not crossed, no connection is open but the controller's, and no
\* demo user goes on when the session its thread read has ended (ui.py, _cleanup,
\* _connect_worker and _launch_demo_clients).
THEOREM NobodyOutlives == LinkSpec => []NoOrphan
<1>1. LinkInv => NoOrphan
  BY DEF LinkInv, OnlyInv, BotInv, NoOrphan, Trying
<1>2. LinkSpec => []LinkInv
  BY LinkAlways
<1>. QED
  BY <1>1, <1>2, PTL

\* A connection that works is given up for the user only: no late word of an
\* older one, no timer and no worker takes it down (ui.py, _on_status,
\* _schedule_reconnect and _try_reconnect).
THEOREM OnlyTheUserLeaves == LinkSpec => LiveKept
<1>1. LinkInv /\ [LinkNext]_linkVars =>
        [Live /\ ~crossed /\ client' # client => UserLeaves]_linkVars
  BY LiveKeptStep DEF LinkInv, linkVars
<1>2. LinkSpec => []LinkInv
  BY LinkAlways
<1>. QED
  BY <1>1, <1>2, PTL DEF LinkSpec, LiveKept
================================================================================
