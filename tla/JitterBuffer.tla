----------------------------- MODULE JitterBuffer ------------------------------
(***************************************************************************)
(* core/voice_jitter.py: the buffer of one speaker, between a network      *)
(* that delays, reorders and loses frames and a sound card that takes one  *)
(* frame every 20 ms.                                                      *)
(*                                                                         *)
(* The buffer is a record, and a frame is its sequence number.  push runs  *)
(* on the thread that reads datagrams (voice_session.py:243), pop on the   *)
(* one of the interface (voice.py:190), and nothing locks one out of the   *)
(* other: both are taken in steps.  The speaker sends frames 0, 1, 2 ... . *)
(* For the first Storm of them the network and the sound card do as they   *)
(* like; then it is calm, and in every period one frame is sent, arrives   *)
(* and one is asked for, a whole push and then a whole pop.                *)
(***************************************************************************)
EXTENDS Integers, FiniteSets, FiniteSetsExt

CONSTANTS
    Target,     \* target_frames
    Slack,      \* catchup_slack_frames
    Interval,   \* catchup_interval
    Capacity,   \* capacity
    Storm,      \* bound: frames sent before it is calm
    Calm        \* bound: periods watched after that

ASSUME SizeAssumption ==
    /\ Target \in Nat \ {0} /\ Slack \in Nat
    /\ Interval \in Nat \ {0} /\ Capacity \in Nat \ {0}
ASSUME BoundAssumption == Storm \in Nat /\ Calm \in Nat

VARIABLES
    buf,      \* the JitterBuffer
    sent,     \* how many frames the speaker has sent
    flight,   \* those on their way
    pushing,  \* the frame push has let through and not stored yet, if any
    popping,  \* how far pop has come
    overtaken,\* history: frames pop passed between push's test and its store
    calm      \* how many calm periods have passed
network == <<sent, flight>>
vars == <<buf, network, pushing, popping, overtaken, calm>>

Frames == 0 .. Storm + Calm
Buffer == [frames : SUBSET Frames, next : Nat, playing : BOOLEAN,
           catching_up : BOOLEAN, since_drop : 0 .. Interval]


\* A frame that passed the test of being late, and the slot whose turn it was.
Judged == [frame : Frames, turn : Nat]

TypeOK ==
    /\ buf \in Buffer
    /\ sent \in Frames /\ flight \subseteq Frames /\ calm \in 0 .. Calm
    /\ pushing \subseteq Judged /\ \A p, q \in pushing : p = q
    /\ popping \in {"no", "start", "turn", "take"} /\ overtaken \subseteq Frames

\* since_drop counts pops up to Interval, all the code compares it with.
New == [frames |-> {}, next |-> 0, playing |-> FALSE, catching_up |-> FALSE,
        since_drop |-> Interval]

Init ==
    /\ buf = New /\ sent = 0 /\ flight = {} /\ calm = 0
    /\ pushing = {} /\ popping = "no" /\ overtaken = {}

-------------------------------------------------------------------------------
(* push.                                                                   *)

FarFrom(b, s) == b.playing /\ (s - b.next > Capacity \/ b.next - s > Capacity)

\* Mutant of Late: a frame is never too late.
NeverLate(b, s) == FALSE

Late(b, s) == b.playing /\ s < b.next

Full(b) == Cardinality(b.frames) >= Capacity

Restarted(b, s) ==
    [b EXCEPT !.frames = {s}, !.next = s, !.playing = FALSE, !.catching_up = FALSE]

\* A whole push.
Push(b, s) ==
    IF FarFrom(b, s) THEN Restarted(b, s)
    ELSE IF Late(b, s) \/ s \in b.frames \/ Full(b) THEN b
    ELSE [b EXCEPT !.frames = @ \cup {s}]

-------------------------------------------------------------------------------
(* pop.                                                                    *)

Depth(b) ==
    IF b.frames = {} THEN 0
    ELSE Max(b.frames) + 1 - (IF b.playing THEN b.next ELSE Min(b.frames))

\* How many empty slots _skip_missing_head leaves out, with the given depth.
Skipped(b, depth) ==
    IF depth <= Target THEN 0
    ELSE Min({k \in 0 .. depth : b.next + k \in b.frames \/ depth - k <= Target})

\* Mutant of CatchingUp: it does not, as in the first version.
NeverCatchingUp(b) == FALSE

\* Catching up begins above the slack and ends at the target.
CatchingUp(b) ==
    \/ Depth(b) > Target + Slack
    \/ b.catching_up /\ Depth(b) > Target

\* Mutant of MayDrop: the empty slots are not set against the excess.
MayDropAlways(b, depth) == depth > Target /\ b.since_drop >= Interval

\* The head may be dropped: the empty slots do not make up for the excess, and
\* the last drop is Interval pops ago.
MayDrop(b, depth) ==
    /\ depth > Target
    /\ depth - Cardinality(b.frames) < depth - Target
    /\ b.since_drop >= Interval

CatchUp(b) ==
    IF ~CatchingUp(b) THEN [b EXCEPT !.catching_up = FALSE]
    ELSE LET skipped == Skipped(b, Depth(b))
             depth == Depth(b) - skipped
             c == [b EXCEPT !.catching_up = TRUE, !.next = @ + skipped]
             d == [c EXCEPT !.frames = @ \ {c.next}, !.next = @ + 1, !.since_drop = 0]
         IN IF MayDrop(c, depth) THEN [d EXCEPT !.next = @ + Skipped(d, depth - 1)] ELSE c

Underrun(b) == b.playing /\ b.frames = {}
Filling(b) == ~b.playing /\ Cardinality(b.frames) < Target

\* Playback starts with the oldest frame.
Playing(b) == IF b.playing THEN b ELSE [b EXCEPT !.playing = TRUE, !.next = Min(b.frames)]

\* The buffer when it comes to the slot whose turn it is.
AtTurn(b) == CatchUp(Playing(b))

\* The frame whose turn it is, if it is there.
Take(b) ==
    [b EXCEPT !.frames = @ \ {b.next}, !.next = @ + 1,
              !.since_drop = IF @ < Interval THEN @ + 1 ELSE @]

\* A whole pop.
Pop(b) ==
    IF Underrun(b) THEN [b EXCEPT !.playing = FALSE]
    ELSE IF Filling(b) THEN b
    ELSE Take(AtTurn(b))

-------------------------------------------------------------------------------
(* The threads.                                                            *)

Send ==
    /\ sent < Storm /\ calm = 0
    /\ sent' = sent + 1 /\ flight' = flight \cup {sent}
    /\ UNCHANGED <<buf, pushing, popping, overtaken, calm>>

Lose(s) ==
    /\ flight' = flight \ {s}
    /\ UNCHANGED <<buf, sent, pushing, popping, overtaken, calm>>

\* push: starts the stream anew, refuses the frame, or lets it through.
Arrive(s) ==
    /\ pushing = {}
    /\ flight' = flight \ {s}
    /\ \/ FarFrom(buf, s) /\ buf' = Restarted(buf, s) /\ overtaken' = {} /\ UNCHANGED pushing
       \/ ~FarFrom(buf, s) /\ Late(buf, s) /\ UNCHANGED <<buf, overtaken, pushing>>
       \/ /\ ~FarFrom(buf, s) /\ ~Late(buf, s)
          /\ pushing' = {[frame |-> s, turn |-> IF buf.playing THEN buf.next ELSE 0]}
          /\ UNCHANGED <<buf, overtaken>>
    /\ UNCHANGED <<sent, popping, calm>>

\* push, after the test of being late: pop only takes frames out, so a frame
\* that is new and has room at the tests has them when it is stored.
Store ==
    \E p \in pushing :
        /\ pushing' = {}
        /\ IF p.frame \in buf.frames \/ Full(buf) THEN UNCHANGED <<buf, overtaken>>
           ELSE /\ buf' = [buf EXCEPT !.frames = @ \cup {p.frame}]
                /\ overtaken' = IF /\ buf.playing /\ popping # "start"
                                   /\ p.turn <= p.frame /\ p.frame < buf.next
                                THEN overtaken \cup {p.frame} ELSE overtaken
        /\ UNCHANGED <<network, popping, calm>>

\* pop: the buffer has run dry, is filling, plays, or begins to.  Bound: a slot
\* so late that every frame of the storm is far from it is late enough.
Listen ==
    /\ popping = "no" /\ calm = 0 /\ buf.next <= Storm + Capacity + 1
    /\ \/ Underrun(buf) /\ buf' = [buf EXCEPT !.playing = FALSE] /\ UNCHANGED popping
       \/ Filling(buf) /\ UNCHANGED <<buf, popping>>
       \/ buf.playing /\ ~Underrun(buf) /\ popping' = "turn" /\ UNCHANGED buf
       \/ /\ ~buf.playing /\ ~Filling(buf)
          /\ popping' = "start" /\ buf' = [buf EXCEPT !.playing = TRUE]
    /\ UNCHANGED <<network, pushing, overtaken, calm>>

\* pop, playback begins: until here the next slot is that of the stream before.
Align ==
    /\ popping = "start" /\ popping' = "turn"
    /\ buf' = [buf EXCEPT !.next = Min(buf.frames)]
    /\ UNCHANGED <<network, pushing, overtaken, calm>>

\* pop: one round of catching up.
Turn ==
    /\ popping = "turn" /\ popping' = "take" /\ buf' = CatchUp(buf)
    /\ UNCHANGED <<network, pushing, overtaken, calm>>

TakeOne ==
    /\ popping = "take" /\ popping' = "no" /\ buf' = Take(buf)
    /\ UNCHANGED <<network, pushing, overtaken, calm>>

Period ==
    /\ sent >= Storm /\ flight = {} /\ pushing = {} /\ popping = "no" /\ calm < Calm
    /\ buf' = Pop(Push(buf, sent))
    /\ overtaken' = IF FarFrom(buf, sent) THEN {} ELSE overtaken
    /\ sent' = sent + 1 /\ calm' = calm + 1
    /\ UNCHANGED <<flight, pushing, popping>>

Next ==
    \/ Send \/ (\E s \in flight : Arrive(s) \/ Lose(s)) \/ Store
    \/ Listen \/ Align \/ Turn \/ TakeOne
    \/ Period

Spec == Init /\ [][Next]_vars
-------------------------------------------------------------------------------
\* "The frame's turn has passed, it cannot be played" (voice_jitter.py:192):
\* while it plays, the buffer holds no frame older than the next slot.  Such a
\* frame is never taken out, so the buffer is never empty again, and an outage
\* ends in what line 218 means to avoid: every frame is late.
Aligned == buf.playing /\ popping # "start"
NothingBehind == Aligned => \A f \in buf.frames : f >= buf.next

\* The test of being late, the alignment when playback begins, skipping,
\* dropping and starting anew leave no frame behind the next slot, whatever is
\* between them: the only frames behind are those pop passed after push had
\* let them through.  And the buffer never exceeds its capacity.
OnlyOvertakenBehind ==
    /\ Aligned => \A f \in buf.frames : f >= buf.next \/ f \in overtaken
    /\ Cardinality(buf.frames) <= Capacity

\* What accumulated in a delay spike does not stay (voice_jitter.py:38-44):
\* once the network is calm the delay is within the slack, and nothing is
\* dropped any more, as soon as the frames a full buffer holds above the target
\* could be dropped, each Interval pops after the one before, or the last empty
\* slot of a full buffer has come to the head, where it costs no time, and one
\* more pop has seen it.  (Depth is that after the pop, one frame less.)
MeltTime == Max({Interval * (Capacity - Target), Capacity}) + 1
SpikeMelts == calm >= MeltTime => Depth(buf) < Target + Slack /\ ~buf.catching_up

\* Catching up skips and drops only what is above the target: it leaves a full
\* reserve of real frames alone, whatever holes are between them and whatever
\* push stores meanwhile.  Only the frame that is played is taken from it.
Reserve(b) == Cardinality(b.frames)
ReserveKept ==
    buf.playing /\ buf'.playing /\ Reserve(buf) >= Target
        => Reserve(buf)' >= Target - (IF popping = "turn" THEN 0 ELSE 1)
ReserveIsKept == [][ReserveKept]_vars
===============================================================================
