------------------------------- MODULE NoiseGate -------------------------------
(***************************************************************************)
(* core/voice_gate.py (NoiseGate): the gate that silences the microphone   *)
(* while nobody speaks.  A frame is handed in, the frame LookAhead earlier *)
(* comes out: whole, faded or as silence.                                  *)
(*                                                                         *)
(* The level of a frame (its RMS) is "loud" at the opening threshold or    *)
(* above, "mid" from the closing threshold on and "soft" below.  Of a      *)
(* frame in the queue only one thing is remembered: whether it is speech,  *)
(* that is, was loud when a working gate judged it.                        *)
(***************************************************************************)
EXTENDS Naturals, Sequences

CONSTANTS LookAhead, HoldFrames, ReleaseFrames

\* lookahead_frames is 2 for the only gate there is, hold_frames 15 and
\* release_frames 3.
ASSUME GateAssumption ==
    /\ LookAhead \in Nat \ {0}
    /\ HoldFrames \in Nat /\ HoldFrames >= LookAhead
    /\ ReleaseFrames \in Nat \ {0}

Levels == {"loud", "mid", "soft"}

Gates == [queue : Seq(BOOLEAN), flush : Nat, open : BOOLEAN, hold : 0 .. HoldFrames,
          release : 0 .. ReleaseFrames, enabled : BOOLEAN]

NewGate(enabled) ==
    [queue |-> <<>>, flush |-> 0, open |-> FALSE, hold |-> 0, release |-> 0,
     enabled |-> enabled]

\* A loud frame: on opening, the frames that wait are to go out as well.
Opened(g) ==
    [g EXCEPT !.flush = IF g.open THEN @ ELSE Len(g.queue) + 1,
              !.open = TRUE, !.hold = HoldFrames, !.release = 0]

\* A bug to be told apart from the code: the gate closes without holding.
LoweredAtOnce(g, level) ==
    IF level = "mid" THEN g ELSE [g EXCEPT !.open = FALSE, !.release = ReleaseFrames]

\* A frame that is not loud while the gate is open.
Lowered(g, level) ==
    IF level = "mid" THEN [g EXCEPT !.hold = HoldFrames]
    ELSE IF g.hold > 0 THEN [g EXCEPT !.hold = @ - 1]
    ELSE [g EXCEPT !.open = FALSE, !.release = ReleaseFrames]

Judged(g, level) ==
    IF ~g.enabled THEN g
    ELSE IF level = "loud" THEN Opened(g)
    ELSE IF g.open THEN Lowered(g, level)
    ELSE g

\* _emit: the frame that leaves, and how.
Emit(g, speech, passthrough) ==
    IF passthrough THEN [gate |-> g, speech |-> speech, how |-> "whole"]
    ELSE IF g.release > 0
    THEN [gate |-> [g EXCEPT !.release = @ - 1], speech |-> speech, how |-> "faded"]
    ELSE [gate |-> g, speech |-> speech, how |-> "silent"]

\* _delayed: the frame joins the queue and the one at its head leaves; while
\* the queue fills, silence that is no frame.
Delayed(g, speech, passthrough) ==
    LET q == Append(g.queue, speech)
        popped == [g EXCEPT !.queue = Tail(q)]
    IN IF Len(q) <= LookAhead
       THEN [gate |-> [g EXCEPT !.queue = q], speech |-> FALSE, how |-> "filling"]
       ELSE IF g.flush > 0
       THEN [gate |-> [popped EXCEPT !.flush = @ - 1], speech |-> Head(q), how |-> "whole"]
       ELSE Emit(popped, Head(q), passthrough)

Process(g, level) ==
    LET judged == Judged(g, level)
    IN Delayed(judged, g.enabled /\ level = "loud", judged.open \/ ~g.enabled)
===============================================================================
