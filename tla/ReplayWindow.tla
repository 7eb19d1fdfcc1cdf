----------------------------- MODULE ReplayWindow -----------------------------
(***************************************************************************)
(* core/voice_crypto.py, ReplayWindow: which sequence numbers of a sender  *)
(* were seen, down to WindowSize behind the highest.  The bitmap _seen is  *)
(* the set of its one bits: bit i stands for number highest - i.  Shifting *)
(* to the left adds to every bit, and the mask keeps the lowest            *)
(* WindowSize of them.                                                     *)
(***************************************************************************)
EXTENDS Integers

CONSTANT WindowSize   \* REPLAY_WINDOW_SIZE

ASSUME WindowAssumption == WindowSize \in Nat \ {0}

Window == [highest : Nat \cup {-1}, seen : SUBSET (0 .. WindowSize - 1)]

NewWindow == [highest |-> -1, seen |-> {}]

\* A bug to be told apart from the code: the boundary is off by one.
RepeatedOneLater(w, n) ==
    /\ n <= w.highest
    /\ \/ w.highest - n > WindowSize
       \/ w.highest - n \in w.seen

\* check() returns False: too old, or its bit is set.
Repeated(w, n) ==
    /\ n <= w.highest
    /\ \/ w.highest - n >= WindowSize
       \/ w.highest - n \in w.seen

\* A jump of the whole window or more leaves no bit, so the branch that
\* rebuilds the bitmap is the mask's doing here; so is that of a first number.
Shifted(w, by) == {i \in 0 .. WindowSize - 1 : i - by \in w.seen}

\* check() returns True: the window with number n marked.
Marked(w, n) ==
    IF n > w.highest
    THEN [highest |-> n, seen |-> {0} \cup Shifted(w, n - w.highest)]
    ELSE [w EXCEPT !.seen = @ \cup {w.highest - n}]
===============================================================================
