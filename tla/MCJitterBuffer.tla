--------------------------- MODULE MCJitterBuffer ---------------------------
(* JitterBuffer with its sizes scaled down: target 3, slack 1, a drop every   *)
(* 2 pops, room for 6 frames.                                                 *)
EXTENDS JitterBuffer

=============================================================================
