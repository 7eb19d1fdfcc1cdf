---------------------------- MODULE MCVoiceSession ----------------------------
(* VoiceSession with two talkers, one of whom can return, and a window that  *)
(* is smaller than the number of frames.  Talkers and ids are interchangeable *)
(* and every property here is one of safety, so symmetry is sound.           *)
EXTENDS VoiceSession, TLC

Alike == Permutations(Talkers) \cup Permutations(Ids)
===============================================================================
