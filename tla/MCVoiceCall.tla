------------------------------ MODULE MCVoiceCall ------------------------------
(* The life of a call, for TLC. *)
EXTENDS VoiceCall
===============================================================================
