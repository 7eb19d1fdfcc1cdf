----------------------------- MODULE MCVoiceAudio -----------------------------
(* The sound card of a call, for TLC: microphones may lack the format. *)
EXTENDS VoiceAudio

MCDoubtful == {"input"} \X Devices
===============================================================================
