----------------------------- MODULE MCConnection -----------------------------
(* Connecting and connecting again, for TLC. *)
EXTENDS Connection
===============================================================================
