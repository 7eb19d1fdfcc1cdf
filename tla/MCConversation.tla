---------------------------- MODULE MCConversation ----------------------------
(* What a user sees of a room, for TLC.  The authors are interchangeable and  *)
(* every property here is one of safety, so symmetry is sound.               *)
EXTENDS Conversation, TLC

Alike == Permutations(Authors)

\* What people do is a matter of the lists, what authors do one of the history:
\* with people about there is no history and one move of the viewer; with
\* nobody there are two, where they matter, in a room without a password.
Nobody == \A p \in People : place[p] = Absent /\ run[p] = 0
Bounded ==
    \/ moves <= 1 /\ ~keep_history
    \/ moves <= 1 /\ Nobody
    \/ ~encrypted /\ Nobody
===============================================================================
