------------------------------ MODULE VoiceStream ------------------------------
(***************************************************************************)
(* What a listener of a call promises about those it hears: a stream       *)
(* begins when a sender is taken on and ends when it is dropped or comes   *)
(* back with another salt, and within a stream no frame is opened twice.   *)
(***************************************************************************)
EXTENDS Naturals

CONSTANTS Ids, Salts, Numbers, None

NoneOpened == [n \in Numbers |-> 0]

VARIABLES
    stream,   \* id -> the salt of the stream it is heard with, or None
    opened    \* id -> how often each number was opened since the stream began
streamVars == <<stream, opened>>

StreamTypeOK ==
    /\ stream \in [Ids -> Salts \cup {None}]
    /\ opened \in [Ids -> [Numbers -> {0, 1}]]

StreamInit ==
    /\ stream = [i \in Ids |-> None]
    /\ opened = [i \in Ids |-> NoneOpened]

\* A stream that is running goes on only with its own salt.
Begin(i, s) ==
    /\ stream[i] # s
    /\ stream' = [stream EXCEPT ![i] = s]
    /\ opened' = [opened EXCEPT ![i] = NoneOpened]

End(i) ==
    /\ stream[i] # None
    /\ stream' = [stream EXCEPT ![i] = None]
    /\ opened' = [opened EXCEPT ![i] = NoneOpened]

Hear(i, n) ==
    /\ stream[i] # None
    /\ opened[i][n] = 0
    /\ opened' = [opened EXCEPT ![i][n] = 1]
    /\ UNCHANGED stream

StreamNext ==
    \E i \in Ids : \/ \E s \in Salts : Begin(i, s)
                   \/ End(i)
                   \/ \E n \in Numbers : Hear(i, n)

StreamSpec == StreamInit /\ [][StreamNext]_streamVars
===============================================================================
