------------------------------ MODULE Conveyor ------------------------------
(* What ChunkQueue.hpp promises its threads: chunks come out in the order in *)
(* which they went in, each of them once; whoever asks while there is a      *)
(* chunk does not have to wait for another one; after Close nobody is given  *)
(* a chunk and nobody waits.                                                 *)
EXTENDS Naturals

CONSTANTS Takers

VARIABLES
    put,      \* how many chunks have been put on; chunk i is the i-th of them
    taken,    \* how many have been taken off
    closed,
    asking,   \* the takers that wait for an answer
    got       \* the last answer each taker had; 0 is "no chunk"

cvars == <<put, taken, closed, asking, got>>

ConveyorInit ==
    /\ put = 0
    /\ taken = 0
    /\ closed = FALSE
    /\ asking = {}
    /\ got = [c \in Takers |-> 0]

Put ==
    /\ ~closed
    /\ put' = put + 1
    /\ UNCHANGED <<taken, closed, asking, got>>

Ask(c) ==
    /\ c \notin asking
    /\ asking' = asking \cup {c}
    /\ UNCHANGED <<put, taken, closed, got>>

Take(c) ==
    /\ c \in asking
    /\ ~closed
    /\ taken < put
    /\ taken' = taken + 1
    /\ got' = [got EXCEPT ![c] = taken + 1]
    /\ asking' = asking \ {c}
    /\ UNCHANGED <<put, closed>>

Refuse(c) ==
    /\ c \in asking
    /\ closed
    /\ got' = [got EXCEPT ![c] = 0]
    /\ asking' = asking \ {c}
    /\ UNCHANGED <<put, taken, closed>>

Close ==
    /\ closed' = TRUE
    /\ UNCHANGED <<put, taken, asking, got>>

ConveyorNext ==
    \/ Put
    \/ Close
    \/ \E c \in Takers : Ask(c) \/ Take(c) \/ Refuse(c)

ConveyorSafe == ConveyorInit /\ [][ConveyorNext]_cvars

\* A chunk that is asked for is handed out, and a closed conveyor answers.
ConveyorSpec ==
    /\ ConveyorSafe
    /\ WF_cvars(\E c \in Takers : Take(c))
    /\ \A c \in Takers : WF_cvars(Refuse(c))
=============================================================================
