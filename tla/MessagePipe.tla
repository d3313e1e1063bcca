---------------------------- MODULE MessagePipe ----------------------------
(* What the websocket promises the two programs at its ends: in each         *)
(* direction messages come out in the order in which they went in, each of   *)
(* them once; while the websocket is open all of them do; and once it is     *)
(* not, what is lost are the last ones.                                      *)
(*                                                                           *)
(* Message i of a direction is the i-th that went in.                        *)
EXTENDS Naturals

VARIABLES
    told, heard,  \* server to client: how many went in, how many came out
    said, got,    \* client to server
    open

pvars == <<told, heard, said, got, open>>

PipeInit ==
    /\ told = 0 /\ heard = 0
    /\ said = 0 /\ got = 0
    /\ open = TRUE

Tell ==
    /\ told' = told + 1
    /\ UNCHANGED <<heard, said, got, open>>

Hear ==
    /\ heard < told
    /\ heard' = heard + 1
    /\ UNCHANGED <<told, said, got, open>>

Say ==
    /\ said' = said + 1
    /\ UNCHANGED <<told, heard, got, open>>

Get ==
    /\ got < said
    /\ got' = got + 1
    /\ UNCHANGED <<told, heard, said, open>>

Close ==
    /\ open' = FALSE
    /\ UNCHANGED <<told, heard, said, got>>

PipeNext == Tell \/ Hear \/ Say \/ Get \/ Close

PipeSafe == PipeInit /\ [][PipeNext]_pvars

PipeSpec ==
    /\ PipeSafe
    /\ WF_pvars(open /\ Hear)
    /\ WF_pvars(open /\ Get)
=============================================================================
