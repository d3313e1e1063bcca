--------------------------- MODULE MCVideoReceiver ---------------------------
(* Two websockets and two calls: callbacks of a connection and of a call     *)
(* that have been replaced meet the state of their successors.               *)
EXTENDS VideoReceiver
=============================================================================
