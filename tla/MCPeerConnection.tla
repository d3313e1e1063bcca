-------------------------- MODULE MCPeerConnection --------------------------
(* A connection for TLC: three packets let the handshake complete and one    *)
(* packet of SCTP arrive, in every order with flights out of turn.           *)
EXTENDS PeerConnection
=============================================================================
