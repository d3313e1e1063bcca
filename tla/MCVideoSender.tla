---------------------------- MODULE MCVideoSender ----------------------------
(* A sender of two streams that gets up to two SESSION_OKs.                  *)
EXTENDS VideoSender
=============================================================================
