---------------------------- MODULE MCChunkQueue ----------------------------
(* Three consumers of one ChunkQueue: enough for a chunk to be taken by a    *)
(* caller that overtakes a woken thread while another one sleeps.            *)
EXTENDS ChunkQueue

CONSTANTS t1, t2, t3
=============================================================================
