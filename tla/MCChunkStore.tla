---------------------------- MODULE MCChunkStore ----------------------------
(* ChunkStore for TLC.                                                     *)
EXTENDS ChunkStore, TLC
=============================================================================
