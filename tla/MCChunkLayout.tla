---------------------------- MODULE MCChunkLayout ----------------------------
(* Two byte values, so that misplaced bytes show, and chunk sizes below, at  *)
(* and above the lengths that parts and files have.                          *)
EXTENDS ChunkLayout

MCChunkSizes == {1, 2, 3}
=============================================================================
