---------------------------- MODULE MCChunkPlan ----------------------------
(* ChunkPlan over every file of at most 6 bytes, 2-byte probe windows, and   *)
(* requests for fewer chunks than one up to more chunks than bytes.          *)
EXTENDS ChunkPlan

MCWants == {0, 1, 2, 3, 7}
=============================================================================
