---------------------------- MODULE MCRunLocal ----------------------------
(* RunLocal with a few chunks, workers and lines. *)
EXTENDS RunLocal

CONSTANTS b1, b2, b3, b4
Batches4 == {b1, b2, b3, b4}
Batches3 == {b1, b2, b3}
=============================================================================
