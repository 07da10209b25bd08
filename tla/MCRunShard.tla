---------------------------- MODULE MCRunShard ----------------------------
(* One RunShard call on a shard of at most three lines. *)
EXTENDS RunShard

CONSTANTS b1, b2, b3
Batches == {b1, b2, b3}
=============================================================================
