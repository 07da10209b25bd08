----------------------------- MODULE MCTDigest -----------------------------
(* Two digests with a small buffer, and a compression of 5. *)
EXTENDS TDigest, TLC

\* 1000 * 5 / (2 pi) * asin(2 i / n - 1), rounded, for n up to 6.
Scale5 ==
    <<(0 :> -1250 @@ 1 :> 1250),
      (0 :> -1250 @@ 1 :> 0 @@ 2 :> 1250),
      (0 :> -1250 @@ 1 :> -270 @@ 2 :> 270 @@ 3 :> 1250),
      (0 :> -1250 @@ 1 :> -417 @@ 2 :> 0 @@ 3 :> 417 @@ 4 :> 1250),
      (0 :> -1250 @@ 1 :> -512 @@ 2 :> -160 @@ 3 :> 160 @@ 4 :> 512 @@ 5 :> 1250),
      (0 :> -1250 @@ 1 :> -581 @@ 2 :> -270 @@ 3 :> 0 @@ 4 :> 270 @@ 5 :> 581 @@ 6 :> 1250)>>

CONSTANTS d1, d2
MCVals == {0, 1, 4, NaN}
=============================================================================
