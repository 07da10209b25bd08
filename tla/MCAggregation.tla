--------------------------- MODULE MCAggregation ---------------------------
(* Aggregation with values that overflow, poison, and share a register. *)
EXTENDS Aggregation, TLC

Sym == Permutations(Rows) \cup Permutations(Aggs)

AllTypes == [int64 |-> {-4, -1, 3}, float64 |-> {NaN, NegInf, PosInf, -1, 2}, string |-> {1, 3}]
Floats == [float64 |-> {NaN, NegInf, PosInf, -1, 2}]

\* Short and long runs, in a register of their own or a shared one.
HashOver(S) == [v \in S |-> [reg |-> IF v \in {1, 2} THEN 1 ELSE 2,
                             rho |-> IF v \in {3, PosInf} THEN 1 ELSE 2]]
AllHash == HashOver(UNION Range(AllTypes))
FloatHash == HashOver(UNION Range(Floats))
=============================================================================
