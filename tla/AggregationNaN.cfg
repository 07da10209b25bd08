SPECIFICATION Spec
CONSTANTS
    Aggs = {a1, a2}
    Snaps = {s1}
    Calls = {c1}
    Rows = {r1, r2}
    Keys = {k1}
    Vals <- Floats
    Distinct = FALSE
    HalfRange = 4
    NaN = NaN
    NegInf = NegInf
    PosInf = PosInf
    Regs = {1, 2}
    Hash <- FloatHash
    NSketches = 10
    None = None
SYMMETRY Sym
INVARIANTS NaNPoisons
CHECK_DEADLOCK FALSE
