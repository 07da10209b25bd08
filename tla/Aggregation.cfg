SPECIFICATION Spec
CONSTANTS
    Aggs = {a1, a2}
    Snaps = {s1}
    Calls = {c1}
    Rows = {r1, r2, r3}
    Keys = {k1, k2}
    Vals <- AllTypes
    Distinct = TRUE
    HalfRange = 4
    NaN = NaN
    NegInf = NegInf
    PosInf = PosInf
    Regs = {1, 2}
    Hash <- AllHash
    NSketches = 10
    None = None
SYMMETRY Sym
INVARIANTS TypeOK Exact Unshared
PROPERTIES MergedOrUntouched
CHECK_DEADLOCK FALSE
