SPECIFICATION DigestSpec
CONSTANTS
    d1 = d1
    d2 = d2
    Digests = {d1, d2}
    NaN = NaN
    Vals <- MCVals
    BufferCap = 2
    MaxPoints = 6
    Scale <- Scale5
    Unit = 1000
    Ranks = {0, 1, 2, 3, 4}
INVARIANTS DigestTypeOK Conserved Quantiles
PROPERTIES Clustered
CHECK_DEADLOCK FALSE
