SPECIFICATION Spec
CONSTANTS
    NChunks = 2
    MaxLines = 1
    MaxRows = 2
    BatchSize = 1
    NWorkers = 1
    b1 = b1
    b2 = b2
    b3 = b3
    b4 = b4
    Batch <- Batches3
    NoBatch = NoBatch
INVARIANTS SkippedExact
