SPECIFICATION FairSpec
CONSTANTS
    NChunks = 2
    MaxLines = 2
    MaxRows = 3
    BatchSize = 1
    NWorkers = 2
    b1 = b1
    b2 = b2
    b3 = b3
    b4 = b4
    Batch <- Batches4
    NoBatch = NoBatch
INVARIANTS TypeOK Complete OneOwner RootCause NothingLeft
PROPERTIES IsJob
