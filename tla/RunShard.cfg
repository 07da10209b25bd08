SPECIFICATION FairSpec
CONSTANTS
    NChunks = 1
    MaxLines = 3
    MaxRows = 3
    BatchSize = 2
    b1 = b1
    b2 = b2
    b3 = b3
    Batch <- Batches
    NoBatch = NoBatch
INVARIANTS ReplyComplete
PROPERTIES CanceledIsTheCallers NoGoroutineLeft IsJob
