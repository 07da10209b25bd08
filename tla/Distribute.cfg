SPECIFICATION FairSpec
CONSTANTS
    NShards = 2
    MaxCrashes = 2
INVARIANTS TypeOK WholeOrNothing RootCause NothingOpen
PROPERTIES AbortEndsQuery IsJob
