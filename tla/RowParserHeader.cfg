SPECIFICATION Spec
CONSTANTS
    Files <- SampleFiles
    Tables <- NoTable
INVARIANTS QuotedFileIsRead
CHECK_DEADLOCK FALSE
