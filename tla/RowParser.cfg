SPECIFICATION Spec
CONSTANTS
    Files <- AllFiles
    Tables <- AllTables
INVARIANTS TypeOK RowsAreTheLines
CHECK_DEADLOCK FALSE
