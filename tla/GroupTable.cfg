SPECIFICATION FairSpec
CONSTANTS
    k1 = k1
    k2 = k2
    k3 = k3
    k4 = k4
    Key <- Keys4
    Hash <- Hashes
    InitialCap = 2
    MaxRows = 2
INVARIANTS TypeOK Reachable RoomLeft
PROPERTIES IsGroupMap
CHECK_DEADLOCK FALSE
