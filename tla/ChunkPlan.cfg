SPECIFICATION FairPlanSpec
CONSTANTS
    MaxSize = 6
    ProbeWindow = 2
    Wants <- MCWants
INVARIANTS PlanTypeOK RowsOnce NothingMissed NaivePartition
PROPERTIES CutsAreFinal PlanningEnds
CHECK_DEADLOCK FALSE
