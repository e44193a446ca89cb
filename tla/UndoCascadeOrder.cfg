SPECIFICATION MCSpec
CONSTANTS
    k1 = k1
    k2 = k2
    Plans = {"all"}
    Keys = {k1, k2}
    MaxTxn = 3
    Sessions = {s1}
    Modes = {"cascade"}
    Initial <- MCAllPresent
    NoRow = NoRow
    Free = Free
    MaxWrites = 2
    MaxEdges = 1
    MaxCohort = 1
PROPERTY CascadeNewestFirst
CHECK_DEADLOCK FALSE
