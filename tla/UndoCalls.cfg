SPECIFICATION MCSpec
CONSTANTS
    k1 = k1
    k2 = k2
    Plans = {"two calls", "any mode"}
    Keys = {k1, k2}
    MaxTxn = 3
    Sessions = {s1, s2}
    Modes = {"clean_only", "cascade", "targeted"}
    Initial <- MCInitial
    NoRow = NoRow
    Free = Free
    MaxWrites = 2
    MaxEdges = 1
    MaxCohort = 2
SYMMETRY SessionSymmetry
INVARIANTS TypeOK CleanUndoExact
PROPERTY UndoRestoresBeforeImage
CHECK_DEADLOCK FALSE
