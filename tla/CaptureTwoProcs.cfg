SPECIFICATION Spec
CONSTANTS
    Tables = {t1}
    Procs = {p1, p2}
    Refreshers = {}
    Pollers = {}
    TwoDb = FALSE
    Tracked0 = {t1}
    MaxCommits = 3
    MaxChanges = 2
    MaxTrack = 0
    MaxFaults = 3
SYMMETRY ProcSymmetry
INVARIANTS TypeOK ExactlyOnce CursorCovers AckedIsDurable UndoRowsMarked
PROPERTY ImplementsHistoryLog
CHECK_DEADLOCK FALSE
