SPECIFICATION Spec
CONSTANTS
    Tables = {t1}
    Procs = {p1}
    Refreshers = {listen}
    Pollers = {}
    TwoDb = FALSE
    Tracked0 = {}
    MaxCommits = 1
    MaxChanges = 1
    MaxTrack = 1
    MaxFaults = 0
INVARIANT NothingDropped
CHECK_DEADLOCK FALSE
