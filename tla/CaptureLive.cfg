SPECIFICATION FairSpec
CONSTANTS
    listen = listen
    poll = poll
    Tables = {t1, t2}
    Procs = {p1}
    Refreshers = {listen, poll}
    Pollers = {poll}
    TwoDb = TRUE
    Tracked0 = {t1}
    MaxCommits = 2
    MaxChanges = 1
    MaxTrack = 2
    MaxFaults = 1
CONSTRAINT Within
INVARIANT StableTablesKept
PROPERTIES CapturedEventually MembershipSettles
CHECK_DEADLOCK FALSE
