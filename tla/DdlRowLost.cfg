SPECIFICATION RSpec
CONSTANTS
    Procs = {p1}
    Policies <- LoggingOnly
    Limits <- Logging
    MinWal = 2
    MaxAge = 0
    Keys = {k1}
    Sessions = {s1, s2}
    Clients = {c1}
INVARIANT EventsKept
CHECK_DEADLOCK FALSE
