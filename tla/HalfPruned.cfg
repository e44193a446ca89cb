SPECIFICATION RSpec
CONSTANTS
    Procs = {p1}
    Policies <- HalfPrunedOnly
    Limits <- HalfPruned
    MinWal = 1
    MaxAge = 0
    Keys = {k1}
    Sessions = {s1, s2}
    Clients = {c1}
PROPERTY HorizonCovered
CHECK_DEADLOCK FALSE
