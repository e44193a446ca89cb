SPECIFICATION RSpec
CONSTANTS
    Procs = {p1}
    Policies <- All
    Limits <- AllLimits
    MinWal = 2
    MaxAge = 0
    Keys = {k1}
    Sessions = {s1, s2}
    Clients = {c1}
INVARIANTS RTypeOK ChainUnbroken RestoredExact StoreOrder
PROPERTY ImplementsWindow
CHECK_DEADLOCK FALSE
