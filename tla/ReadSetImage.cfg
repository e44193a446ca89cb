SPECIFICATION Spec
CONSTANTS
    Keys = {k1, k2}
    Written = {k1}
    LongKeys = {}
    Table = table
    Cut = cut
    Worker = worker
    Callers = {}
    Forwarders = {forwarder}
    Previewers = {}
    Deployments = {"two", "image"}
    Cutoffs = {2}
    MaxTxns = 2
    MaxFaults = 0
INVARIANT
    DerivedInStore
CHECK_DEADLOCK FALSE
