SPECIFICATION Spec
CONSTANTS
    Keys = {k1, k2}
    Written = {k1, k2}
    LongKeys = {k2}
    Table = table
    Cut = cut
    Worker = worker
    Callers = {caller}
    Forwarders = {forwarder}
    Previewers = {preview}
    Deployments = {"trigger", "single", "two"}
    Cutoffs = {2}
    MaxTxns = 2
    MaxFaults = 1
INVARIANTS
    TypeOK
    ReadersReported
    EdgesAreReal
CONSTRAINT Within
CHECK_DEADLOCK FALSE
