SPECIFICATION DSpec
CONSTANTS
    c1 = c1
    c2 = c2
    Invoices = invoices
    Orders = orders
    Keys = {invoices, orders}
    NoRow = NoRow
    Callers = {c1, c2}
    Clients = {c1, c2}
    Tourist = c1
    Jobs <- MCJobs
    Cases <- MCCases
    Trips <- MCTrips
INVARIANTS UTypeOK UndoneStaysUndone ExitTellsTruth DTypeOK NarratedIsCaptured BackedUp RecoveredAsDropped
CHECK_DEADLOCK FALSE
