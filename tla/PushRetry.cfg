CONSTANTS
    Sessions = {s1}
    g1 = g1
    d1 = d1
    Sources = {g1}
    Dests = {d1}
    Requests <- MCRequests
    Sizes <- MCSizes
    Overwrites = {TRUE}
    Modes = {FALSE}
    MaxTransfers = 4
    MaxWire = 1
    None = None
    Torn = Torn
SPECIFICATION Spec
INVARIANT RetryIsNotRefused
CHECK_DEADLOCK FALSE
