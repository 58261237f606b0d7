CONSTANTS
    Sessions = {s1, s2}
    g1 = g1
    g2 = g2
    d1 = d1
    Sources = {g1, g2}
    Dests = {d1}
    Requests <- MCRequests
    Sizes <- MCSizes
    Overwrites = {TRUE, FALSE}
    None = None
SPECIFICATION LiveSpec
INVARIANTS TypeOK RenamesHashedFile
PROPERTIES PullIsAtomic AbortEnds
CHECK_DEADLOCK FALSE
