CONSTANTS
    Sessions = {s1, s2}
    g1 = g1
    d1 = d1
    Sources = {g1}
    Dests = {d1}
    Requests <- MCRequests
    Sizes <- MCSizes
    Overwrites = {TRUE, FALSE}
    Modes = {TRUE}
    MaxTransfers = 4
    MaxWire = 1
    None = None
    Torn = Torn
SYMMETRY SessionSymmetry
SPECIFICATION Spec
INVARIANTS TypeOK CommitsWhatItHashed
PROPERTIES PushIsAtomic
CHECK_DEADLOCK FALSE
