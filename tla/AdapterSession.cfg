CONSTANTS
    Conns = {c1, c2}
    None = None
    MaxCalls = 1
    MaxTries = 2
    MaxChain = 1
SYMMETRY Symmetry
SPECIFICATION Spec
INVARIANTS TypeOK NoLeakedSocket
PROPERTY NoLateWork
CHECK_DEADLOCK FALSE
