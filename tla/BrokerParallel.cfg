CONSTANTS
    Sessions = {s1, s2}
    None = None
    Kinds = {"term"}
    Modes = {FALSE}
    MaxWire = 3
    LongLease = TRUE
SYMMETRY Symmetry
SPECIFICATION Spec
INVARIANTS NoResourceOutlivesSession AdvisoryChainServed
