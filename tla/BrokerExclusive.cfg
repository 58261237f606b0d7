CONSTANTS
    Sessions = {s1, s2}
    None = None
    Kinds = {"term", "hold"}
    Modes = {TRUE}
    MaxWire = 2
    LongLease = TRUE
SYMMETRY Symmetry
SPECIFICATION Spec
INVARIANTS TypeOK SanitizedFirst Isolation TrackedByOwner
PROPERTY QueueIsFair
