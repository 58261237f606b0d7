CONSTANTS
    Sessions = {s1}
    None = None
    Kinds = {"term"}
    Modes = {TRUE, FALSE}
    MaxWire = 1
    LongLease = TRUE
SPECIFICATION LiveSpec
PROPERTIES UnlockReturns BlockedIsTemporary
