CONSTANTS
    Conns = {c1, c2}
    None = None
    MaxCalls = 1
    MaxTries = 1
    MaxChain = 1
SPECIFICATION LiveSpec
PROPERTIES CallReturns SessionResumes DisconnectIsFinal
CHECK_DEADLOCK FALSE
