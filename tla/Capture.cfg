CONSTANTS
    Calls = {c1, c2}
    Sizes = {1, 2, 4}
    PngSizes = {1, 2, 3}
    MaxStreamBytes = 2
    MaxStreams = 1
    MaxArtifactBytes = 2
    MaxTotalBytes = 2
    OldFiles <- MCOldFiles
    Boot = Boot
    None = None
SPECIFICATION LiveSpec
INVARIANTS TypeOK StoresOwnCapture StreamIsOwned StoreIsBounded
PROPERTIES EvictsOldest CallEnds StreamEnds
CHECK_DEADLOCK FALSE
