CONSTANTS
    Ids = {v1, v2}
    Pids = {p1, p2}
    MaxVms = 2
    MaxTrash = 1
    MaxDeletes = 2
    None = None
SYMMETRY Symmetry
SPECIFICATION Spec
INVARIANTS TypeOK OneUserPerDisk TrashIsUnused TrashIsIndexed
CHECK_DEADLOCK FALSE
