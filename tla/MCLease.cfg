CONSTANTS
    Sessions = {s1, s2, s3}
    None = None
SYMMETRY Symmetry
SPECIFICATION Spec
INVARIANTS TypeOK OneClaimPerSession NoOrphanedWait
PROPERTIES NoBypass KeepsPlace NoSilentGrant HandoverDiscipline
