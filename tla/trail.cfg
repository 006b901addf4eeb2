SYMMETRY Symmetry
SPECIFICATION Spec
CONSTANTS
    Reader = {r1}
    ID = {i1, i2, i3}
    Retention = 1
    ListBound = 2
    MaxLimit = 2
    Limits = {1, 2}
    MaxTime = 1
    None = None
    Failed = Failed
    NotFound = NotFound
INVARIANTS TrailTypeOK
PROPERTIES ListHasNoGap GetIsRight SnapshotsMoveOn
