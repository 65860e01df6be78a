SPECIFICATION Spec
CONSTANTS
    p1 = p1
    p2 = p2
    x1 = x1
    x2 = x2
    e1 = e1
    e2 = e2
    Replays = {p1, p2}
    Exports = {x1, x2}
    Events = {e1, e2}
    Checkpoints = {1, 2, 3}
    Overlap = 1
    MaxBatchEvents = 1
    MaxSaves = 2
    MaxExportSaves = 2
SYMMETRY Symmetric
INVARIANTS
    TypeOK
    LineageIsExact
    CheckpointAfterDelivery
PROPERTIES
    ReplaysKeepToTheirPart
CHECK_DEADLOCK FALSE
