SPECIFICATION CodingSpec
CONSTANTS
    v1 = v1
    v2 = v2
    none = none
    Content = {v1, v2}
    Empty = none
    MaxFileCalls = 3
    SnapshotEdits = 2
    MaxCodeRepairs = 2
    MaxModelCalls = 6
    MaxBatch = 2
INVARIANTS ObjectiveIsSent
CHECK_DEADLOCK FALSE
