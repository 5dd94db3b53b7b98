SPECIFICATION TasksSpec
CONSTANTS
    s1 = s1
    s2 = s2
    s3 = s3
    x1 = x1
    x2 = x2
    p1 = p1
    p2 = p2
    g1 = g1
    g2 = g2
    g3 = g3
    t1 = t1
    t2 = t2
    u1 = u1
    u2 = u2
    v1 = v1
    v2 = v2
    none = none
    nobody = nobody
    Step = {s1, s2, s3}
    Allowed <- KindsOf
    Source = {x1, x2}
    MaxReplans = 2
    MaxRepairs = 2
    AgentRepairs = 1
    MaxWrites = 1
    Topic = {t1, t2}
    Url = {u1, u2}
    MinQueries = 2
    MaxQueries = 2
    PerQuery = 1
    MaxEvidence = 3
    MaxIterations = 3
    MaxToolCalls = 2
    Content = {v1, v2}
    Empty = none
    MaxFileCalls = 3
    SnapshotEdits = 2
    MaxCodeRepairs = 2
    MaxModelCalls = 6
    MaxBatch = 2
    Process = {p1, p2}
    Grant = {g1, g2, g3}
    NoGrant = nobody
    Tasks = 2
    PerTask = 2
    Total = 5
    Prior = 1
    Stopped = 2
    FirstLeft = 2
INVARIANTS
    WorkFitsTogether
    SuccessIsEarned CallsAreAccounted TrainedWasTested ReserveIsKept
    CampaignIsAccounted
PROPERTY RepeatsAreForRepairs
CHECK_DEADLOCK FALSE
