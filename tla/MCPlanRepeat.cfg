SPECIFICATION PlanSpec
CONSTANTS
    s1 = s1
    s2 = s2
    s3 = s3
    x1 = x1
    Step = {s1, s2, s3}
    Allowed <- KindsOf
    Source = {x1}
    MaxReplans = 2
    MaxRepairs = 1
    AgentRepairs = 1
    MaxWrites = 0
PROPERTY NoUnchangedRepeat
CHECK_DEADLOCK FALSE
