SPECIFICATION ProjectsSpec
CONSTANTS
    d1 = d1
    d2 = d2
    w1 = w1
    c1 = c1
    c2 = c2
    k1 = k1
    b1 = b1
    b2 = b2
    t1 = t1
    t2 = t2
    t3 = t3
    r1 = r1
    r2 = r2
    f1 = f1
    f2 = f2
    x1 = x1
    x2 = x2
    g1 = g1
    g2 = g2
    Docs = {d1, d2}
    Digest <- SameBytes
    Workers = {w1}
    MaxJobs = 2
    MaxAttempts = 2
    MaxCrashes = 1
    Client = {c1, c2}
    Key = {k1}
    Body = {b1, b2}
    Task = {t1, t2, t3}
    Run = {r1, r2}
    MaxPlan = 3
    Source = {f1, f2}
    Document = {f2}
    Claim = {x1, x2}
    Space = 2
    MaxMaterials = 2
    MaxQueue = 2
    MaxRounds = 1
    MaxSupplements = 1
    Calls = 8
    Queries = 2
    Replans = 1
    MaxSlips = 1
    Deployment = {"main", "fresh"}
    Main = "main"
    Writers = {"api", "worker"}
    Volume = {"documents", "qdrant"}
    Folder = {g1, g2}
    Image = {"app", "other"}
    Fits = {"app"}
    First = "app"
    MaxMoments = 2
    MaxDamage = 1
INVARIANTS
    DocumentsAreTrue
    SubmittedOnce RemovedIsAtRest LessonsAreVerified
    ReportIsSupported BackupIsOneMoment
PROPERTY DocumentsSettle
CHECK_DEADLOCK FALSE
