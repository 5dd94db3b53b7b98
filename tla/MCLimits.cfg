SPECIFICATION LimitsSpec
CONSTANTS
    w1 = w1
    w2 = w2
    r1 = r1
    r2 = r2
    o1 = o1
    o2 = o2
    plan = plan
    review = review
    e1 = e1
    e2 = e2
    nobody = nobody
    a1 = a1
    a2 = a2
    main = main
    g1 = g1
    g2 = g2
    edit = edit
    u1 = u1
    u2 = u2
    f1 = f1
    f2 = f2
    Worker = {w1, w2}
    Nobody = Nobody
    Third = 2
    ClaimWait = 2
    Request = {r1, r2}
    Critical = {r1}
    Concurrent = 1
    PerMinute = 1
    Window = 3
    SlotLease = 6
    Sleep = 2
    RenewWait = 1
    ControlWait = 1
    StopWait = 1
    Op = {o1, o2}
    MaxConcurrent = 1
    Calls = 2
    CallLimit = 3
    TokenLimit = 4
    Stage = {plan, review}
    Raw <- Metered
    Rate = 2
    CachedRate = 1
    Caller = {a1, a2}
    Main = main
    MaxCalls = 4
    Clone = {g1, g2}
    Repo = {u1, u2}
    File = {f1, f2}
    Edit = edit
    NoOperation = nobody
    MaxFiles = 3
    Writer = {e1, e2}
    NoWriter = nobody
    Limit = 2
    MaxFailures = 1
    MaxSequence = 3
INVARIANTS
    OneExecution RunningIsBounded EngineIsAccounted
    LedgerIsTrue DecisionsAreCurrent NothingLeftOver ClonesAreKnown
PROPERTIES
    SlotsReturn FeedIsImplemented ViewsSettle
CHECK_DEADLOCK FALSE
