SPECIFICATION MCSpec
CONSTANTS
    core = core
    ultra = ultra
    Runs = {r1, r2, r3}
    Buckets = {core, ultra}
    Starter = core
    Expiring = {ultra}
    Capacity <- MCCapacity
    Rank <- MCRank
    DailyLimit = 3
    Unlimited = FALSE
    Decisions = {"APPROVE", "SUSPEND", "REVOKE"}
    b1 = b1
    b2 = b2
    d1 = d1
    d2 = d2
    d3 = d3
    c1 = c1
    m1 = m1
    m2 = m2
    p1 = p1
    p2 = p2
    g1 = g1
    Nothing = Nothing
    None = None
    Browsers = {b1, b2}
    Devices = {d1, d2, d3}
    RecoveryCodes = {1}
    MaxTrustedDevices = 1
    ResetBound = 1
    ChangeBound = 1
    Customers = {c1}
    Admins = {m1, m2}
    Purchases = {p1, p2}
    Grants = {g1}
    Period = 2
    Lead = 1
    Final = 0
    GrantLife = 1
    Horizon = 4
    DecisionBound = 2
INVARIANTS
    CountersMatchAllocations
    SessionsAreSound
    PaidOnceAndInFull
PROPERTIES
    UltraLapses
CHECK_DEADLOCK FALSE
