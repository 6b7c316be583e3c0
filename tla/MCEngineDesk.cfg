SPECIFICATION MCDeskSpec
CONSTANTS
    Runs = {r1, r2}
    Buckets = {core}
    Starter = core
    Expiring = {}
    Capacity <- MCCapacity
    Rank <- MCRank
    DailyLimit = 3
    Unlimited = FALSE
    Decisions = {"APPROVE", "SUSPEND"}
    Workers = {w1, w2}
    Clients = {c1}
    Targets = {sage, relay, echo}
    AgentOf <- MCAgentOf
    RecordOf <- MCRecordOf
    TargetOf <- MCTwoRuns
    MaxAttempts = 2
    AttemptBound = 2
    ReliableHeartbeat = FALSE
    core = core
    sage = sage
    relay = relay
    echo = echo
    r1 = r1
    r2 = r2
    r3 = r3
    i1 = i1
    p1 = p1
    p2 = p2
    Issues = {i1}
    Deciders = {p1, p2}
    Hours = 2
    RetryCap = 2
    PolicyBound = 1
    DeathBound = 1
    IssueBound = 1
    AskedBound = 2
    u1 = u1
    u2 = u2
    Pages = {u1, u2}
    NoteLimit = 2
    RunLimit <- MCRunLimit
INVARIANTS
    ActsOnConsent
    NoOrphanHold
    ChargeImpliesResult
    MeetingsEndAsDecided
PROPERTIES
    CreditSpec
CHECK_DEADLOCK FALSE
SYMMETRY Symmetric
