SPECIFICATION MCSpec
CONSTANTS
    Runs = {r1, r2, r3}
    Buckets = {core}
    Starter = core
    Expiring = {}
    Capacity <- MCCapacity
    Rank <- MCRank
    DailyLimit = 2
    Unlimited = FALSE
    Decisions = {"APPROVE"}
    Workers = {w1}
    Clients = {c1}
    Targets = {sage, relay, echo}
    AgentOf <- MCAgentOf
    RecordOf <- MCRecordOf
    TargetOf <- MCChain
    MaxAttempts = 3
    AttemptBound = 4
    ReliableHeartbeat = TRUE
    core = core
    sage = sage
    relay = relay
    echo = echo
    r1 = r1
    r2 = r2
    r3 = r3
    i1 = i1
    p1 = p1
    p2 = p2
    Issues = {i1}
    Deciders = {p1, p2}
    Hours = 2
    RetryCap = 2
    PolicyBound = 1
    DeathBound = 1
    IssueBound = 1
    AskedBound = 1
INVARIANTS
    CreditFollowsRun
    RelayAfterSage
    AppliedOnce
PROPERTIES
    NothingStalls
CHECK_DEADLOCK FALSE
