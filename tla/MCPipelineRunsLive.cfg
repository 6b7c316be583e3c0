SPECIFICATION SettlingSpec
CONSTANTS
    Runs = {atlas1, sageAcme, relay1, echo1, echoAlone}
    Buckets = {core}
    Starter = core
    Expiring = {}
    Capacity <- MCCapacity
    Rank <- MCRank
    DailyLimit = 2
    Unlimited = FALSE
    Decisions = {"APPROVE"}
    Workers = {w1}
    Clients = {w1, c1}
    Apis = {c1}
    Targets = {findAll, researchAcme, researchZenith, contactsAcme, draftDana}
    AgentOf <- MCAgentOf
    RecordOf <- MCRecordOf
    TargetOf <- MCTargetOf
    MaxAttempts = 2
    AttemptBound = 3
    ReliableHeartbeat = TRUE
    Pipes = {p1}
    NoPipe = NoPipe
    PipeOf <- MCPipeOf
    BriefOf <- MCBriefOf
    ProcessesDie = FALSE
    PromptStart = TRUE
    core = core
    brief = brief
    acme = acme
    zenith = zenith
    dana = dana
    findAll = findAll
    researchAcme = researchAcme
    researchZenith = researchZenith
    contactsAcme = contactsAcme
    draftDana = draftDana
    atlas1 = atlas1
    atlas2 = atlas2
    atlasAlone = atlasAlone
    sageAcme = sageAcme
    sageZenith = sageZenith
    sageAlone = sageAlone
    relay1 = relay1
    echo1 = echo1
    echoAlone = echoAlone
    p1 = p1
    p2 = p2
INVARIANTS
    VerdictAtRest
PROPERTIES
    PipelineSettles
CHECK_DEADLOCK FALSE
