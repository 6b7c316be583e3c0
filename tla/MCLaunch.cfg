SPECIFICATION MCSpec
CONSTANTS
    Runs = {atlas1, atlasAlone, sageAcme, sageZenith, relay1}
    Buckets = {core}
    Starter = core
    Expiring = {}
    Capacity <- MCCapacity
    Rank <- MCRank
    DailyLimit = 3
    Unlimited = FALSE
    Decisions = {"APPROVE", "REVOKE"}
    Workers = {w1}
    Clients = {w1, c1}
    Apis = {c1}
    Targets = {findAll, researchAcme, researchZenith, contactsAcme, draftDana}
    AgentOf <- MCAgentOf
    RecordOf <- MCRecordOf
    TargetOf <- MCTargetOf
    MaxAttempts = 2
    AttemptBound = 0
    ReliableHeartbeat = TRUE
    Pipes = {p1}
    NoPipe = NoPipe
    PipeOf <- MCPipeOf
    BriefOf <- MCBriefOf
    ProcessesDie = TRUE
    PromptStart = TRUE
    core = core
    brief = brief
    acme = acme
    zenith = zenith
    dana = dana
    findAll = findAll
    researchAcme = researchAcme
    researchZenith = researchZenith
    contactsAcme = contactsAcme
    draftDana = draftDana
    atlas1 = atlas1
    atlas2 = atlas2
    atlasAlone = atlasAlone
    sageAcme = sageAcme
    sageZenith = sageZenith
    sageAlone = sageAlone
    relay1 = relay1
    echo1 = echo1
    echoAlone = echoAlone
    p1 = p1
    p2 = p2
    coreDriver = coreDriver
    ultraDriver = ultraDriver
    team1 = team1
    team2 = team2
    s1 = s1
    s2 = s2
    e1 = e1
    e2 = e2
    commit1 = commit1
    commit2 = commit2
    owner = owner
    Journeys = {coreDriver, ultraDriver}
    KindOf <- MCKindOf
    Steps = {s1, s2}
    MinimumJourneys = 2
    Editors = {e1, e2}
    RegressionBound = 1
    ValidationBound = 1
    Commits = {commit1, commit2}
    Owners = {owner}
    DeployBound = 1
    FitBound = 2
    export1 = export1
    export2 = export2
    acmeCom = acmeCom
    acmeDe = acmeDe
    None = None
    Exports = {export1, export2}
    Content <- MCContent
    ReviewBound = 1
    ExportBound = 1
    WorkBound = 1
    ImportBound = 3
INVARIANTS
    FrozenMeetsGate
    AcceptedForItsCommit
    VerdictMatches
PROPERTIES
    ReimportAddsNothing
CHECK_DEADLOCK FALSE
