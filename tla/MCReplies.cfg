SPECIFICATION MCSpec
CONSTANTS
    r1 = r1
    w1 = w1
    w2 = w2
    a1 = a1
    a2 = a2
    ana = ana
    o1 = o1
    Nobody = Nobody
    Replies = {r1}
    Workers = {w1, w2}
    Apis = {a1, a2}
    ContactOf <- MCContactOf
    OutreachOf <- MCOutreachOf
    Intents = {"POSITIVE_INTEREST", "NOT_INTERESTED", "UNSUBSCRIBE"}
    Interested = {"POSITIVE_INTEREST"}
    RetryLimit = 2
    DecisionBound = 2
    TroubleBound = 1
    StopBound = 1
    MailBound = 2
    Answers = {2}
    SyncWorkers = {w1}
    SyncApis = {a1}
    PassCap = 1
    FaultBound = 1
    ConnectBound = 2
    LinkedInPolicies <- MCLinkedInPolicies
INVARIANTS
    OptOutHonoured
    MissedOnlyWhen
    SaysWhatWasSent
PROPERTIES
    PeopleDecide
    PulseSurfacesWaiting
    PeopleAreServed
CHECK_DEADLOCK FALSE
