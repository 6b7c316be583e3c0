SPECIFICATION OutreachSpec
CONSTANTS
    w1 = w1
    w2 = w2
    a1 = a1
    Workers <- MCWorkers
    Apis <- MCApis
    Steps <- MCFirstStep
    Policies <- MCAutomatic
    Decisions <- MCDecisions
    Meetings = FALSE
    MaxVersion = 2
    RequestBound = 1
    RecoveryBound = 1
INVARIANTS
    SentVersionWasApproved
