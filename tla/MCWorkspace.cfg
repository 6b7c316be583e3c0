SPECIFICATION MCWorkspaceSpec
CONSTANTS
    w1 = w1
    w2 = w2
    a1 = a1
    u1 = u1
    u2 = u2
    p1 = p1
    p2 = p2
    NoWork = NoWork
    NoRole = NoRole
    Workers <- MCWorkers
    Apis <- MCApis
    Steps <- MCTwoSteps
    Policies <- MCManual
    Decisions <- MCDecisions
    Meetings = TRUE
    MaxVersion = 1
    RequestBound = 1
    RecoveryBound = 1
    Members <- MCMembers
    FactBound = 2
    CompletionBound = 2
    VisitBound = 2
    SaveBound = 2
    TroubleBound = 1
    Invitees <- MCInvitees
    Roles = {"ADMIN"}
    Seats = 2
    InviteBound = 3
INVARIANTS
    SetupIsKept
PROPERTIES
    SequenceStops
    TeamIsInvited
CHECK_DEADLOCK FALSE
