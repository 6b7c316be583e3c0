SPECIFICATION MCSpec
CONSTANTS
    w1 = w1
    w2 = w2
    a1 = a1
    t1 = t1
    t2 = t2
    Workers <- MCTwoWorkers
    Apis <- MCApis
    Steps <- MCTwoSteps
    Policies <- MCAutomatic
    Decisions <- MCDecisions
    Meetings = FALSE
    MaxVersion = 2
    RequestBound = 1
    RecoveryBound = 1
    Tabs = {t1, t2}
    NoIntent = NoIntent
    Intents = {"MEETING_REQUEST", "MORE_INFORMATION", "UNSUBSCRIBE"}
    OpportunityIntents = {"MEETING_REQUEST", "MORE_INFORMATION"}
    MeetingIntents = {"MEETING_REQUEST"}
    ReviewBound = 2
SYMMETRY MCSymmetry
INVARIANTS
    StoppedStaysSilent
    EveryCallMandated
    NothingLeavesUnapproved
    DecidedAsShown
CHECK_DEADLOCK FALSE
