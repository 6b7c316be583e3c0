SPECIFICATION MCSpec
CONSTANTS
    p1 = p1
    m1 = m1
    o1 = o1
    w1 = w1
    w2 = w2
    Idle = Idle
    Proposals = {p1}
    Meetings = {m1}
    Workers = {w1, w2}
    Drafts <- MCDraftSet
    Opportunity <- MCOpportunity
    ProposalStages = {"NEEDS_ANALYSIS", "PROPOSAL_REQUESTED", "PROPOSAL_SENT"}
    NoteBound = 1
    RetryLimit = 2
    AskBound = 2
    TroubleBound = 1
    StopBound = 1
PROPERTIES
    PeopleDecideDrafts
    DraftsSettle
CHECK_DEADLOCK FALSE
