SPECIFICATION Spec
CONSTANTS
    d1 = d1
    d2 = d2
    None = None
    Domains <- TwoNames
    Apex = {d1}
    Thread = {1, 2}
    MaxOrders = 2
    MaxPolls = 1
    MaxFaults = 1
CHECK_DEADLOCK FALSE
INVARIANTS
    SuccessLeavesNoTxt
    ChallengeIsAlone
    FirstIssuePoisonsOnlyByEmptyRead
