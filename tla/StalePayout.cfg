SPECIFICATION Spec
CONSTANTS
    m1 = m1
    m2 = m2
    r1 = r1
    r2 = r2
    Markets = {m1}
    Shadow = {}
    Requests = {r1, r2}
    OtherLabels = {}
    MaxDisputes = 1
    MaxRestarts = 0
    MaxTrades = 2
PROPERTY
    UnflaggedFollowOutcome
CHECK_DEADLOCK FALSE
