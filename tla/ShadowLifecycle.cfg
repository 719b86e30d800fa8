SPECIFICATION Spec
CONSTANTS
    m1 = m1
    m2 = m2
    r1 = r1
    r2 = r2
    Markets = {m1}
    Shadow = {m1}
    Requests = {r1, r2}
    OtherLabels = {}
    MaxDisputes = 1
    MaxRestarts = 1
    MaxTrades = 1
PROPERTY
    SettlementContract
CHECK_DEADLOCK FALSE
