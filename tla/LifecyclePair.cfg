SPECIFICATION FairSpec
CONSTANTS
    m1 = m1
    m2 = m2
    r1 = r1
    r2 = r2
    Markets = {m1, m2}
    Shadow = {m2}
    Requests = {r1}
    OtherLabels = {}
    MaxDisputes = 0
    MaxRestarts = 0
    MaxTrades = 1
PROPERTIES
    EventuallyPaid
    SettlementContract
CHECK_DEADLOCK FALSE
