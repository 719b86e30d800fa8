SPECIFICATION Spec
CONSTANTS
    m1 = m1
    m2 = m2
    r1 = r1
    r2 = r2
    Markets = {m1}
    Shadow = {}
    Requests = {r1, r2}
    OtherLabels = {"other"}
    MaxDisputes = 2
    MaxRestarts = 1
    MaxTrades = 2
INVARIANTS
    TypeOK
    PaidOnlyDeclared
    DisputeRowsAgree
PROPERTIES
    SettlementContract
    SettledIsFinal
CHECK_DEADLOCK FALSE
