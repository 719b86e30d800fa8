SPECIFICATION Spec
CONSTANTS
    ann = ann
    bob = bob
    cid = cid
    m1 = m1
    m2 = m2
    Users = {ann, bob, cid}
    Markets = {m1, m2}
    Scale = 10
    InitialBalance = 90
    Liquidity = 100
    Amounts = {40, 80}
    MaxTrades = 3
    MaxPayouts = 1
INVARIANT
    BalanceNeverNegative
CHECK_DEADLOCK FALSE
