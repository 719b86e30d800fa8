SPECIFICATION OptionSpec
CONSTANTS
    ann = ann
    bob = bob
    cid = cid
    m1 = m1
    m2 = m2
    Users = {ann, bob}
    Markets = {m1, m2}
    Scale = 10
    InitialBalance = 200
    Liquidity = 100
    Amounts = {50}
    MaxTrades = 1
    MaxPayouts = 1
    OptionLists <- YesTieOrNoYes
INVARIANT
    StartsSucceed
CHECK_DEADLOCK FALSE
