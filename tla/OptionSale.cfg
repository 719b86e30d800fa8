SPECIFICATION OptionSpec
CONSTANTS
    ann = ann
    bob = bob
    cid = cid
    m1 = m1
    m2 = m2
    Users = {ann, bob, cid}
    Markets = {m1}
    Scale = 10
    InitialBalance = 200
    Liquidity = 100
    Amounts = {50, 100}
    MaxTrades = 4
    MaxPayouts = 1
    OptionLists <- YesNo
PROPERTY
    SalesAreCovered
CHECK_DEADLOCK FALSE
