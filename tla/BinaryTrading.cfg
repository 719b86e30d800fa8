SPECIFICATION Spec
CONSTANTS
    ann = ann
    bob = bob
    cid = cid
    m1 = m1
    m2 = m2
    Users = {ann, bob, cid}
    Markets = {m1}
    Scale = 10
    InitialBalance = 200
    Liquidity = 100
    Amounts = {30, 80}
    MaxTrades = 4
    MaxPayouts = 2
INVARIANTS
    TypeOK
    PointsConserved
    ShareLaw
    SharesAreHeld
    PoolSolvent
    RefundsMatchCollateral
    QuoteMatchesTrade
PROPERTY
    PriceFollowsTrade
SYMMETRY UsersAlike
CHECK_DEADLOCK FALSE
