SPECIFICATION FeedSpec
CONSTANTS
    c1 = c1
    c2 = c2
    t1 = t1
    t2 = t2
    t3 = t3
    m1 = m1
    m2 = m2
    all = all
    Clients = {c1, c2}
    Trades = {t1, t2, t3}
    OptionTrades = {t2}
    watch <- MCWatch
    market <- MCMarket
    Markets = {m1, m2}
    AllMarkets = all
    BroadcastCap = 1
    SubscribeCap = 1
    SendCap = 1
    MaxSerializationRetries = 1
INVARIANT
    PoolUpdatesSent
CHECK_DEADLOCK FALSE
