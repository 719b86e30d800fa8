SPECIFICATION FairFeedSpec
CONSTANTS
    c1 = c1
    c2 = c2
    t1 = t1
    t2 = t2
    t3 = t3
    m1 = m1
    m2 = m2
    all = all
    Clients = {c1, c2}
    Trades = {t1, t2}
    OptionTrades = {}
    watch <- MCWatch
    market <- MCMarket
    Markets = {m1, m2}
    AllMarkets = all
    BroadcastCap = 1
    SubscribeCap = 1
    SendCap = 1
    MaxSerializationRetries = 2
INVARIANTS
    FeedTypeOK
    AnswersTellTruth
    NoPanic
    UpdatesInRealTimeOrder
    PoolUpdatesSent
PROPERTIES
    FeedContract
    EveryTradeAnswered
    LeaversRemoved
CHECK_DEADLOCK FALSE
