SPECIFICATION FairForecastSpec
CONSTANTS
    ann = ann
    bob = bob
    Contributors = {ann, bob}
    MaxRequests = 2
    Bps = {2000, 2601}
    Outcomes = {"delivered", "cancelled"}
    Connections = 2
    MaxOthers = 1
    MaxLists = 1
    MaxCutOffs = 1
INVARIANTS
    ForecastTypeOK
    SerialOfficial
    ScoresFollowSnapshot
    NotifiedAreScored
    ShadowFollows
PROPERTIES
    ResolvedStands
    EventuallyScored
CHECK_DEADLOCK FALSE
