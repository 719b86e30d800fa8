SPECIFICATION ForecastSpec
CONSTANTS
    ann = ann
    bob = bob
    Contributors = {ann, bob}
    MaxRequests = 2
    Bps = {2000, 2601}
    Outcomes = {"delivered"}
    Connections = 2
    MaxOthers = 0
    MaxLists = 0
    MaxCutOffs = 0
INVARIANT
    OfficialIsMedian
CHECK_DEADLOCK FALSE
