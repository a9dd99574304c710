CONSTANTS
    a1 = a1
    a2 = a2
    a3 = a3
    host = host
    app = app
    lib = lib
    dev = dev
    None = None
    Attempts = {a1, a2}
    Targets = {host}
    Goals = {app, lib, dev}
    DerivationOf <- MCDerivationOf
    GoalRank <- MCGoalRank
    Requests <- SharingRequests
    Graphs <- SharingGraphs
    Eligible <- AnyGoals
    AgingSeconds = 0
    MaxSequence = 2
    MaxSerial = 2
    MaxClock = 0
SPECIFICATION SharingSpec
PROPERTIES
    ClearedOnlyByRetry
CHECK_DEADLOCK FALSE
