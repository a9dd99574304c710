CONSTANTS
    a1 = a1
    a2 = a2
    a3 = a3
    host = host
    app = app
    lib = lib
    dev = dev
    None = None
    Attempts = {a1, a2, a3}
    Targets = {host}
    Goals = {app, lib, dev}
    DerivationOf <- MCDerivationOf
    GoalRank <- MCGoalRank
    Requests <- MethodsRequests
    Graphs <- MethodsGraphs
    Eligible <- MethodsEligible
    AgingSeconds = 1
    MaxSequence = 3
    MaxSerial = 4
    MaxClock = 1
SPECIFICATION MethodsSpec
INVARIANTS
    TypeOK
PROPERTIES
    SupersededStays
    FenceHolds
    AgedFirst
    WaitingEnds
CHECK_DEADLOCK FALSE
