CONSTANTS
    a1 = a1
    a2 = a2
    a3 = a3
    host = host
    app = app
    lib = lib
    dev = dev
    None = None
    Attempts = {a1, a2}
    Targets = {host}
    Goals = {app, lib, dev}
    DerivationOf <- MCDerivationOf
    GoalRank <- MCGoalRank
    Requests <- WorkRequests
    Graphs <- WorkGraphs
    AgingSeconds = 0
    MaxSequence = 2
    MaxSerial = 2
    MaxClock = 0
    Workers = 2
    QueueLimit = 2
    PlanningWorkers = 1
    WaiterLimit = 1
    Commands = {"Submit", "Cancel"}
    Events = {"Deadline", "Detach", "Stop"}
SPECIFICATION FairSpec
PROPERTIES
    PreparationEnds
    StopEnds
CHECK_DEADLOCK FALSE
