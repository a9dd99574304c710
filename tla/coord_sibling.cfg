CONSTANTS
    a1 = a1
    a2 = a2
    a3 = a3
    host = host
    app = app
    lib = lib
    dev = dev
    None = None
    Attempts = {a1, a2, a3}
    Targets = {host}
    Goals = {lib, dev}
    DerivationOf <- MCDerivationOf
    GoalRank <- MCGoalRank
    Requests <- SiblingRequests
    Graphs <- SiblingGraphs
    AgingSeconds = 0
    MaxSequence = 3
    MaxSerial = 2
    MaxClock = 0
    Workers = 1
    QueueLimit = 3
    PlanningWorkers = 1
    WaiterLimit = 1
    Commands = {"Submit"}
    Events = {}
SPECIFICATION Spec
PROPERTIES
    FailureLasts
CHECK_DEADLOCK FALSE
