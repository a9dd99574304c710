CONSTANTS
    a1 = a1
    a2 = a2
    a3 = a3
    host = host
    app = app
    lib = lib
    dev = dev
    None = None
    Attempts = {a1, a2}
    Targets = {host}
    Goals = {lib}
    DerivationOf <- MCDerivationOf
    GoalRank <- MCGoalRank
    Requests <- LifeRequests
    Graphs <- LifeGraphs
    AgingSeconds = 0
    MaxSequence = 2
    MaxSerial = 0
    MaxClock = 0
    Workers = 1
    QueueLimit = 1
    PlanningWorkers = 1
    WaiterLimit = 1
    Commands = {"Register", "Cancel", "Retry", "Retire"}
    Events = {"Crash", "SaveFails", "RetainFails", "ReleaseFails"}
SPECIFICATION Spec
INVARIANTS
    TypeOK
    ThreadsKnown
    RootsOwned
    RootsHeld
PROPERTIES
    QueueBound
    LedgerKept
SYMMETRY Symmetry
CHECK_DEADLOCK FALSE
