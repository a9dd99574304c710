CONSTANTS
    a1 = a1
    a2 = a2
    a3 = a3
    host = host
    app = app
    lib = lib
    dev = dev
    None = None
    Attempts = {a1, a2}
    Targets = {host}
    Goals = {app, lib, dev}
    DerivationOf <- MCDerivationOf
    GoalRank <- MCGoalRank
    Requests <- WorkRequests
    Graphs <- WorkGraphs
    AgingSeconds = 0
    MaxSequence = 3
    MaxSerial = 3
    MaxClock = 0
    Workers = 2
    QueueLimit = 2
    PlanningWorkers = 1
    WaiterLimit = 1
    Commands = {"Register", "Admit", "Fence", "ReleaseFence", "Inspect"}
    Events = {"Crash", "SaveFails"}
SPECIFICATION Spec
INVARIANTS
    TrainsSound
    BuildsJournalled
    RootsHeld
    HandoverQuiet
CHECK_DEADLOCK FALSE
