CONSTANTS
    None = None
    Attempts = {"a1"}
    Tokens = {"t1"}
    MaxStops = 1
SPECIFICATION RepeatedSpec
PROPERTIES
    HandoverCompletes
CHECK_DEADLOCK FALSE
