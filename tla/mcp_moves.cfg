CONSTANTS
    None = None
    Names = {"t"}
    Keys = {"k"}
    Values = {"v"}
    Places = {"here", "there"}
    FileOf <- OneFileEach
    Manifests <- Moves
SPECIFICATION Spec
INVARIANTS
    Accounted
CHECK_DEADLOCK FALSE
