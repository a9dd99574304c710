CONSTANTS
    None = None
    Names = {"t", "u"}
    Keys = {"k"}
    Values = {"v", "w"}
    Places = {"here"}
    FileOf <- OneFileEach
    Manifests <- Rename
SPECIFICATION Spec
INVARIANTS
    JournalAccepts
CHECK_DEADLOCK FALSE
