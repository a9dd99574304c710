CONSTANTS
    Attempts = {"a1", "a2"}
    Tokens = {"t1", "t2"}
    MaxStops = 2
    Callers = {c, d, e}
    Artifacts = {"x", "y"}
    None = None
    Malformed = Malformed
    Null = Null
    Observers = {p, q}
    Hosts = {"web", "[web]", "git"}
    HostKeys = {"k", "l"}
    Plain <- Unbracketed
    HostKey <- FleetKey
    Lines <- TwoLines
    Names = {"t"}
    Keys = {"k"}
    Values = {"v", "w"}
    Places = {"here", "there"}
    FileOf <- OneFileEach
    Manifests <- OneTarget
    Sources = {"import", "optional", "env", "both"}
    Script <- Programs
    Texts = {"x", "y"}
    Settings = {"a"}
    Producers = {1, 2}
    Files <- Topologies
    Lower <- LowerLabels
    Documents <- SevenDocuments
    MaxDocuments = 3
    Pools <- OnePool
    Caches = {"d"}
    Budgets <- OneBudget
    Orchestrator = "train"
    Updates = 10
SPECIFICATION ToolsSpec
SYMMETRY Symmetry
INVARIANTS
    ToolsTypeOK
    RootsAccounted
    PassedIsProved
    EntrySound
    HostKeysStand
    OrderFree
    WalkExact
    Dialable
    OneWriter
    StartOrder
PROPERTIES
    EvidenceKept
    ForeignKept
    OnlyMissedLost
    OwnersKept
CHECK_DEADLOCK FALSE
