\* Device memory, sparse binding, the scene's cache, the CUDA driver's tables and
\* the clock shim's, one at a time.
SPECIFICATION GuestMemorySpec
CONSTANTS
    Memories = {m1}
    Size = 3
    Buffers = {"a", "b"}
    Images = {"i"}
    Placement <- APlacement
    MaxMaps = 2
    Fences = {f1}
    Liberties = {}
    SparseMemories = {s1, s2}
    MemoryPages = 3
    Pages = 3
    Width = 9
    Levels = 4
    MetalTile = 2
    Manifests <- AManifests
    TopLevels = {"t1", "t2"}
    BottomLevels = {"b1"}
    Shapes = {"arm"}
    MaxSequence = 2
    MaxRequests = 17
    MaxResource = 7
    Threads = {t1, t2}
    Addresses = {a1, a2, a3, a4}
    OldBuffers = FALSE
    Callers = {t1, t2}
    CallPlaces = {"x", "y", "z"}
    Calibrating = {"x", "z"}
    Hash <- AHash
    CallSiteCount = 2
    MaximumDelayedCalls = 2
    CounterWidth = 4
    MaxCalls = 3
INVARIANTS
    NothingLost
    CommandsReadCurrent
    HostSeesResults
    SharedPagesCurrent
    RangesDisjoint
    ResidencyExact
    ResourcesAccounted
    EntriesAlive
    HandlesKnown
    ReferencesAlive
    DelaysBounded
PROPERTIES
    ListIsPageTable
    SceneGeometryKept
    TracesShowScene
VIEW AllButTraced
CHECK_DEADLOCK FALSE
