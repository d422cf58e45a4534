\* Semaphores, fences, command buffers, descriptor pools, bindings and images,
\* one at a time.  A program may stop after its last transfer.
SPECIFICATION GuestSubmitSpec
CONSTANTS
    Semaphores = {"b", "t", "u"}
    Timelines = {"t", "u"}
    Files = {"f1"}
    MaxValue = 2
    VkFences = {"x", "y"}
    MaxHostFence = 2
    Interop = {}
    CommandPools = {"p"}
    CommandBuffers = {"c"}
    Transfers = {"t"}
    RayCommands = {"scene", "null", "other", "unresolved", "probe", "nv", "copy"}
    MaxCommands = 3
    MaxRays = 3
    MaxDraws = 1
    MaxSubmit = 1
    AllocationFails = {FALSE}
    DescriptorPools = {"dp"}
    DescriptorSets = {"x", "y", "z"}
    MaxSets = 2
    Sets = {"d"}
    Slots = {0, 1}
    Bindings = {0}
    Elements = {0, 1}
    Textures = {"i", "j"}
    Buffers = {"a"}
    Words = 2
    MaxRecorded = 1
    Liberties = {}
    Images = {"flat", "deep", "packed"}
    Shape <- MCShape
    BufferBlocks = 16
    Regions <- MCRegions
    Layouts <- MCLayouts
    MaxTransfers = 3
    ForeignWriters = {}
CHECK_DEADLOCK FALSE
INVARIANTS
    
    ReadbackExact
    HostFencesAwaited
    PoolsCountSets
    AcknowledgedRaysRan
PROPERTIES
    SemaphoresIdeal
    ReplayIsLog
    FencesSignal
