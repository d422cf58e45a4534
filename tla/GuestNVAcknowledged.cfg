\* A submit traces a known scene and an NV acceleration structure.
SPECIFICATION CommandSpec
CONSTANTS
    CommandPools = {"p"}
    CommandBuffers = {"c"}
    Transfers = {"t"}
    RayCommands = {"scene", "nv"}
    MaxCommands = 1
    MaxRays = 2
    MaxDraws = 0
    MaxSubmit = 1
    AllocationFails = {FALSE}
    DescriptorPools = {"dp"}
    DescriptorSets = {"x"}
    MaxSets = 1
INVARIANT
    NVNeverAcknowledged
