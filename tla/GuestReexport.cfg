\* A timeline that CUDA has advanced is exported a second time.
SPECIFICATION QueueSpec
CONSTANTS
    Semaphores = {"t"}
    Timelines = {"t"}
    Files = {"f1"}
    MaxValue = 2
    VkFences = {"x"}
    MaxHostFence = 1
    Interop = {"reexport"}
PROPERTY
    TimelineFilesGrow
