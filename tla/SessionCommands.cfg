\* Buffers, images and pipelines created, used by two commands, shown and
\* destroyed; acceleration structures of every type built over each other, traced
\* and destroyed, with an ID left for what follows a destroyed child.
SPECIFICATION TurnSpec
CONSTANTS
    ImageUnits = 1
    FrameOutput = TRUE
    UIOnly = FALSE
    MaxResourceID = 4
    MaxFenceID = 2
    MaxUploads = 0
    ClientDescs <- DescsOfTurns
    Turns <- CommandTurns
    HelloRanges <- AllRanges
INVARIANTS
    TablesAgree
    UnfinishedCommandsPinned
    PinnedResourcesLive
    FencesBacked
    RetiredFencesCompleted
    FrameTargetsLive
    PublishedFrameFinished
    ClosedMeansReleased
    ChildrenStayInstanceable
PROPERTY
    LedgerSpec
VIEW
    InTurnSilently
