\* A frame is captured while a later command draws into its target.
SPECIFICATION FairSpec
CONSTANTS
    ImageUnits = 1
    FrameOutput = TRUE
    UIOnly = TRUE
    MaxResourceID = 2
    MaxFenceID = 2
    MaxUploads = 0
    ClientDescs <- FrameDescs
    HelloRanges <- ExactRange
PROPERTY
    CapturesCompletedTargets
