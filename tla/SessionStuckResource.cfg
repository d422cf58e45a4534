\* A resource of a failed command is destroyed.
SPECIFICATION Spec
CONSTANTS
    ImageUnits = 1
    FrameOutput = TRUE
    UIOnly = TRUE
    MaxResourceID = 1
    MaxFenceID = 1
    MaxUploads = 0
    ClientDescs <- BufferOnly
    HelloRanges <- ExactRange
INVARIANT
    BusyMeansUnfinished
