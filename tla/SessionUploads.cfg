\* Chunked uploads of ordinary and sparse images, begun again, torn and resumed;
\* and what the session owes its client once it blocks or ends, with two commands
\* that may share resources.
SPECIFICATION FairTurnSpec
CONSTANTS
    ImageUnits = 3
    FrameOutput = TRUE
    UIOnly = TRUE
    MaxResourceID = 2
    MaxFenceID = 2
    MaxUploads = 3
    ClientDescs <- DescsOfTurns
    Turns <- UploadTurns
    HelloRanges <- ExactRange
INVARIANTS
    UploadsArePrefixes
    TexturesWhole
PROPERTIES
    WaitsReturn
    SessionsEnd
