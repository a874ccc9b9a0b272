\* An IP camera and a video file, changed twice; one failure.
SPECIFICATION FairSpec
CONSTANTS
    Sources = {"ip", "video"}
    KindOf <- OwnKind
    NoSource = "none"
    FrameQueueSize = 2
    PredictionQueueSize = 1
    MaxFrames = 3
    MaxSwitches = 2
    MaxFaults = 1
INVARIANTS
    TypeOK
    FileFramesArrive
PROPERTIES
    SourceIsServed
    WorkersEnd
    ImplementsQueue
CHECK_DEADLOCK FALSE
