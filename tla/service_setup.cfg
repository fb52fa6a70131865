\* Five ranks, every placement of MCServiceSetup, up to two samples per rank.
SPECIFICATION Spec
CONSTANTS
    P = 5
    Placements <- AllPlacements
    Distance <- Slit
    MaxBatch = 2
    Elements = 2
    IntBound = 10
    Endings = {".pt", ".tf", ".vso", ".onnx", "..."}
    Backends = {"torch", "tensorflow", "onnx"}
INVARIANTS
    OneControllerFirst
    GroupsBalanced
    SplitIsEven
    GpusServed
    SegmentsTile
    UsedIsReady
PROPERTIES
    SetupEnds
CHECK_DEADLOCK FALSE
