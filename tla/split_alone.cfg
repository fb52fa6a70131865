\* Two ranks on hosts with up to three GPUs: some groups are a controller alone.
SPECIFICATION Spec
CONSTANTS
    P = 2
    Placements <- AllPlacements
    Distance <- Slit
    MaxBatch = 2
    Elements = 2
    IntBound = 10
    Endings = {".pt", ".tf", ".vso", ".onnx", "..."}
    Backends = {"torch", "tensorflow", "onnx"}
INVARIANTS
    ControllerGetsPair
CHECK_DEADLOCK FALSE
