\* Without the range pipeline nothing copies the controller's own samples.
SPECIFICATION Spec
CONSTANTS
    N = 3
    Remote <- Remote3
    Samples <- Samples3
    Displ <- Displ3
    InitialCredits = 1
    Async = TRUE
    RangePipeline = FALSE
    MaxSamples = 3
    Depth = 2
    MaxCalls = 1
INVARIANTS
    ControllerOwnsSegment
