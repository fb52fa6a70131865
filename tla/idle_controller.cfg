\* A controller without samples: the main loop never ends.
SPECIFICATION FairSpec
CONSTANTS
    N = 3
    Remote <- Remote3
    Samples <- SamplesIdleController
    Displ <- DisplIdleController
    InitialCredits = 1
    Async = TRUE
    RangePipeline = TRUE
    MaxSamples = 3
    Depth = 2
    MaxCalls = 1
PROPERTIES
    CallsComplete
