\* The four modes, four ranks, two calls: the contract of Exchange, with progress.
SPECIFICATION FairSpec
CONSTANTS
    N = 4
    Remote <- Remote4
    Samples <- Samples4
    Displ <- Displ4
    InitialCredits = 1
    MaxSamples = 3
    Depth = 2
    MaxCalls = 2
PROPERTIES
    ModesImplementExchange
    CallsComplete
