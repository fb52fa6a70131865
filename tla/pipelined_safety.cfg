\* The range-pipelined exchange with a progress thread, five ranks, two calls.
SPECIFICATION Spec
CONSTANTS
    N = 5
    Remote <- Remote5
    Samples <- Samples5
    Displ <- Displ5
    InitialCredits = 1
    Async = TRUE
    RangePipeline = TRUE
    MaxSamples = 3
    Depth = 2
    MaxCalls = 2
INVARIANTS
    TypeOK
    WorkerResultCorrect
    ControllerResultCorrect
    InputHasReceive
    OneMessageOfAKind
    TierNeverDry
    ResultsAfterAllInputs
    ActiveRangeIsExclusive
    SkewBound
    CountersAgree
    CleanReturn
    ExecutorLimits
PROPERTIES
    ImplementsExchange
