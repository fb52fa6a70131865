\* Pinned and pageable buffers, with and without timing.
SPECIFICATION Spec
CONSTANTS
    N = 4
    Depth = 2
    MaxCalls = 2
INVARIANTS
    InferredIsCurrent
    QueueLimits
    StreamsHoldRequests
PROPERTIES
    ImplementsExecutor
    CallsEnd
\* The group stops after the last call.
CHECK_DEADLOCK FALSE
