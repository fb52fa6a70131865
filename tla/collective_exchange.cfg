\* Three ranks, three calls: device or hosts only, every hybrid split, with and
\* without diagnostic barriers, ranks without samples that a collective may or may
\* not hold.
SPECIFICATION Spec
CONSTANTS
    N = 3
    Configs <- Setups
    MaxCalls = 3
INVARIANTS
    OutputsInPlace
PROPERTIES
    ImplementsExchange
    CallsComplete
\* The group stops when no rank calls again.
CHECK_DEADLOCK FALSE
