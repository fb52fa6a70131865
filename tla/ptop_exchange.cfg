\* Four ranks, three overlapping exchanges.
SPECIFICATION Spec
CONSTANTS
    N = 4
    MaxCalls = 3
INVARIANTS
    InputSendIsDone
    SelfMessagesApart
PROPERTIES
    OutputSendIsDone
    ImplementsExchange
    CallsComplete
\* The group stops when no rank calls again.
CHECK_DEADLOCK FALSE
