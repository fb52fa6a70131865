\* Three runs in one directory, two services of up to two calls each, crashes at
\* any moment.
SPECIFICATION Spec
CONSTANTS
    Services = {s1, s2}
    MaxRuns = 3
    MaxCalls = 2
SYMMETRY Symmetry
INVARIANTS
    OneRunPerFile
    RunIsWritten
\* The last run ends.
CHECK_DEADLOCK FALSE
