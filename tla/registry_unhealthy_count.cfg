SPECIFICATION Spec
CONSTANTS
    Workers = {w1, w2}
    Callers = {c1, c2}
    Timeout = 3
    CheckInterval = 2
    MaxLag = 1
    MaxClock = 8
    OverflowChecks = TRUE
SYMMETRY Symmetric
INVARIANT UnhealthyCountDefined
\* The clock stops at MaxClock.
CHECK_DEADLOCK FALSE
