SPECIFICATION Spec
CONSTANTS
    Workers = {w1, w2}
    Callers = {c1, c2}
    Timeout = 3
    CheckInterval = 2
    MaxLag = 1
    MaxClock = 8
    OverflowChecks = FALSE
SYMMETRY Symmetric
INVARIANTS
    TypeOK
    DetectionBound
PROPERTIES
    HeartbeatBarelyRegresses
    ImplementsMonitor
\* The clock stops at MaxClock.
CHECK_DEADLOCK FALSE
