SPECIFICATION Spec
CONSTANTS
    Workers = {w1}
    Timeout = 3
    CheckInterval = 2
    BeatInterval = 1
    MaxAge = 6
    MaxBacklog = 2
    StartBurst = 2
    DetectorAttached = FALSE
PROPERTIES
    DeadWorkersDetected
