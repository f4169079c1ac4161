SPECIFICATION RecoverySpec
CONSTANTS
    Workers = {w1}
    Timeout = 3
    CheckInterval = 2
    BeatInterval = 1
    MaxAge = 6
    MaxBacklog = 2
    StartBurst = 2
    DetectorAttached = TRUE
    Savers = {s1, s2}
    Brief = Brief
    Full = Full
    States = {Brief, Full}
    Size <- Lengths
    Nothing = Nothing
INVARIANTS
    TypeOK
    DetectionBound
    SavedIsLoadable
PROPERTIES
    DeadStaySuspected
    ImplementsMonitor
    LiveWorkersRejoin
    DeadWorkersDetected
