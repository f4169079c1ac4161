CONSTANTS
    Bots = {b1, b2}
    Controllers = {c1}
    Exporters = {e1}
    Behaviors = {v1}
    Nobody = Nobody
    MaxCount = 2
    MaxPending = 1
SPECIFICATION Spec
SYMMETRY Symmetry
INVARIANTS TypeOK SnapshotAddsUp CountersAgree ActiveIsRunning
CHECK_DEADLOCK FALSE
