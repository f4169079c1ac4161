SPECIFICATION CallsSpec
CONSTANTS
    Calls = {c1, c2, c3}
CHECK_DEADLOCK FALSE
INVARIANTS
    OkCancelCloses
PROPERTIES
    ImplementsRemoteCall
    HttpCallsReturn
