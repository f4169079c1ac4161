CONSTANTS
    Immediate = {i1}
    Delayed = {d1}
    Recurring = {t1, t2}
    Runs = {r1}
    MaxStarts = 2
SPECIFICATION FairSpec
INVARIANTS AtMostOneLateStart RunCoversItsList

PROPERTY QuietAfterShutdown
CHECK_DEADLOCK FALSE
