CONSTANTS
    Bots = {b1}
    Receivers = {r1, r2, r3}
    Broadcast = Broadcast
    None = None
    BotCapacity = 1
    BroadcastCapacity = 2
    LastMessage = 3
SPECIFICATION FairSpec
INVARIANTS CleanHandover ClosedIsLast
PROPERTIES CutOffAreTold
CHECK_DEADLOCK FALSE
