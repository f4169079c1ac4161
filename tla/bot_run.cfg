CONSTANTS
    BotCount = 2
    Tokens = {AX, DX}
    MaxAmount = 1
    MaxTraded = 2
    MaxOps = 1
SPECIFICATION FairSpec
INVARIANTS TypeOK BooksBalance
PROPERTIES LivesAreLegal AllTornDown
CHECK_DEADLOCK FALSE
