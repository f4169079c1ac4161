CONSTANTS
    Bots = {b1}
    Controllers = {c1}
    Exporters = {e1}
    Behaviors = {v1}
    Nobody = Nobody
    MaxCount = 2
    MaxPending = 1
SPECIFICATION FairSpec
PROPERTY ScrapeAnswered
CHECK_DEADLOCK FALSE
