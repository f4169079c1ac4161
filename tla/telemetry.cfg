CONSTANTS
    MaxEvents = 2
    MaxBufferSize = 2
    ChannelSize = 1
    Streams = {s1, s2}
    LastEvent = 3
    LastSample = 3
    MaxBatch = 2
SPECIFICATION FairSpec
INVARIANTS OnePlace
PROPERTIES RecorderIsWindow BufferIsWindow StreamInOrder StreamsDrain
CHECK_DEADLOCK FALSE
