CONSTANTS
    t1 = t1
    t2 = t2
    t3 = t3
    t4 = t4
    w1 = w1
    w2 = w2
    NoMessage = NoMessage
    Tickets = {t1, t2}
    TooLong = {t2}
    Processes = {w1, w2}
    PoolSize = 1
    Capacity = 1
    MaxFaults = 2
    a = a
    b = b
    c = c
    d = d
    e = e
    f = f
    g = g
    Garbled = Garbled
    Vocabulary = {a, b, c, d, e, f, g}
    Speeches <- Recorded
    MaxAudio = 24
    MinChunk = 2
    FinalizeMin = 2
    MaxWindow = 14
    ContextWords = 3
    MaxOverlap = 8
    MaxBacklog = 4
    ChunkFrames = 1
    MaxFrames = 2
    MicFrames = 3
    MaxStarts = 2
    Disturbances = {}
SPECIFICATION PartsSpec
INVARIANTS
    OneMessage
    TranscriptTrue
    MicFollowsStatus
    TextOnce
    FinalHoldsAll
    OneWriter
PROPERTIES
    AtLeastOnce
    Served
    StopAnswered
CHECK_DEADLOCK FALSE
