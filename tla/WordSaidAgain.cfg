CONSTANTS
    a = a
    b = b
    c = c
    d = d
    e = e
    f = f
    g = g
    Garbled = Garbled
    Vocabulary = {a, b, c, d, e, f, g}
    Speeches <- SaidAgain
    MaxAudio = 24
    MinChunk = 2
    FinalizeMin = 2
    MaxWindow = 14
    ContextWords = 3
    MaxOverlap = 8
    MaxBacklog = 4
    ChunkFrames = 1
    MaxFrames = 2
    MicFrames = 3
    MaxStarts = 2
    Disturbances = {}
SPECIFICATION VoiceSpec
INVARIANT EverythingCommitted
CHECK_DEADLOCK FALSE
