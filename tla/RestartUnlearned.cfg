CONSTANTS
    Ratings = {}
    Edits = {}
    Overrides = {override}
    JudgedHigh = {}
    Instances = {api, worker}
    Period = 2
    Grace = 0
    MaxNow = 5
    MaxTouches = 1
    MaxDisturbances = 2
SPECIFICATION LearningSpec
INVARIANT RestartHarmless
CHECK_DEADLOCK FALSE
