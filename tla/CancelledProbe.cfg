CONSTANTS
    c1 = c1
    c2 = c2
    c3 = c3
    Callers = {c1, c2, c3}
    Searchers = {c1, c2}
    FailureThreshold = 2
    WindowSize = 3
    Cooldown = 2
SPECIFICATION BreakerSpec
PROPERTY RecoversOnLoop
