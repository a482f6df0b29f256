CONSTANTS
    w1 = w1
    a1 = a1
    a2 = a2
    s1 = s1
    s2 = s2
    None = None
    Deliveries = {w1}
    ApiRuns = {a1}
    Staff = {s1, s2}
    MaxFaults = 1
SPECIFICATION Spec
INVARIANT OneAnswer
