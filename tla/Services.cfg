CONSTANTS
    Tickets = {t1, t2, t3}
    PoolSize = 1
    Capacity = 1
    customer = customer
    m1 = m1
    m2 = m2
    Panels = {customer}
    Messages = {m1, m2}
    Author <- TypedBy
    Sources = {a1, a2, a3}
    Threshold = 2
    Window = 2
    MaxTracked = 2
    MaxTime = 2
    MaxFailures = 4
    corr = corr
    ticket = ticket
    other = other
    submit = submit
    received = received
    persisted = persisted
    step = step
    sibling = sibling
    Rows = {corr, ticket, other}
    Events = {submit, received, persisted, step, sibling}
    Key <- RowKey
    Correlation <- CorrelationId
    MaxTickets = 2
    Viewers = {viewer}
    MaxSelections = 2
    Ratings = {rating}
    Edits = {edit}
    Overrides = {override}
    JudgedHigh = {rating}
    Instances = {api, worker}
    Period = 2
    Grace = 1
    MaxNow = 5
    MaxTouches = 1
    MaxDisturbances = 1
    Attachments = {a1}
    Schedulers = {api, worker}
    MaxUploads = 2
    MaxCleanupFaults = 2
    draft = draft
    judge = judge
    classify = classify
    Calls = {draft, judge, classify}
    Attempts <- Tries
    KeyCount = 3
    Accounts = {b1, b2, b3, b4}
    Admins = {b1, b2}
    MaxChanges = 2
    MaxAccountFaults = 1
    customerAccount = customerAccount
    agentAccount = agentAccount
    RoleOf <- RolesOf
    MaxSignIns = 3
    MaxRoleFaults = 1
    Callers = {c1, c2, c3}
    Searchers = {c1, c2}
    FailureThreshold = 2
    WindowSize = 3
    Cooldown = 2
SPECIFICATION Spec
INVARIANTS
    DrainComplete
    NoneMissed
    TimelineWhole
    LearningAccounted
    OrphansHaveCauses
    ChangesWhole
    KnowsWho
    FlightOwned
    StateAccounted
PROPERTIES
    HandOffEnds
    BubblesTrue
    AlertsExact
    AttachmentsExpire
    KeysShared
    SessionSettles
    Recovers
    CooldownKept
CHECK_DEADLOCK FALSE
