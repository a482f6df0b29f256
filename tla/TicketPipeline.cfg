CONSTANTS
    Texts <- MCTexts
    Classifications <- MCClassifications
    Drafts <- MCDrafts
    MaxReflectionAttempts = 2
SPECIFICATION Spec
INVARIANTS
    NoInvalidState
    BoundedPath
    ResolvedHasReply
    DependencyFailureReviewed
    FailedOnlyAtCap
    HrReviewed
    RerouteReviewed
