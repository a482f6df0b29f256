CONSTANTS
    Texts <- MCTexts
    Classifications <- MCClassifications
    Drafts <- MCDrafts
    MaxReflectionAttempts = 2
SPECIFICATION Spec
INVARIANT HrAlwaysReviewed
