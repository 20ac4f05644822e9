SPECIFICATION FairSpec
CONSTANTS
    Sources = {a, b}
    NoSource = NoSource
    Strangers = TRUE
    TornCommits = TRUE
    MaxAttempts = 6
    MaxCrashes = 3
    MaxEdits = 2
INVARIANTS FinishedAsApproved
PROPERTIES RestoresOnce ResumesUnhindered
CHECK_DEADLOCK FALSE
