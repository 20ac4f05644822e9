SPECIFICATION FairSpec
CONSTANTS
    Artifacts = {a, b}
    Policies <- MixedPolicies
    Unattributed = Unattributed
    Earlier = TRUE
    TornCommits = TRUE
    MaxCrashes = 2
    MaxEdits = 2
INVARIANTS NotesAreKept AsDecided
PROPERTIES ResumesUnhindered
CHECK_DEADLOCK FALSE
