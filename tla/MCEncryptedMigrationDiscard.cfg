SPECIFICATION FairSpec
CONSTANTS
    Artifacts = {a}
    Policies <- KeepLive
    Unattributed = Unattributed
    Earlier = FALSE
    TornCommits = FALSE
    MaxCrashes = 1
    MaxEdits = 1
PROPERTIES Resumes
CHECK_DEADLOCK FALSE
