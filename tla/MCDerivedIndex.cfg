SPECIFICATION FairIndexSpec
CONSTANTS
    MaxNotes = 2
    m1 = m1
    m2 = m2
    Models = {m1, m2}
    NoModel = NoModel
    Reranked = {m1}
    Hosts = {"worker", "process"}
    BatchSize = 1
    Chunks <- TextChunks
    Zero <- Directionless
    MaxCandidates = 2
    MaxSaves = 3
    MaxRecalls = 1
    MaxGen = 2
INVARIANTS IndexedAsSaved CacheIsWhole
PROPERTIES AnswersAreCurrent Settles
CHECK_DEADLOCK FALSE
