SPECIFICATION Spec
CONSTANTS
    p = p
    save = save
    save2 = save2
    ask = ask
    Procs = {p}
    Calls = {save, save2, ask}
    ProcOf <- OneProc
    OpOf <- Tools
    MaxBoots = 2
    MaxSessions = 3
SYMMETRY Saves
INVARIANTS SavedOnce SavesAreTold SessionsAreShared
CHECK_DEADLOCK FALSE
