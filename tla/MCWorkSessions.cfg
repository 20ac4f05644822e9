SPECIFICATION Spec
CONSTANTS
    a1 = a1
    a2 = a2
    a3 = a3
    ui = ui
    codex = codex
    c1 = c1
    Ids <- AllIds
    Clients = {codex, ui}
    Mcp = {codex}
    Conns = {c1}
    ClientOf <- AllClientOf
    ConnOf <- AllConnOf
    Policies = {1, 2}
    DefaultPolicy = 2
    SessionTtls = {2}
    ConnTtl = 2
    DecisionTtl = 1
    MaxPrompts = 1
    MaxBegun = 2
    MaxClock = 2
    MaxBoot = 2
    MaxWindows = 2
SYMMETRY Exchange
INVARIANTS
    WindowIsApproved
    UseInWindow
    SilenceInWindow
PROPERTIES
    DecidedOnce
    KeepsPromise
