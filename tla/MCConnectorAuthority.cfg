SPECIFICATION Spec
CONSTANTS
    codex = codex local = local
    key = key key2 = key2
    install = install install2 = install2
    r1 = r1 r2 = r2 r3 = r3
    Requests = {r1, r2, r3}
    Keys = {key, key2}
    Kinds = {codex}
    Mcp = {codex}
    Installs = {install, install2}
    NoInstall = NoInstall
    NoGrant = NoGrant
    Sessions = {}
    Slots = {p1, p2}
    MaxPairings = 2
    Development = FALSE
    KeyOf <- ConnectorKey
    KindOf <- ConnectorKind
    InstallOf <- ConnectorInstall
SYMMETRY Twins
INVARIANTS OneGrantEach
PROPERTIES RevokedKeyStaysOut RevokesWhatWasShown PreparedAsShown
