SPECIFICATION Spec
CONSTANTS
    Conns = {c1, c2}
    Slots = {p1, p2}
    NoSlot = NoSlot
    MaxDeferred = 2
    MaxEpoch = 5
    MaxRefusals = 3
SYMMETRY Alike
INVARIANTS LockedIsBare OneEpoch PendingIsAsked Accounted
PROPERTIES KeepsGate
