SPECIFICATION Spec
CONSTANTS
    x = x
    y = y
    Addrs = {x, y}
    Static = {x}
    Registering = {y}
    Objs = {o1, o2, o3}
    Regs = {r1, r2}
    Clients = {k1, k2}
    Sessions = {s}
    NoObj = NoObj
    NoAddr = NoAddr
    NoReg = NoReg
    NoSession = NoSession
    NoEntry = NoEntry
    MaxEvents = 3
CHECK_DEADLOCK FALSE
SYMMETRY Symmetry
INVARIANTS OneBackendPerAddress FreshRegistrationStays DoomedIsCut OwnerActive
PROPERTY StickyWhileUp
