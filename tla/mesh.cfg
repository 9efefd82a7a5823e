SPECIFICATION Spec
CONSTANTS
    a = a
    b = b
    c = c
    Nodes = {a, b, c}
    Links <- RingLinks
    Messages = {m1}
    NoLink = NoLink
    NoNode = NoNode
    NoMessage = NoMessage
    Hello = Hello
    CacheSize = 2
    Cap = 2
    MaxFaults = 1
CHECK_DEADLOCK FALSE
INVARIANTS RegisteredServes HandledOnce WholeArrives
PROPERTY ForgetsOldestOnly
