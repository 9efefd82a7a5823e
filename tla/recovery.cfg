SPECIFICATION FairSpec
CONSTANTS
    Outgoing = {m1}
    Texts = {}
    MaxSeq = 2
    NoPayload = NoPayload
    Nodes = {a, b}
    Sockets = {k1, k2, k3}
    NoSession = NoSession
    NoNode = NoNode
    NoSocket = NoSocket
    Overlap = FALSE
    MaxFaults = 1
CHECK_DEADLOCK FALSE
INVARIANTS NumberedAbove MoveBringsOwed
PROPERTIES NeverTakenBack EventuallyServed
