SPECIFICATION FairSpec
CONSTANTS
    a = a
    b = b
    c = c
    Nodes = {a, b}
    Links <- PairLinks
    Messages = {m1}
    NoLink = NoLink
    NoNode = NoNode
    NoMessage = NoMessage
    Hello = Hello
    CacheSize = 2
    Cap = 3
    MaxFaults = 2
CHECK_DEADLOCK FALSE
INVARIANT WholeArrives
PROPERTIES NewerLinkStays StopCutsServedLinks LinksRestored HungPeerCutOff
