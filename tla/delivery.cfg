SPECIFICATION Spec
CONSTANTS
    Outgoing = {p1, p2}
    Texts = {t1}
    MaxSeq = 2
    Sockets = {k1}
    MaxInFlight = 1
    MaxQueue = 1
    NoPayload = NoPayload
    NoRow = NoRow
    NoSocket = NoSocket
    NotLoaded = NotLoaded
    SqliteErrors = FALSE
    Crashes = FALSE
    Restarts = TRUE
    OverlapRecovery = FALSE
    WaitClosed = FALSE
    Reloads = TRUE
    Retransmits = FALSE
SYMMETRY Symmetry
INVARIANTS NoLoss SeqNamesOneMessage DiskFollowsMemory
PROPERTY ImplementsMailbox
