SPECIFICATION Spec
CONSTANTS
    Outgoing = {}
    Texts = {t1, t2}
    MaxSeq = 2
    Sockets = {k1, k2}
    MaxInFlight = 1
    MaxQueue = 0
    NoPayload = NoPayload
    NoRow = NoRow
    NoSocket = NoSocket
    NotLoaded = NotLoaded
    SqliteErrors = FALSE
    Crashes = FALSE
    Restarts = FALSE
    OverlapRecovery = FALSE
    WaitClosed = FALSE
    Reloads = FALSE
    Retransmits = TRUE
SYMMETRY Symmetry
INVARIANTS InboundTracking ConfirmedIsHandled
PROPERTY NothingRepeated
