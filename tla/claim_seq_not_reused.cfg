SPECIFICATION Spec
CONSTANTS
    Outgoing = {p1, p2}
    Texts = {}
    MaxSeq = 2
    Sockets = {k1}
    MaxInFlight = 1
    MaxQueue = 8
    NoPayload = NoPayload
    NoRow = NoRow
    NoSocket = NoSocket
    NotLoaded = NotLoaded
    SqliteErrors = FALSE
    Crashes = TRUE
    Restarts = FALSE
    OverlapRecovery = FALSE
    WaitClosed = FALSE
    Reloads = FALSE
    Retransmits = FALSE
PROPERTY SeqNotReused
