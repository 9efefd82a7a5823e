SPECIFICATION FairSpec
CONSTANTS
    Outgoing = {p1}
    Texts = {}
    MaxSeq = 1
    Sockets = {k1, k2}
    MaxInFlight = 1
    MaxQueue = 8
    NoPayload = NoPayload
    NoRow = NoRow
    NoSocket = NoSocket
    NotLoaded = NotLoaded
    SqliteErrors = FALSE
    Crashes = FALSE
    Restarts = TRUE
    OverlapRecovery = FALSE
    WaitClosed = TRUE
    Reloads = FALSE
    Retransmits = FALSE
INVARIANT OpenConnectionRegistered
PROPERTIES EventuallySettled StopEnds
