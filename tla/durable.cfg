SPECIFICATION Spec
CONSTANTS
    Outgoing = {p1, p2}
    Texts = {t1}
    MaxSeq = 1
    Sockets = {k1}
    MaxInFlight = 1
    MaxQueue = 0
    NoPayload = NoPayload
    NoRow = NoRow
    NoSocket = NoSocket
    NotLoaded = NotLoaded
    SqliteErrors = TRUE
    Crashes = TRUE
    Restarts = TRUE
    OverlapRecovery = FALSE
    WaitClosed = FALSE
    Reloads = FALSE
    Retransmits = FALSE
SYMMETRY Symmetry
INVARIANT TypeOK
PROPERTIES DurableNextGrows DurableRowsSettle
