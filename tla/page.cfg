SPECIFICATION FairSpec
CONSTANTS
    Tabs = {t1, t2}
    Sockets = {s1, s2, s3}
    NoSocket = NoSocket
    NoTab = NoTab
    MaxFaults = 2
CHECK_DEADLOCK FALSE
INVARIANTS ConnectedIsLive OneAttempt EvictedStaysOff
PROPERTIES Reconnects PairEndsTogether ReadsWhatWasWritten
