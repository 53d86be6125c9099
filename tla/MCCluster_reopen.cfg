CONSTANTS
    s1 = s1
    s2 = s2
    r1 = r1
    r2 = r2
    Senders <- MCSenders
    Receivers <- MCReceivers
    NTags = 2
    NRxThr = 1
    MaxBurst = 2
    MaxPkts = 4
    MaxOom = 0
    MaxOpen = 2
SPECIFICATION ReopenSpec
PROPERTY SendingResumes
CHECK_DEADLOCK FALSE
