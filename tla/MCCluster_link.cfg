CONSTANTS
    s1 = s1
    s2 = s2
    r1 = r1
    r2 = r2
    Senders <- MCSenders
    Receivers <- MCReceivers
    NTags = 2
    NRxThr = 1
    MaxBurst = 2
    MaxPkts = 6
    MaxOom = 2
    MaxOpen = 2
SPECIFICATION FairSpec
  
PROPERTY CreditReturns
CHECK_DEADLOCK FALSE
