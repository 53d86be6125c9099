CONSTANTS
    i1 = i1
    Ifs <- MCIfs
    Ports <- MCPorts
    Word = 2
    Bufs = {1, 2, 3, 4, 5}
    NRxThr = 1
    PKT_BURST_SZ = 2
    BUFFER_ORDER_BITS = 4
    RingSizes = {2, 6}
    FirstPkt = 14
    LastPkt = 16
    MaxOpen = 2
    Faults = {"spurious", "refused"}
SPECIFICATION FairSpec
INVARIANTS  NoOom
PROPERTIES InOrder Delivered
CHECK_DEADLOCK FALSE
