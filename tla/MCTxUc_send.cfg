SPECIFICATION FairSpec
CONSTANTS
  Threads = {t1, t2}
  Keepers = {t2}
  Callers = {"eth_send", "pcie_send"}
  Pkts = {p1, p2, p3}
  Big = {p3}
  MAX_JOB_PER_UC = 2
  MaxPkt = 2
  MaxBurst = 3
  MaxPcieBurst = 2
  MaxJobs = 5
  InOrder = TRUE
INVARIANTS SlotOneJob 
PROPERTY CallReturns
CHECK_DEADLOCK FALSE
