SPECIFICATION FairSpec
CONSTANTS
    Threads = {t1, t2}
    Bufs = {b1, b2, b3}
    buf_num = 3
    MaxGet = 2
    Granule = 1
    Pushes = {"multi", "list"}
    Laps = FALSE
    None = None
INVARIANTS
    TypeOK
    NoSlotRace
PROPERTIES
    ImplementsFifo
    ClaimPublished
