SPECIFICATION Spec
CONSTANTS
    Threads = {t1, t2}
    Bufs = {b1, b2}
    MaxAlloc = 2
SYMMETRY Symm
CHECK_DEADLOCK FALSE
INVARIANTS
    DestroyedOnlyIfFree
