SPECIFICATION Spec
CHECK_DEADLOCK FALSE
CONSTANTS
    Procs = {p1, p2}
    initproc = p1
    KERNBASE = 8
    Frames = {8, 9, 10}
    MaxSize = 2
    MaxCount = 2
    MAX_SWAP_PAGES = 1
    NULL = NULL
INVARIANT SwapOutWorks
