SPECIFICATION FairSpec
CONSTANTS
    Procs = {p1, p2}
    Blocks = {b1, b2, b3}
    Vals = {v0, v1}
    InitVal = v0
    LOGSIZE = 4
    MAXOPBLOCKS = 2
    LogBlocks = 4
    OpBlocks = 1
INVARIANTS  DirtyIsPinned QuiescentDurable
PROPERTIES CrashAtomic SleeperWakes
