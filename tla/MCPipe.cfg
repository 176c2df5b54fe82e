\* The counters wrap around after three bytes, and a write can be longer than the pipe.
SPECIFICATION FairSpec
CHECK_DEADLOCK FALSE
CONSTANTS
    Writers = {w1, w2}
    Readers = {r1}
    Bytes = {x, y}
    PIPESIZE = 1
    UintRange = 3
    MaxN = 2
    None = None
INVARIANTS NoLostWakeup FreedUnused
PROPERTIES  CallReturns
VIEW View
