\* More blocks than buffers, and just enough buffers.
SPECIFICATION Spec
CONSTANTS
    Procs = {p1, p2}
    Blocks = {b1, b2, b3, b4}
    Vals = {x, y}
    NBUF = 3
    MaxPins = 1
    None = None
SYMMETRY Sym
INVARIANTS
    OneBufferPerBlock
    RefsCounted
    SleeperHasHolder

    
