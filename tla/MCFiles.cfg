SPECIFICATION Spec
CONSTANTS
    None = None
    Procs = {p1, p2}
    first = p1
    NFILE = 2
    NOFILE = 2
    Inums = {i1, i2}
    NDIRECT = 1
    NINDIRECT = 1
    BSIZE = 2
    NBlocks = 3
    MaxChunk = 2
    Sizes = {3}
    p1 = p1
    p2 = p2
    Workloads <- MCWorkloads
SYMMETRY MCSym
VIEW MCView
INVARIANTS
    FilesCounted
    BlocksConserved
PROPERTIES
    IsByteFile
