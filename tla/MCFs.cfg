SPECIFICATION Spec
CONSTANTS
    None = None
    p1 = p1
    p2 = p2
    Procs <- MCProcs
    Names <- MCNames
    NInodes = 3
    NINODE = 3
    MaxLink = 2
    Calls <- MCCalls
INVARIANTS
    RefsCounted
    NamesAlive
    FreedWhenUnused
    NoDeadlock
    KnownPanics
