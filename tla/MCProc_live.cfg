SPECIFICATION FairSpec
CONSTANTS
    Procs = {init, a, b}
    initproc = init
    CPUs = {c1}
    KillPids = {a}
    None = None
PROPERTIES WaitReturns 
