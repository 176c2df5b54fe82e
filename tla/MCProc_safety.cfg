SPECIFICATION Spec
CONSTANTS
    Procs = {init, a, b, c}
    initproc = init
    CPUs = {c1, c2}
    KillPids = {0, a, b, c}
    None = None
SYMMETRY Sym
INVARIANTS OneCPUPerProcess SchedLocks NoSleepBesideZombie ParentAlive
