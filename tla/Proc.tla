-------------------------------- MODULE Proc -------------------------------
(***************************************************************************)
(* kernel/proc.c: the process table, the per-CPU scheduler and the kernel  *)
(* side of fork, exit, wait and kill, at the granularity of its locks.  A  *)
(* critical section that takes no further lock is one step; a lock that is *)
(* kept across steps (wait_lock, and p->lock across swtch) is explicit.    *)
(***************************************************************************)
EXTENDS Naturals, FiniteSets

CONSTANTS Procs,      \* slots of proc[NPROC]
          initproc,   \* the slot userinit takes
          CPUs,
          KillPids,   \* arguments of kill(): pids of slots, or 0
          None        \* the null pointer

ASSUME ProcAssumption == initproc \in Procs /\ None \notin Procs \cup CPUs

VARIABLES state, parent, chan, killed,  \* fields of struct proc
          lk,                           \* holder (a CPU) of each p->lock
          waitlk,                       \* the process that holds wait_lock
          cpu,                          \* c->proc
          pc,                           \* where the kernel thread of a process is
          child                         \* fork's np

vars == <<state, parent, chan, killed, lk, waitlk, cpu, pc, child>>

States == {"UNUSED", "USED", "SLEEPING", "RUNNABLE", "RUNNING", "ZOMBIE"}
Places == {"user", "fork_parent", "fork_run", "exit", "reparent", "wake_init",
           "wake_parent", "zombie", "exited", "dead", "wait", "scan", "sleep", "unlock",
           "doze", "asleep"}

\* A pid is 0 in a free slot; the numbers allocpid hands out are not reused,
\* so a pid in use stands for its slot.
pid(p) == IF state[p] = "UNUSED" THEN 0 ELSE p

\* After procinit and userinit.
Init == /\ state = [p \in Procs |-> IF p = initproc THEN "RUNNABLE" ELSE "UNUSED"]
        /\ parent = [p \in Procs |-> None]
        /\ chan = [p \in Procs |-> None]
        /\ killed = [p \in Procs |-> FALSE]
        /\ lk = [p \in Procs |-> None]
        /\ waitlk = None
        /\ cpu = [c \in CPUs |-> None]
        /\ pc = [p \in Procs |-> "user"]
        /\ child = [p \in Procs |-> None]

----------------------------------------------------------------------------
\* Locks and context switches

OnCPU(p) == \E c \in CPUs : cpu[c] = p
CPUof(p) == CHOOSE c \in CPUs : cpu[c] = p
Free(p) == lk[p] = None
Acquire(p, q) == lk' = [lk EXCEPT ![q] = CPUof(p)]

\* The thread of p executes: it is on a CPU and past the release of p->lock
\* that follows swtch, or at a place where it has taken p->lock itself.
Runs(p) == /\ OnCPU(p)
           /\ state[p] = "RUNNING"
           /\ Free(p) \/ pc[p] \in {"unlock", "doze"}

Goto(p, l) == pc' = [pc EXCEPT ![p] = l]

\* scheduler(): pick a RUNNABLE process and swtch to it, holding p->lock.
Dispatch(c, p) == /\ cpu[c] = None
                  /\ Free(p)
                  /\ state[p] = "RUNNABLE"
                  /\ state' = [state EXCEPT ![p] = "RUNNING"]
                  /\ cpu' = [cpu EXCEPT ![c] = p]
                  /\ lk' = [lk EXCEPT ![p] = c]
                  /\ UNCHANGED <<parent, chan, killed, waitlk, pc, child>>

\* The thread returns from swtch in sched() or starts in forkret: it releases
\* p->lock; sleep() also clears p->chan and goes back for the lock it gave up.
Resume(p) == /\ OnCPU(p) /\ state[p] = "RUNNING"
             /\ ~Free(p) /\ pc[p] \notin {"unlock", "doze"}
             /\ lk' = [lk EXCEPT ![p] = None]
             /\ chan' = [chan EXCEPT ![p] = None]
             /\ pc' = IF pc[p] = "asleep" THEN [pc EXCEPT ![p] = "wait"] ELSE pc
             /\ UNCHANGED <<state, parent, killed, waitlk, cpu, child>>

\* swtch from sched() back into scheduler(), which clears c->proc and
\* releases the lock of the process it came from.
SwitchBack(c) == LET p == cpu[c] IN
    /\ p # None
    /\ ~Free(p)
    /\ state[p] # "RUNNING" /\ pc[p] # "exited"
    /\ cpu' = [cpu EXCEPT ![c] = None]
    /\ lk' = [lk EXCEPT ![p] = None]
    /\ UNCHANGED <<state, parent, chan, killed, waitlk, pc, child>>

\* A timer interrupt in user mode or in the kernel with no lock held: yield().
\* acquire(&wait_lock) spins with interrupts off.
Yield(p) == /\ Runs(p) /\ Free(p) /\ waitlk # p
            /\ pc[p] \in {"fork_parent", "exit", "wait"} => waitlk = None
            /\ Acquire(p, p)
            /\ state' = [state EXCEPT ![p] = "RUNNABLE"]
            /\ UNCHANGED <<parent, chan, killed, waitlk, cpu, pc, child>>

\* wakeup(q): only q itself ever sleeps on the address of its own slot.
Wakeup(p, q) == /\ Free(q)
                /\ state' = IF q # p /\ state[q] = "SLEEPING" /\ chan[q] = q
                            THEN [state EXCEPT ![q] = "RUNNABLE"] ELSE state

----------------------------------------------------------------------------
\* fork()

allocproc(q) == /\ Free(q) /\ state[q] = "UNUSED"
                /\ state' = [state EXCEPT ![q] = "USED"]

\* allocproc and the copy of the parent, all under np->lock.
Fork(p, q) == /\ Runs(p) /\ pc[p] = "user" /\ ~killed[p]
              /\ allocproc(q)
              /\ pc' = [pc EXCEPT ![p] = "fork_parent", ![q] = "user"]
              /\ child' = [child EXCEPT ![p] = q]
              /\ UNCHANGED <<parent, chan, killed, lk, waitlk, cpu>>

\* uvmcopy fails: freeproc(np) before np->lock is released.
ForkFail(p, q) == /\ Runs(p) /\ pc[p] = "user" /\ ~killed[p]
                  /\ Free(q) /\ state[q] = "UNUSED"
                  /\ killed' = [killed EXCEPT ![q] = FALSE]
                  /\ UNCHANGED <<state, parent, chan, lk, waitlk, cpu, pc, child>>

\* np->parent = p under wait_lock.
ForkParent(p) == /\ Runs(p) /\ pc[p] = "fork_parent"
                 /\ waitlk = None
                 /\ parent' = [parent EXCEPT ![child[p]] = p]
                 /\ Goto(p, "fork_run")
                 /\ UNCHANGED <<state, chan, killed, lk, waitlk, cpu, child>>

\* np->state = RUNNABLE under np->lock.
ForkRun(p) == /\ Runs(p) /\ pc[p] = "fork_run"
              /\ Free(child[p])
              /\ state' = [state EXCEPT ![child[p]] = "RUNNABLE"]
              /\ child' = [child EXCEPT ![p] = None]
              /\ Goto(p, "user")
              /\ UNCHANGED <<parent, chan, killed, lk, waitlk, cpu>>

----------------------------------------------------------------------------
\* exit()

\* By choice, or because usertrap finds p->killed; initproc never exits.
ExitCall(p) == /\ Runs(p) /\ pc[p] = "user" /\ p # initproc
               /\ Goto(p, "exit")
               /\ UNCHANGED <<state, parent, chan, killed, lk, waitlk, cpu, child>>

ExitLock(p) == /\ Runs(p) /\ pc[p] = "exit"
               /\ waitlk = None
               /\ waitlk' = p
               /\ Goto(p, "reparent")
               /\ UNCHANGED <<state, parent, chan, killed, lk, cpu, child>>

\* Mutant: the children keep their parent.
ReparentNone(p) == /\ Runs(p) /\ pc[p] = "reparent"
                   /\ Goto(p, "wake_parent")
                   /\ UNCHANGED <<state, parent, chan, killed, lk, waitlk, cpu, child>>

\* reparent(p): the children go to initproc, which is woken if there are any.
Reparent(p) == LET kids == {q \in Procs : parent[q] = p} IN
    /\ Runs(p) /\ pc[p] = "reparent"
    /\ parent' = [q \in Procs |-> IF q \in kids THEN initproc ELSE parent[q]]
    /\ Goto(p, IF kids = {} THEN "wake_parent" ELSE "wake_init")
    /\ UNCHANGED <<state, chan, killed, lk, waitlk, cpu, child>>

WakeInit(p) == /\ Runs(p) /\ pc[p] = "wake_init"
               /\ Wakeup(p, initproc)
               /\ Goto(p, "wake_parent")
               /\ UNCHANGED <<parent, chan, killed, lk, waitlk, cpu, child>>

\* Mutant: exit() does not wake the parent.
WakeParentSilent(p) == /\ Runs(p) /\ pc[p] = "wake_parent"
                       /\ Goto(p, "zombie")
                       /\ UNCHANGED <<state, parent, chan, killed, lk, waitlk, cpu, child>>

WakeParent(p) == /\ Runs(p) /\ pc[p] = "wake_parent"
                 /\ Wakeup(p, parent[p])
                 /\ Goto(p, "zombie")
                 /\ UNCHANGED <<parent, chan, killed, lk, waitlk, cpu, child>>

\* Take p->lock and become a ZOMBIE, still holding wait_lock.
BecomeZombie(p) == /\ Runs(p) /\ pc[p] = "zombie"
                   /\ Free(p)
                   /\ Acquire(p, p)
                   /\ state' = [state EXCEPT ![p] = "ZOMBIE"]
                   /\ Goto(p, "exited")
                   /\ UNCHANGED <<parent, chan, killed, waitlk, cpu, child>>

\* Release wait_lock and call sched(); p->lock stays held until SwitchBack.
ExitSched(p) == /\ OnCPU(p) /\ pc[p] = "exited" /\ waitlk = p
                /\ waitlk' = None
                /\ Goto(p, "dead")
                /\ UNCHANGED <<state, parent, chan, killed, lk, cpu, child>>

----------------------------------------------------------------------------
\* wait()

Kids(p) == {q \in Procs : parent[q] = p}
Zombies(p) == {q \in Kids(p) : state[q] = "ZOMBIE"}

WaitCall(p) == /\ Runs(p) /\ pc[p] = "user" /\ ~killed[p]
               /\ Goto(p, "wait")
               /\ UNCHANGED <<state, parent, chan, killed, lk, waitlk, cpu, child>>

\* Also the acquire(lk) at the end of sleep(p, &wait_lock).
WaitLock(p) == /\ Runs(p) /\ pc[p] = "wait"
               /\ waitlk = None
               /\ waitlk' = p
               /\ Goto(p, "scan")
               /\ UNCHANGED <<state, parent, chan, killed, lk, cpu, child>>

\* freeproc(q).
freeproc(q) == /\ state' = [state EXCEPT ![q] = "UNUSED"]
               /\ parent' = [parent EXCEPT ![q] = None]
               /\ chan' = [chan EXCEPT ![q] = None]
               /\ killed' = [killed EXCEPT ![q] = FALSE]

\* Mutant: wait() does not take the child's lock.
WaitReapUnlocked(p, q) == /\ Runs(p) /\ pc[p] = "scan"
                          /\ q \in Zombies(p)
                          /\ freeproc(q)
                          /\ waitlk' = None
                          /\ Goto(p, "user")
                          /\ UNCHANGED <<lk, cpu, child>>

\* Mutant: wait() starts over instead of freeing the child it has found.
WaitReapRetry(p, q) == /\ Runs(p) /\ pc[p] = "scan"
                       /\ q \in Zombies(p)
                       /\ Free(q)
                       /\ waitlk' = None
                       /\ Goto(p, "wait")
                       /\ UNCHANGED <<state, parent, chan, killed, lk, cpu, child>>

\* A ZOMBIE child is freed under its lock.
WaitReap(p, q) == /\ Runs(p) /\ pc[p] = "scan"
                  /\ q \in Zombies(p)
                  /\ Free(q)
                  /\ freeproc(q)
                  /\ waitlk' = None
                  /\ Goto(p, "user")
                  /\ UNCHANGED <<lk, cpu, child>>

\* copyout of the exit status fails: wait returns -1 and the child stays.
\* The init program calls wait(0), which copies nothing.
WaitFault(p, q) == /\ Runs(p) /\ pc[p] = "scan" /\ p # initproc
                   /\ q \in Zombies(p)
                   /\ Free(q)
                   /\ waitlk' = None
                   /\ Goto(p, "user")
                   /\ UNCHANGED <<state, parent, chan, killed, lk, cpu, child>>

\* No children, or killed(p): wait returns -1.
WaitNone(p) == /\ Runs(p) /\ pc[p] = "scan"
               /\ Zombies(p) = {}
               /\ Kids(p) = {} \/ killed[p]
               /\ waitlk' = None
               /\ Goto(p, "user")
               /\ UNCHANGED <<state, parent, chan, killed, lk, cpu, child>>

\* Nothing to reap yet: wait goes on to call sleep().
WaitSleep(p) == /\ Runs(p) /\ pc[p] = "scan"
                /\ Zombies(p) = {} /\ Kids(p) # {} /\ ~killed[p]
                /\ Goto(p, "sleep")
                /\ UNCHANGED <<state, parent, chan, killed, lk, waitlk, cpu, child>>

\* sleep(p, &wait_lock): acquire p->lock,
SleepLock(p) == /\ Runs(p) /\ pc[p] = "sleep"
                /\ Free(p)
                /\ Acquire(p, p)
                /\ Goto(p, "unlock")
                /\ UNCHANGED <<state, parent, chan, killed, waitlk, cpu, child>>

\* Mutant: sleep() keeps the lock it was given.
SleepKeepsLock(p) == /\ Runs(p) /\ pc[p] = "unlock"
                     /\ Goto(p, "doze")
                     /\ UNCHANGED <<state, parent, chan, killed, lk, waitlk, cpu, child>>

\* release wait_lock,
SleepUnlock(p) == /\ Runs(p) /\ pc[p] = "unlock"
                  /\ waitlk' = None
                  /\ Goto(p, "doze")
                  /\ UNCHANGED <<state, parent, chan, killed, lk, cpu, child>>

\* set chan and state and call sched().
SleepSched(p) == /\ Runs(p) /\ pc[p] = "doze"
                 /\ chan' = [chan EXCEPT ![p] = p]
                 /\ state' = [state EXCEPT ![p] = "SLEEPING"]
                 /\ Goto(p, "asleep")
                 /\ UNCHANGED <<parent, killed, lk, waitlk, cpu, child>>

----------------------------------------------------------------------------
\* kill(n), called by p: the slot whose pid is n, under its lock.
Kill(p, n) == /\ Runs(p) /\ pc[p] = "user" /\ ~killed[p]
              /\ \E q \in Procs :
                    /\ pid(q) = n
                    /\ Free(q)
                    /\ killed' = [killed EXCEPT ![q] = TRUE]
                    /\ state' = IF state[q] = "SLEEPING"
                                THEN [state EXCEPT ![q] = "RUNNABLE"] ELSE state
              /\ UNCHANGED <<parent, chan, lk, waitlk, cpu, pc, child>>

----------------------------------------------------------------------------
ForkStep(p) == ForkParent(p) \/ ForkRun(p)
ExitStep(p) == \/ ExitLock(p) \/ Reparent(p) \/ WakeInit(p) \/ WakeParent(p)
               \/ BecomeZombie(p) \/ ExitSched(p)
WaitStep(p) == \/ WaitLock(p) \/ WaitNone(p) \/ WaitSleep(p)
               \/ SleepLock(p) \/ SleepUnlock(p) \/ SleepSched(p)
               \/ \E q \in Procs : WaitReap(p, q)
\* Mutant: usertrap does not test killed().
KernelStepUnkilled(p) == ForkStep(p) \/ ExitStep(p) \/ WaitStep(p)
KernelStep(p) == ForkStep(p) \/ ExitStep(p) \/ WaitStep(p) \/ (killed[p] /\ ExitCall(p))

Next == \/ \E c \in CPUs : SwitchBack(c) \/ \E p \in Procs : Dispatch(c, p)
        \/ \E p \in Procs : \/ Resume(p) \/ Yield(p)
                            \/ ForkStep(p) \/ ExitCall(p) \/ ExitStep(p)
                            \/ WaitCall(p) \/ WaitStep(p)
                            \/ \E q \in Procs : Fork(p, q) \/ ForkFail(p, q) \/ WaitFault(p, q)
                            \/ \E n \in KillPids : Kill(p, n)

Spec == Init /\ [][Next]_vars

\* Round-robin scheduling reaches every runnable process, a spinning acquire
\* succeeds in the end, timer interrupts keep coming, and a killed process traps.
Fairness == /\ \A c \in CPUs : WF_vars(SwitchBack(c))
            /\ \A p \in Procs : /\ WF_vars(Resume(p)) /\ SF_vars(\E c \in CPUs : Dispatch(c, p))
                                /\ SF_vars(KernelStep(p))
                                /\ SF_vars(Yield(p))

FairSpec == Spec /\ Fairness

----------------------------------------------------------------------------
\* Properties

\* Types of the fields of struct proc and struct cpu.
TypeOK == /\ state \in [Procs -> States]
          /\ parent \in [Procs -> Procs \cup {None}]
          /\ chan \in [Procs -> Procs \cup {None}]
          /\ killed \in [Procs -> BOOLEAN]
          /\ lk \in [Procs -> CPUs \cup {None}]
          /\ waitlk \in Procs \cup {None}
          /\ cpu \in [CPUs -> Procs \cup {None}]
          /\ pc \in [Procs -> Places]
          /\ child \in [Procs -> Procs \cup {None}]

\* Two CPUs never run on the same kernel stack: scheduler() cannot pick a
\* process that yields or wakes up before its last CPU has left it, and wait()
\* does not free a child that is still on its way from exit() to scheduler().
OneCPUPerProcess ==
    /\ \A c, d \in CPUs : cpu[c] = cpu[d] /\ cpu[c] # None => c = d
    /\ \A p \in Procs : state[p] \in {"UNUSED", "USED"} => ~OnCPU(p)

\* sched() does not panic: the thread holds exactly its own p->lock and has
\* left RUNNING.  So wait_lock is held only by a thread on a CPU, and whoever
\* spins for it does not wait for a descheduled process.
SchedLocks ==
    /\ \A c \in CPUs : LET p == cpu[c] IN
           p # None /\ pc[p] \in {"dead", "asleep"} => lk[p] = c /\ waitlk # p
    /\ waitlk # None => OnCPU(waitlk)

\* No lost wakeup: outside the critical sections of wait_lock, no parent sleeps
\* in wait() beside a child that has already exited (exit() wakes it under
\* wait_lock before it becomes a ZOMBIE, and reparent() wakes initproc for the
\* zombies it inherits).
NoSleepBesideZombie ==
    waitlk = None => \A p, q \in Procs :
        state[p] = "SLEEPING" /\ parent[q] = p => state[q] # "ZOMBIE"

\* Every process has a living parent that can reap it: exit() gives the
\* children away before it becomes a ZOMBIE.
ParentAlive ==
    \A p \in Procs : state[p] \notin {"UNUSED", "USED"} /\ p # initproc =>
        /\ parent[p] # None
        /\ state[parent[p]] \notin {"UNUSED", "USED", "ZOMBIE"}

\* wait() returns: a parent asleep in wait() after one of its children has
\* exited runs again and reaps a child.
WaitReturns == \A p \in Procs : pc[p] = "asleep" /\ Zombies(p) # {} ~> pc[p] = "user"

\* A killed process exits, or sleeps in wait() for a living child: kill() may
\* come between the test of killed() and the change of state in sleep().
KilledExitsOrWaits == \A p \in Procs :
    killed[p] /\ p # initproc ~> state[p] \in {"ZOMBIE", "UNUSED", "SLEEPING"}
============================================================================
