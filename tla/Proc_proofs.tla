---------------------------- MODULE Proc_proofs ----------------------------
(***************************************************************************)
(* Proofs about Proc, for any number of process slots and CPUs: no process *)
(* runs on two CPUs or is freed under one, sched() is called with exactly  *)
(* the process's own lock, every process has a living parent, and no       *)
(* parent sleeps through the exit of a child.                              *)
(***************************************************************************)
EXTENDS Proc, TLAPS

----------------------------------------------------------------------------
\* The inductive invariant

\* The places where the thread holds wait_lock, the places of exit() after
\* reparent(), and those of fork() that have a new slot.
Waiting == {"reparent", "wake_init", "wake_parent", "zombie", "exited", "scan", "sleep", "unlock"}
Childless == {"wake_init", "wake_parent", "zombie", "exited", "dead"}
Forking == {"fork_parent", "fork_run"}

\* A CPU runs one process; p->lock is held on the CPU that runs p, and held
\* whenever a CPU is with a process that is not RUNNING.
CpuInv == /\ \A c, d \in CPUs : cpu[c] = cpu[d] /\ cpu[c] # None => c = d
          /\ \A p \in Procs : lk[p] # None => cpu[lk[p]] = p
          /\ \A c \in CPUs : cpu[c] # None =>
                /\ state[cpu[c]] \notin {"UNUSED", "USED"}
                /\ state[cpu[c]] # "RUNNING" => lk[cpu[c]] = c
          /\ \A p \in Procs : state[p] = "RUNNING" \/ pc[p] = "exited" => OnCPU(p)

\* Where a thread can be in each state, and where it holds p->lock.
PlaceInv == \A p \in Procs :
    /\ state[p] = "UNUSED" => pc[p] \in {"user", "dead"}
    /\ state[p] = "USED" => pc[p] = "user"
    /\ state[p] = "SLEEPING" => pc[p] = "asleep" /\ chan[p] = p
    /\ state[p] = "ZOMBIE" => pc[p] \in {"exited", "dead"}
    /\ state[p] = "RUNNABLE" => pc[p] \in {"user", "fork_parent", "fork_run", "exit", "wait", "asleep"}
    /\ state[p] = "RUNNING" => pc[p] \notin {"exited", "dead"}
    /\ pc[p] \in {"unlock", "doze"} \/ (pc[p] = "asleep" /\ state[p] = "RUNNING") => lk[p] # None

\* wait_lock is held by the thread that is between its acquire and its release.
WaitInv == \A p \in Procs : pc[p] \in Waiting <=> waitlk = p

\* The slot fork() has taken is its own until it is RUNNABLE.
ForkInv == /\ \A p \in Procs : pc[p] \in Forking => child[p] \in Procs /\ state[child[p]] = "USED"
           /\ \A p \in Procs : pc[p] = "fork_run" => parent[child[p]] = p
           /\ \A p, q \in Procs : pc[p] \in Forking /\ pc[q] \in Forking /\ child[p] = child[q] => p = q

\* The first process does not exit.
InitprocInv == /\ parent[initproc] = None
               /\ pc[initproc] \notin {"exit", "reparent"} \cup Childless
               /\ state[initproc] \notin {"UNUSED", "USED", "ZOMBIE"}

\* An exiting process has given its children away.
KidsInv == \A p, q \in Procs : pc[p] \in Childless => parent[q] # p

\* A parent asleep, or about to be, has no ZOMBIE child, but for the zombies that
\* initproc has just inherited and will be woken for; and it is awake from the
\* wakeup in exit() until its child is a ZOMBIE.
Drowsy(p) == pc[p] \in {"sleep", "unlock", "doze"} \/ state[p] = "SLEEPING"
SleepInv == /\ \A p, q \in Procs : parent[q] = p /\ state[q] = "ZOMBIE" /\ Drowsy(p) =>
                  p = initproc /\ \E x \in Procs : waitlk = x /\ pc[x] = "wake_init"
            /\ \A q \in Procs : pc[q] = "zombie" /\ parent[q] \in Procs => ~Drowsy(parent[q])

Inv == /\ TypeOK /\ CpuInv /\ PlaceInv /\ WaitInv /\ ForkInv /\ InitprocInv
       /\ ParentAlive /\ KidsInv /\ SleepInv

----------------------------------------------------------------------------
\* Each step keeps the invariant

\* CPUof(p) is the CPU that runs p.
LEMMA CPUofOn ==
    ASSUME TypeOK, NEW p \in Procs, OnCPU(p)
    PROVE  CPUof(p) \in CPUs /\ cpu[CPUof(p)] = p
  BY DEF OnCPU, CPUof

\* scheduler() gives a RUNNABLE process to a CPU.
LEMMA DispatchKeeps ==
    ASSUME Inv, NEW c \in CPUs, NEW p \in Procs, Dispatch(c, p)
    PROVE  Inv'
<1> USE ProcAssumption DEF Inv, TypeOK, Dispatch
<1>1. TypeOK'
  BY DEF States, Runs, Free
<1>2. CpuInv'
  BY DEF CpuInv, OnCPU, Runs, Free
<1>3. PlaceInv'
  BY DEF PlaceInv
<1>4. WaitInv'
  BY DEF WaitInv, Waiting
<1>5. ForkInv'
  BY DEF ForkInv, Forking
<1>6. InitprocInv'
  BY DEF InitprocInv, Childless
<1>7. ParentAlive'
  BY DEF ParentAlive
<1>8. KidsInv'
  BY DEF KidsInv, Childless
<1>9. SleepInv'
  BY DEF SleepInv, Drowsy, Childless
<1> QED
  BY <1>1, <1>2, <1>3, <1>4, <1>5, <1>6, <1>7, <1>8, <1>9

\* The process goes on, and releases p->lock where sched() was called from.
LEMMA ResumeKeeps ==
    ASSUME Inv, NEW p \in Procs, Resume(p)
    PROVE  Inv'
<1> USE ProcAssumption DEF Inv, TypeOK, Resume
<1>1. TypeOK'
  BY DEF Places, Runs, Free
<1>2. CpuInv'
  BY DEF CpuInv, OnCPU, Runs, Free
<1>3. PlaceInv'
  BY DEF PlaceInv
<1>4. WaitInv'
  BY DEF WaitInv, Waiting
<1>5. ForkInv'
  BY DEF ForkInv, Forking
<1>6. InitprocInv'
  BY DEF InitprocInv, Childless
<1>7. ParentAlive'
  BY DEF ParentAlive
<1>8. KidsInv'
  BY DEF KidsInv, Childless
<1>9. SleepInv'
  BY DEF SleepInv, Drowsy, Childless
<1> QED
  BY <1>1, <1>2, <1>3, <1>4, <1>5, <1>6, <1>7, <1>8, <1>9

\* A CPU gets back to scheduler() from the process that called sched().
LEMMA SwitchBackKeeps ==
    ASSUME Inv, NEW c \in CPUs, SwitchBack(c)
    PROVE  Inv'
<1> USE ProcAssumption DEF Inv, TypeOK, SwitchBack
<1>1. TypeOK'
  OBVIOUS
<1>2. CpuInv'
  BY DEF CpuInv, OnCPU, Runs, Free
<1>3. PlaceInv'
  BY DEF PlaceInv, States, Runs, Free
<1>4. WaitInv'
  BY DEF WaitInv, Waiting
<1>5. ForkInv'
  BY DEF ForkInv, Forking
<1>6. InitprocInv'
  BY DEF InitprocInv, Childless
<1>7. ParentAlive'
  BY DEF ParentAlive
<1>8. KidsInv'
  BY DEF KidsInv, Childless
<1>9. SleepInv'
  BY DEF SleepInv, Drowsy, Childless
<1> QED
  BY <1>1, <1>2, <1>3, <1>4, <1>5, <1>6, <1>7, <1>8, <1>9

\* yield() from the timer interrupt.
LEMMA YieldKeeps ==
    ASSUME Inv, NEW p \in Procs, Yield(p)
    PROVE  Inv'
<1> USE ProcAssumption DEF Inv, TypeOK, Yield, Acquire
<1>0. CPUof(p) \in CPUs /\ cpu[CPUof(p)] = p
  BY CPUofOn DEF Runs
<1>1. TypeOK'
  BY <1>0 DEF States, Free
<1>2. CpuInv'
  BY <1>0 DEF CpuInv, OnCPU, Free
<1>3. PlaceInv'
  BY <1>0 DEF PlaceInv, WaitInv, Waiting, Places, Runs, Free
<1>4. WaitInv'
  BY <1>0 DEF WaitInv, Waiting
<1>5. ForkInv'
  BY <1>0 DEF ForkInv, Forking, CpuInv, PlaceInv, WaitInv, Waiting, Runs, Free
<1>6. InitprocInv'
  BY <1>0 DEF InitprocInv, Childless
<1>7. ParentAlive'
  BY <1>0 DEF ParentAlive, PlaceInv, Runs, Free, ForkInv, Forking
<1>8. KidsInv'
  BY <1>0 DEF KidsInv, Childless
<1>9. SleepInv'
  BY <1>0 DEF SleepInv, Drowsy, Childless
<1> QED
  BY <1>1, <1>2, <1>3, <1>4, <1>5, <1>6, <1>7, <1>8, <1>9

\* fork() takes a free slot.
LEMMA ForkKeeps ==
    ASSUME Inv, NEW p \in Procs, NEW q \in Procs, Fork(p, q)
    PROVE  Inv'
<1> USE ProcAssumption DEF Inv, TypeOK, Fork, allocproc
<1>1. TypeOK'
  BY DEF States, Places, Free
<1>2. CpuInv'
  BY DEF CpuInv, OnCPU, Free
<1>3. PlaceInv'
  BY DEF PlaceInv, Runs, Free, ForkInv, Forking
<1>4. WaitInv'
  BY DEF WaitInv, Waiting, PlaceInv
<1>5. ForkInv'
  BY DEF ForkInv, Forking
<1>6. InitprocInv'
  BY DEF InitprocInv, Childless
<1>7. ParentAlive'
  BY DEF ParentAlive
<1>8. KidsInv'
  BY DEF KidsInv, Childless
<1>9. SleepInv'
  BY DEF SleepInv, Drowsy, Childless, PlaceInv
<1> QED
  BY <1>1, <1>2, <1>3, <1>4, <1>5, <1>6, <1>7, <1>8, <1>9

\* fork() frees its slot again when the memory does not suffice.
LEMMA ForkFailKeeps ==
    ASSUME Inv, NEW p \in Procs, NEW q \in Procs, ForkFail(p, q)
    PROVE  Inv'
<1> USE ProcAssumption DEF Inv, TypeOK, ForkFail
<1>1. TypeOK'
  OBVIOUS
<1>2. CpuInv'
  BY DEF CpuInv, OnCPU, Free
<1>3. PlaceInv'
  BY DEF PlaceInv
<1>4. WaitInv'
  BY DEF WaitInv, Waiting
<1>5. ForkInv'
  BY DEF ForkInv, Forking
<1>6. InitprocInv'
  BY DEF InitprocInv, Childless
<1>7. ParentAlive'
  BY DEF ParentAlive
<1>8. KidsInv'
  BY DEF KidsInv, Childless
<1>9. SleepInv'
  BY DEF SleepInv, Drowsy, Childless
<1> QED
  BY <1>1, <1>2, <1>3, <1>4, <1>5, <1>6, <1>7, <1>8, <1>9

\* fork() sets the parent of the new process.
LEMMA ForkParentKeeps ==
    ASSUME Inv, NEW p \in Procs, ForkParent(p)
    PROVE  Inv'
<1> USE ProcAssumption DEF Inv, TypeOK, ForkParent, Goto
<1>1. TypeOK'
  BY Zenon DEF States, Places
<1>2. CpuInv'
  BY DEF CpuInv, OnCPU, Runs, Free
<1>3. PlaceInv'
  BY DEF PlaceInv
<1>4. WaitInv'
  BY DEF WaitInv, Waiting
<1>5. ForkInv'
  BY DEF ForkInv, Forking
<1>6. InitprocInv'
  BY DEF InitprocInv, ForkInv, Childless, Forking, Runs, Free
<1>7. ParentAlive'
  BY DEF ParentAlive, PlaceInv
<1>8. KidsInv'
  BY DEF KidsInv, Childless
<1>9. SleepInv'
  BY DEF SleepInv, Drowsy, Childless, PlaceInv
<1> QED
  BY <1>1, <1>2, <1>3, <1>4, <1>5, <1>6, <1>7, <1>8, <1>9

\* fork() makes the new process RUNNABLE.
LEMMA ForkRunKeeps ==
    ASSUME Inv, NEW p \in Procs, ForkRun(p)
    PROVE  Inv'
<1> USE ProcAssumption DEF Inv, TypeOK, ForkRun, Goto
<1>1. TypeOK'
  BY Zenon DEF States, Places
<1>2. CpuInv'
  BY DEF CpuInv, OnCPU, ForkInv, Forking, Free
<1>3. PlaceInv'
  BY DEF PlaceInv, Runs, Free, ForkInv, Forking
<1>4. WaitInv'
  BY DEF WaitInv, Waiting
<1>5. ForkInv'
  BY DEF ForkInv, Forking
<1>6. InitprocInv'
  BY DEF InitprocInv, Childless
<1>7. ParentAlive'
  BY DEF ParentAlive, PlaceInv, Runs, Free, ForkInv, Forking
<1>8. KidsInv'
  BY DEF KidsInv, Childless
<1>9. SleepInv'
  BY DEF SleepInv, Drowsy, Childless
<1> QED
  BY <1>1, <1>2, <1>3, <1>4, <1>5, <1>6, <1>7, <1>8, <1>9

\* exit() is called.
LEMMA ExitCallKeeps ==
    ASSUME Inv, NEW p \in Procs, ExitCall(p)
    PROVE  Inv'
<1> USE ProcAssumption DEF Inv, TypeOK, ExitCall, Goto
<1>1. TypeOK'
  BY DEF Places, Runs, Free
<1>2. CpuInv'
  BY DEF CpuInv, OnCPU, Runs, Free
<1>3. PlaceInv'
  BY DEF PlaceInv, Runs, Free, ForkInv, Forking
<1>4. WaitInv'
  BY DEF WaitInv, Waiting
<1>5. ForkInv'
  BY DEF ForkInv, Forking
<1>6. InitprocInv'
  BY DEF InitprocInv, Childless
<1>7. ParentAlive'
  BY DEF ParentAlive
<1>8. KidsInv'
  BY DEF KidsInv, Childless
<1>9. SleepInv'
  BY DEF SleepInv, Drowsy, Childless
<1> QED
  BY <1>1, <1>2, <1>3, <1>4, <1>5, <1>6, <1>7, <1>8, <1>9

\* exit() takes wait_lock.
LEMMA ExitLockKeeps ==
    ASSUME Inv, NEW p \in Procs, ExitLock(p)
    PROVE  Inv'
<1> USE ProcAssumption DEF Inv, TypeOK, ExitLock, Goto
<1>1. TypeOK'
  BY DEF Places, Runs, Free
<1>2. CpuInv'
  BY DEF CpuInv, OnCPU, Runs, Free
<1>3. PlaceInv'
  BY DEF PlaceInv, Runs, Free, ForkInv, Forking
<1>4. WaitInv'
  BY DEF WaitInv, Waiting
<1>5. ForkInv'
  BY DEF ForkInv, Forking
<1>6. InitprocInv'
  BY DEF InitprocInv, Childless
<1>7. ParentAlive'
  BY DEF ParentAlive
<1>8. KidsInv'
  BY DEF KidsInv, Childless
<1>9. SleepInv'
  BY DEF SleepInv, Drowsy, Childless
<1> QED
  BY <1>1, <1>2, <1>3, <1>4, <1>5, <1>6, <1>7, <1>8, <1>9

\* exit() gives the children to initproc.
LEMMA ReparentKeeps ==
    ASSUME Inv, NEW p \in Procs, Reparent(p)
    PROVE  Inv'
<1> USE ProcAssumption DEF Inv, TypeOK, Reparent, Goto
<1>1. TypeOK'
  BY DEF Places, Runs, Free
<1>2. CpuInv'
  BY DEF CpuInv, OnCPU, Runs, Free
<1>3. PlaceInv'
  BY DEF PlaceInv
<1>4. WaitInv'
  BY DEF WaitInv, Waiting
<1>5. ForkInv'
  BY DEF ForkInv, Forking
<1>6. InitprocInv'
  BY DEF InitprocInv, Childless
<1>7. ParentAlive'
  BY DEF ParentAlive, InitprocInv, Runs, Free
<1>8. KidsInv'
  BY DEF KidsInv, InitprocInv, Runs, Free
<1>9. SleepInv'
  BY DEF SleepInv, Drowsy, Childless, CpuInv, PlaceInv, WaitInv, Waiting, Runs, Free
<1> QED
  BY <1>1, <1>2, <1>3, <1>4, <1>5, <1>6, <1>7, <1>8, <1>9

\* reparent() wakes initproc.
LEMMA WakeInitKeeps ==
    ASSUME Inv, NEW p \in Procs, WakeInit(p)
    PROVE  Inv'
<1> USE ProcAssumption DEF Inv, TypeOK, WakeInit, Goto, Wakeup
<1>1. TypeOK'
  BY DEF States, Places, Free
<1>2. CpuInv'
  BY DEF CpuInv, OnCPU, Free
<1>3. PlaceInv'
  BY DEF PlaceInv
<1>4. WaitInv'
  BY DEF WaitInv, Waiting
<1>5. ForkInv'
  BY DEF ForkInv, Forking, CpuInv, PlaceInv, WaitInv, Waiting, Runs, Free
<1>6. InitprocInv'
  BY DEF InitprocInv, Childless
<1>7. ParentAlive'
  BY DEF ParentAlive, PlaceInv
<1>8. KidsInv'
  BY DEF KidsInv, Childless
<1>9. SleepInv'
  BY DEF SleepInv, Drowsy, Childless, CpuInv, PlaceInv, WaitInv, Waiting, Runs, Free
<1> QED
  BY <1>1, <1>2, <1>3, <1>4, <1>5, <1>6, <1>7, <1>8, <1>9

\* exit() wakes the parent.
LEMMA WakeParentKeeps ==
    ASSUME Inv, NEW p \in Procs, WakeParent(p)
    PROVE  Inv'
<1> USE ProcAssumption DEF Inv, TypeOK, WakeParent, Goto, Wakeup
<1>1. TypeOK'
  BY Zenon DEF States, Places
<1>2. CpuInv'
  BY DEF CpuInv, OnCPU, Free
<1>3. PlaceInv'
  BY DEF PlaceInv
<1>4. WaitInv'
  BY DEF WaitInv, Waiting, PlaceInv
<1>5. ForkInv'
  BY DEF ForkInv, Forking, CpuInv, PlaceInv, WaitInv, Waiting, Runs, Free
<1>6. InitprocInv'
  BY DEF InitprocInv, Childless
<1>7. ParentAlive'
  BY DEF ParentAlive, PlaceInv
<1>8. KidsInv'
  BY DEF KidsInv, Childless
<1>9. SleepInv'
  BY DEF SleepInv, Drowsy, Childless, CpuInv, PlaceInv, WaitInv, Waiting, Runs, Free
<1> QED
  BY <1>1, <1>2, <1>3, <1>4, <1>5, <1>6, <1>7, <1>8, <1>9

\* exit() takes p->lock and becomes a ZOMBIE.
LEMMA BecomeZombieKeeps ==
    ASSUME Inv, NEW p \in Procs, BecomeZombie(p)
    PROVE  Inv'
<1> USE ProcAssumption DEF Inv, TypeOK, BecomeZombie, Goto, Acquire
<1>0. CPUof(p) \in CPUs /\ cpu[CPUof(p)] = p
  BY CPUofOn DEF Runs
<1>1. TypeOK'
  BY <1>0 DEF States, Places, Free
<1>2. CpuInv'
  BY <1>0 DEF CpuInv, OnCPU, Free
<1>3. PlaceInv'
  BY <1>0 DEF PlaceInv
<1>4. WaitInv'
  BY <1>0 DEF WaitInv, Waiting
<1>5. ForkInv'
  BY <1>0 DEF ForkInv, Forking, CpuInv, PlaceInv, WaitInv, Waiting, Runs, Free
<1>6. InitprocInv'
  BY <1>0 DEF InitprocInv, Childless, PlaceInv
<1>7. ParentAlive'
  BY <1>0 DEF ParentAlive, PlaceInv, KidsInv, Childless, Free
<1>8. KidsInv'
  BY <1>0 DEF KidsInv, Childless, PlaceInv
<1>9. SleepInv'
  BY <1>0 DEF SleepInv, Drowsy, Childless, PlaceInv
<1> QED
  BY <1>1, <1>2, <1>3, <1>4, <1>5, <1>6, <1>7, <1>8, <1>9

\* exit() releases wait_lock and calls sched().
LEMMA ExitSchedKeeps ==
    ASSUME Inv, NEW p \in Procs, ExitSched(p)
    PROVE  Inv'
<1> USE ProcAssumption DEF Inv, TypeOK, ExitSched, Goto
<1>1. TypeOK'
  BY DEF Places, Runs, Free
<1>2. CpuInv'
  BY DEF CpuInv, OnCPU, Runs, Free
<1>3. PlaceInv'
  BY DEF PlaceInv
<1>4. WaitInv'
  BY DEF WaitInv, Waiting
<1>5. ForkInv'
  BY DEF ForkInv, Forking
<1>6. InitprocInv'
  BY DEF InitprocInv, Childless
<1>7. ParentAlive'
  BY DEF ParentAlive
<1>8. KidsInv'
  BY DEF KidsInv, Childless
<1>9. SleepInv'
  BY DEF SleepInv, Drowsy, Childless, PlaceInv
<1> QED
  BY <1>1, <1>2, <1>3, <1>4, <1>5, <1>6, <1>7, <1>8, <1>9

\* wait() is called.
LEMMA WaitCallKeeps ==
    ASSUME Inv, NEW p \in Procs, WaitCall(p)
    PROVE  Inv'
<1> USE ProcAssumption DEF Inv, TypeOK, WaitCall, Goto
<1>1. TypeOK'
  BY DEF Places, Runs, Free
<1>2. CpuInv'
  BY DEF CpuInv, OnCPU, Runs, Free
<1>3. PlaceInv'
  BY DEF PlaceInv, Runs, Free, ForkInv, Forking
<1>4. WaitInv'
  BY DEF WaitInv, Waiting
<1>5. ForkInv'
  BY DEF ForkInv, Forking
<1>6. InitprocInv'
  BY DEF InitprocInv, Childless
<1>7. ParentAlive'
  BY DEF ParentAlive
<1>8. KidsInv'
  BY DEF KidsInv, Childless
<1>9. SleepInv'
  BY DEF SleepInv, Drowsy, Childless
<1> QED
  BY <1>1, <1>2, <1>3, <1>4, <1>5, <1>6, <1>7, <1>8, <1>9

\* wait() takes wait_lock.
LEMMA WaitLockKeeps ==
    ASSUME Inv, NEW p \in Procs, WaitLock(p)
    PROVE  Inv'
<1> USE ProcAssumption DEF Inv, TypeOK, WaitLock, Goto
<1>1. TypeOK'
  BY DEF Places, Runs, Free
<1>2. CpuInv'
  BY DEF CpuInv, OnCPU, Runs, Free
<1>3. PlaceInv'
  BY DEF PlaceInv, Runs, Free, ForkInv, Forking
<1>4. WaitInv'
  BY DEF WaitInv, Waiting
<1>5. ForkInv'
  BY DEF ForkInv, Forking
<1>6. InitprocInv'
  BY DEF InitprocInv, Childless
<1>7. ParentAlive'
  BY DEF ParentAlive
<1>8. KidsInv'
  BY DEF KidsInv, Childless
<1>9. SleepInv'
  BY DEF SleepInv, Drowsy, Childless
<1> QED
  BY <1>1, <1>2, <1>3, <1>4, <1>5, <1>6, <1>7, <1>8, <1>9

\* wait() frees a ZOMBIE child.
LEMMA WaitReapKeeps ==
    ASSUME Inv, NEW p \in Procs, NEW q \in Procs, WaitReap(p, q)
    PROVE  Inv'
<1> USE ProcAssumption DEF Inv, TypeOK, WaitReap, Goto, freeproc, Zombies, Kids
<1>1. TypeOK'
  BY DEF States, Places, Free
<1>2. CpuInv'
  BY DEF CpuInv, OnCPU, Runs, Free
<1>3. PlaceInv'
  BY DEF PlaceInv, CpuInv, WaitInv, Waiting, Runs, Free
<1>4. WaitInv'
  BY DEF WaitInv, Waiting
<1>5. ForkInv'
  BY DEF ForkInv, Forking
<1>6. InitprocInv'
  BY DEF InitprocInv, Childless
<1>7. ParentAlive'
  BY DEF ParentAlive
<1>8. KidsInv'
  BY DEF KidsInv, Childless
<1>9. SleepInv'
  BY DEF SleepInv, Drowsy, Childless, CpuInv, PlaceInv, WaitInv, Waiting, Runs, Free
<1> QED
  BY <1>1, <1>2, <1>3, <1>4, <1>5, <1>6, <1>7, <1>8, <1>9

\* wait() cannot copy the exit status out.
LEMMA WaitFaultKeeps ==
    ASSUME Inv, NEW p \in Procs, NEW q \in Procs, WaitFault(p, q)
    PROVE  Inv'
<1> USE ProcAssumption DEF Inv, TypeOK, WaitFault, Goto
<1>1. TypeOK'
  BY DEF Places, Free
<1>2. CpuInv'
  BY DEF CpuInv, OnCPU, Free
<1>3. PlaceInv'
  BY DEF PlaceInv
<1>4. WaitInv'
  BY DEF WaitInv, Waiting
<1>5. ForkInv'
  BY DEF ForkInv, Forking
<1>6. InitprocInv'
  BY DEF InitprocInv, Childless
<1>7. ParentAlive'
  BY DEF ParentAlive
<1>8. KidsInv'
  BY DEF KidsInv, Childless
<1>9. SleepInv'
  BY DEF SleepInv, Drowsy, Childless, CpuInv, PlaceInv, WaitInv, Waiting, Runs, Free
<1> QED
  BY <1>1, <1>2, <1>3, <1>4, <1>5, <1>6, <1>7, <1>8, <1>9

\* wait() has no child to wait for.
LEMMA WaitNoneKeeps ==
    ASSUME Inv, NEW p \in Procs, WaitNone(p)
    PROVE  Inv'
<1> USE ProcAssumption DEF Inv, TypeOK, WaitNone, Goto
<1>1. TypeOK'
  BY DEF Places, Runs, Free
<1>2. CpuInv'
  BY DEF CpuInv, OnCPU, Runs, Free
<1>3. PlaceInv'
  BY DEF PlaceInv
<1>4. WaitInv'
  BY DEF WaitInv, Waiting
<1>5. ForkInv'
  BY DEF ForkInv, Forking
<1>6. InitprocInv'
  BY DEF InitprocInv, Childless
<1>7. ParentAlive'
  BY DEF ParentAlive
<1>8. KidsInv'
  BY DEF KidsInv, Childless
<1>9. SleepInv'
  BY DEF SleepInv, Drowsy, Childless, CpuInv, PlaceInv, WaitInv, Waiting, Runs, Free
<1> QED
  BY <1>1, <1>2, <1>3, <1>4, <1>5, <1>6, <1>7, <1>8, <1>9

\* wait() finds children but no ZOMBIE.
LEMMA WaitSleepKeeps ==
    ASSUME Inv, NEW p \in Procs, WaitSleep(p)
    PROVE  Inv'
<1> USE ProcAssumption DEF Inv, TypeOK, WaitSleep, Goto, Zombies, Kids
<1>1. TypeOK'
  BY DEF Places, Runs, Free
<1>2. CpuInv'
  BY DEF CpuInv, OnCPU, Runs, Free
<1>3. PlaceInv'
  BY DEF PlaceInv
<1>4. WaitInv'
  BY DEF WaitInv, Waiting
<1>5. ForkInv'
  BY DEF ForkInv, Forking
<1>6. InitprocInv'
  BY DEF InitprocInv, Childless
<1>7. ParentAlive'
  BY DEF ParentAlive
<1>8. KidsInv'
  BY DEF KidsInv, Childless
<1>9. SleepInv'
  BY DEF SleepInv, Drowsy, Childless, CpuInv, PlaceInv, WaitInv, Waiting, Runs, Free
<1> QED
  BY <1>1, <1>2, <1>3, <1>4, <1>5, <1>6, <1>7, <1>8, <1>9

\* sleep() takes p->lock.
LEMMA SleepLockKeeps ==
    ASSUME Inv, NEW p \in Procs, SleepLock(p)
    PROVE  Inv'
<1> USE ProcAssumption DEF Inv, TypeOK, SleepLock, Goto, Acquire
<1>0. CPUof(p) \in CPUs /\ cpu[CPUof(p)] = p
  BY CPUofOn DEF Runs
<1>1. TypeOK'
  BY <1>0 DEF Places, Free
<1>2. CpuInv'
  BY <1>0 DEF CpuInv, OnCPU, Free
<1>3. PlaceInv'
  BY <1>0 DEF PlaceInv
<1>4. WaitInv'
  BY <1>0 DEF WaitInv, Waiting
<1>5. ForkInv'
  BY <1>0 DEF ForkInv, Forking
<1>6. InitprocInv'
  BY <1>0 DEF InitprocInv, Childless
<1>7. ParentAlive'
  BY <1>0 DEF ParentAlive
<1>8. KidsInv'
  BY <1>0 DEF KidsInv, Childless
<1>9. SleepInv'
  BY <1>0 DEF SleepInv, Drowsy, Childless
<1> QED
  BY <1>1, <1>2, <1>3, <1>4, <1>5, <1>6, <1>7, <1>8, <1>9

\* sleep() releases wait_lock.
LEMMA SleepUnlockKeeps ==
    ASSUME Inv, NEW p \in Procs, SleepUnlock(p)
    PROVE  Inv'
<1> USE ProcAssumption DEF Inv, TypeOK, SleepUnlock, Goto
<1>1. TypeOK'
  BY DEF Places, Runs, Free
<1>2. CpuInv'
  BY DEF CpuInv, OnCPU, Runs, Free
<1>3. PlaceInv'
  BY DEF PlaceInv
<1>4. WaitInv'
  BY DEF WaitInv, Waiting
<1>5. ForkInv'
  BY DEF ForkInv, Forking
<1>6. InitprocInv'
  BY DEF InitprocInv, Childless
<1>7. ParentAlive'
  BY DEF ParentAlive
<1>8. KidsInv'
  BY DEF KidsInv, Childless
<1>9. SleepInv'
  BY DEF SleepInv, Drowsy, Childless, CpuInv, PlaceInv, WaitInv, Waiting, Runs, Free
<1> QED
  BY <1>1, <1>2, <1>3, <1>4, <1>5, <1>6, <1>7, <1>8, <1>9

\* sleep() becomes SLEEPING and calls sched().
LEMMA SleepSchedKeeps ==
    ASSUME Inv, NEW p \in Procs, SleepSched(p)
    PROVE  Inv'
<1> USE ProcAssumption DEF Inv, TypeOK, SleepSched, Goto
<1>1. TypeOK'
  BY Zenon DEF States, Places
<1>2. CpuInv'
  BY SMTT(30) DEF CpuInv, PlaceInv, OnCPU, Runs, Free
<1>3. PlaceInv'
  BY DEF PlaceInv
<1>4. WaitInv'
  BY DEF WaitInv, Waiting
<1>5. ForkInv'
  BY DEF ForkInv, Forking, CpuInv, PlaceInv, WaitInv, Waiting, Runs, Free
<1>6. InitprocInv'
  BY DEF InitprocInv, Childless
<1>7. ParentAlive'
  BY DEF ParentAlive, PlaceInv
<1>8. KidsInv'
  BY DEF KidsInv, Childless
<1>9. SleepInv'
  BY DEF SleepInv, Drowsy, Childless
<1> QED
  BY <1>1, <1>2, <1>3, <1>4, <1>5, <1>6, <1>7, <1>8, <1>9

\* kill() marks its target and makes it RUNNABLE when it sleeps.
LEMMA KillKeeps ==
    ASSUME Inv, NEW p \in Procs, NEW n \in KillPids, Kill(p, n)
    PROVE  Inv'
<1> USE ProcAssumption DEF Inv, TypeOK, Kill, pid
<1>1. TypeOK'
  BY DEF States, Free
<1>2. CpuInv'
  BY DEF CpuInv, OnCPU, Free
<1>3. PlaceInv'
  BY DEF PlaceInv
<1>4. WaitInv'
  BY DEF WaitInv, Waiting
<1>5. ForkInv'
  BY DEF ForkInv, Forking
<1>6. InitprocInv'
  BY DEF InitprocInv, Childless
<1>7. ParentAlive'
  BY DEF ParentAlive
<1>8. KidsInv'
  BY DEF KidsInv, Childless
<1>9. SleepInv'
  BY DEF SleepInv, Drowsy, Childless
<1> QED
  BY <1>1, <1>2, <1>3, <1>4, <1>5, <1>6, <1>7, <1>8, <1>9

----------------------------------------------------------------------------
\* The theorems

\* main() leaves one RUNNABLE process and no lock held.
LEMMA InitInv == Init => Inv
<1> SUFFICES ASSUME Init PROVE Inv
  OBVIOUS
<1> USE ProcAssumption DEF Init
<1>1. TypeOK
  BY DEF TypeOK, States, Places
<1>2. CpuInv /\ PlaceInv /\ WaitInv /\ ForkInv
  BY DEF CpuInv, PlaceInv, WaitInv, ForkInv, Waiting, Forking
<1>3. InitprocInv /\ ParentAlive /\ KidsInv /\ SleepInv
  BY DEF InitprocInv, ParentAlive, KidsInv, SleepInv, Childless, Drowsy
<1> QED
  BY <1>1, <1>2, <1>3 DEF Inv

\* A stuttering step.
LEMMA StutterKeeps == Inv /\ UNCHANGED vars => Inv'
  BY DEF Inv, vars, TypeOK, CpuInv, OnCPU, PlaceInv, WaitInv, ForkInv, InitprocInv,
         ParentAlive, KidsInv, SleepInv, Drowsy

\* Every step of scheduler(), fork(), exit(), wait(), sleep() and kill().
LEMMA NextInv == Inv /\ [Next]_vars => Inv'
<1> SUFFICES ASSUME Inv, [Next]_vars PROVE Inv'
  OBVIOUS
<1>1. ASSUME NEW c \in CPUs, SwitchBack(c) \/ \E p \in Procs : Dispatch(c, p) PROVE Inv'
  BY <1>1, SwitchBackKeeps, DispatchKeeps
<1>2. ASSUME NEW p \in Procs, Resume(p) \/ Yield(p) \/ ExitCall(p) \/ WaitCall(p) PROVE Inv'
  BY <1>2, ResumeKeeps, YieldKeeps, ExitCallKeeps, WaitCallKeeps
<1>3. ASSUME NEW p \in Procs, ForkStep(p) PROVE Inv'
  BY <1>3, ForkParentKeeps, ForkRunKeeps DEF ForkStep
<1>4. ASSUME NEW p \in Procs, ExitStep(p) PROVE Inv'
  BY <1>4, ExitLockKeeps, ReparentKeeps, WakeInitKeeps, WakeParentKeeps, BecomeZombieKeeps,
     ExitSchedKeeps DEF ExitStep
<1>5. ASSUME NEW p \in Procs, WaitStep(p) PROVE Inv'
  BY <1>5, WaitLockKeeps, WaitNoneKeeps, WaitSleepKeeps, SleepLockKeeps, SleepUnlockKeeps,
     SleepSchedKeeps, WaitReapKeeps DEF WaitStep
<1>6. ASSUME NEW p \in Procs, NEW q \in Procs, Fork(p, q) \/ ForkFail(p, q) \/ WaitFault(p, q)
      PROVE  Inv'
  BY <1>6, ForkKeeps, ForkFailKeeps, WaitFaultKeeps
<1>7. ASSUME NEW p \in Procs, NEW n \in KillPids, Kill(p, n) PROVE Inv'
  BY <1>7, KillKeeps
<1>8. CASE UNCHANGED vars
  BY <1>8, StutterKeeps
<1> QED
  BY <1>1, <1>2, <1>3, <1>4, <1>5, <1>6, <1>7, <1>8 DEF Next

\* The invariant holds always.
LEMMA Invariant == Spec => []Inv
  BY InitInv, NextInv, PTL DEF Spec

\* What the invariant says of CPUs.
LEMMA InvOneCPU == Inv => OneCPUPerProcess
  BY ProcAssumption DEF Inv, TypeOK, CpuInv, OneCPUPerProcess, OnCPU

\* What it says of the locks in sched().
LEMMA InvSchedLocks == Inv => SchedLocks
<1> SUFFICES ASSUME Inv PROVE SchedLocks
  OBVIOUS
<1> USE ProcAssumption DEF Inv, TypeOK
<1>1. ASSUME NEW c \in CPUs, cpu[c] # None, pc[cpu[c]] \in {"dead", "asleep"}
      PROVE  lk[cpu[c]] = c /\ waitlk # cpu[c]
  <2>1. waitlk # cpu[c]
    BY <1>1 DEF WaitInv, Waiting
  <2>2. CASE state[cpu[c]] # "RUNNING"
    BY <1>1, <2>1, <2>2 DEF CpuInv
  <2>3. CASE state[cpu[c]] = "RUNNING"
    <3>1. lk[cpu[c]] # None
      BY <1>1, <2>3 DEF PlaceInv
    <3> QED
      BY <1>1, <2>1, <3>1 DEF CpuInv
  <2> QED
    BY <2>2, <2>3
<1>2. ASSUME waitlk # None PROVE OnCPU(waitlk)
  <2>1. waitlk \in Procs /\ pc[waitlk] \in Waiting
    BY <1>2 DEF WaitInv
  <2>2. state[waitlk] = "RUNNING" \/ pc[waitlk] = "exited"
    BY <2>1 DEF PlaceInv, Waiting, States
  <2> QED
    BY <2>1, <2>2 DEF CpuInv
<1> QED
  BY <1>1, <1>2 DEF SchedLocks

\* What it says of sleeping parents.
LEMMA InvNoSleep == Inv => NoSleepBesideZombie
  BY ProcAssumption DEF Inv, SleepInv, Drowsy, NoSleepBesideZombie

\* No process is run by two CPUs, and none is freed while a CPU is still on its
\* kernel stack (scheduler, yield, sleep, exit and wait in kernel/proc.c).
THEOREM OneCPU == Spec => []OneCPUPerProcess
  BY Invariant, InvOneCPU, PTL

\* Whoever calls sched() holds its own p->lock and no other, and wait_lock is
\* never held by a process that is not on a CPU.
THEOREM SchedHoldsOneLock == Spec => []SchedLocks
  BY Invariant, InvSchedLocks, PTL

\* No parent sleeps in wait() beside a ZOMBIE child: the wakeups of exit() and
\* reparent() come in time.
THEOREM NoLostZombie == Spec => []NoSleepBesideZombie
  BY Invariant, InvNoSleep, PTL

\* Every process but the first has a parent that has not exited.
THEOREM ParentsLive == Spec => []ParentAlive
<1>1. Inv => ParentAlive
  BY DEF Inv
<1> QED
  BY <1>1, Invariant, PTL
============================================================================
