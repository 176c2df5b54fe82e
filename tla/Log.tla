-------------------------------- MODULE Log --------------------------------
(***************************************************************************)
(* kernel/log.c: the write-ahead log with group commit and crash recovery. *)
(* File system calls bracket their block writes with begin_op and end_op;  *)
(* the last end_op commits for the whole group.  Every bwrite is a step of *)
(* its own, so a crash falls between any two of them.                      *)
(***************************************************************************)
EXTENDS Integers, Sequences, FiniteSets

CONSTANTS Procs,        \* processes that make file system calls
          Blocks,       \* home blocks of the file system
          Vals,         \* contents of a block
          InitVal,
          LOGSIZE,      \* param.h
          MAXOPBLOCKS,  \* param.h
          LogBlocks,    \* log.size, the superblock's nlog
          OpBlocks      \* distinct blocks one call writes at most

ASSUME LogAssumption ==
    /\ InitVal \in Vals
    /\ LOGSIZE \in Nat /\ MAXOPBLOCKS \in Nat /\ LogBlocks \in Nat /\ OpBlocks \in Nat
    /\ OpBlocks <= MAXOPBLOCKS /\ MAXOPBLOCKS <= LOGSIZE
    /\ IsFiniteSet(Procs) /\ IsFiniteSet(Blocks)

VARIABLES disk,         \* home locations on disk
          dlog,         \* the log's data blocks on disk
          dhead,        \* the log's header block on disk: its n block numbers
          lh,           \* log.lh, the header in memory
          cache,        \* contents of the buffers of home blocks
          pins,         \* references to a buffer held by the log (bpin)
          outstanding,  \* log.outstanding
          committing,   \* log.committing
          pc,           \* where each process is
          wrote,        \* blocks the current call of a process has written
          phase,        \* where commit() or recover_from_log() is
          tail,         \* the loop variable of write_log and install_trans
          panic         \* "none", or the message of the panic that stopped the kernel

dvars == <<disk, dlog, dhead>>
mvars == <<lh, cache, pins>>
cvars == <<phase, tail>>
vars == <<disk, dlog, dhead, lh, cache, pins, outstanding, committing, pc, wrote,
          phase, tail, panic>>

Phases == {"none", "write_log", "write_head", "install", "erase", "done",
           "read_head", "recover", "clear"}
Recovering == phase \in {"read_head", "recover", "clear"}

\* The block numbers in a header.
Logged(h) == {h[i] : i \in 1..Len(h)}
Slots == 1..LOGSIZE

Init == /\ disk = [b \in Blocks |-> InitVal]
        /\ dlog = [i \in Slots |-> InitVal]
        /\ dhead = <<>>
        /\ lh = <<>>
        /\ cache = disk
        /\ pins = [b \in Blocks |-> 0]
        /\ outstanding = 0
        /\ committing = FALSE
        /\ pc = [p \in Procs |-> "idle"]
        /\ wrote = [p \in Procs |-> {}]
        /\ phase = "read_head"
        /\ tail = 1
        /\ panic = "none"

----------------------------------------------------------------------------
\* System calls

\* wakeup(&log): every process that sleeps on the log runs its loop again.
Awake(f) == [p \in Procs |-> IF f[p] = "sleep" THEN "begin" ELSE f[p]]

\* A process that is not in the file system makes a system call.
Call(p) == /\ panic = "none" /\ ~Recovering
           /\ pc[p] = "idle"
           /\ pc' = [pc EXCEPT ![p] = "begin"]
           /\ UNCHANGED <<dvars, mvars, cvars, outstanding, committing, wrote, panic>>

\* Mutant: begin_op forgets the blocks that are in the log already.
MustWaitNoLen == committing \/ (outstanding + 1) * MAXOPBLOCKS > LOGSIZE

\* One turn of the loop of begin_op, under log.lock.
MustWait == committing \/ Len(lh) + (outstanding + 1) * MAXOPBLOCKS > LOGSIZE

BeginOpWait(p) == /\ panic = "none"
                  /\ pc[p] = "begin"
                  /\ MustWait
                  /\ pc' = [pc EXCEPT ![p] = "sleep"]
                  /\ UNCHANGED <<dvars, mvars, cvars, outstanding, committing, wrote, panic>>

BeginOp(p) == /\ panic = "none"
              /\ pc[p] = "begin"
              /\ ~MustWait
              /\ outstanding' = outstanding + 1
              /\ pc' = [pc EXCEPT ![p] = "op"]
              /\ UNCHANGED <<dvars, mvars, cvars, committing, wrote, panic>>

\* The header after log_write(b): absorption, or a new last entry.
Absorb(h, b) == IF b \in Logged(h) THEN h ELSE Append(h, b)

\* Mutant: log_write without bpin.
LogWriteUnpinned(p, b, v) ==
    /\ panic = "none"
    /\ pc[p] = "op"
    /\ Cardinality(wrote[p] \cup {b}) <= OpBlocks
    /\ cache' = [cache EXCEPT ![b] = v]
    /\ wrote' = [wrote EXCEPT ![p] = @ \cup {b}]
    /\ lh' = Absorb(lh, b)
    /\ UNCHANGED <<dvars, cvars, pins, outstanding, committing, pc, panic>>

\* bread, modify, log_write, brelse: the caller holds the buffer throughout.
\* A call writes at most OpBlocks distinct blocks, each as often as it likes.
LogWrite(p, b, v) ==
    /\ panic = "none"
    /\ pc[p] = "op"
    /\ Cardinality(wrote[p] \cup {b}) <= OpBlocks
    /\ panic' = IF Len(lh) >= LOGSIZE \/ Len(lh) >= LogBlocks - 1
                THEN "too_big"
                ELSE IF outstanding < 1 THEN "outside_trans" ELSE "none"
    /\ cache' = [cache EXCEPT ![b] = v]
    /\ wrote' = [wrote EXCEPT ![p] = @ \cup {b}]
    /\ IF panic' = "none"
       THEN /\ lh' = Absorb(lh, b)
            /\ pins' = [pins EXCEPT ![b] = IF b \in Logged(lh) THEN @ ELSE @ + 1]
       ELSE UNCHANGED <<lh, pins>>
    /\ UNCHANGED <<dvars, cvars, outstanding, committing, pc>>

\* end_op of a call that is not the last one: give back the reservation.
EndOp(p) == /\ panic = "none"
            /\ pc[p] = "op"
            /\ outstanding # 1
            /\ outstanding' = outstanding - 1
            /\ panic' = IF committing THEN "log_committing" ELSE "none"
            /\ pc' = Awake([pc EXCEPT ![p] = "idle"])
            /\ wrote' = [wrote EXCEPT ![p] = {}]
            /\ UNCHANGED <<dvars, mvars, cvars, committing>>

\* Mutant: commit() calls write_head before write_log.
EndOpLastHeadFirst(p) ==
    /\ panic = "none"
    /\ pc[p] = "op"
    /\ outstanding = 1
    /\ outstanding' = 0
    /\ committing' = TRUE
    /\ pc' = [pc EXCEPT ![p] = "commit"]
    /\ phase' = IF Len(lh) > 0 THEN "write_head" ELSE "done"
    /\ tail' = 1
    /\ wrote' = [wrote EXCEPT ![p] = {}]
    /\ UNCHANGED <<dvars, mvars, panic>>

\* end_op of the last call: it goes on to commit() without log.lock.
EndOpLast(p) == /\ panic = "none"
                /\ pc[p] = "op"
                /\ outstanding = 1
                /\ outstanding' = 0
                /\ panic' = IF committing THEN "log_committing" ELSE "none"
                /\ committing' = TRUE
                /\ pc' = [pc EXCEPT ![p] = "commit"]
                /\ phase' = IF Len(lh) > 0 THEN "write_log" ELSE "done"
                /\ tail' = 1
                /\ wrote' = [wrote EXCEPT ![p] = {}]
                /\ UNCHANGED <<dvars, mvars>>

----------------------------------------------------------------------------
\* commit(), run by the process at "commit", one block write at a time

WriteLog == /\ phase = "write_log"
            /\ dlog' = [dlog EXCEPT ![tail] = cache[lh[tail]]]
            /\ tail' = tail + 1
            /\ phase' = IF tail = Len(lh) THEN "write_head" ELSE phase
            /\ UNCHANGED <<disk, dhead, mvars, outstanding, committing, pc, wrote, panic>>

\* The bwrite of the header: the commit point.
WriteHead == /\ phase = "write_head"
             /\ dhead' = lh
             /\ tail' = 1
             /\ phase' = "install"
             /\ UNCHANGED <<disk, dlog, mvars, outstanding, committing, pc, wrote, panic>>

\* One iteration of install_trans: copy a log block to its home location.
CopyHome == /\ disk' = [disk EXCEPT ![lh[tail]] = dlog[tail]]
            /\ cache' = [cache EXCEPT ![lh[tail]] = dlog[tail]]
            /\ tail' = tail + 1
            /\ UNCHANGED <<dlog, dhead, outstanding, committing, pc, wrote, panic>>

Install == /\ phase = "install"
           /\ CopyHome
           /\ pins' = [pins EXCEPT ![lh[tail]] = @ - 1]
           /\ IF tail = Len(lh) THEN phase' = "erase" /\ lh' = <<>>
                                ELSE UNCHANGED <<phase, lh>>

\* Mutant: commit() does not erase the transaction.
EraseHeadSkipped == /\ phase = "erase"
                    /\ phase' = "done"
                    /\ UNCHANGED <<dvars, mvars, outstanding, committing, pc, wrote, tail, panic>>

\* The bwrite of the empty header.
EraseHead == /\ phase = "erase"
             /\ dhead' = lh
             /\ phase' = "done"
             /\ UNCHANGED <<disk, dlog, mvars, outstanding, committing, pc, wrote, tail, panic>>

\* Mutant: end_op without wakeup after commit().
CommitDoneSilent(p) == /\ panic = "none"
                       /\ phase = "done"
                       /\ pc[p] = "commit"
                       /\ committing' = FALSE
                       /\ pc' = [pc EXCEPT ![p] = "idle"]
                       /\ phase' = "none"
                       /\ UNCHANGED <<dvars, mvars, outstanding, wrote, tail, panic>>

\* Back in end_op: committing = 0 and wakeup(&log), under log.lock.
CommitDone(p) == /\ panic = "none"
                 /\ phase = "done"
                 /\ pc[p] = "commit"
                 /\ committing' = FALSE
                 /\ pc' = Awake([pc EXCEPT ![p] = "idle"])
                 /\ phase' = "none"
                 /\ UNCHANGED <<dvars, mvars, outstanding, wrote, tail, panic>>

----------------------------------------------------------------------------
\* Boot: initlog calls recover_from_log before any system call runs

ReadHead == /\ phase = "read_head"
            /\ lh' = dhead
            /\ tail' = 1
            /\ phase' = IF Len(dhead) = 0 THEN "clear" ELSE "recover"
            /\ UNCHANGED <<dvars, cache, pins, outstanding, committing, pc, wrote, panic>>

Recover == /\ phase = "recover"
           /\ CopyHome
           /\ UNCHANGED pins
           /\ IF tail = Len(lh) THEN phase' = "clear" /\ lh' = <<>>
                                ELSE UNCHANGED <<phase, lh>>

ClearHead == /\ phase = "clear"
             /\ dhead' = lh
             /\ phase' = "none"
             /\ UNCHANGED <<disk, dlog, mvars, outstanding, committing, pc, wrote, tail, panic>>

\* Power fails: only the disk survives, and the machine boots again.
Crash == /\ panic = "none"
         /\ phase' = "read_head"
         /\ tail' = 1
         /\ lh' = <<>>
         /\ cache' = disk
         /\ pins' = [b \in Blocks |-> 0]
         /\ outstanding' = 0
         /\ committing' = FALSE
         /\ pc' = [p \in Procs |-> "idle"]
         /\ wrote' = [p \in Procs |-> {}]
         /\ UNCHANGED <<dvars, panic>>

\* bio.c may recycle a buffer that nobody references, and read it again later.
Recycle(b) == /\ panic = "none"
              /\ pins[b] = 0
              /\ cache' = [cache EXCEPT ![b] = disk[b]]
              /\ UNCHANGED <<dvars, lh, pins, cvars, outstanding, committing, pc, wrote, panic>>

----------------------------------------------------------------------------
SysCall(p) == \/ Call(p) \/ BeginOpWait(p) \/ BeginOp(p)
              \/ EndOp(p) \/ EndOpLast(p) \/ CommitDone(p)

CommitStep == panic = "none" /\ (WriteLog \/ WriteHead \/ Install \/ EraseHead)

RecoverStep == panic = "none" /\ (ReadHead \/ Recover \/ ClearHead)

Next == \/ \E p \in Procs : SysCall(p)
        \/ \E p \in Procs, b \in Blocks, v \in Vals : LogWrite(p, b, v)
        \/ CommitStep
        \/ RecoverStep
        \/ \E b \in Blocks : Recycle(b)
        \/ Crash

Spec == Init /\ [][Next]_vars

\* The scheduler runs every runnable process, and a system call ends.
Fairness == /\ WF_vars(CommitStep) /\ WF_vars(RecoverStep)
            /\ \A p \in Procs : /\ WF_vars(BeginOp(p) \/ BeginOpWait(p))
                                /\ WF_vars(EndOp(p) \/ EndOpLast(p))
                                /\ WF_vars(CommitDone(p))

FairSpec == Spec /\ Fairness

----------------------------------------------------------------------------
\* Properties

\* Types of the variables of struct log, the disk and the buffers.
TypeOK == /\ disk \in [Blocks -> Vals] /\ cache \in [Blocks -> Vals]
          /\ dlog \in [Slots -> Vals]
          /\ dhead \in Seq(Blocks) /\ lh \in Seq(Blocks)
          /\ pins \in [Blocks -> Nat]
          /\ outstanding \in Nat /\ committing \in BOOLEAN
          /\ pc \in [Procs -> {"idle", "begin", "sleep", "op", "commit"}]
          /\ wrote \in [Procs -> SUBSET Blocks]
          /\ phase \in Phases /\ tail \in 1..(LOGSIZE + 1)
          /\ panic \in {"none", "too_big", "outside_trans", "log_committing"}

\* begin_op's reservation is enough: no admitted call makes log_write or
\* end_op panic, whatever the other calls of the group write.
NoPanic == panic = "none"

\* What the home locations will hold once recover_from_log has run.
SlotOf(h, b) == CHOOSE i \in 1..Len(h) : h[i] = b
Restored == [b \in Blocks |-> IF b \in Logged(dhead) THEN dlog[SlotOf(dhead, b)] ELSE disk[b]]

\* The log implements a disk that changes by whole groups of system calls:
\* a crash at any point, also during commit() or during recovery itself,
\* leaves all the writes of a group or none of them.
TD == INSTANCE TxnDisk WITH durable <- Restored,
                            image <- IF Recovering THEN Restored ELSE cache,
                            active <- {p \in Procs : pc[p] = "op"}
CrashAtomic == TD!TDSpec

\* A buffer that differs from its home block is pinned, so that bget cannot
\* recycle it before install_trans has written it (log_write's bpin).
DirtyIsPinned == panic = "none" => \A b \in Blocks : cache[b] # disk[b] => pins[b] > 0

\* When the last end_op has returned, everything written so far is durable,
\* the log is empty and no buffer is left pinned.
QuiescentDurable ==
    phase = "none" /\ outstanding = 0 /\ panic = "none" =>
        /\ dhead = <<>> /\ lh = <<>>
        /\ disk = cache
        /\ \A b \in Blocks : pins[b] = 0

\* A process asleep in begin_op can rely on a call that will wake it: a commit
\* is running, or a call that holds a reservation has yet to run end_op.
SleeperHasWaker ==
    (\E p \in Procs : pc[p] = "sleep") => \E q \in Procs : pc[q] \in {"op", "commit"}

\* begin_op does not sleep for ever: every sleeper runs its loop again.
SleeperWakes == \A p \in Procs : pc[p] = "sleep" ~> pc[p] # "sleep"
============================================================================
