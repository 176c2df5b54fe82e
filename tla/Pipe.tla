-------------------------------- MODULE Pipe -------------------------------
(***************************************************************************)
(* kernel/pipe.c: one pipe, the processes that hold its ends, and sleep    *)
(* and wakeup on &pi->nread and &pi->nwrite.  Each turn of a loop under    *)
(* pi->lock is a step.  nread and nwrite wrap around like the code's uint. *)
(***************************************************************************)
EXTENDS Integers, Sequences

CONSTANTS Writers, Readers,  \* processes that share the ends
          Bytes,
          PIPESIZE,
          UintRange,         \* 2^32 in the code
          MaxN,              \* bound on the n of one read or write
          None

ASSUME PipeAssumption == /\ Writers # {} /\ Readers # {}
                         /\ Writers \cap Readers = {} /\ None \notin Writers \cup Readers
                         /\ PIPESIZE \in Nat \ {0}
                         /\ UintRange \in Nat
                         /\ \E k \in 2..UintRange : UintRange = k * PIPESIZE

VARIABLES data, nread, nwrite, readopen, writeopen,  \* struct pipe
          freed,    \* pipeclose has called kfree
          lk,       \* holder of pi->lock
          holders,  \* processes whose file descriptor is open
          killed,   \* processes with p->killed
          pc, left  \* of each process: place, bytes still to copy

pivars == <<data, nread, nwrite, readopen, writeopen, freed>>
vars == <<data, nread, nwrite, readopen, writeopen, freed, lk, holders, killed, pc, left>>

Procs == Writers \cup Readers
Places == {"idle", "lock", "run", "copy", "doze", "sleep"}

Init == /\ data \in [0..(PIPESIZE - 1) -> Bytes]  \* kalloc does not clear the page
        /\ nread = 0 /\ nwrite = 0
        /\ readopen = TRUE /\ writeopen = TRUE
        /\ freed = FALSE
        /\ lk = None
        /\ holders = Procs
        /\ killed = {}
        /\ pc = [p \in Procs |-> "idle"]
        /\ left = [p \in Procs |-> 0]

\* Mutant: a ring that takes one byte too many.
FullLate == nwrite = (nread + PIPESIZE + 1) % UintRange

Inc(n) == (n + 1) % UintRange
Full == nwrite = (nread + PIPESIZE) % UintRange
Empty == nread = nwrite

\* wakeup of the processes of S that sleep: they go on to reacquire pi->lock.
Awake(f, S) == [p \in Procs |-> IF p \in S /\ f[p] = "sleep" THEN "lock" ELSE f[p]]

----------------------------------------------------------------------------
Call(p, n) == /\ pc[p] = "idle" /\ p \in holders \ killed
              /\ pc' = [pc EXCEPT ![p] = "lock"]
              /\ left' = [left EXCEPT ![p] = n]
              /\ UNCHANGED <<pivars, lk, holders, killed>>

\* acquire(&pi->lock), on entry and at the end of sleep.
Lock(p) == /\ pc[p] = "lock"
           /\ lk = None
           /\ lk' = p
           /\ pc' = [pc EXCEPT ![p] = "run"]
           /\ UNCHANGED <<pivars, holders, killed, left>>

\* The call returns; wake the sleepers of S and release pi->lock.
Return(p, S) == /\ lk' = None
                /\ pc' = Awake([pc EXCEPT ![p] = "idle"], S)
                /\ left' = [left EXCEPT ![p] = 0]
                /\ UNCHANGED <<pivars, holders, killed>>

\* The loop has decided to sleep; kill() may still come in between.
Doze(p) == /\ pc[p] = "doze"
           /\ lk' = None
           /\ pc' = [pc EXCEPT ![p] = "sleep"]
           /\ UNCHANGED <<pivars, holders, killed, left>>

----------------------------------------------------------------------------
\* pipewrite

WriteAbort(w) == /\ pc[w] = "run" /\ left[w] > 0
                 /\ ~readopen \/ w \in killed
                 /\ Return(w, {})

Writing(w) == pc[w] = "run" /\ left[w] > 0 /\ readopen /\ w \notin killed

WriteFull(w) == /\ Writing(w)
                /\ Full
                /\ pc' = Awake([pc EXCEPT ![w] = "doze"], Readers)
                /\ UNCHANGED <<pivars, lk, holders, killed, left>>

WriteByte(w, b) == /\ Writing(w)
                   /\ ~Full
                   /\ data' = [data EXCEPT ![nwrite % PIPESIZE] = b]
                   /\ nwrite' = Inc(nwrite)
                   /\ left' = [left EXCEPT ![w] = @ - 1]
                   /\ UNCHANGED <<nread, readopen, writeopen, freed, lk, holders, killed, pc>>

\* copyin fails: break.
WriteFault(w) == /\ Writing(w)
                 /\ ~Full
                 /\ left' = [left EXCEPT ![w] = 0]
                 /\ UNCHANGED <<pivars, lk, holders, killed, pc>>

WriteDone(w) == pc[w] = "run" /\ left[w] = 0 /\ Return(w, Readers)

----------------------------------------------------------------------------
\* piperead

ReadKilled(r) == /\ pc[r] = "run"
                 /\ Empty /\ writeopen /\ r \in killed
                 /\ Return(r, {})

ReadWait(r) == /\ pc[r] = "run"
               /\ Empty /\ writeopen /\ r \notin killed
               /\ pc' = [pc EXCEPT ![r] = "doze"]
               /\ UNCHANGED <<pivars, lk, holders, killed, left>>

ReadCopy(r) == /\ pc[r] = "run"
               /\ ~Empty \/ ~writeopen
               /\ pc' = [pc EXCEPT ![r] = "copy"]
               /\ UNCHANGED <<pivars, lk, holders, killed, left>>

\* One byte is taken; with n = 0 copyout has failed and the loop ends.
ReadByte(r, n) == /\ pc[r] = "copy" /\ left[r] > 0
                  /\ ~Empty
                  /\ nread' = Inc(nread)
                  /\ left' = [left EXCEPT ![r] = n]
                  /\ UNCHANGED <<data, nwrite, readopen, writeopen, freed, lk, holders, killed, pc>>

\* Mutant: no wakeup at the end.
ReadDoneSilent(r) == pc[r] = "copy" /\ (left[r] = 0 \/ Empty) /\ Return(r, {})
ReadDone(r) == pc[r] = "copy" /\ (left[r] = 0 \/ Empty) /\ Return(r, Writers)

----------------------------------------------------------------------------
\* fileclose: the last holder of an end goes on to pipeclose.
Last(p, S) == p \in S /\ holders \cap S = {p}

\* Mutants: kfree when one end is closed; pipeclose without wakeup.
CloseEarly(p) == /\ pc[p] = "idle" /\ p \in holders
                 /\ Last(p, Writers) \/ Last(p, Readers) => lk = None
                 /\ holders' = holders \ {p}
                 /\ writeopen' = (writeopen /\ ~Last(p, Writers))
                 /\ readopen' = (readopen /\ ~Last(p, Readers))
                 /\ freed' = (~writeopen' \/ ~readopen')
                 /\ pc' = Awake(pc, IF Last(p, Writers) THEN Readers
                                    ELSE IF Last(p, Readers) THEN Writers ELSE {})
                 /\ UNCHANGED <<data, nread, nwrite, lk, killed, left>>
CloseSilent(p) == /\ pc[p] = "idle" /\ p \in holders
                  /\ Last(p, Writers) \/ Last(p, Readers) => lk = None
                  /\ holders' = holders \ {p}
                  /\ writeopen' = (writeopen /\ ~Last(p, Writers))
                  /\ readopen' = (readopen /\ ~Last(p, Readers))
                  /\ freed' = (~writeopen' /\ ~readopen')
                  /\ UNCHANGED <<data, nread, nwrite, lk, killed, pc, left>>

Close(p) == /\ pc[p] = "idle" /\ p \in holders
            /\ Last(p, Writers) \/ Last(p, Readers) => lk = None
            /\ holders' = holders \ {p}
            /\ writeopen' = (writeopen /\ ~Last(p, Writers))
            /\ readopen' = (readopen /\ ~Last(p, Readers))
            /\ freed' = (~writeopen' /\ ~readopen')
            /\ pc' = Awake(pc, IF Last(p, Writers) THEN Readers
                               ELSE IF Last(p, Readers) THEN Writers ELSE {})
            /\ UNCHANGED <<data, nread, nwrite, lk, killed, left>>

\* kill(p), by anyone: it takes p->lock but not pi->lock.
Kill(p) == /\ p \in holders \ killed
           /\ killed' = killed \cup {p}
           /\ pc' = Awake(pc, {p})
           /\ UNCHANGED <<pivars, lk, holders, left>>

----------------------------------------------------------------------------
WriteStep(w) == \/ WriteAbort(w) \/ WriteFull(w) \/ WriteDone(w)
                \/ \E b \in Bytes : WriteByte(w, b)
ReadStep(r) == \/ ReadKilled(r) \/ ReadWait(r) \/ ReadCopy(r) \/ ReadDone(r)
               \/ ReadByte(r, left[r] - 1)

Next == \/ \E p \in Procs : Lock(p) \/ Doze(p) \/ Close(p) \/ Kill(p)
        \/ \E p \in Procs, n \in 0..MaxN : Call(p, n)
        \/ \E w \in Writers : WriteStep(w) \/ WriteFault(w)
        \/ \E r \in Readers : ReadStep(r) \/ ReadByte(r, 0)

Spec == Init /\ [][Next]_vars

\* A spinning acquire succeeds in the end, a thread inside the pipe goes on,
\* and every process closes its descriptor at the latest when it exits.
Fairness == /\ \A p \in Procs : SF_vars(Lock(p)) /\ WF_vars(Doze(p)) /\ SF_vars(Close(p))
            /\ \A w \in Writers : WF_vars(WriteStep(w))
            /\ \A r \in Readers : WF_vars(ReadStep(r))

FairSpec == Spec /\ Fairness

----------------------------------------------------------------------------
\* Properties

\* Types of struct pipe and of the locals of its users.
TypeOK == /\ data \in [0..(PIPESIZE - 1) -> Bytes]
          /\ nread \in 0..(UintRange - 1) /\ nwrite \in 0..(UintRange - 1)
          /\ readopen \in BOOLEAN /\ writeopen \in BOOLEAN /\ freed \in BOOLEAN
          /\ lk \in Procs \cup {None}
          /\ holders \subseteq Procs /\ killed \subseteq Procs
          /\ pc \in [Procs -> Places]
          /\ left \in [Procs -> Nat]

\* Bytes between the two counters, in order.
Fill == (nwrite - nread) % UintRange
Contents == [i \in 1..Fill |-> data[(nread + i - 1) % PIPESIZE]]

\* A pipe is a bounded FIFO queue: no byte is lost, overwritten, repeated or
\* reordered in the ring, also when nread and nwrite wrap around.
Q == INSTANCE Fifo WITH queue <- Contents, Capacity <- PIPESIZE
IsFifo == Q!FSpec

\* No lost wakeup: with pi->lock free, a writer sleeps only while the pipe is full
\* and still has a reader, and a reader only while it is empty and still has a
\* writer.  A killed writer returns from pipewrite without the wakeup, so what is
\* said of readers is about runs without one.
NoLostWakeup ==
    lk = None =>
        /\ (\E w \in Writers : pc[w] = "sleep") => Full /\ readopen
        /\ killed \cap Writers = {} /\ (\E r \in Readers : pc[r] = "sleep") => Empty /\ writeopen

\* pipeclose frees the pipe when, and only when, nobody can use it any more.
FreedUnused == freed <=> holders = {}

\* Every blocked read and write returns: another process makes room, writes,
\* or closes the other end.
CallReturns == \A p \in Procs : pc[p] = "sleep" ~> pc[p] = "idle"
============================================================================
