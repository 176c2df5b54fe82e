------------------------------- MODULE Bcache ------------------------------
(***************************************************************************)
(* kernel/bio.c with the sleep-locks of kernel/sleeplock.c.  Each critical *)
(* section of bcache.lock or of a sleep-lock's spin lock is a step.  A     *)
(* process here uses one buffer at a time; one that holds two buffers      *)
(* stands for two of them.  The callers are those of the kernel: a buffer  *)
(* that was changed is written with bwrite, or pinned by log_write, before *)
(* it is released; the log unpins it after writing it home.                *)
(***************************************************************************)
EXTENDS Integers, FiniteSets

CONSTANTS Procs, Blocks,
          Vals,     \* contents of a block
          NBUF,
          MaxPins,  \* bound on the blocks the log has pinned
          None

ASSUME BcacheAssumption == /\ NBUF \in Nat \ {0} /\ MaxPins \in Nat
                           /\ IsFiniteSet(Procs)
                           /\ NBUF >= Cardinality(Procs) + MaxPins
                           /\ None \notin Procs \cup Blocks \cup Vals

Bufs == 1..NBUF

VARIABLES
    blockno, valid, refcnt, data,  \* of each struct buf
    order,                         \* bcache list, most recent first
    locked,                        \* b->lock: holder, or None
    disk,                          \* blocks on disk
    pc, buf, want,                 \* of each process: place, b, blockno
    state,                         \* of the buffer in use, see the callers below
    pinned,                        \* blocks in the log's header
    panic

cache == <<blockno, valid, refcnt, order>>
vars == <<cache, data, locked, disk, pc, buf, want, state, pinned, panic>>

\* binit; buffers start with device 0 and block 0, which nobody asks for.
Init == /\ blockno = [k \in Bufs |-> None]
        /\ valid = [k \in Bufs |-> FALSE]
        /\ refcnt = [k \in Bufs |-> 0]
        /\ data = [k \in Bufs |-> None]
        /\ order = [i \in 1..NBUF |-> NBUF + 1 - i]
        /\ locked = [k \in Bufs |-> None]
        /\ disk \in [Blocks -> Vals]
        /\ pc = [p \in Procs |-> "idle"]
        /\ buf = [p \in Procs |-> None]
        /\ want = [p \in Procs |-> None]
        /\ state = [p \in Procs |-> "clean"]
        /\ pinned = {}
        /\ panic = FALSE

Enter(p, b, k) == /\ pc' = [pc EXCEPT ![p] = "lock"]
                  /\ buf' = [buf EXCEPT ![p] = k]
                  /\ want' = [want EXCEPT ![p] = b]

\* Mutant: a lookup that finds nothing.
CachedNever(b) == FALSE

Cached(b) == \E k \in Bufs : blockno[k] = b

----------------------------------------------------------------------------
\* bget

\* The block is cached: take the first such buffer of the list.
BgetHit(p, b, i) == /\ pc[p] = "idle" /\ ~panic
                    /\ blockno[order[i]] = b
                    /\ \A j \in 1..(i - 1) : blockno[order[j]] # b
                    /\ refcnt' = [refcnt EXCEPT ![order[i]] = @ + 1]
                    /\ Enter(p, b, order[i])
                    /\ UNCHANGED <<blockno, valid, order, data, locked, disk, state, pinned, panic>>

\* Mutant: the buffer keeps its valid flag.
RecycleValid(b, k) == /\ blockno' = [blockno EXCEPT ![k] = b]
                      /\ refcnt' = [refcnt EXCEPT ![k] = 1]
                      /\ UNCHANGED valid

Recycle(b, k) == /\ blockno' = [blockno EXCEPT ![k] = b]
                 /\ valid' = [valid EXCEPT ![k] = FALSE]
                 /\ refcnt' = [refcnt EXCEPT ![k] = 1]

\* Not cached: recycle the last buffer of the list with refcnt 0, or panic.
BgetMiss(p, b) == /\ pc[p] = "idle" /\ ~panic
                  /\ ~Cached(b)
                  /\ IF \E k \in Bufs : refcnt[k] = 0
                     THEN \E i \in Bufs : /\ refcnt[order[i]] = 0
                                          /\ \A j \in (i + 1)..NBUF : refcnt[order[j]] # 0
                                          /\ Recycle(b, order[i])
                                          /\ Enter(p, b, order[i])
                                          /\ panic' = panic
                     ELSE /\ panic' = TRUE
                          /\ UNCHANGED <<blockno, valid, refcnt, pc, buf, want>>
                  /\ UNCHANGED <<order, data, locked, disk, state, pinned>>

----------------------------------------------------------------------------
\* acquiresleep of b->lock, at the end of bget

AcquireSleep(p) == /\ pc[p] = "lock" /\ ~panic
                   /\ locked[buf[p]] = None
                   /\ locked' = [locked EXCEPT ![buf[p]] = p]
                   /\ pc' = [pc EXCEPT ![p] = "locked"]
                   /\ UNCHANGED <<cache, data, disk, buf, want, state, pinned, panic>>

SleepOnLock(p) == /\ pc[p] = "lock" /\ ~panic
                  /\ locked[buf[p]] # None
                  /\ pc' = [pc EXCEPT ![p] = "sleep"]
                  /\ UNCHANGED <<cache, data, locked, disk, buf, want, state, pinned, panic>>

\* kill() wakes a sleeper, which goes round the loop of acquiresleep.
KillWakes(p) == /\ pc[p] = "sleep" /\ ~panic
                /\ pc' = [pc EXCEPT ![p] = "lock"]
                /\ UNCHANGED <<cache, data, locked, disk, buf, want, state, pinned, panic>>

----------------------------------------------------------------------------
\* The rest of bread

BreadHit(p) == /\ pc[p] = "locked" /\ ~panic
               /\ valid[buf[p]]
               /\ pc' = [pc EXCEPT ![p] = "use"]
               /\ UNCHANGED <<cache, data, locked, disk, buf, want, state, pinned, panic>>

\* virtio_disk_rw(b, 0).
BreadDisk(p) == /\ pc[p] = "locked" /\ ~panic
                /\ ~valid[buf[p]]
                /\ data' = [data EXCEPT ![buf[p]] = disk[blockno[buf[p]]]]
                /\ valid' = [valid EXCEPT ![buf[p]] = TRUE]
                /\ pc' = [pc EXCEPT ![p] = "use"]
                /\ UNCHANGED <<blockno, refcnt, order, locked, disk, buf, want, state, pinned, panic>>

----------------------------------------------------------------------------
\* Callers that have the buffer

\* The caller writes into b->data.
Modify(p, v) == /\ pc[p] = "use" /\ ~panic
                /\ data' = [data EXCEPT ![buf[p]] = v]
                /\ state' = [state EXCEPT ![p] = "dirty"]
                /\ UNCHANGED <<cache, locked, disk, pc, buf, want, pinned, panic>>

bwrite(p) == /\ pc[p] = "use" /\ ~panic
             /\ disk' = [disk EXCEPT ![blockno[buf[p]]] = data[buf[p]]]
             /\ state' = [state EXCEPT ![p] = "written"]
             /\ UNCHANGED <<cache, data, locked, pc, buf, want, pinned, panic>>

\* Mutant: a block that is logged again is pinned again.
LogWriteAgain(p) == /\ pc[p] = "use" /\ ~panic
                    /\ state[p] = "dirty"
                    /\ state' = [state EXCEPT ![p] = "clean"]
                    /\ Cardinality(pinned) < MaxPins \/ want[p] \in pinned
                    /\ refcnt' = [refcnt EXCEPT ![buf[p]] = @ + 1]
                    /\ pinned' = pinned \cup {want[p]}
                    /\ UNCHANGED <<blockno, valid, order, data, locked, disk, pc, buf, want, panic>>

\* log_write: bpin, unless the block is in the log's header already.
LogWrite(p) == /\ pc[p] = "use" /\ ~panic
               /\ state[p] = "dirty"
               /\ state' = [state EXCEPT ![p] = "clean"]
               /\ \/ /\ want[p] \in pinned
                     /\ UNCHANGED <<refcnt, pinned>>
                  \/ /\ want[p] \notin pinned /\ Cardinality(pinned) < MaxPins
                     /\ refcnt' = [refcnt EXCEPT ![buf[p]] = @ + 1]
                     /\ pinned' = pinned \cup {want[p]}
               /\ UNCHANGED <<blockno, valid, order, data, locked, disk, pc, buf, want, panic>>

\* install_trans: bunpin after the bwrite.
bunpin(p) == /\ pc[p] = "use" /\ ~panic
             /\ state[p] = "written" /\ want[p] \in pinned
             /\ refcnt' = [refcnt EXCEPT ![buf[p]] = @ - 1]
             /\ pinned' = pinned \ {want[p]}
             /\ state' = [state EXCEPT ![p] = "clean"]
             /\ UNCHANGED <<blockno, valid, order, data, locked, disk, pc, buf, want, panic>>

----------------------------------------------------------------------------
\* brelse

\* Mutant: no wakeup.
ReleaseSleepSilent(p) == /\ pc[p] = "use" /\ ~panic
                         /\ state[p] # "dirty"
                         /\ locked' = [locked EXCEPT ![buf[p]] = None]
                         /\ pc' = [pc EXCEPT ![p] = "unref"]
                         /\ state' = [state EXCEPT ![p] = "clean"]
                         /\ UNCHANGED <<cache, data, disk, buf, want, pinned, panic>>

\* releasesleep, with its wakeup.
ReleaseSleep(p) ==
    /\ pc[p] = "use" /\ ~panic
    /\ state[p] # "dirty"
    /\ locked' = [locked EXCEPT ![buf[p]] = None]
    /\ pc' = [q \in Procs |-> IF q = p THEN "unref"
                              ELSE IF pc[q] = "sleep" /\ buf[q] = buf[p] THEN "lock"
                              ELSE pc[q]]
    /\ state' = [state EXCEPT ![p] = "clean"]
    /\ UNCHANGED <<cache, data, disk, buf, want, pinned, panic>>

\* The list after its element at i is unlinked and put in front.
ToFront(i) == [j \in Bufs |-> IF j = 1 THEN order[i] ELSE IF j <= i THEN order[j - 1] ELSE order[j]]

\* Drop the reference; the last one moves the buffer to the front.
Unref(p) == /\ pc[p] = "unref" /\ ~panic
            /\ refcnt' = [refcnt EXCEPT ![buf[p]] = @ - 1]
            /\ IF refcnt'[buf[p]] = 0 THEN \E i \in Bufs : order[i] = buf[p] /\ order' = ToFront(i)
                                      ELSE UNCHANGED order
            /\ pc' = [pc EXCEPT ![p] = "idle"]
            /\ buf' = [buf EXCEPT ![p] = None]
            /\ want' = [want EXCEPT ![p] = None]
            /\ UNCHANGED <<blockno, valid, data, locked, disk, state, pinned, panic>>

----------------------------------------------------------------------------
Step(p) == \/ \E b \in Blocks, i \in Bufs : BgetHit(p, b, i)
           \/ \E b \in Blocks : BgetMiss(p, b)
           \/ AcquireSleep(p) \/ SleepOnLock(p) \/ KillWakes(p)
           \/ BreadHit(p) \/ BreadDisk(p)
           \/ \E v \in Vals : Modify(p, v)
           \/ bwrite(p) \/ LogWrite(p) \/ bunpin(p)
           \/ ReleaseSleep(p) \/ Unref(p)

Next == \E p \in Procs : Step(p)

Spec == Init /\ [][Next]_vars

----------------------------------------------------------------------------
\* Properties

\* Types of the cache and of its users' state.
TypeOK == /\ blockno \in [Bufs -> Blocks \cup {None}]
          /\ valid \in [Bufs -> BOOLEAN]
          /\ refcnt \in [Bufs -> Nat]
          /\ data \in [Bufs -> Vals \cup {None}]
          /\ order \in [Bufs -> Bufs]
          /\ locked \in [Bufs -> Procs \cup {None}]
          /\ disk \in [Blocks -> Vals]
          /\ pc \in [Procs -> {"idle", "lock", "sleep", "locked", "use", "unref"}]
          /\ buf \in [Procs -> Bufs \cup {None}]
          /\ want \in [Procs -> Blocks \cup {None}]
          /\ state \in [Procs -> {"clean", "dirty", "written"}]
          /\ pinned \subseteq Blocks
          /\ panic \in BOOLEAN

\* At most one buffer caches a block, whatever lookups and recycling overlap.
OneBufferPerBlock ==
    \A j, k \in Bufs : blockno[j] = blockno[k] /\ blockno[j] # None => j = k

Users(k) == {p \in Procs : pc[p] # "idle" /\ buf[p] = k}

\* refcnt counts exactly the processes between bget and the end of brelse,
\* and the log's pin.
RefsCounted == \A k \in Bufs :
    refcnt[k] = Cardinality(Users(k)) + (IF blockno[k] \in pinned THEN 1 ELSE 0)

\* bget never runs out of buffers: NBUF suffices for one buffer for each
\* process and one for each pinned block.
NoPanic == ~panic

\* Nobody sleeps for a buffer that nobody has locked.
SleeperHasHolder == \A p \in Procs : pc[p] = "sleep" => locked[buf[p]] # None

\* The contents of a block are in its buffer, or else on disk.
Content(b) == IF \E k \in Bufs : blockno[k] = b /\ valid[k]
              THEN data[CHOOSE k \in Bufs : blockno[k] = b /\ valid[k]]
              ELSE disk[b]
Holder(b) == IF \E p \in Procs : pc[p] = "use" /\ want[p] = b
             THEN CHOOSE p \in Procs : pc[p] = "use" /\ want[p] = b
             ELSE None

Store == [b \in Blocks |-> Content(b)]
Owner == [b \in Blocks |-> Holder(b)]

\* The cache is a store of locked blocks: whoever has bread a block sees its
\* latest contents, nobody else changes them, and eviction loses nothing.
S == INSTANCE BlockStore WITH store <- Store, owner <- Owner
IsBlockStore == S!BSpec
============================================================================
