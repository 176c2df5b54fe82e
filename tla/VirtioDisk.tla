----------------------------- MODULE VirtioDisk ----------------------------
(***************************************************************************)
(* kernel/virtio_disk.c: requests of processes, the device, and the        *)
(* interrupt handler, around the descriptors and the two rings.  A process *)
(* holds vdisk_lock from one sleep to the next, so that part of            *)
(* virtio_disk_rw is one step; the handler also is exclusive, but the      *)
(* device goes on beside its loop.  A request is named by its buffer,      *)
(* which the caller has locked; the buffer's block has the same name.  Of  *)
(* the data only this matters: the device has moved it between that buffer *)
(* and that block, in the direction asked for, since the call.             *)
(***************************************************************************)
EXTENDS Integers, FiniteSets

CONSTANTS Bufs,      \* locked buffers, each with the block it stands for
          NUM,       \* number of descriptors
          Dirs,      \* of each buffer: the values of write it is passed with
          IdxRange,  \* 2^16 in the code: ring indices are uint16
          None

ASSUME VirtioAssumption == /\ NUM \in Nat /\ NUM >= 3
                           /\ IdxRange \in Nat
                           /\ Dirs \in [Bufs -> SUBSET BOOLEAN]
                           /\ \E k \in 1..IdxRange : IdxRange = k * NUM
                           /\ None \notin Bufs \cup 0..(NUM - 1)

Desc == 0..(NUM - 1)

VARIABLES
    free, desc,           \* disk.free, disk.desc
    ops, infob, status,   \* disk.ops, and disk.info: b, status
    avail, availidx,      \* the avail ring: ring, idx
    used, usedidx,        \* the used ring: ring, idx, written by the device
    used_idx,             \* disk.used_idx
    bdisk,                \* b->disk
    moved,                \* buffers whose b->data the device has transferred
    write, head,          \* of each call: write or read, idx[0]
    pc,                   \* of each call
    inintr,               \* virtio_disk_intr holds vdisk_lock
    seen, taken, irq,     \* device: place in avail, requests at work, interrupt
    panic

drv == <<free, desc, ops, infob, status, avail, availidx, used_idx, bdisk>>
dev == <<used, usedidx, seen, taken, irq>>
vars == <<drv, dev, moved, write, head, pc, inintr, panic>>

NoDesc == [addr |-> None, next |-> None]
NoOp == [write |-> FALSE, sector |-> None]

Init == /\ free = Desc
        /\ desc = [d \in Desc |-> NoDesc]
        /\ ops = [d \in Desc |-> NoOp]
        /\ infob = [d \in Desc |-> None]
        /\ status = [d \in Desc |-> 0]
        /\ avail = [i \in Desc |-> 0] /\ availidx = 0
        /\ used = [i \in Desc |-> 0] /\ usedidx = 0
        /\ used_idx = 0
        /\ bdisk = [b \in Bufs |-> FALSE]
        /\ moved = {}
        /\ write = [b \in Bufs |-> FALSE]
        /\ head = [b \in Bufs |-> None]
        /\ pc = [b \in Bufs |-> "idle"]
        /\ inintr = FALSE
        /\ seen = 0 /\ taken = {} /\ irq = FALSE
        /\ panic = FALSE

\* Mutant: no wakeup.
WakeFreeNone(f) == f

Inc(i) == (i + 1) % IdxRange

\* wakeup(&disk.free[0]).
WakeFree(f) == [b \in Bufs |-> IF f[b] = "sleepfree" THEN "alloc" ELSE f[b]]

\* vdisk_lock can be taken.
Unlocked == ~inintr /\ ~panic

----------------------------------------------------------------------------
\* virtio_disk_rw

\* bread (w = FALSE) or bwrite of b.
Call(b, w) == /\ pc[b] = "idle" /\ ~panic
              /\ write' = [write EXCEPT ![b] = w]
              /\ pc' = [pc EXCEPT ![b] = "alloc"]
              /\ UNCHANGED <<drv, dev, moved, head, inintr, panic>>

\* alloc3_desc fails; whatever it had taken is freed again, with a wakeup.
AllocFail(b) == /\ pc[b] = "alloc" /\ Unlocked
                /\ Cardinality(free) < 3
                /\ pc' = [IF free = {} THEN pc ELSE WakeFree(pc) EXCEPT ![b] = "sleepfree"]
                /\ UNCHANGED <<drv, dev, moved, write, head, inintr, panic>>

\* The three lowest free descriptors, as alloc_desc finds them.
alloc3_desc(i, j, k) == /\ i < j /\ j < k
                        /\ \A d \in free : d <= k => d \in {i, j, k}

\* Fill in the chain i, j, k for b and record b for the interrupt handler.
Format(b, i, j, k) ==
    /\ ops' = [ops EXCEPT ![i] = [write |-> write[b], sector |-> b]]
    /\ desc' = [desc EXCEPT ![i] = [addr |-> i, next |-> j],
                            ![j] = [addr |-> b, next |-> k],
                            ![k] = [addr |-> i, next |-> None]]
    /\ status' = [status EXCEPT ![i] = 255]
    /\ bdisk' = [bdisk EXCEPT ![b] = TRUE]
    /\ infob' = [infob EXCEPT ![i] = b]

\* Mutant: the slot is one too far.
AvailSlotNext == (availidx + 1) % NUM

AvailSlot == availidx % NUM

\* Take descriptors, format and publish the request, and sleep on b.
Submit(b, i, j, k) == /\ pc[b] = "alloc" /\ Unlocked
                      /\ alloc3_desc(i, j, k)
                      /\ free' = free \ {i, j, k}
                      /\ Format(b, i, j, k)
                      /\ avail' = [avail EXCEPT ![AvailSlot] = i]
                      /\ availidx' = Inc(availidx)
                      /\ head' = [head EXCEPT ![b] = i]
                      /\ pc' = [pc EXCEPT ![b] = "sleep"]
                      /\ UNCHANGED <<used_idx, dev, moved, write, inintr, panic>>

\* kill() makes a sleeping caller runnable too; both loops look again.
KillWakes(b) == /\ pc[b] \in {"sleep", "sleepfree"} /\ ~panic
                /\ pc' = [pc EXCEPT ![b] = IF @ = "sleep" THEN "awake" ELSE "alloc"]
                /\ UNCHANGED <<drv, dev, moved, write, head, inintr, panic>>

SleepAgain(b) == /\ pc[b] = "awake" /\ Unlocked
                 /\ bdisk[b]
                 /\ pc' = [pc EXCEPT ![b] = "sleep"]
                 /\ UNCHANGED <<drv, dev, moved, write, head, inintr, panic>>

Chain(i) == {i, desc[i].next, desc[desc[i].next].next}

\* Mutants: only the head is freed; b->disk is not looked at again.
FinishHead(b) == /\ pc[b] = "awake" /\ Unlocked
                 /\ ~bdisk[b]
                 /\ infob' = [infob EXCEPT ![head[b]] = None]
                 /\ desc' = [d \in Desc |-> IF d \in {head[b]} THEN NoDesc ELSE desc[d]]
                 /\ free' = free \cup {head[b]}
                 /\ panic' = ({head[b]} \cap free # {})
                 /\ pc' = [WakeFree(pc) EXCEPT ![b] = "idle"]
                 /\ head' = [head EXCEPT ![b] = None]
                 /\ write' = [write EXCEPT ![b] = FALSE]
                 /\ moved' = moved \ {b}
                 /\ UNCHANGED <<ops, status, avail, availidx, used_idx, bdisk, dev, inintr>>
FinishEarly(b) == /\ pc[b] = "awake" /\ Unlocked
                  /\ infob' = [infob EXCEPT ![head[b]] = None]
                  /\ desc' = [d \in Desc |-> IF d \in Chain(head[b]) THEN NoDesc ELSE desc[d]]
                  /\ free' = free \cup Chain(head[b])
                  /\ panic' = (Chain(head[b]) \cap free # {})
                  /\ pc' = [WakeFree(pc) EXCEPT ![b] = "idle"]
                  /\ head' = [head EXCEPT ![b] = None]
                  /\ write' = [write EXCEPT ![b] = FALSE]
                  /\ moved' = moved \ {b}
                  /\ UNCHANGED <<ops, status, avail, availidx, used_idx, bdisk, dev, inintr>>

\* The request is done: forget the buffer, free_chain, return.
Finish(b) == /\ pc[b] = "awake" /\ Unlocked
             /\ ~bdisk[b]
             /\ infob' = [infob EXCEPT ![head[b]] = None]
             /\ desc' = [d \in Desc |-> IF d \in Chain(head[b]) THEN NoDesc ELSE desc[d]]
             /\ free' = free \cup Chain(head[b])
             /\ panic' = (Chain(head[b]) \cap free # {})
             /\ pc' = [WakeFree(pc) EXCEPT ![b] = "idle"]
             /\ head' = [head EXCEPT ![b] = None]
             /\ write' = [write EXCEPT ![b] = FALSE]
             /\ moved' = moved \ {b}
             /\ UNCHANGED <<ops, status, avail, availidx, used_idx, bdisk, dev, inintr>>

----------------------------------------------------------------------------
\* The device (external): it takes requests in order and ends them in any.

DevTake == /\ seen # availidx /\ ~panic
           /\ taken' = taken \cup {avail[seen % NUM]}
           /\ seen' = Inc(seen)
           /\ UNCHANGED <<drv, used, usedidx, irq, moved, write, head, pc, inintr, panic>>

\* It reads the chain, moves the data, sets the status, and interrupts.
DevDone(h) ==
    LET op == ops[desc[h].addr]
        second == desc[h].next
        b == desc[second].addr
        third == desc[second].next
    IN  /\ h \in taken /\ ~panic
        /\ moved' = IF op = [write |-> write[b], sector |-> b] THEN moved \cup {b}
                                                                ELSE moved \ {b}
        /\ status' = [status EXCEPT ![desc[third].addr] = 0]
        /\ used' = [used EXCEPT ![usedidx % NUM] = h]
        /\ usedidx' = Inc(usedidx)
        /\ taken' = taken \ {h}
        /\ irq' = TRUE
        /\ UNCHANGED <<free, desc, ops, infob, avail, availidx, used_idx, bdisk,
                       seen, write, head, pc, inintr, panic>>

----------------------------------------------------------------------------
\* virtio_disk_intr

IntrAck == /\ irq /\ Unlocked
           /\ irq' = FALSE
           /\ inintr' = TRUE
           /\ UNCHANGED <<drv, used, usedidx, seen, taken, moved, write, head, pc, panic>>

\* One turn of the loop.
IntrEntry ==
    LET id == used[used_idx % NUM]
        b == infob[id]
    IN  /\ inintr /\ ~panic
        /\ used_idx # usedidx
        /\ IF status[id] # 0 \/ b = None
           THEN panic' = TRUE /\ UNCHANGED <<bdisk, pc, used_idx>>
           ELSE /\ bdisk' = [bdisk EXCEPT ![b] = FALSE]
                /\ pc' = [pc EXCEPT ![b] = IF @ = "sleep" THEN "awake" ELSE @]
                /\ used_idx' = Inc(used_idx)
                /\ UNCHANGED panic
        /\ UNCHANGED <<free, desc, ops, infob, status, avail, availidx, dev,
                       moved, write, head, inintr>>

\* Mutant: the handler leaves without looking at used->idx again.
IntrReturnEarly == /\ inintr /\ ~panic
                   /\ inintr' = FALSE
                   /\ UNCHANGED <<drv, dev, moved, write, head, pc, panic>>

IntrReturn == /\ inintr /\ ~panic
              /\ used_idx = usedidx
              /\ inintr' = FALSE
              /\ UNCHANGED <<drv, dev, moved, write, head, pc, panic>>

----------------------------------------------------------------------------
Next == \/ \E b \in Bufs : \E w \in Dirs[b] : Call(b, w)
        \/ \E b \in Bufs : AllocFail(b) \/ KillWakes(b) \/ SleepAgain(b) \/ Finish(b)
        \/ \E b \in Bufs, i, j, k \in free : Submit(b, i, j, k)
        \/ DevTake \/ \E h \in Desc : DevDone(h)
        \/ IntrAck \/ IntrEntry \/ IntrReturn

Spec == Init /\ [][Next]_vars

\* The device ends every request, an interrupt is taken in the end, and a
\* process that is runnable gets vdisk_lock in the end.
Fairness == /\ WF_vars(DevTake) /\ \A h \in Desc : WF_vars(DevDone(h))
            /\ WF_vars(IntrAck) /\ WF_vars(IntrEntry \/ IntrReturn)
            /\ \A b \in Bufs : SF_vars(Finish(b))

FairSpec == Spec /\ Fairness

----------------------------------------------------------------------------
\* Properties

Submitted == {b \in Bufs : pc[b] \in {"sleep", "awake"}}

\* Every descriptor is free or in the chain of exactly one request, so none
\* leaks, and none is reused while the device may still read it.
DescriptorsConserved ==
    /\ free \cup UNION {Chain(head[b]) : b \in Submitted} = Desc
    /\ Cardinality(free) + 3 * Cardinality(Submitted) = NUM

\* Number of entries between two indices of a ring, and the heads in them.
Gap(from, to) == (to - from) % IdxRange
Between(ring, from, to) == {ring[(from + i) % NUM] : i \in 0..(Gap(from, to) - 1)}

\* Each unfinished request is in exactly one place - waiting in the avail
\* ring, at the device, or in the used ring - and the handler will find its
\* buffer there: no ring is overrun when its index wraps around, and none of the
\* panics of virtio_disk_intr and free_desc is reached.
OnePlacePerRequest ==
    LET waiting == Between(avail, seen, availidx)
        done == Between(used, used_idx, usedidx)
        open == {head[b] : b \in {c \in Bufs : bdisk[c]}}
    IN  /\ ~panic
        /\ waiting \cup taken \cup done = open
        /\ Gap(seen, availidx) + Cardinality(taken) + Gap(used_idx, usedidx) = Cardinality(open)

\* No lost wakeup and no missed interrupt: nobody sleeps for descriptors when
\* three are free, or for a request that is over; and outside the handler a used
\* entry that was not looked at has an interrupt pending, also when the device
\* added it while the handler was leaving its loop.
NoLostWakeup == /\ \A b \in Bufs : /\ pc[b] = "sleepfree" => Cardinality(free) < 3
                                   /\ pc[b] = "sleep" => bdisk[b]
                /\ ~inintr /\ used_idx # usedidx => irq

\* virtio_disk_rw returns only after the device has moved the data of this
\* call, and the device moves data only while b->disk is set.
Transferred == [][\A b \in Bufs :
                    /\ pc[b] # "idle" /\ pc'[b] = "idle" => b \in moved
                    /\ b \in moved' \ moved => bdisk[b]]_vars

\* Every submitted request returns.
RequestReturns == \A b \in Bufs : pc[b] = "sleep" ~> pc[b] = "idle"
============================================================================
