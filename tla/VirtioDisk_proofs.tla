------------------------- MODULE VirtioDisk_proofs -------------------------
(***************************************************************************)
(* Proofs about VirtioDisk, for any number of callers, any NUM and any     *)
(* range of the ring indices that is a multiple of it.                     *)
(***************************************************************************)
EXTENDS VirtioDisk, ModArith, FiniteSetTheorems, TLAPS

\* The prover is Zenon unless a step asks for SMT.
USE Zenon

----------------------------------------------------------------------------
\* The inductive invariant

Places == {"idle", "alloc", "sleepfree", "sleep", "awake"}
Idx == 0..(IdxRange - 1)

TypeOK == /\ free \subseteq Desc
          /\ DOMAIN desc = Desc /\ DOMAIN ops = Desc
          /\ infob \in [Desc -> Bufs \cup {None}]
          /\ status \in [Desc -> {0, 255}]
          /\ avail \in [Desc -> Desc] /\ used \in [Desc -> Desc]
          /\ availidx \in Idx /\ usedidx \in Idx /\ used_idx \in Idx /\ seen \in Idx
          /\ bdisk \in [Bufs -> BOOLEAN]
          /\ moved \subseteq Bufs
          /\ write \in [Bufs -> BOOLEAN]
          /\ head \in [Bufs -> Desc \cup {None}]
          /\ pc \in [Bufs -> Places]
          /\ taken \subseteq Desc
          /\ inintr \in BOOLEAN /\ irq \in BOOLEAN /\ panic \in BOOLEAN

\* The second and the third descriptor of b's chain, and what the three and the
\* request header hold
Second(b) == desc[head[b]].next
Third(b) == desc[Second(b)].next
Filled(b) ==
    /\ desc[head[b]].addr = head[b] /\ desc[Second(b)].addr = b /\ desc[Third(b)].addr = head[b]
    /\ ops[head[b]] = [write |-> write[b], sector |-> b]

\* The chain of a submitted request is what virtio_disk_rw has set up.
ChainOK(b) ==
    /\ head[b] \in Desc \ free /\ Second(b) \in Desc \ free /\ Third(b) \in Desc \ free
    /\ head[b] # Second(b) /\ head[b] # Third(b) /\ Second(b) # Third(b)
    /\ Filled(b) /\ infob[head[b]] = b
ChainInv == \A b \in Submitted : ChainOK(b)

\* Chains share no descriptor, and with the free ones they are all.
ShareInv ==
    /\ \A b, c \in Submitted : b # c => Chain(head[b]) \cap Chain(head[c]) = {}
    /\ \A d \in Desc : d \in free \/ \E b \in Submitted : d \in Chain(head[b])
CountInv == /\ IsFiniteSet(Submitted)
            /\ Cardinality(free) + 3 * Cardinality(Submitted) = NUM

\* The requests that virtio_disk_intr has not seen the end of
Open == {b \in Bufs : bdisk[b]}
OpenInv == /\ Open \subseteq Submitted
           /\ \A b \in Submitted : bdisk[b] \/ b \in moved

\* The slots of a ring between two indices
Slots(from, to) == {(from + i) % NUM : i \in 0..(Gap(from, to) - 1)}
Waiting == Slots(seen, availidx)
Done == Slots(used_idx, usedidx)
IsOpen(h) == infob[h] \in Open /\ head[infob[h]] = h

\* Each open request has one place.
QueueInv ==
    /\ \A s \in Waiting : IsOpen(avail[s]) /\ avail[s] \notin taken
    /\ \A h \in taken : IsOpen(h)
    /\ \A s \in Done : IsOpen(used[s]) /\ used[s] \notin taken
    /\ \A s \in Waiting, t \in Done : avail[s] # used[t]
    /\ \A s, t \in Waiting : avail[s] = avail[t] => s = t
    /\ \A s, t \in Done : used[s] = used[t] => s = t
    /\ \A b \in Open : \/ \E s \in Waiting : avail[s] = head[b]
                       \/ head[b] \in taken
                       \/ \E s \in Done : used[s] = head[b]
DoneInv == \A s \in Done : status[used[s]] = 0 /\ infob[used[s]] \in moved
LengthInv == Gap(seen, availidx) + Cardinality(taken) + Gap(used_idx, usedidx) = Cardinality(Open)

Inv == /\ TypeOK /\ ~panic /\ ChainInv /\ ShareInv /\ CountInv /\ OpenInv
       /\ QueueInv /\ DoneInv /\ LengthInv /\ NoLostWakeup

----------------------------------------------------------------------------
\* The rings

\* The indices are not empty, and there are no fewer of them than slots.
LEMMA Ranges == /\ NUM \in Nat \ {0} /\ NUM >= 3 /\ IdxRange \in Nat \ {0}
                /\ NUM <= IdxRange
<1>1. PICK k \in 1..IdxRange : IdxRange = k * NUM
  BY VirtioAssumption
<1> QED
  BY <1>1, VirtioAssumption, SMT

\* Inc without the remainder.
LEMMA IncIs ==
    ASSUME NEW x \in Idx
    PROVE  Inc(x) \in Idx /\ Inc(x) = IF x = IdxRange - 1 THEN 0 ELSE x + 1
  BY Ranges, SMT DEF Inc, Idx

\* Gap without the remainder.
LEMMA GapIs ==
    ASSUME NEW x \in Idx, NEW y \in Idx
    PROVE  Gap(x, y) \in Idx /\ Gap(x, y) = IF y >= x THEN y - x ELSE y - x + IdxRange
<1> DEFINE d == y - x
<1>1. d \in (1 - IdxRange)..(IdxRange - 1) /\ IdxRange \in Nat \ {0}
  BY Ranges, SMT DEF Idx
<1> HIDE DEF d
<1>2. d % IdxRange = IF d >= 0 THEN d ELSE d + IdxRange
  BY <1>1, ModDiff
<1> QED
  BY <1>1, <1>2, SMT DEF d, Gap, Idx

\* One more entry at the end of a ring.
LEMMA GapPush ==
    ASSUME NEW x \in Idx, NEW y \in Idx, Gap(x, y) + 1 < IdxRange
    PROVE  Gap(x, Inc(y)) = Gap(x, y) + 1
<1>1. Inc(y) \in Idx /\ Inc(y) = IF y = IdxRange - 1 THEN 0 ELSE y + 1
  BY IncIs
<1>2. Gap(x, y) = IF y >= x THEN y - x ELSE y - x + IdxRange
  BY GapIs
<1>3. Gap(x, Inc(y)) = IF Inc(y) >= x THEN Inc(y) - x ELSE Inc(y) - x + IdxRange
  BY <1>1, GapIs
<1> QED
  BY <1>1, <1>2, <1>3, Ranges, SMT DEF Idx

\* One entry less at its front.
LEMMA GapPop ==
    ASSUME NEW x \in Idx, NEW y \in Idx, x # y
    PROVE  Gap(x, y) > 0 /\ Gap(Inc(x), y) = Gap(x, y) - 1
<1>1. Inc(x) \in Idx /\ Inc(x) = IF x = IdxRange - 1 THEN 0 ELSE x + 1
  BY IncIs
<1>2. Gap(x, y) = IF y >= x THEN y - x ELSE y - x + IdxRange
  BY GapIs
<1>3. Gap(Inc(x), y) = IF y >= Inc(x) THEN y - Inc(x) ELSE y - Inc(x) + IdxRange
  BY <1>1, GapIs
<1> QED
  BY <1>1, <1>2, <1>3, Ranges, SMT DEF Idx

\* Indices that are IdxRange apart have the same slot: NUM divides IdxRange.
LEMMA SlotWraps ==
    ASSUME NEW x \in Int
    PROVE  (x + IdxRange) % NUM = x % NUM
<1>1. PICK k \in 1..IdxRange : IdxRange = k * NUM
  BY VirtioAssumption
<1>2. NUM \in Nat \ {0} /\ k \in Int
  BY VirtioAssumption, SMT
<1> QED
  BY <1>1, <1>2, ModShift

\* The slot after the last entry is that of the end's index.
LEMMA SlotOfEnd ==
    ASSUME NEW x \in Idx, NEW y \in Idx
    PROVE  (x + Gap(x, y)) % NUM = y % NUM
<1>1. Gap(x, y) = IF y >= x THEN y - x ELSE y - x + IdxRange
  BY GapIs
<1>2. x + Gap(x, y) \in {y, y + IdxRange} /\ y \in Int
  BY <1>1, Ranges, SMT DEF Idx
<1> QED
  BY <1>2, SlotWraps

\* Counting from the next index is counting from the next slot.
LEMMA SlotOfInc ==
    ASSUME NEW x \in Idx, NEW i \in Nat
    PROVE  (Inc(x) + i) % NUM = (x + (i + 1)) % NUM
<1>1. Inc(x) + i \in Int
  BY IncIs, Ranges, SMT DEF Idx
<1>2. x + (i + 1) \in {Inc(x) + i, (Inc(x) + i) + IdxRange}
  BY IncIs, Ranges, SMT DEF Idx
<1> QED
  BY <1>1, <1>2, SlotWraps

\* NUM slots in a row are different.
LEMMA SlotsApart ==
    ASSUME NEW x \in Int, NEW i \in 0..(NUM - 1), NEW j \in 0..(NUM - 1),
           (x + i) % NUM = (x + j) % NUM
    PROVE  i = j
<1>1. NUM \in Nat \ {0}
  BY Ranges
<1>2. ASSUME NEW a \in 0..(NUM - 1), NEW b \in 0..(NUM - 1), a < b
      PROVE  (x + a) % NUM # (x + b) % NUM
  <2>1. PICK y \in Int, d \in 1..(NUM - 1) : y = x + a /\ d = b - a
    BY <1>1, <1>2, SMT
  <2>2. x + b = y + d
    BY <2>1, SMT
  <2> QED
    BY <1>1, <2>1, <2>2, ModApart
<1> QED
  BY <1>1, <1>2, SMT

\* What is in Slots.
LEMMA SlotsAre ==
    ASSUME NEW x \in Idx, NEW y \in Idx, NEW s
    PROVE  s \in Slots(x, y) <=> \E i \in Nat : i < Gap(x, y) /\ s = (x + i) % NUM
<1>1. Gap(x, y) \in Nat
  BY GapIs, SMT DEF Idx
<1>2. \A i : i \in 0..(Gap(x, y) - 1) <=> i \in Nat /\ i < Gap(x, y)
  BY <1>1, SMT
<1> QED
  BY <1>2 DEF Slots

\* Slots are indices of the ring.
LEMMA SlotsInRange ==
    ASSUME NEW x \in Idx, NEW y \in Idx
    PROVE  Slots(x, y) \subseteq Desc
<1>1. \A i \in Nat : (x + i) % NUM \in 0..(NUM - 1)
  BY Ranges, ModRange, SMT DEF Idx
<1> QED
  BY <1>1, SlotsAre, SMT DEF Desc

\* An entry added at the end goes to a slot that is not in use.
LEMMA Push ==
    ASSUME NEW x \in Idx, NEW y \in Idx, Gap(x, y) < NUM, Gap(x, y) + 1 < IdxRange
    PROVE  /\ Slots(x, Inc(y)) = Slots(x, y) \cup {y % NUM}
           /\ y % NUM \notin Slots(x, y)
<1>1. Inc(y) \in Idx /\ Gap(x, Inc(y)) = Gap(x, y) + 1 /\ Gap(x, y) \in Nat /\ x \in Int
  BY IncIs, GapPush, GapIs, SMT DEF Idx
<1>2. (x + Gap(x, y)) % NUM = y % NUM
  BY SlotOfEnd
<1>3. ASSUME NEW s
      PROVE  s \in Slots(x, Inc(y)) <=> s \in Slots(x, y) \cup {y % NUM}
  <2>1. s \in Slots(x, Inc(y)) <=> \E i \in Nat : i < Gap(x, y) + 1 /\ s = (x + i) % NUM
    <3>1. s \in Slots(x, Inc(y)) <=> \E i \in Nat : i < Gap(x, Inc(y)) /\ s = (x + i) % NUM
      <4>1. Inc(y) \in Idx
        BY <1>1
      <4> QED
        BY <4>1, SlotsAre, SMT
    <3> QED
      BY <1>1, <3>1
  <2>2. s \in Slots(x, y) <=> \E i \in Nat : i < Gap(x, y) /\ s = (x + i) % NUM
    BY SlotsAre, SMT
  <2>3. ASSUME NEW i \in Nat PROVE i < Gap(x, y) + 1 <=> i < Gap(x, y) \/ i = Gap(x, y)
    BY <1>1, SMT
  <2> QED
    BY <1>1, <1>2, <2>1, <2>2, <2>3
<1>4. ASSUME y % NUM \in Slots(x, y) PROVE FALSE
  <2>1. PICK i \in Nat : i < Gap(x, y) /\ y % NUM = (x + i) % NUM
    BY <1>4, SlotsAre, SMT
  <2>2. i \in 0..(NUM - 1) /\ Gap(x, y) \in 0..(NUM - 1)
    BY <1>1, <2>1, Ranges, SMT
  <2>3. i = Gap(x, y)
    BY <1>1, <1>2, <2>1, <2>2, SlotsApart
  <2> QED
    BY <1>1, <2>1, <2>3, SMT
<1> QED
  BY <1>3, <1>4

\* The entry taken at the front leaves the others.
LEMMA Pop ==
    ASSUME NEW x \in Idx, NEW y \in Idx, x # y, Gap(x, y) <= NUM
    PROVE  /\ Slots(Inc(x), y) = Slots(x, y) \ {x % NUM}
           /\ x % NUM \in Slots(x, y)
<1>1. /\ Inc(x) \in Idx /\ Gap(Inc(x), y) = Gap(x, y) - 1 /\ Gap(x, y) \in Nat /\ x \in Int
      /\ Gap(x, y) > 0
  BY IncIs, GapPop, GapIs, SMT DEF Idx
<1>2. x % NUM = (x + 0) % NUM
  BY <1>1, SMT
<1>3. ASSUME NEW s
      PROVE  s \in Slots(Inc(x), y) <=> s \in Slots(x, y) /\ s # x % NUM
  <2>1. s \in Slots(Inc(x), y)
            <=> \E i \in Nat : i < Gap(x, y) - 1 /\ s = (Inc(x) + i) % NUM
    <3>1. s \in Slots(Inc(x), y)
              <=> \E i \in Nat : i < Gap(Inc(x), y) /\ s = (Inc(x) + i) % NUM
      <4>1. Inc(x) \in Idx
        BY <1>1
      <4> QED
        BY <4>1, SlotsAre, SMT
    <3> QED
      BY <1>1, <3>1
  <2>2. s \in Slots(x, y) <=> \E i \in Nat : i < Gap(x, y) /\ s = (x + i) % NUM
    BY SlotsAre, SMT
  <2>3. ASSUME s \in Slots(Inc(x), y) PROVE s \in Slots(x, y) /\ s # x % NUM
    <3>1. PICK i \in Nat : i < Gap(x, y) - 1 /\ s = (Inc(x) + i) % NUM
      BY <2>1, <2>3
    <3>2. i + 1 \in Nat /\ i + 1 < Gap(x, y) /\ i + 1 # 0
      BY <1>1, <3>1, SMT
    <3>3. s = (x + (i + 1)) % NUM
      BY <3>1, SlotOfInc
    <3>4. i + 1 \in 0..(NUM - 1) /\ 0 \in 0..(NUM - 1)
      BY <1>1, <3>2, Ranges, SMT
    <3> QED
      BY <1>1, <1>2, <2>2, <3>2, <3>3, <3>4, SlotsApart
  <2>4. ASSUME s \in Slots(x, y), s # x % NUM PROVE s \in Slots(Inc(x), y)
    <3>1. PICK i \in Nat : i < Gap(x, y) /\ s = (x + i) % NUM
      BY <2>2, <2>4
    <3>2. i # 0
      BY <1>2, <2>4, <3>1
    <3>3. PICK j \in Nat : i = j + 1
      BY <3>2, SMT
    <3>4. j < Gap(x, y) - 1 /\ s = (Inc(x) + j) % NUM
      BY <1>1, <3>1, <3>3, SlotOfInc, SMT
    <3> QED
      BY <2>1, <3>4
  <2> QED
    BY <2>3, <2>4
<1>4. x % NUM \in Slots(x, y)
  BY <1>1, <1>2, SlotsAre
<1> QED
  BY <1>3, <1>4

----------------------------------------------------------------------------
\* What the steps have in common


\* There are fewer entries in the rings than slots.
LEMMA Room ==
    ASSUME Inv
    PROVE  /\ IsFiniteSet(free) /\ IsFiniteSet(taken) /\ IsFiniteSet(Open)
           /\ Cardinality(free) \in Nat /\ Cardinality(Submitted) \in Nat
           /\ Cardinality(Open) \in Nat /\ Cardinality(taken) \in Nat
           /\ Cardinality(Open) <= Cardinality(Submitted)
           /\ Gap(seen, availidx) \in Nat /\ Gap(used_idx, usedidx) \in Nat
<1>1. IsFiniteSet(Desc)
  BY VirtioAssumption, FS_Interval, SMT DEF Desc
<1>2. IsFiniteSet(free) /\ IsFiniteSet(taken)
  BY <1>1, FS_Subset DEF Inv, TypeOK
<1>3. IsFiniteSet(Open) /\ Cardinality(Open) <= Cardinality(Submitted)
  BY FS_Subset DEF Inv, CountInv, OpenInv
<1>4. Gap(seen, availidx) \in Nat /\ Gap(used_idx, usedidx) \in Nat
  BY GapIs, SMT DEF Inv, TypeOK, Idx
<1> QED
  BY <1>2, <1>3, <1>4, FS_CardinalityType DEF Inv, CountInv

\* The head of a chain belongs to the request recorded for it.
LEMMA HeadOf ==
    ASSUME Inv, NEW h, IsOpen(h)
    PROVE  /\ infob[h] \in Submitted /\ infob[h] \in Bufs /\ bdisk[infob[h]]
           /\ h = head[infob[h]] /\ h \in Desc \ free
<1>1. infob[h] \in Open /\ head[infob[h]] = h
  BY DEF IsOpen
<1>2. infob[h] \in Submitted
  BY <1>1 DEF Inv, OpenInv
<1>3. ChainOK(infob[h])
  BY <1>2 DEF Inv, ChainInv
<1>4. h \in Desc \ free
  BY <1>1, <1>3 DEF ChainOK
<1> QED
  BY <1>1, <1>2, <1>4 DEF Open

\* The chain of b, in this state and in the next one.
LEMMA ChainIs ==
    ASSUME NEW b
    PROVE  /\ Chain(head[b]) = {head[b], Second(b), Third(b)}
           /\ Chain(head[b])' = {head'[b], Second(b)', Third(b)'}
  BY DEF Chain, Second, Third

\* A step that leaves the chain of b alone.
LEMMA SameChain ==
    ASSUME NEW b, ChainOK(b), head'[b] = head[b], write'[b] = write[b],
           ops'[head[b]] = ops[head[b]], infob'[head[b]] = infob[head[b]],
           \A d \in {head[b], Second(b), Third(b)} : desc'[d] = desc[d] /\ d \notin free'
    PROVE  ChainOK(b)' /\ Chain(head[b])' = Chain(head[b])
<1>1. Second(b)' = Second(b) /\ Third(b)' = Third(b)
  BY DEF Second, Third
<1>2. Filled(b)'
  BY <1>1 DEF ChainOK, Filled
<1>3. ChainOK(b)'
  BY <1>1, <1>2 DEF ChainOK
<1> QED
  BY <1>1, <1>3, ChainIs

\* A step that leaves the chains alone.
LEMMA SameChains ==
    ASSUME Inv, Submitted' = Submitted, UNCHANGED <<free, desc, head, ops, infob>>,
           \A b \in Submitted : write'[b] = write[b]
    PROVE  ChainInv' /\ ShareInv' /\ CountInv'
<1>1. ASSUME NEW b \in Submitted PROVE ChainOK(b)'
  <2>1. ChainOK(b)
    BY DEF Inv, ChainInv
  <2>2. \A d \in {head[b], Second(b), Third(b)} : desc'[d] = desc[d] /\ d \notin free'
    BY <2>1 DEF ChainOK
  <2> QED
    BY <2>1, <2>2, SameChain
<1>2. ShareInv'
  BY DEF Inv, ShareInv, Chain
<1>3. CountInv'
  BY DEF Inv, CountInv
<1> QED
  BY <1>1, <1>2, <1>3 DEF ChainInv

\* A step that leaves the rings alone.
LEMMA SameQueue ==
    ASSUME Inv, UNCHANGED <<infob, status, avail, availidx, used_idx, bdisk, head,
                            used, usedidx, seen, taken, moved>>
    PROVE  QueueInv' /\ DoneInv' /\ LengthInv'
<1>1. Open' = Open /\ Waiting' = Waiting /\ Done' = Done
  BY DEF Open, Waiting, Done, Slots, Gap
<1>2. QueueInv'
  BY <1>1 DEF Inv, QueueInv, IsOpen
<1>3. DoneInv'
  BY <1>1 DEF Inv, DoneInv
<1>4. LengthInv'
  BY <1>1 DEF Inv, LengthInv, Gap
<1> QED
  BY <1>2, <1>3, <1>4

----------------------------------------------------------------------------
\* The steps of virtio_disk_rw

\* A call takes nothing yet.
LEMMA CallKeeps ==
    ASSUME Inv, NEW b \in Bufs, NEW w \in Dirs[b], Call(b, w)
    PROVE  Inv'
<1> USE DEF Call, drv, dev
<1>1. TypeOK'
  BY VirtioAssumption DEF Inv, TypeOK, Places
<1>2. Submitted' = Submitted /\ \A c \in Submitted : write'[c] = write[c]
  BY SMT DEF Inv, TypeOK, Submitted
<1>3. ChainInv' /\ ShareInv' /\ CountInv'
  BY <1>2, SameChains
<1>4. OpenInv'
  BY <1>2 DEF Inv, OpenInv, Open
<1>5. QueueInv' /\ DoneInv' /\ LengthInv'
  BY SameQueue
<1>6. NoLostWakeup'
  BY SMT DEF Inv, TypeOK, NoLostWakeup
<1> QED
  BY <1>1, <1>3, <1>4, <1>5, <1>6 DEF Inv

\* A caller that finds too few descriptors goes to sleep.
LEMMA AllocFailKeeps ==
    ASSUME Inv, NEW b \in Bufs, AllocFail(b)
    PROVE  Inv'
<1> USE DEF AllocFail, WakeFree, drv, dev
<1>1. TypeOK'
  BY DEF Inv, TypeOK, Places
<1>2. Submitted' = Submitted
  BY SMT DEF Inv, TypeOK, Submitted
<1>3. ChainInv' /\ ShareInv' /\ CountInv'
  BY <1>2, SameChains
<1>4. OpenInv'
  BY <1>2 DEF Inv, OpenInv, Open
<1>5. QueueInv' /\ DoneInv' /\ LengthInv'
  BY SameQueue
<1>6. NoLostWakeup'
  BY SMT DEF Inv, TypeOK, NoLostWakeup
<1> QED
  BY <1>1, <1>3, <1>4, <1>5, <1>6 DEF Inv

\* kill() and the loops that look again.
LEMMA KillWakesKeeps ==
    ASSUME Inv, NEW b \in Bufs, KillWakes(b) \/ SleepAgain(b)
    PROVE  Inv'
<1> USE DEF KillWakes, SleepAgain, drv, dev
<1>1. TypeOK'
  BY SMT DEF Inv, TypeOK, Places
<1>2. Submitted' = Submitted
  BY SMT DEF Inv, TypeOK, Submitted
<1>3. ChainInv' /\ ShareInv' /\ CountInv'
  BY <1>2, SameChains
<1>4. OpenInv'
  BY <1>2 DEF Inv, OpenInv, Open
<1>5. QueueInv' /\ DoneInv' /\ LengthInv'
  BY SameQueue
<1>6. NoLostWakeup'
  BY SMT DEF Inv, TypeOK, NoLostWakeup
<1> QED
  BY <1>1, <1>3, <1>4, <1>5, <1>6, SMT DEF Inv

\* The three descriptors alloc3_desc takes, and what they are used for.
LEMMA SubmitKeeps ==
    ASSUME Inv, NEW b \in Bufs, NEW i \in free, NEW j \in free, NEW k \in free,
           Submit(b, i, j, k)
    PROVE  Inv'
<1>1. /\ i \in Desc /\ j \in Desc /\ k \in Desc /\ i # j /\ i # k /\ j # k
      /\ b \notin Submitted /\ b \notin Open
  <2>1. i < j /\ j < k /\ pc[b] = "alloc"
    BY DEF Submit, alloc3_desc
  <2>2. i \in Desc /\ j \in Desc /\ k \in Desc
    BY DEF Inv, TypeOK
  <2>3. i # j /\ i # k /\ j # k
    BY <2>1, <2>2, Ranges, SMT DEF Desc
  <2>4. b \notin Submitted
    BY <2>1 DEF Submitted
  <2> QED
    BY <2>2, <2>3, <2>4 DEF Inv, OpenInv
<1>2. AvailSlot \in Desc
  <2>1. availidx \in Int
    BY SMT DEF Inv, TypeOK, Idx
  <2> QED
    BY <2>1, Ranges, ModRange DEF AvailSlot, Desc
<1>3. TypeOK'
  BY <1>1, <1>2, IncIs DEF Submit, Format, dev, Inv, TypeOK, Places
<1>4. Submitted' = Submitted \cup {b} /\ Open' = Open \cup {b}
  <2>1. \A c \in Bufs : /\ pc'[c] = IF c = b THEN "sleep" ELSE pc[c]
                        /\ bdisk'[c] = IF c = b THEN TRUE ELSE bdisk[c]
    BY DEF Submit, Format, Inv, TypeOK
  <2> QED
    BY <2>1 DEF Submitted, Open
<1>5. /\ \A c \in Submitted : c # b /\ head'[c] = head[c] /\ write'[c] = write[c]
      /\ \A d \in Desc : d \notin free => desc'[d] = desc[d] /\ ops'[d] = ops[d]
                                          /\ infob'[d] = infob[d] /\ status'[d] = status[d]
  <2>1. \A c \in Submitted : c # b /\ c \in Bufs
    BY <1>1 DEF Submitted
  <2>2. \A c \in Submitted : head'[c] = head[c] /\ write' = write
    BY <2>1 DEF Submit, dev, Inv, TypeOK
  <2>3. \A d \in Desc : d \notin free => d # i /\ d # j /\ d # k
    OBVIOUS
  <2>4. \A d \in Desc : d \notin free => desc'[d] = desc[d]
    BY <2>3 DEF Submit, Format, Inv, TypeOK
  <2>5. \A d \in Desc : d \notin free => ops'[d] = ops[d] /\ infob'[d] = infob[d]
                                         /\ status'[d] = status[d]
    BY <2>3 DEF Submit, Format, Inv, TypeOK
  <2> QED
    BY <2>1, <2>2, <2>4, <2>5
<1>6. /\ head'[b] = i /\ desc'[i] = [addr |-> i, next |-> j] /\ infob'[i] = b
      /\ desc'[j] = [addr |-> b, next |-> k] /\ desc'[k] = [addr |-> i, next |-> None]
      /\ ops'[i] = [write |-> write[b], sector |-> b] /\ write' = write
      /\ free' = free \ {i, j, k}
      /\ UNCHANGED <<used, usedidx, used_idx, seen, taken, moved>> /\ availidx' = Inc(availidx)
  BY <1>1 DEF Submit, Format, dev, Inv, TypeOK
<1>7. ASSUME NEW c \in Submitted
      PROVE  /\ ChainOK(c)' /\ Chain(head[c])' = Chain(head[c])
             /\ Chain(head[c]) \cap free = {} /\ Chain(head[c]) \subseteq Desc
  <2>1. ChainOK(c)
    BY DEF Inv, ChainInv
  <2>2. /\ head[c] \in Desc \ free /\ Second(c) \in Desc \ free /\ Third(c) \in Desc \ free
    BY <2>1 DEF ChainOK
  <2>3. \A d \in {head[c], Second(c), Third(c)} : desc'[d] = desc[d] /\ d \notin free'
    BY <1>5, <1>6, <2>2
  <2>4. ops'[head[c]] = ops[head[c]] /\ infob'[head[c]] = infob[head[c]]
    BY <1>5, <2>2
  <2>5. ChainOK(c)' /\ Chain(head[c])' = Chain(head[c])
    BY <1>5, <2>1, <2>3, <2>4, SameChain
  <2> QED
    BY <2>2, <2>5, ChainIs
<1>8. ChainOK(b)' /\ Chain(head[b])' = {i, j, k}
  <2>1. Second(b)' = j /\ Third(b)' = k
    BY <1>6, SMT DEF Second, Third
  <2>2. Filled(b)'
    BY <1>6, <2>1, SMT DEF Filled
  <2> QED
    BY <1>1, <1>6, <2>1, <2>2, ChainIs DEF ChainOK
<1>9. ChainInv'
  BY <1>4, <1>7, <1>8 DEF ChainInv
<1>10. ShareInv'
  <2>1. ASSUME NEW c \in Submitted', NEW e \in Submitted', c # e
        PROVE  Chain(head[c])' \cap Chain(head[e])' = {}
    <3>1. CASE c = b
      BY <1>4, <1>7, <1>8, <2>1, <3>1
    <3>2. CASE e = b
      BY <1>4, <1>7, <1>8, <2>1, <3>2
    <3>3. CASE c # b /\ e # b
      BY <1>4, <1>7, <2>1, <3>3 DEF Inv, ShareInv
    <3> QED
      BY <3>1, <3>2, <3>3
  <2>2. ASSUME NEW d \in Desc, d \notin free'
        PROVE  \E c \in Submitted' : d \in Chain(head[c])'
    <3>1. CASE d \in {i, j, k}
      BY <1>4, <1>8, <3>1
    <3>2. CASE d \notin {i, j, k}
      <4>1. PICK c \in Submitted : d \in Chain(head[c])
        BY <1>6, <2>2, <3>2 DEF Inv, ShareInv
      <4> QED
        BY <1>4, <1>7, <4>1
    <3> QED
      BY <3>1, <3>2
  <2> QED
    BY <2>1, <2>2 DEF ShareInv
<1>11. /\ Cardinality(free') = Cardinality(free) - 3
       /\ Cardinality(Submitted') = Cardinality(Submitted) + 1
       /\ Cardinality(Open') = Cardinality(Open) + 1
       /\ IsFiniteSet(Submitted')
       /\ Cardinality(free) >= 3
  <2>1. IsFiniteSet(free) /\ IsFiniteSet(Open) /\ IsFiniteSet(Submitted)
    BY Room DEF Inv, CountInv
  <2>2. /\ IsFiniteSet(free \ {i}) /\ Cardinality(free \ {i}) = Cardinality(free) - 1
        /\ j \in free \ {i} /\ k \in (free \ {i}) \ {j}
    BY <1>1, <2>1, FS_RemoveElement
  <2>3. /\ IsFiniteSet((free \ {i}) \ {j})
        /\ Cardinality((free \ {i}) \ {j}) = Cardinality(free \ {i}) - 1
    BY <2>2, FS_RemoveElement
  <2>4. /\ IsFiniteSet(((free \ {i}) \ {j}) \ {k})
        /\ Cardinality(((free \ {i}) \ {j}) \ {k}) = Cardinality((free \ {i}) \ {j}) - 1
    BY <2>2, <2>3, FS_RemoveElement
  <2>5. free' = ((free \ {i}) \ {j}) \ {k}
    BY <1>6
  <2>6. Cardinality(free') \in Nat
    BY <2>4, <2>5, FS_CardinalityType
  <2>7. Cardinality(free') = Cardinality(free) - 3 /\ Cardinality(free) >= 3
    BY <2>2, <2>3, <2>4, <2>5, <2>6, Room, SMT
  <2>8. /\ IsFiniteSet(Submitted') /\ Cardinality(Submitted') = Cardinality(Submitted) + 1
        /\ Cardinality(Open') = Cardinality(Open) + 1
    BY <1>1, <1>4, <2>1, FS_AddElement
  <2> QED
    BY <2>7, <2>8
<1>12. CountInv'
  BY <1>11, Room, Ranges, SMT DEF Inv, CountInv
<1>13. OpenInv'
  <2>1. \A c \in Submitted : c \in Open \/ c \in moved
    BY DEF Inv, OpenInv, Open, Submitted
  <2>2. \A c \in Submitted' : c \in Open' \/ c \in moved'
    BY <1>4, <1>6, <2>1
  <2>3. Open' \subseteq Submitted'
    BY <1>4 DEF Inv, OpenInv
  <2> QED
    BY <2>2, <2>3 DEF OpenInv, Open
<1>14. /\ Gap(seen, availidx) < NUM /\ Gap(seen, availidx) + 1 < IdxRange
       /\ seen \in Idx /\ availidx \in Idx
  <2>1. seen \in Idx /\ availidx \in Idx
    BY DEF Inv, TypeOK
  <2>2. /\ Cardinality(free) + 3 * Cardinality(Submitted) = NUM
        /\ Gap(seen, availidx) + Cardinality(taken) + Gap(used_idx, usedidx) = Cardinality(Open)
    BY DEF Inv, CountInv, LengthInv
  <2> QED
    BY <1>11, <2>1, <2>2, Room, Ranges, SMT
<1>15. /\ Waiting' = Waiting \cup {AvailSlot} /\ AvailSlot \notin Waiting /\ Done' = Done
       /\ Gap(seen, availidx)' = Gap(seen, availidx) + 1
       /\ Gap(used_idx, usedidx)' = Gap(used_idx, usedidx)
  <2>1. Waiting' = Slots(seen, Inc(availidx)) /\ Done' = Done
        /\ Gap(seen, availidx)' = Gap(seen, Inc(availidx))
        /\ Gap(used_idx, usedidx)' = Gap(used_idx, usedidx)
    BY <1>6 DEF Waiting, Done, Slots, Gap
  <2>2. /\ Slots(seen, Inc(availidx)) = Slots(seen, availidx) \cup {availidx % NUM}
        /\ availidx % NUM \notin Slots(seen, availidx)
    BY <1>14, Push
  <2>3. Gap(seen, Inc(availidx)) = Gap(seen, availidx) + 1
    BY <1>14, GapPush
  <2> QED
    BY <2>1, <2>2, <2>3 DEF Waiting, AvailSlot
<1>16. LengthInv'
  BY <1>6, <1>11, <1>15, Room, SMT DEF Inv, LengthInv
<1>17. /\ \A h : IsOpen(h) => IsOpen(h)' /\ h # i
       /\ IsOpen(i)'
  <2>1. ASSUME NEW h, IsOpen(h) PROVE IsOpen(h)' /\ h # i
    BY <1>1, <1>4, <1>5, <2>1, HeadOf, SMT DEF IsOpen
  <2> QED
    BY <1>4, <1>6, <2>1 DEF IsOpen
<1>18. /\ avail'[AvailSlot] = i
       /\ \A s \in Waiting : avail'[s] = avail[s]
  <2>1. Waiting \subseteq Desc
    BY SlotsInRange DEF Inv, TypeOK, Waiting
  <2>2. avail' = [avail EXCEPT ![AvailSlot] = i] /\ avail \in [Desc -> Desc]
    BY DEF Submit, Inv, TypeOK
  <2> QED
    BY <1>2, <1>15, <2>1, <2>2
<1>19. QueueInv'
  <2> USE <1>6, <1>15, <1>17 DEF IsOpen
  <2>1. \A s \in Waiting' : IsOpen(avail[s])' /\ avail'[s] \notin taken'
    <3>1. ASSUME NEW s \in Waiting PROVE IsOpen(avail[s])' /\ avail'[s] \notin taken'
      BY <1>18, SMT DEF Inv, QueueInv
    <3>2. i \notin taken
      BY DEF Inv, QueueInv
    <3> QED
      BY <1>18, <3>1, <3>2
  <2>2. /\ \A h \in taken' : IsOpen(h)'
        /\ \A s \in Done' : IsOpen(used[s])' /\ used'[s] \notin taken'
    BY DEF Inv, QueueInv
  <2>3. \A s \in Waiting', t \in Done' : avail'[s] # used'[t]
    <3>1. /\ \A s \in Waiting, t \in Done : avail[s] # used[t]
          /\ \A t \in Done : used[t] # i
      BY DEF Inv, QueueInv
    <3> QED
      BY <1>18, <3>1, SMT
  <2>4. /\ \A s, t \in Waiting' : avail'[s] = avail'[t] => s = t
        /\ \A s, t \in Done' : used'[s] = used'[t] => s = t
    <3>1. /\ \A s, t \in Waiting : avail[s] = avail[t] => s = t
          /\ \A s \in Waiting : avail[s] # i
          /\ \A s, t \in Done : used[s] = used[t] => s = t
      BY DEF Inv, QueueInv
    <3> QED
      BY <1>18, <3>1, SMT
  <2>5. ASSUME NEW c \in Open'
        PROVE  \/ \E s \in Waiting' : avail'[s] = head'[c]
               \/ head'[c] \in taken'
               \/ \E s \in Done' : used'[s] = head'[c]
    <3>1. CASE c = b
      BY <1>18, <3>1
    <3>2. CASE c # b
      <4>1. c \in Open /\ c \in Submitted
        BY <1>4, <3>2 DEF Inv, OpenInv
      <4>2. head'[c] = head[c]
        BY <1>5, <3>2, <4>1
      <4>3. \/ \E s \in Waiting : avail[s] = head[c]
            \/ head[c] \in taken
            \/ \E s \in Done : used[s] = head[c]
        BY <4>1 DEF Inv, QueueInv
      <4> QED
        BY <1>18, <4>2, <4>3
    <3> QED
      BY <3>1, <3>2
  <2> QED
    BY <2>1, <2>2, <2>3, <2>4, <2>5 DEF QueueInv
<1>20. DoneInv'
  <2>1. ASSUME NEW s \in Done PROVE status'[used[s]] = 0 /\ infob'[used[s]] \in moved
    <3>1. used[s] \in Desc /\ used[s] \notin free
      BY HeadOf DEF Inv, QueueInv
    <3> QED
      BY <1>5, <3>1 DEF Inv, DoneInv
  <2> QED
    BY <1>6, <1>15, <2>1 DEF DoneInv
<1>21. NoLostWakeup'
  <2>1. /\ pc' = [pc EXCEPT ![b] = "sleep"] /\ bdisk' = [bdisk EXCEPT ![b] = TRUE]
        /\ UNCHANGED <<inintr, panic, irq>>
    BY DEF Submit, Format, dev
  <2>2. \A c \in Bufs : pc[c] # "sleepfree"
    BY <1>11, Room, SMT DEF Inv, NoLostWakeup
  <2> QED
    BY <1>6, <2>1, <2>2 DEF Inv, TypeOK, NoLostWakeup
<1>22. ~panic'
  BY DEF Submit, Inv
<1> QED
  BY <1>22, <1>3, <1>9, <1>10, <1>12, <1>13, <1>16, <1>19, <1>20, <1>21 DEF Inv

\* free_chain gives back the three descriptors of the request, and no other.
LEMMA FinishKeeps ==
    ASSUME Inv, NEW b \in Bufs, Finish(b)
    PROVE  Inv'
<1> DEFINE C == Chain(head[b])
<1>1. /\ b \in Submitted /\ b \notin Open /\ ChainOK(b) /\ head[b] \in Desc
      /\ C \subseteq Desc /\ C \cap free = {} /\ C = {head[b], Second(b), Third(b)}
  <2>1. b \in Submitted /\ b \notin Open
    BY DEF Finish, Submitted, Open
  <2>2. ChainOK(b)
    BY <2>1 DEF Inv, ChainInv
  <2> QED
    BY <2>1, <2>2, ChainIs DEF ChainOK
<1> HIDE DEF C
<1>2. /\ infob' = [infob EXCEPT ![head[b]] = None]
      /\ desc' = [d \in Desc |-> IF d \in C THEN NoDesc ELSE desc[d]]
      /\ free' = free \cup C /\ panic' = FALSE
      /\ pc' = [WakeFree(pc) EXCEPT ![b] = "idle"]
      /\ head' = [head EXCEPT ![b] = None]
      /\ write' = [write EXCEPT ![b] = FALSE]
      /\ moved' = moved \ {b}
      /\ UNCHANGED <<ops, status, avail, availidx, used_idx, bdisk, used, usedidx, seen, taken,
                     irq, inintr>>
  BY <1>1 DEF Finish, C, dev
<1>3. TypeOK'
  BY <1>1, <1>2 DEF Inv, TypeOK, Places, WakeFree, NoDesc
<1>4. Submitted' = Submitted \ {b} /\ Open' = Open
  <2>1. \A c \in Bufs : pc'[c] = IF c = b THEN "idle" ELSE
                                 IF pc[c] = "sleepfree" THEN "alloc" ELSE pc[c]
    BY <1>2 DEF WakeFree, Inv, TypeOK
  <2> QED
    BY <1>2, <2>1, SMT DEF Submitted, Open
<1>5. ASSUME NEW c \in Submitted, c # b
      PROVE  /\ ChainOK(c)' /\ Chain(head[c])' = Chain(head[c]) /\ Chain(head[c]) \cap C = {}
             /\ head'[c] = head[c] /\ infob'[head[c]] = c
  <2>1. ChainOK(c) /\ c \in Bufs
    BY DEF Inv, ChainInv, Submitted
  <2>2. Chain(head[c]) \cap C = {}
    BY <1>1, <1>5 DEF Inv, ShareInv, C
  <2>3. Chain(head[c]) = {head[c], Second(c), Third(c)} /\ head[b] \in C
    BY <1>1, ChainIs
  <2>4. /\ head'[c] = head[c] /\ write'[c] = write[c]
        /\ \A d \in {head[c], Second(c), Third(c)} : desc'[d] = desc[d] /\ d \notin free'
        /\ ops'[head[c]] = ops[head[c]] /\ infob'[head[c]] = infob[head[c]]
    <3>1. \A d \in {head[c], Second(c), Third(c)} : d \notin C /\ d \in Desc \ free
      BY <2>1, <2>2, <2>3 DEF ChainOK
    <3>2. head'[c] = head[c] /\ write'[c] = write[c]
      BY <1>2, <1>5, <2>1 DEF Inv, TypeOK
    <3>3. infob'[head[c]] = infob[head[c]]
      BY <1>2, <2>3, <3>1 DEF Inv, TypeOK
    <3> QED
      BY <1>2, <3>1, <3>2, <3>3
  <2>5. ChainOK(c)' /\ Chain(head[c])' = Chain(head[c])
    BY <2>1, <2>4, SameChain
  <2> QED
    BY <2>1, <2>2, <2>4, <2>5 DEF ChainOK
<1>6. ChainInv'
  BY <1>4, <1>5 DEF ChainInv
<1>7. ShareInv'
  <2>1. ASSUME NEW c \in Submitted', NEW e \in Submitted', c # e
        PROVE  Chain(head[c])' \cap Chain(head[e])' = {}
    BY <1>4, <1>5, <2>1, SMT DEF Inv, ShareInv
  <2>2. ASSUME NEW d \in Desc, d \notin free'
        PROVE  \E c \in Submitted' : d \in Chain(head[c])'
    <3>1. PICK c \in Submitted : d \in Chain(head[c])
      BY <1>2, <2>2 DEF Inv, ShareInv
    <3>2. c # b
      BY <1>2, <2>2, <3>1 DEF C
    <3> QED
      BY <1>4, <1>5, <3>1, <3>2
  <2> QED
    BY <2>1, <2>2 DEF ShareInv
<1>8. CountInv'
  <2> DEFINE f1 == free \cup {head[b]}
             f2 == f1 \cup {Second(b)}
             f3 == f2 \cup {Third(b)}
  <2>1. /\ head[b] \notin free /\ Second(b) \notin f1 /\ Third(b) \notin f2
    BY <1>1 DEF ChainOK
  <2>2. IsFiniteSet(f1) /\ Cardinality(f1) = Cardinality(free) + 1
    BY <2>1, Room, FS_AddElement
  <2> HIDE DEF f1
  <2>3. IsFiniteSet(f2) /\ Cardinality(f2) = Cardinality(f1) + 1
    BY <2>1, <2>2, FS_AddElement
  <2> HIDE DEF f2
  <2>4. Cardinality(f3) = Cardinality(f2) + 1
    BY <2>1, <2>3, FS_AddElement
  <2>5. f3 = free'
    BY <1>1, <1>2 DEF f1, f2
  <2>6. IsFiniteSet(Submitted') /\ Cardinality(Submitted') = Cardinality(Submitted) - 1
    BY <1>1, <1>4, FS_RemoveElement DEF Inv, CountInv
  <2>7. Cardinality(free') = Cardinality(free) + 3
    <3>1. Cardinality(free') = Cardinality(f2) + 1
      BY <2>4, <2>5
    <3> QED
      BY <2>2, <2>3, <3>1, Room, SMT
  <2> QED
    BY <2>6, <2>7, Room, Ranges, SMT DEF Inv, CountInv
<1>9. OpenInv'
  <2>1. \A c \in Submitted : c \in Open \/ c \in moved
    BY DEF Inv, OpenInv, Open, Submitted
  <2>2. \A c \in Submitted' : c \in Open' \/ c \in moved'
    BY <1>2, <1>4, <2>1
  <2>3. Open' \subseteq Submitted'
    BY <1>1, <1>4 DEF Inv, OpenInv
  <2> QED
    BY <2>2, <2>3 DEF OpenInv, Open
<1>10. /\ Waiting' = Waiting /\ Done' = Done
       /\ Gap(seen, availidx)' = Gap(seen, availidx)
       /\ Gap(used_idx, usedidx)' = Gap(used_idx, usedidx)
  BY <1>2 DEF Waiting, Done, Slots, Gap
<1>11. \A h : IsOpen(h) => IsOpen(h)' /\ infob'[h] = infob[h] /\ infob[h] # b
  <2>1. ASSUME NEW h, IsOpen(h)
        PROVE  IsOpen(h)' /\ infob'[h] = infob[h] /\ infob[h] # b
    <3>1. infob[h] \in Submitted /\ infob[h] \in Open /\ h = head[infob[h]]
      BY <2>1, HeadOf DEF IsOpen
    <3>2. infob[h] # b
      BY <1>1, <3>1
    <3>3. head'[infob[h]] = h /\ infob'[h] = infob[h]
      BY <1>5, <3>1, <3>2
    <3> QED
      BY <1>4, <3>1, <3>2, <3>3 DEF IsOpen
  <2> QED
    BY <2>1
<1>12. QueueInv'
  <2> USE <1>2, <1>10, <1>11 DEF IsOpen
  <2>1. \A s \in Waiting' : IsOpen(avail[s])' /\ avail'[s] \notin taken'
    BY DEF Inv, QueueInv
  <2>2. /\ \A h \in taken' : IsOpen(h)'
        /\ \A s \in Done' : IsOpen(used[s])' /\ used'[s] \notin taken'
    BY DEF Inv, QueueInv
  <2>3. /\ \A s \in Waiting, t \in Done : avail[s] # used[t]
        /\ \A s, t \in Waiting : avail[s] = avail[t] => s = t
        /\ \A s, t \in Done : used[s] = used[t] => s = t
    BY DEF Inv, QueueInv
  <2>4. /\ \A s \in Waiting', t \in Done' : avail'[s] # used'[t]
        /\ \A s, t \in Waiting' : avail'[s] = avail'[t] => s = t
        /\ \A s, t \in Done' : used'[s] = used'[t] => s = t
    BY <2>3
  <2>5. ASSUME NEW c \in Open'
        PROVE  \/ \E s \in Waiting' : avail'[s] = head'[c]
               \/ head'[c] \in taken'
               \/ \E s \in Done' : used'[s] = head'[c]
    <3>1. c \in Open /\ c \in Submitted /\ c # b
      BY <1>1, <1>4 DEF Inv, OpenInv
    <3>2. head'[c] = head[c]
      BY <1>5, <3>1
    <3>3. \/ \E s \in Waiting : avail[s] = head[c]
          \/ head[c] \in taken
          \/ \E s \in Done : used[s] = head[c]
      BY <3>1 DEF Inv, QueueInv
    <3> QED
      BY <3>2, <3>3, SMT
  <2> QED
    BY <2>1, <2>2, <2>4, <2>5 DEF QueueInv
<1>13. DoneInv'
  BY <1>2, <1>10, <1>11, SMT DEF Inv, QueueInv, DoneInv
<1>14. LengthInv'
  BY <1>2, <1>4, <1>10 DEF Inv, LengthInv
<1>15. NoLostWakeup'
  BY <1>2 DEF Inv, TypeOK, NoLostWakeup, WakeFree
<1> QED
  BY <1>2, <1>3, <1>6, <1>7, <1>8, <1>9, <1>12, <1>13, <1>14, <1>15 DEF Inv

----------------------------------------------------------------------------
\* The steps of the device

\* The device takes the first entry of the avail ring.
LEMMA DevTakeKeeps ==
    ASSUME Inv, DevTake
    PROVE  Inv'
<1> DEFINE h == avail[seen % NUM]
<1>1. /\ seen \in Idx /\ availidx \in Idx /\ seen # availidx
      /\ taken' = taken \cup {h} /\ seen' = Inc(seen)
      /\ UNCHANGED <<drv, used, usedidx, irq, moved, write, head, pc, inintr, panic>>
  BY DEF Inv, TypeOK, DevTake
<1>2. Gap(seen, availidx) <= NUM
  BY Room, Ranges, SMT DEF Inv, CountInv, LengthInv
<1>3. /\ Waiting' = Waiting \ {seen % NUM} /\ seen % NUM \in Waiting /\ Done' = Done
      /\ Gap(seen, availidx)' = Gap(seen, availidx) - 1
      /\ Gap(used_idx, usedidx)' = Gap(used_idx, usedidx)
  <2>1. /\ Waiting' = Slots(Inc(seen), availidx) /\ Done' = Done
        /\ Gap(seen, availidx)' = Gap(Inc(seen), availidx)
        /\ Gap(used_idx, usedidx)' = Gap(used_idx, usedidx)
    BY <1>1 DEF Waiting, Done, Slots, Gap, drv
  <2>2. /\ Slots(Inc(seen), availidx) = Slots(seen, availidx) \ {seen % NUM}
        /\ seen % NUM \in Slots(seen, availidx)
    BY <1>1, <1>2, Pop
  <2>3. Gap(Inc(seen), availidx) = Gap(seen, availidx) - 1
    BY <1>1, GapPop
  <2> QED
    BY <2>1, <2>2, <2>3 DEF Waiting
<1>4. IsOpen(h) /\ h \notin taken /\ h \in Desc
  <2>1. IsOpen(h) /\ h \notin taken
    BY <1>3 DEF Inv, QueueInv
  <2> QED
    BY <2>1, HeadOf
<1>5. TypeOK'
  BY <1>1, <1>4, IncIs DEF Inv, TypeOK, drv
<1>6. Submitted' = Submitted /\ Open' = Open
  BY <1>1 DEF Submitted, Open, drv
<1>7. ChainInv' /\ ShareInv' /\ CountInv'
  BY <1>1, <1>6, SameChains DEF drv
<1>8. OpenInv'
  BY <1>1, <1>6 DEF Inv, OpenInv, drv
<1>9. \A g : IsOpen(g)' <=> IsOpen(g)
  BY <1>1, <1>6 DEF IsOpen, drv
<1>10. QueueInv'
  <2> USE <1>1, <1>3, <1>4, <1>9 DEF IsOpen, drv
  <2>1. \A s \in Waiting' : IsOpen(avail[s])' /\ avail'[s] \notin taken'
    BY DEF Inv, QueueInv
  <2>2. /\ \A g \in taken' : IsOpen(g)'
        /\ \A s \in Done' : IsOpen(used[s])' /\ used'[s] \notin taken'
    BY DEF Inv, QueueInv
  <2>3. /\ \A s \in Waiting', t \in Done' : avail'[s] # used'[t]
        /\ \A s, t \in Waiting' : avail'[s] = avail'[t] => s = t
        /\ \A s, t \in Done' : used'[s] = used'[t] => s = t
    BY SMT DEF Inv, QueueInv
  <2>4. \A c \in Open' : \/ \E s \in Waiting' : avail'[s] = head'[c]
                         \/ head'[c] \in taken'
                         \/ \E s \in Done' : used'[s] = head'[c]
    BY <1>6 DEF Inv, QueueInv
  <2> QED
    BY <2>1, <2>2, <2>3, <2>4 DEF QueueInv
<1>11. DoneInv'
  BY <1>1, <1>3 DEF Inv, DoneInv, drv
<1>12. LengthInv'
  <2>1. Cardinality(taken') = Cardinality(taken) + 1
    BY <1>1, <1>4, Room, FS_AddElement
  <2> QED
    BY <1>3, <1>6, <2>1, Room, SMT DEF Inv, LengthInv
<1>13. NoLostWakeup'
  BY <1>1 DEF Inv, NoLostWakeup, drv
<1> QED
  BY <1>1, <1>5, <1>7, <1>8, <1>10, <1>11, <1>12, <1>13 DEF Inv

\* The device ends a request: the buffer it reads from the chain is that of the
\* request, so the data moved and the status are those the caller waits for.
LEMMA DevDoneKeeps ==
    ASSUME Inv, NEW h \in Desc, DevDone(h)
    PROVE  Inv'
<1> DEFINE b == infob[h]
<1>1. /\ IsOpen(h) /\ h \in taken /\ b \in Submitted /\ b \in Bufs /\ b \in Open /\ head[b] = h
      /\ ChainOK(b)
  <2>1. IsOpen(h) /\ h \in taken
    BY DEF DevDone, Inv, QueueInv
  <2>2. b \in Submitted /\ b \in Bufs /\ b \in Open /\ head[b] = h
    BY <2>1, HeadOf DEF IsOpen
  <2> QED
    BY <2>1, <2>2 DEF Inv, ChainInv
<1> HIDE DEF b
<1>2. /\ desc[h].addr = h /\ desc[desc[h].next].addr = b
      /\ desc[desc[desc[h].next].next].addr = h
      /\ ops[h] = [write |-> write[b], sector |-> b]
  BY <1>1 DEF ChainOK, Filled, Second, Third
<1>3. /\ moved' = moved \cup {b} /\ status' = [status EXCEPT ![h] = 0]
      /\ used' = [used EXCEPT ![usedidx % NUM] = h] /\ usedidx' = Inc(usedidx)
      /\ taken' = taken \ {h} /\ irq' = TRUE
      /\ UNCHANGED <<free, desc, ops, infob, avail, availidx, used_idx, bdisk,
                     seen, write, head, pc, inintr, panic>>
  BY <1>2 DEF DevDone
<1>4. used_idx \in Idx /\ usedidx \in Idx /\ usedidx % NUM \in Desc
  <2>1. used_idx \in Idx /\ usedidx \in Idx /\ usedidx \in Int
    BY SMT DEF Inv, TypeOK, Idx
  <2> QED
    BY <2>1, Ranges, ModRange DEF Desc
<1>5. TypeOK'
  BY <1>1, <1>3, <1>4, IncIs DEF Inv, TypeOK
<1>6. Submitted' = Submitted /\ Open' = Open
  BY <1>3 DEF Submitted, Open
<1>7. ChainInv' /\ ShareInv' /\ CountInv'
  BY <1>3, <1>6, SameChains
<1>8. OpenInv'
  BY <1>3, <1>6 DEF Inv, OpenInv
<1>9. IsFiniteSet(taken') /\ Cardinality(taken') = Cardinality(taken) - 1
      /\ Cardinality(taken') \in Nat
  BY <1>1, <1>3, Room, FS_RemoveElement, FS_CardinalityType
<1>10. Gap(used_idx, usedidx) < NUM /\ Gap(used_idx, usedidx) + 1 < IdxRange
  <2>1. /\ Cardinality(free) + 3 * Cardinality(Submitted) = NUM
        /\ Gap(seen, availidx) + Cardinality(taken) + Gap(used_idx, usedidx) = Cardinality(Open)
    BY DEF Inv, CountInv, LengthInv
  <2> QED
    BY <1>9, <2>1, Room, Ranges, SMT
<1>11. /\ Done' = Done \cup {usedidx % NUM} /\ usedidx % NUM \notin Done /\ Waiting' = Waiting
       /\ Gap(used_idx, usedidx)' = Gap(used_idx, usedidx) + 1
       /\ Gap(seen, availidx)' = Gap(seen, availidx)
  <2>1. /\ Done' = Slots(used_idx, Inc(usedidx)) /\ Waiting' = Waiting
        /\ Gap(used_idx, usedidx)' = Gap(used_idx, Inc(usedidx))
        /\ Gap(seen, availidx)' = Gap(seen, availidx)
    BY <1>3 DEF Waiting, Done, Slots, Gap
  <2>2. /\ Slots(used_idx, Inc(usedidx)) = Slots(used_idx, usedidx) \cup {usedidx % NUM}
        /\ usedidx % NUM \notin Slots(used_idx, usedidx)
    BY <1>4, <1>10, Push
  <2>3. Gap(used_idx, Inc(usedidx)) = Gap(used_idx, usedidx) + 1
    BY <1>4, <1>10, GapPush
  <2> QED
    BY <2>1, <2>2, <2>3 DEF Done
<1>12. /\ \A g : IsOpen(g)' <=> IsOpen(g)
       /\ used'[usedidx % NUM] = h /\ \A s \in Done : used'[s] = used[s]
  <2>1. Done \subseteq Desc
    BY <1>4, SlotsInRange DEF Done
  <2>2. used \in [Desc -> Desc]
    BY DEF Inv, TypeOK
  <2>3. used'[usedidx % NUM] = h /\ \A s \in Done : used'[s] = used[s]
    BY <1>3, <1>4, <1>11, <2>1, <2>2
  <2> QED
    BY <1>3, <1>6, <2>3 DEF IsOpen
<1>13. QueueInv'
  <2> USE <1>1, <1>3, <1>11, <1>12 DEF IsOpen
  <2>1. \A s \in Waiting' : IsOpen(avail[s])' /\ avail'[s] \notin taken'
    BY DEF Inv, QueueInv
  <2>2. \A g \in taken' : IsOpen(g)'
    BY DEF Inv, QueueInv
  <2>3. \A s \in Done : IsOpen(used[s]) /\ used[s] # h
    BY DEF Inv, QueueInv
  <2>4. \A s \in Done' : IsOpen(used[s])' /\ used'[s] \notin taken'
    <3>1. ASSUME NEW s \in Done PROVE IsOpen(used[s])' /\ used'[s] \notin taken'
      BY SMT DEF Inv, QueueInv
    <3> QED
      BY <3>1, SMT
  <2>5. /\ \A s \in Waiting', t \in Done' : avail'[s] # used'[t]
        /\ \A s, t \in Waiting' : avail'[s] = avail'[t] => s = t
    <3>1. /\ \A s \in Waiting, t \in Done : avail[s] # used[t]
          /\ \A s \in Waiting : avail[s] # h
          /\ \A s, t \in Waiting : avail[s] = avail[t] => s = t
      BY DEF Inv, QueueInv
    <3> QED
      BY <3>1, SMT
  <2>6. \A s, t \in Done' : used'[s] = used'[t] => s = t
    <3>1. \A s, t \in Done : used[s] = used[t] => s = t
      BY DEF Inv, QueueInv
    <3> QED
      BY <2>3, <3>1, SMT
  <2>7. ASSUME NEW c \in Open'
        PROVE  \/ \E s \in Waiting' : avail'[s] = head'[c]
               \/ head'[c] \in taken'
               \/ \E s \in Done' : used'[s] = head'[c]
    <3>1. \/ \E s \in Waiting : avail[s] = head[c]
          \/ head[c] \in taken
          \/ \E s \in Done : used[s] = head[c]
      BY <1>6 DEF Inv, QueueInv
    <3>2. CASE head[c] = h
      BY <3>2
    <3>3. CASE head[c] # h
      BY <3>1, <3>3
    <3> QED
      BY <3>2, <3>3
  <2> QED
    BY <2>1, <2>2, <2>4, <2>5, <2>6, <2>7 DEF QueueInv
<1>14. DoneInv'
  <2>1. ASSUME NEW s \in Done PROVE status'[used'[s]] = 0 /\ infob'[used'[s]] \in moved'
    <3>1. used[s] \in Desc /\ status \in [Desc -> {0, 255}]
      BY HeadOf DEF Inv, QueueInv, TypeOK
    <3>2. status[used[s]] = 0 /\ infob[used[s]] \in moved
      BY DEF Inv, DoneInv
    <3>3. status'[used[s]] = 0 /\ infob'[used[s]] \in moved'
      BY <1>3, <3>1, <3>2, SMT
    <3> QED
      BY <1>12, <3>3
  <2>2. status'[h] = 0 /\ infob'[h] \in moved'
    BY <1>3 DEF Inv, TypeOK, b
  <2> QED
    BY <1>11, <1>12, <2>1, <2>2 DEF DoneInv
<1>15. LengthInv'
  BY <1>6, <1>9, <1>11, Room, SMT DEF Inv, LengthInv
<1>16. NoLostWakeup'
  BY <1>3 DEF Inv, NoLostWakeup
<1> QED
  BY <1>3, <1>5, <1>7, <1>8, <1>13, <1>14, <1>15, <1>16 DEF Inv

----------------------------------------------------------------------------
\* The steps of virtio_disk_intr

\* The handler starts and leaves.
LEMMA IntrKeeps ==
    ASSUME Inv, IntrAck \/ IntrReturn
    PROVE  Inv'
<1> USE DEF IntrAck, IntrReturn, drv, dev
<1>1. TypeOK'
  <2>1. CASE IntrAck
    BY <2>1 DEF Inv, TypeOK
  <2>2. CASE IntrReturn
    BY <2>2 DEF Inv, TypeOK
  <2> QED
    BY <2>1, <2>2
<1>2. Submitted' = Submitted /\ Open' = Open
  BY DEF Submitted, Open
<1>3. ChainInv' /\ ShareInv' /\ CountInv'
  BY <1>2, SameChains
<1>4. OpenInv'
  BY <1>2 DEF Inv, OpenInv
<1>5. QueueInv' /\ DoneInv' /\ LengthInv'
  BY SameQueue
<1>6. NoLostWakeup' /\ ~panic'
  BY SMT DEF Inv, NoLostWakeup
<1> QED
  BY <1>1, <1>3, <1>4, <1>5, <1>6 DEF Inv

\* The handler takes the first entry of the used ring and finds its buffer.
LEMMA IntrEntryKeeps ==
    ASSUME Inv, IntrEntry
    PROVE  Inv'
<1> DEFINE id == used[used_idx % NUM]
           b == infob[id]
<1>1. used_idx \in Idx /\ usedidx \in Idx /\ used_idx # usedidx
  BY DEF Inv, TypeOK, IntrEntry
<1>2. Gap(used_idx, usedidx) <= NUM
  BY Room, Ranges, SMT DEF Inv, CountInv, LengthInv
<1>3. /\ Slots(Inc(used_idx), usedidx) = Done \ {used_idx % NUM} /\ used_idx % NUM \in Done
      /\ Gap(Inc(used_idx), usedidx) = Gap(used_idx, usedidx) - 1
  BY <1>1, <1>2, Pop, GapPop DEF Done
<1>4. /\ IsOpen(id) /\ id \notin taken /\ b \in Submitted /\ b \in Bufs /\ b \in Open
      /\ head[b] = id /\ status[id] = 0 /\ b \in moved
  <2>1. IsOpen(id) /\ id \notin taken /\ status[id] = 0 /\ b \in moved
    BY <1>3 DEF Inv, QueueInv, DoneInv
  <2> QED
    BY <2>1, HeadOf DEF IsOpen
<1>5. b # None
  BY <1>4, VirtioAssumption
<1>6. /\ bdisk' = [bdisk EXCEPT ![b] = FALSE]
      /\ pc' = [pc EXCEPT ![b] = IF @ = "sleep" THEN "awake" ELSE @]
      /\ used_idx' = Inc(used_idx)
      /\ UNCHANGED <<free, desc, ops, infob, status, avail, availidx, used, usedidx, seen,
                     taken, irq, moved, write, head, inintr, panic>>
  BY <1>4, <1>5 DEF IntrEntry, dev
<1> HIDE DEF b, id
<1>7. TypeOK'
  BY <1>1, <1>4, <1>6, IncIs DEF Inv, TypeOK, Places
<1>8. Submitted' = Submitted /\ Open' = Open \ {b}
  BY <1>4, <1>6, SMT DEF Submitted, Open, Inv, TypeOK
<1>9. ChainInv' /\ ShareInv' /\ CountInv'
  BY <1>6, <1>8, SameChains
<1>10. OpenInv'
  <2>1. \A c \in Submitted : c \in Open \/ c \in moved
    BY DEF Inv, OpenInv, Open, Submitted
  <2>2. \A c \in Submitted' : c \in Open' \/ c \in moved'
    BY <1>4, <1>6, <1>8, <2>1
  <2>3. Open' \subseteq Submitted'
    BY <1>8 DEF Inv, OpenInv
  <2> QED
    BY <2>2, <2>3 DEF OpenInv, Open
<1>11. /\ Done' = Done \ {used_idx % NUM} /\ Waiting' = Waiting
       /\ Gap(used_idx, usedidx)' = Gap(used_idx, usedidx) - 1
       /\ Gap(seen, availidx)' = Gap(seen, availidx)
  <2>1. /\ Done' = Slots(Inc(used_idx), usedidx) /\ Waiting' = Waiting
        /\ Gap(used_idx, usedidx)' = Gap(Inc(used_idx), usedidx)
        /\ Gap(seen, availidx)' = Gap(seen, availidx)
    BY <1>6 DEF Waiting, Done, Slots, Gap
  <2> QED
    BY <1>3, <2>1
<1>12. /\ \A g : IsOpen(g) /\ g # id => IsOpen(g)'
       /\ \A c \in Open' : c \in Open /\ head[c] # id
  <2>1. ASSUME NEW g, IsOpen(g), g # id PROVE IsOpen(g)'
    BY <1>4, <1>6, <1>8, <2>1 DEF IsOpen, b
  <2>2. ASSUME NEW c \in Open' PROVE c \in Open /\ head[c] # id
    <3>1. c \in Open /\ c # b /\ c \in Submitted
      BY <1>8 DEF Inv, OpenInv
    <3>2. ChainOK(c)
      BY <3>1 DEF Inv, ChainInv
    <3> QED
      BY <3>1, <3>2 DEF ChainOK, b
  <2> QED
    BY <2>1, <2>2
<1>13. QueueInv'
  <2> USE <1>3, <1>4, <1>6, <1>11, <1>12
  <2>0. id = used[used_idx % NUM]
    BY DEF id
  <2>1. \A s \in Waiting' : IsOpen(avail[s])' /\ avail'[s] \notin taken'
    <3>1. ASSUME NEW s \in Waiting PROVE IsOpen(avail[s]) /\ avail[s] \notin taken /\ avail[s] # id
      BY <2>0, SMT DEF Inv, QueueInv
    <3> QED
      BY <3>1 DEF IsOpen
  <2>2. /\ \A g \in taken' : IsOpen(g)'
        /\ \A s \in Done' : IsOpen(used[s])' /\ used'[s] \notin taken'
    <3>1. ASSUME NEW g \in taken PROVE IsOpen(g) /\ g # id
      BY <2>0 DEF Inv, QueueInv
    <3>2. ASSUME NEW s \in Done' PROVE IsOpen(used[s]) /\ used[s] \notin taken /\ used[s] # id
      BY <2>0 DEF Inv, QueueInv
    <3> QED
      BY <3>1, <3>2 DEF IsOpen
  <2>3. /\ \A s \in Waiting', t \in Done' : avail'[s] # used'[t]
        /\ \A s, t \in Waiting' : avail'[s] = avail'[t] => s = t
        /\ \A s, t \in Done' : used'[s] = used'[t] => s = t
    BY DEF Inv, QueueInv
  <2>4. \A c \in Open' : \/ \E s \in Waiting' : avail'[s] = head'[c]
                         \/ head'[c] \in taken'
                         \/ \E s \in Done' : used'[s] = head'[c]
    <3>1. ASSUME NEW c \in Open'
          PROVE  \/ \E s \in Waiting : avail[s] = head[c]
                 \/ head[c] \in taken
                 \/ \E s \in Done : used[s] = head[c] /\ s # used_idx % NUM
      BY <2>0 DEF Inv, QueueInv
    <3> QED
      BY <3>1
  <2> QED
    BY <2>1, <2>2, <2>3, <2>4 DEF QueueInv
<1>14. DoneInv'
  BY <1>6, <1>11 DEF Inv, DoneInv
<1>15. LengthInv'
  <2>1. Cardinality(Open') = Cardinality(Open) - 1
    BY <1>4, <1>8, Room, FS_RemoveElement
  <2> QED
    BY <1>6, <1>11, <2>1, Room, SMT DEF Inv, LengthInv
<1>16. NoLostWakeup'
  <2>1. inintr
    BY DEF IntrEntry
  <2> QED
    BY <1>4, <1>6, <2>1, SMT DEF Inv, TypeOK, NoLostWakeup
<1> QED
  BY <1>6, <1>7, <1>9, <1>10, <1>13, <1>14, <1>15, <1>16 DEF Inv

----------------------------------------------------------------------------
\* The theorems

\* virtio_disk_init leaves every descriptor free and the rings empty.
LEMMA InitInv == Init => Inv
<1> SUFFICES ASSUME Init PROVE Inv
  OBVIOUS
<1>0. 0 \in Desc /\ 0 \in Idx
  BY Ranges, SMT DEF Desc, Idx
<1>1. TypeOK /\ ~panic
  BY <1>0 DEF Init, TypeOK, Places, NoDesc, NoOp
<1>2. Submitted = {} /\ Open = {}
  BY DEF Init, Submitted, Open
<1>3. ChainInv /\ ShareInv /\ OpenInv
  BY <1>2 DEF Init, ChainInv, ShareInv, OpenInv
<1>4. CountInv
  <2>1. Cardinality(Desc) = NUM
    BY Ranges, FS_Interval, SMT DEF Desc
  <2> QED
    BY <1>2, <2>1, Ranges, FS_EmptySet, SMT DEF Init, CountInv
<1>5. Gap(0, 0) = 0
  BY Ranges, SMT DEF Gap
<1>6. Waiting = {} /\ Done = {}
  BY <1>5, SMT DEF Init, Waiting, Done, Slots
<1>7. QueueInv /\ DoneInv
  BY <1>2, <1>6 DEF Init, QueueInv, DoneInv
<1>8. LengthInv
  BY <1>2, <1>5, FS_EmptySet, SMT DEF Init, LengthInv
<1>9. NoLostWakeup
  BY DEF Init, NoLostWakeup
<1> QED
  BY <1>1, <1>3, <1>4, <1>7, <1>8, <1>9 DEF Inv

\* A stuttering step.
LEMMA StutterKeeps == Inv /\ UNCHANGED vars => Inv'
<1> SUFFICES ASSUME Inv, UNCHANGED vars PROVE Inv'
  OBVIOUS
<1> USE DEF vars, drv, dev
<1>1. TypeOK' /\ NoLostWakeup' /\ ~panic'
  BY SMT DEF Inv, TypeOK, NoLostWakeup
<1>2. Submitted' = Submitted /\ Open' = Open
  BY DEF Submitted, Open
<1>3. ChainInv' /\ ShareInv' /\ CountInv'
  BY <1>2, SameChains
<1>4. OpenInv'
  BY <1>2 DEF Inv, OpenInv
<1>5. QueueInv' /\ DoneInv' /\ LengthInv'
  BY SameQueue
<1> QED
  BY <1>1, <1>3, <1>4, <1>5 DEF Inv

\* Every step of the callers, the device and the handler.
LEMMA NextInv == Inv /\ [Next]_vars => Inv'
<1> SUFFICES ASSUME Inv, [Next]_vars PROVE Inv'
  OBVIOUS
<1>1. ASSUME NEW b \in Bufs, NEW w \in Dirs[b], Call(b, w) PROVE Inv'
  BY <1>1, CallKeeps
<1>2. ASSUME NEW b \in Bufs, AllocFail(b) \/ KillWakes(b) \/ SleepAgain(b) \/ Finish(b)
      PROVE  Inv'
  BY <1>2, AllocFailKeeps, KillWakesKeeps, FinishKeeps
<1>3. ASSUME NEW b \in Bufs, NEW i \in free, NEW j \in free, NEW k \in free, Submit(b, i, j, k)
      PROVE  Inv'
  BY <1>3, SubmitKeeps
<1>4. ASSUME DevTake \/ \E h \in Desc : DevDone(h) PROVE Inv'
  BY <1>4, DevTakeKeeps, DevDoneKeeps
<1>5. ASSUME IntrAck \/ IntrEntry \/ IntrReturn PROVE Inv'
  BY <1>5, IntrKeeps, IntrEntryKeeps
<1>6. CASE UNCHANGED vars
  BY <1>6, StutterKeeps
<1> QED
  BY <1>1, <1>2, <1>3, <1>4, <1>5, <1>6 DEF Next

\* The invariant holds always.
LEMMA Invariant == Spec => []Inv
  BY InitInv, NextInv, PTL DEF Spec

\* What it says of the descriptors.
LEMMA InvConserved == Inv => DescriptorsConserved
<1> SUFFICES ASSUME Inv PROVE DescriptorsConserved
  OBVIOUS
<1>1. ASSUME NEW b \in Submitted PROVE Chain(head[b]) \subseteq Desc
  <2>1. ChainOK(b)
    BY DEF Inv, ChainInv
  <2> QED
    BY <2>1, ChainIs DEF ChainOK
<1>2. free \cup UNION {Chain(head[b]) : b \in Submitted} = Desc
  <2>1. free \subseteq Desc /\ UNION {Chain(head[b]) : b \in Submitted} \subseteq Desc
    BY <1>1, SMT DEF Inv, TypeOK
  <2>2. \A d \in Desc : d \in free \/ \E b \in Submitted : d \in Chain(head[b])
    BY DEF Inv, ShareInv
  <2> QED
    BY <2>1, <2>2
<1> QED
  BY <1>2 DEF Inv, CountInv, DescriptorsConserved

\* What it says of the rings.
LEMMA InvOnePlace == Inv => OnePlacePerRequest
<1> SUFFICES ASSUME Inv PROVE OnePlacePerRequest
  OBVIOUS
<1> DEFINE open == {head[b] : b \in Open}
           f == [b \in Open |-> head[b]]
<1>1. \A b, c \in Open : head[b] = head[c] => b = c
  <2>1. \A b \in Open : ChainOK(b)
    BY DEF Inv, OpenInv, ChainInv
  <2>2. \A b \in Open : infob[head[b]] = b
    BY <2>1 DEF ChainOK
  <2> QED
    BY <2>2
<1>2. Cardinality(open) = Cardinality(Open)
  <2>1. f \in Bijection(Open, open)
    BY <1>1 DEF Bijection, Injection, Surjection, IsInjective
  <2>2. ExistsBijection(Open, open)
    BY <2>1 DEF ExistsBijection
  <2> QED
    BY <2>2, Room, FS_Bijection
<1>3. /\ Between(avail, seen, availidx) = {avail[s] : s \in Waiting}
      /\ Between(used, used_idx, usedidx) = {used[s] : s \in Done}
  BY DEF Between, Waiting, Done, Slots
<1>4. {avail[s] : s \in Waiting} \cup taken \cup {used[s] : s \in Done} = open
  <2>1. /\ \A s \in Waiting : avail[s] \in open
        /\ \A s \in Done : used[s] \in open
        /\ \A h \in taken : h \in open
    BY DEF Inv, QueueInv, IsOpen
  <2>2. \A b \in Open : \/ head[b] \in {avail[s] : s \in Waiting}
                        \/ head[b] \in taken
                        \/ head[b] \in {used[s] : s \in Done}
    BY DEF Inv, QueueInv
  <2> QED
    BY <2>1, <2>2
<1>5. open = {head[b] : b \in {c \in Bufs : bdisk[c]}}
  BY DEF Open
<1> QED
  BY <1>2, <1>3, <1>4, <1>5 DEF Inv, LengthInv, OnePlacePerRequest

\* Descriptors neither leak nor are shared by two requests (alloc3_desc,
\* free_chain).
THEOREM NoDescriptorLost == Spec => []DescriptorsConserved
  BY Invariant, InvConserved, PTL

\* Every unfinished request is in one ring or with the device, the rings are
\* never overrun, and the panics of virtio_disk_intr and free_desc are dead code.
THEOREM OnePlace == Spec => []OnePlacePerRequest
  BY Invariant, InvOnePlace, PTL

\* Nobody sleeps for what has already come: descriptors, the end of a request,
\* or a used entry without an interrupt.
THEOREM NoWakeupLost == Spec => []NoLostWakeup
<1>1. Inv => NoLostWakeup
  BY DEF Inv
<1> QED
  BY <1>1, Invariant, PTL

\* virtio_disk_rw returns with the data of its own request moved, and the device
\* touches no buffer that is not given to it.
THEOREM DataMoved == Spec => Transferred
<1> DEFINE Step == \A b \in Bufs :
               /\ pc[b] # "idle" /\ pc'[b] = "idle" => b \in moved
               /\ b \in moved' \ moved => bdisk[b]
<1>1. ASSUME Inv, Next PROVE Step
  <2>1. ASSUME NEW b \in Bufs, NEW w \in Dirs[b], Call(b, w) PROVE Step
    BY <1>1, <2>1 DEF Call, Inv, TypeOK
  <2>2. ASSUME NEW b \in Bufs, AllocFail(b) PROVE Step
    BY <1>1, <2>2 DEF AllocFail, WakeFree, Inv, TypeOK
  <2>3. ASSUME NEW b \in Bufs, KillWakes(b) \/ SleepAgain(b) PROVE Step
    BY <1>1, <2>3, SMT DEF KillWakes, SleepAgain, Inv, TypeOK
  <2>4. ASSUME NEW b \in Bufs, Finish(b) PROVE Step
    <3>1. b \in moved
      BY <1>1, <2>4 DEF Finish, Submitted, Inv, OpenInv
    <3> QED
      BY <1>1, <2>4, <3>1 DEF Finish, WakeFree, Inv, TypeOK
  <2>5. ASSUME NEW b \in Bufs, NEW i \in free, NEW j \in free, NEW k \in free, Submit(b, i, j, k)
        PROVE  Step
    BY <1>1, <2>5 DEF Submit, Inv, TypeOK
  <2>6. ASSUME DevTake \/ IntrAck \/ IntrReturn PROVE Step
    BY <2>6 DEF DevTake, IntrAck, IntrReturn
  <2>7. ASSUME NEW h \in Desc, DevDone(h) PROVE Step
    <3>1. IsOpen(h)
      BY <1>1, <2>7 DEF DevDone, Inv, QueueInv
    <3>2. infob[h] \in Submitted /\ bdisk[infob[h]] /\ head[infob[h]] = h
      BY <1>1, <3>1, HeadOf
    <3>3. desc[desc[h].next].addr = infob[h]
      <4>1. ChainOK(infob[h])
        BY <1>1, <3>2 DEF Inv, ChainInv
      <4> QED
        BY <3>2, <4>1 DEF ChainOK, Filled, Second
    <3>4. moved' \subseteq moved \cup {infob[h]} /\ pc' = pc
      BY <2>7, <3>3 DEF DevDone
    <3> QED
      BY <3>2, <3>4
  <2>8. ASSUME IntrEntry PROVE Step
    <3>1. moved' = moved
      BY <2>8 DEF IntrEntry
    <3>2. ASSUME NEW b \in Bufs PROVE pc'[b] = "idle" => pc[b] = "idle"
      BY <1>1, <2>8 DEF IntrEntry, Inv, TypeOK
    <3> QED
      BY <3>1, <3>2
  <2> QED
    BY <1>1, <2>1, <2>2, <2>3, <2>4, <2>5, <2>6, <2>7, <2>8 DEF Next
<1>2. Inv /\ [Next]_vars => [Step]_vars
  BY <1>1
<1> QED
  BY <1>2, Invariant, PTL DEF Spec, Transferred
============================================================================
