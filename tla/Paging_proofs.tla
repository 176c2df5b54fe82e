--------------------------- MODULE Paging_proofs ---------------------------
(***************************************************************************)
(* Proofs about Paging: page conservation, for any number of processes and *)
(* pages and whatever the list of evictable pages has come to look like.   *)
(***************************************************************************)
EXTENDS Paging, FiniteSetTheorems, TLAPS

Places == {"user", "kalloc", "map", "test", "add", "check", "select", "scan", "evict",
           "remove", "check_removed", "kfree", "clear"}
PTEs == [frame : Frames, A : BOOLEAN]

\* The types on which the pages depend; the list is not one of them.
FrameTypes == /\ freelist \in Seq(Frames)
              /\ pte \in [Procs -> Seq(PTEs)]
              /\ pc \in [Procs -> Places]
              /\ mem \in [Procs -> Frames \cup {NULL}]

\* What a thread has in its hand: kalloc's page until it is mapped; the page of
\* the last PTE from uvmunmap's look at it until the PTE is cleared.
Unmapping == {"remove", "check_removed", "kfree", "clear"}
Hand(p) == /\ pc[p] = "map" => mem[p] \in Frames
           /\ pc[p] \in Unmapping => Len(pte[p]) > 0 /\ mem[p] = pte[p][Len(pte[p])].frame
HandInv == \A p \in Procs : Hand(p)

Inv == FrameTypes /\ HandInv /\ FramesConserved

----------------------------------------------------------------------------
\* The accessed bit can change without the frame.
LEMMA SetA == ASSUME NEW r \in PTEs, NEW b \in BOOLEAN
              PROVE  [r EXCEPT !.A = b] \in PTEs /\ [r EXCEPT !.A = b].frame = r.frame
  BY DEF PTEs

\* The accessed bit of an entry, if it is one, can be set or cleared: nothing
\* else of the page tables changes (user code, and select_victim).
LEMMA Accessed ==
    ASSUME pte \in [Procs -> Seq(PTEs)], NEW q, NEW k, NEW b \in BOOLEAN,
           pte' = [pte EXCEPT ![q][k].A = b]
    PROVE  /\ pte' \in [Procs -> Seq(PTEs)]
           /\ \A p \in Procs : /\ Len(pte'[p]) = Len(pte[p])
                              /\ \A i \in 1..Len(pte[p]) : pte'[p][i].frame = pte[p][i].frame
<1>1. DOMAIN pte' = Procs
  OBVIOUS
<1>2. ASSUME NEW p \in Procs
      PROVE  /\ pte'[p] \in Seq(PTEs) /\ Len(pte'[p]) = Len(pte[p])
             /\ \A i \in 1..Len(pte[p]) : pte'[p][i].frame = pte[p][i].frame
  <2> DEFINE s == pte[p]
             t == [s EXCEPT ![k] = [s[k] EXCEPT !.A = b]]
  <2>1. s \in Seq(PTEs)
    OBVIOUS
  <2>2. pte'[p] = s \/ pte'[p] = t
    OBVIOUS
  <2>3. /\ DOMAIN t = 1..Len(s) 
        /\ \A i \in 1..Len(s) : t[i] = IF i = k THEN [s[k] EXCEPT !.A = b] ELSE s[i]
    BY <2>1
  <2> HIDE DEF s, t
  <2>4. \A i \in 1..Len(s) : t[i] \in PTEs /\ t[i].frame = s[i].frame
    <3>1. TAKE i \in 1..Len(s)
    <3>2. s[i] \in PTEs
      BY <2>1, <3>1
    <3>3. t[i] = [s[i] EXCEPT !.A = b] \/ t[i] = s[i]
      BY <2>3, <3>1
    <3> QED
      BY <3>2, <3>3, SetA
  <2>5. t \in Seq(PTEs) /\ Len(t) = Len(s)
    <3>1. Len(s) \in Nat
      BY <2>1
    <3>2. t = [i \in 1..Len(s) |-> t[i]]
      BY <2>3 DEF t
    <3> QED
      BY <3>1, <3>2, <2>4
  <2> QED
    BY <2>1, <2>2, <2>4, <2>5 DEF s
<1> QED
  BY <1>1, <1>2

\* Where a page can be, by entries of the page tables and the free list
IsMapped(f) == \E p \in Procs : \E i \in Live(p) : pte[p][i].frame = f
IsHeld(f) == \E q \in Holding : mem[q] = f
IsFree(f) == \E j \in DOMAIN freelist : freelist[j] = f

\* FramesConserved in terms of entries instead of sets of pages.
Conserved ==
    /\ \A p, q \in Procs : \A i \in Live(p), j \in Live(q) :
          pte[p][i].frame = pte[q][j].frame => p = q /\ i = j
    /\ \A p \in Procs : \A i \in Live(p), j \in DOMAIN freelist : pte[p][i].frame # freelist[j]
    /\ \A p \in Procs, q \in Holding : \A i \in Live(p) : pte[p][i].frame # mem[q]
    /\ \A q \in Holding : \A j \in DOMAIN freelist : mem[q] # freelist[j]
    /\ \A i, j \in DOMAIN freelist : freelist[i] = freelist[j] => i = j
    /\ \A p, q \in Holding : mem[p] = mem[q] => p = q
    /\ \A f \in Frames : IsMapped(f) \/ IsHeld(f) \/ IsFree(f)

\* An entry maps a page.
LEMMA FrameOfEntry ==
    ASSUME FrameTypes, NEW p \in Procs, NEW i \in Live(p)
    PROVE  pte[p][i].frame \in Frames
<1>1. pte[p] \in Seq(PTEs)
  BY DEF FrameTypes
<1>2. i \in 1..Len(pte[p])
  BY <1>1 DEF Live
<1>3. pte[p][i] \in PTEs
  BY <1>1, <1>2
<1> QED
  BY <1>3 DEF PTEs

\* The two forms say the same.
LEMMA Entries == FrameTypes /\ HandInv => (FramesConserved <=> Conserved)
<1> SUFFICES ASSUME FrameTypes, HandInv PROVE FramesConserved <=> Conserved
  OBVIOUS
<1>1. \A p \in Procs : \A i \in Live(p) : pte[p][i].frame \in Frames
  BY FrameOfEntry
<1>2. \A q \in Holding : mem[q] \in Frames
  BY DEF HandInv, Hand, Holding
<1>3. \A j \in DOMAIN freelist : freelist[j] \in Frames
  BY DEF FrameTypes
<1>4. \A f : f \in Mapped <=> IsMapped(f)
  BY DEF Mapped, IsMapped
<1>5. \A f : f \in InHand <=> IsHeld(f)
  BY DEF InHand, IsHeld
<1>6. \A f : f \in FreePages <=> IsFree(f)
  BY DEF FreePages, IsFree
<1>7. ASSUME FramesConserved PROVE Conserved
  <2>1. Mapped \cup InHand \cup FreePages = Frames
    BY <1>7 DEF FramesConserved
  <2>2. Mapped \cap FreePages = {} /\ InHand \cap (Mapped \cup FreePages) = {}
    BY <1>7 DEF FramesConserved
  <2>3. \A f \in Frames : IsMapped(f) \/ IsHeld(f) \/ IsFree(f)
    BY <2>1, <1>4, <1>5, <1>6
  <2>4. \A p \in Procs : \A i \in Live(p), j \in DOMAIN freelist : pte[p][i].frame # freelist[j]
    BY <2>2, <1>4, <1>6 DEF IsMapped, IsFree
  <2>5. \A p \in Procs, q \in Holding : \A i \in Live(p) : pte[p][i].frame # mem[q]
    BY <2>2, <1>4, <1>5 DEF IsMapped, IsHeld
  <2>6. \A q \in Holding : \A j \in DOMAIN freelist : mem[q] # freelist[j]
    BY <2>2, <1>5, <1>6 DEF IsHeld, IsFree
  <2> QED
    BY <1>7, <2>3, <2>4, <2>5, <2>6 DEF FramesConserved, Conserved
<1>8. ASSUME Conserved PROVE FramesConserved
  <2>1. \A f : IsMapped(f) \/ IsHeld(f) \/ IsFree(f) => f \in Frames
    BY <1>1, <1>2, <1>3 DEF IsMapped, IsHeld, IsFree
  <2>2. Mapped \cup InHand \cup FreePages = Frames
    BY <1>8, <2>1, <1>4, <1>5, <1>6 DEF Conserved
  <2>3. \A f : /\ ~(IsMapped(f) /\ IsFree(f)) /\ ~(IsMapped(f) /\ IsHeld(f))
              /\ ~(IsHeld(f) /\ IsFree(f))
    BY <1>8 DEF Conserved, IsMapped, IsHeld, IsFree
  <2>4. Mapped \cap FreePages = {} /\ InHand \cap (Mapped \cup FreePages) = {}
    BY <2>3, <1>4, <1>5, <1>6
  <2> QED
    BY <1>8, <2>2, <2>4 DEF FramesConserved, Conserved
<1> QED
  BY <1>7, <1>8

\* A step that changes neither the free list nor what is mapped and held.
LEMMA SamePages ==
    ASSUME FrameTypes, FrameTypes', Conserved, UNCHANGED freelist,
           \A p \in Procs : /\ Live(p)' = Live(p)
                            /\ \A i \in Live(p) : pte'[p][i].frame = pte[p][i].frame,
           Holding' = Holding, \A q \in Holding : mem'[q] = mem[q]
    PROVE  Conserved'
  BY DEF Conserved, IsMapped, IsHeld, IsFree

----------------------------------------------------------------------------
(* Types *)

\* One step keeps the types and what the threads know of their pages.
LEMMA TypesKept == Inv /\ [Next]_vars => FrameTypes'
<1> SUFFICES ASSUME Inv, [Next]_vars PROVE FrameTypes'
  OBVIOUS
<1> USE DEF Inv, FrameTypes, Places, At, Goto
<1>1. ASSUME NEW p \in Procs, NEW va \in 0..(MaxSize - 1), Touch(p, va) PROVE FrameTypes'
  <2>1. pte' \in [Procs -> Seq(PTEs)]
    BY <1>1, Accessed DEF Touch
  <2> QED
    BY <1>1, <2>1 DEF Touch
<1>2. ASSUME NEW p \in Procs, GrowStep(p) PROVE FrameTypes'
  <2>1. CASE Grow(p) BY <2>1 DEF Grow
  <2>2. CASE Kalloc(p) BY <2>2 DEF Kalloc
  <2>3. CASE MapPTE(p) 
    <3>1. [frame |-> mem[p], A |-> FALSE] \in PTEs
      BY <2>3 DEF MapPTE, HandInv, Hand, PTEs
    <3> QED
      BY <3>1, <2>3 DEF MapPTE
  <2>4. CASE TestListed(p) BY <2>4 DEF TestListed
  <2>5. CASE LruAdd(p) BY <2>5 DEF LruAdd
  <2>6. CASE CheckAdded(p) BY <2>6 DEF CheckAdded, Check
  <2> QED BY <1>2, <2>1, <2>2, <2>3, <2>4, <2>5, <2>6 DEF GrowStep
<1>3. ASSUME NEW p \in Procs, EvictStep(p) PROVE FrameTypes'
  <2>1. CASE KallocEmpty(p) BY <2>1 DEF KallocEmpty
  <2>2. CASE StartScan(p) BY <2>2 DEF StartScan
  <2>3. CASE Scan(p)
    <3>1. pte' \in [Procs -> Seq(PTEs)]
      <4> DEFINE q == lru.pagetable[hand]
                 k == lru.vaddr[hand] + 1
      <4>1. pte' = [pte EXCEPT ![q][k].A = FALSE] \/ pte' = pte
        BY <2>3 DEF Scan
      <4> HIDE DEF q, k
      <4> QED
        BY <4>1, Accessed
    <3>2. pc' \in [Procs -> Places]
      BY <2>3 DEF Scan, Choose
    <3> QED
      BY <2>3, <3>1, <3>2 DEF Scan
  <2>4. CASE ScanNull(p) BY <2>4 DEF ScanNull
  <2>5. CASE Evict(p) BY <2>5 DEF Evict
  <2> QED BY <1>3, <2>1, <2>2, <2>3, <2>4, <2>5 DEF EvictStep
<1>4. ASSUME NEW p \in Procs, ShrinkStep(p) PROVE FrameTypes'
  <2>1. CASE Shrink(p)
    <3>1. pte[p] \in Seq(PTEs) /\ Len(pte[p]) \in 1..Len(pte[p])
      BY <2>1 DEF Shrink
    <3>2. pte[p][Len(pte[p])] \in PTEs
      BY <3>1
    <3>3. pte[p][Len(pte[p])].frame \in Frames
      BY <3>2 DEF PTEs
    <3> QED
      BY <2>1, <3>3 DEF Shrink
  <2>2. CASE LruRemove(p) BY <2>2 DEF LruRemove
  <2>3. CASE CheckRemoved(p) BY <2>3 DEF CheckRemoved, Check
  <2>4. CASE Kfree(p)  
    <3>1. pte[p] \in Seq(PTEs) /\ Len(pte[p]) \in 1..Len(pte[p]) /\ mem[p] = pte[p][Len(pte[p])].frame
      BY <2>4 DEF Kfree, HandInv, Hand, Unmapping
    <3>2. pte[p][Len(pte[p])] \in PTEs
      BY <3>1
    <3>3. mem[p] \in Frames
      BY <3>1, <3>2 DEF PTEs
    <3> QED
      BY <2>4, <3>3 DEF Kfree
  <2>5. CASE ClearPTE(p) BY <2>5 DEF ClearPTE, HandInv, Hand, Unmapping
  <2> QED BY <1>4, <2>1, <2>2, <2>3, <2>4, <2>5 DEF ShrinkStep
<1>5. ASSUME NEW p \in Procs, Reacquire(p) PROVE FrameTypes'
  BY <1>5 DEF Reacquire
<1>6. CASE UNCHANGED vars
  BY <1>6 DEF vars
<1> QED
  BY <1>1, <1>2, <1>3, <1>4, <1>5, <1>6 DEF Next

----------------------------------------------------------------------------
(* Pages *)

\* The steps that leave alone the free list, the frames in the page tables and
\* the pages in hand, and come from and go to other places than "map" and "clear".
Aside(p) == \/ Grow(p) \/ TestListed(p) \/ LruAdd(p) \/ CheckAdded(p)
            \/ EvictStep(p) \/ Reacquire(p) \/ \E va \in 0..(MaxSize - 1) : Touch(p, va)
            \/ Shrink(p) \/ LruRemove(p) \/ CheckRemoved(p)

SameFrames == \A q \in Procs : /\ Len(pte'[q]) = Len(pte[q])
                              /\ \A i \in 1..Len(pte[q]) : pte'[q][i].frame = pte[q][i].frame

\* They change at most an accessed bit of the page tables.
LEMMA AsideFrames ==
    ASSUME Inv, NEW p \in Procs, Aside(p)
    PROVE  SameFrames
<1>1. pte \in [Procs -> Seq(PTEs)]
  BY DEF Inv, FrameTypes
<1>2. CASE Scan(p)
  <2> DEFINE q == lru.pagetable[hand]
             k == lru.vaddr[hand] + 1
  <2>1. pte' = [pte EXCEPT ![q][k].A = FALSE] \/ pte' = pte
    BY <1>2 DEF Scan
  <2> HIDE DEF q, k
  <2> QED
    BY <1>1, <2>1, Accessed DEF SameFrames
<1>3. CASE \E va \in 0..(MaxSize - 1) : Touch(p, va)
  BY <1>1, <1>3, Accessed DEF SameFrames, Touch
<1>4. CASE pte' = pte
  BY <1>4 DEF SameFrames
<1> QED
  BY <1>2, <1>3, <1>4 DEF Aside, Grow, TestListed, LruAdd, CheckAdded, Check, EvictStep,
     KallocEmpty, StartScan, ScanNull, Evict, Reacquire, Shrink, LruRemove, CheckRemoved

\* They leave the free list and the other threads alone.
LEMMA AsidePlaces ==
    ASSUME Inv, NEW p \in Procs, Aside(p)
    PROVE  /\ UNCHANGED freelist
           /\ \A q \in Procs \ {p} : mem'[q] = mem[q] /\ pc'[q] = pc[q]
           /\ pc[p] \notin {"map", "clear"} /\ pc'[p] \notin {"map", "clear"}
<1>1. pc \in [Procs -> Places] /\ mem \in [Procs -> Frames \cup {NULL}]
  BY DEF Inv, FrameTypes
<1> USE <1>1 DEF At, Goto
<1>2. CASE Grow(p) BY <1>2 DEF Grow
<1>3. CASE TestListed(p) BY <1>3 DEF TestListed
<1>4. CASE LruAdd(p) BY <1>4 DEF LruAdd
<1>5. CASE CheckAdded(p) BY <1>5 DEF CheckAdded, Check
<1>6. CASE EvictStep(p)
  <2>1. CASE KallocEmpty(p) BY <2>1 DEF KallocEmpty
  <2>2. CASE StartScan(p) BY <2>2 DEF StartScan
  <2>3. CASE Scan(p)
    <3>1. UNCHANGED <<freelist, mem>> /\ pc[p] = "scan"
      BY <2>3 DEF Scan
    <3>2. pc' = pc \/ pc' = [pc EXCEPT ![p] = "evict"]
      BY <2>3 DEF Scan, Choose
    <3> QED
      BY <3>1, <3>2
  <2>4. CASE ScanNull(p) BY <2>4 DEF ScanNull
  <2>5. CASE Evict(p) BY <2>5 DEF Evict
  <2> QED BY <1>6, <2>1, <2>2, <2>3, <2>4, <2>5 DEF EvictStep
<1>7. CASE Reacquire(p) BY <1>7 DEF Reacquire
<1>8. CASE \E va \in 0..(MaxSize - 1) : Touch(p, va) BY <1>8 DEF Touch
<1>9. CASE Shrink(p) BY <1>9 DEF Shrink
<1>10. CASE LruRemove(p) BY <1>10 DEF LruRemove
<1>11. CASE CheckRemoved(p) BY <1>11 DEF CheckRemoved, Check
<1> QED
  BY <1>2, <1>3, <1>4, <1>5, <1>6, <1>7, <1>8, <1>9, <1>10, <1>11 DEF Aside

\* A step of p keeps what other threads have in their hands, if their entries,
\* places and pages stay.
LEMMA OtherHands ==
    ASSUME Inv, NEW r \in Procs, pc'[r] = pc[r], mem'[r] = mem[r],
           Len(pte'[r]) = Len(pte[r]),
           \A i \in 1..Len(pte[r]) : pte'[r][i].frame = pte[r][i].frame
    PROVE  Hand(r)'
<1>1. pte[r] \in Seq(PTEs)
  BY DEF Inv, FrameTypes
<1>2. Len(pte[r]) > 0 => Len(pte[r]) \in 1..Len(pte[r])
  BY <1>1
<1> QED
  BY <1>2 DEF Inv, HandInv, Hand

\* One step keeps what the threads have in their hands.
LEMMA HandKept == Inv /\ [Next]_vars => HandInv'
<1> SUFFICES ASSUME Inv, [Next]_vars, NEW r \in Procs
             PROVE  Hand(r)'
  BY DEF HandInv
<1> USE DEF At, Goto
<1>0. /\ pc \in [Procs -> Places] /\ mem \in [Procs -> Frames \cup {NULL}]
      /\ pte \in [Procs -> Seq(PTEs)] /\ freelist \in Seq(Frames) /\ Hand(r)
  BY DEF Inv, FrameTypes, HandInv
<1>1. ASSUME NEW p \in Procs, Aside(p) PROVE Hand(r)'
  <2>1. CASE r # p
    BY <1>1, <2>1, AsidePlaces, AsideFrames, OtherHands DEF SameFrames
  <2>2. CASE r = p /\ Shrink(p)
    BY <1>0, <2>2 DEF Shrink, Hand, Unmapping
  <2>3. CASE r = p /\ (LruRemove(p) \/ CheckRemoved(p) \/ Reacquire(p))
    BY <1>0, <2>3 DEF LruRemove, CheckRemoved, Check, Reacquire, Hand, Unmapping
  <2>4. CASE r = p /\ pc'[p] \notin Unmapping \cup {"map"}
    BY <2>4 DEF Hand
  <2>5. Grow(p) \/ TestListed(p) \/ LruAdd(p) \/ CheckAdded(p) => pc'[p] \notin Unmapping \cup {"map"}
    BY <1>0 DEF Grow, TestListed, LruAdd, CheckAdded, Unmapping
  <2>6. KallocEmpty(p) \/ StartScan(p) \/ ScanNull(p) \/ Evict(p) => pc'[p] \notin Unmapping \cup {"map"}
    BY <1>0 DEF KallocEmpty, StartScan, ScanNull, Evict, Unmapping
  <2>7. Scan(p) \/ (\E va \in 0..(MaxSize - 1) : Touch(p, va)) => pc'[p] \notin Unmapping \cup {"map"}
    BY <1>0 DEF Scan, Choose, Touch, Unmapping
  <2> QED
    BY <1>1, <2>1, <2>2, <2>3, <2>4, <2>5, <2>6, <2>7 DEF Aside, EvictStep
<1>2. ASSUME NEW p \in Procs, Kalloc(p) PROVE Hand(r)'
  BY <1>0, <1>2 DEF Kalloc, Hand, Unmapping
<1>3. ASSUME NEW p \in Procs, MapPTE(p) PROVE Hand(r)'
  BY <1>0, <1>3 DEF MapPTE, Hand, Unmapping
<1>4. ASSUME NEW p \in Procs, Kfree(p) PROVE Hand(r)'
  BY <1>0, <1>4 DEF Kfree, Hand, Unmapping
<1>5. ASSUME NEW p \in Procs, ClearPTE(p) PROVE Hand(r)'
  BY <1>0, <1>5 DEF ClearPTE, Hand, Unmapping
<1>6. CASE UNCHANGED vars
  BY <1>0, <1>6 DEF vars, Hand
<1> QED
  BY <1>1, <1>2, <1>3, <1>4, <1>5, <1>6 DEF Next, GrowStep, ShrinkStep, Aside

\* Pages stay conserved: what one place gives up, another takes.
LEMMA ConservedKept == Inv /\ FrameTypes' /\ Conserved /\ [Next]_vars => Conserved'
<1> SUFFICES ASSUME Inv, FrameTypes', Conserved, [Next]_vars PROVE Conserved'
  OBVIOUS
<1>1. ASSUME NEW p \in Procs, Aside(p) PROVE Conserved'
  <2>1. \A q \in Procs : pc'[q] = "clear" <=> pc[q] = "clear"
    BY <1>1, AsidePlaces
  <2>2. \A q \in Procs : Live(q)' = Live(q) /\ \A i \in Live(q) : i \in 1..Len(pte[q])
    BY <1>1, <2>1, AsideFrames DEF Live, Inv, FrameTypes, SameFrames
  <2>3. Holding' = Holding /\ \A q \in Holding : mem'[q] = mem[q]
    BY <1>1, AsidePlaces DEF Holding
  <2> QED
    BY <1>1, <2>2, <2>3, AsidePlaces, AsideFrames, SamePages DEF Inv, SameFrames
<1>0. /\ pc \in [Procs -> Places] /\ mem \in [Procs -> Frames \cup {NULL}]
      /\ pte \in [Procs -> Seq(PTEs)] /\ freelist \in Seq(Frames)
  BY DEF Inv, FrameTypes
<1>2. ASSUME NEW p \in Procs, Kalloc(p) PROVE Conserved'
  <2>1. /\ Len(freelist) > 0 /\ DOMAIN freelist = 1..Len(freelist)
        /\ DOMAIN freelist' = 1..(Len(freelist) - 1)
        /\ \A i \in 1..(Len(freelist) - 1) : freelist'[i] = freelist[i + 1]
    BY <1>0, <1>2 DEF Kalloc
  <2>2. \A q \in Procs : Live(q)' = Live(q) /\ pte'[q] = pte[q]
    BY <1>0, <1>2 DEF Kalloc, Live, At, Goto
  <2>3. /\ p \notin Holding /\ Holding' = Holding \cup {p}
        /\ mem'[p] = freelist[1] /\ \A q \in Holding : mem'[q] = mem[q]
    BY <1>0, <1>2 DEF Kalloc, Holding, At, Goto
  <2>4. \A f \in Frames : IsMapped(f)' \/ IsHeld(f)' \/ IsFree(f)'
    <3>1. TAKE f \in Frames
    <3>2. CASE IsMapped(f)
      BY <3>2, <2>2 DEF IsMapped
    <3>3. CASE IsHeld(f)
      BY <3>3, <2>3 DEF IsHeld
    <3>4. CASE IsFree(f)
      <4>1. PICK j \in 1..Len(freelist) : freelist[j] = f
        BY <3>4, <2>1 DEF IsFree
      <4>2. CASE j = 1
        BY <4>1, <4>2, <2>3 DEF IsHeld
      <4>3. CASE j > 1
        <5>1. j - 1 \in DOMAIN freelist' /\ freelist'[j - 1] = f
          BY <4>1, <4>3, <2>1, <1>0
        <5> QED
          BY <5>1 DEF IsFree
      <4> QED
        BY <4>2, <4>3
    <3> QED
      BY <3>2, <3>3, <3>4 DEF Conserved
  <2>5. \A j \in DOMAIN freelist' :
           j + 1 \in DOMAIN freelist /\ freelist'[j] = freelist[j + 1] /\ j + 1 # 1
    BY <2>1, <1>0
  <2>6. 1 \in DOMAIN freelist
    BY <2>1, <1>0
  <2>7. \A q \in Procs : \A i \in Live(q), j \in DOMAIN freelist' : pte'[q][i].frame # freelist'[j]
    BY <2>2, <2>5 DEF Conserved
  <2>8. \A q \in Procs, r \in Holding' : \A i \in Live(q) : pte'[q][i].frame # mem'[r]
    BY <2>2, <2>3, <2>6 DEF Conserved
  <2>9. \A r \in Holding' : \A j \in DOMAIN freelist' : mem'[r] # freelist'[j]
    BY <2>3, <2>5, <2>6 DEF Conserved
  <2>10. \A i, j \in DOMAIN freelist' : freelist'[i] = freelist'[j] => i = j
    <3>1. TAKE i, j \in DOMAIN freelist'
    <3>2. freelist[i + 1] = freelist[j + 1] => i + 1 = j + 1
      BY <2>5 DEF Conserved
    <3> QED
      BY <3>2, <2>5, <2>1, <1>0
  <2>11. \A q, r \in Holding' : mem'[q] = mem'[r] => q = r
    BY <2>3, <2>6 DEF Conserved
  <2>12. \A q, r \in Procs : \A i \in Live(q)', j \in Live(r)' :
            pte'[q][i].frame = pte'[r][j].frame => q = r /\ i = j
    BY <2>2 DEF Conserved
  <2> QED
    BY <2>2, <2>4, <2>7, <2>8, <2>9, <2>10, <2>11, <2>12 DEF Conserved
<1>3. ASSUME NEW p \in Procs, MapPTE(p) PROVE Conserved'
  <2> DEFINE n == Len(pte[p]) + 1
  <2>1. /\ n \in Live(p)' /\ Live(p)' = Live(p) \cup {n} /\ n \notin Live(p)
        /\ pte'[p][n].frame = mem[p] /\ \A i \in Live(p) : pte'[p][i] = pte[p][i]
    BY <1>0, <1>3 DEF MapPTE, Live, At, Goto
  <2>2. \A q \in Procs \ {p} : Live(q)' = Live(q) /\ pte'[q] = pte[q]
    BY <1>0, <1>3 DEF MapPTE, Live, At, Goto
  <2>3. p \in Holding /\ Holding' = Holding \ {p} /\ mem' = mem /\ freelist' = freelist
    BY <1>0, <1>3 DEF MapPTE, Holding, At, Goto
  <2> HIDE DEF n
  <2>4. \A q \in Procs : \A i \in Live(q)' :
            \/ i \in Live(q) /\ pte'[q][i].frame = pte[q][i].frame
            \/ q = p /\ i = n /\ pte'[q][i].frame = mem[p]
    BY <2>1, <2>2
  <2>5. \A f \in Frames : IsMapped(f)' \/ IsHeld(f)' \/ IsFree(f)'
    <3>1. TAKE f \in Frames
    <3>2. CASE IsMapped(f)
      BY <3>2, <2>1, <2>2 DEF IsMapped
    <3>3. CASE IsHeld(f)
      BY <3>3, <2>1, <2>3 DEF IsHeld, IsMapped
    <3>4. CASE IsFree(f)
      BY <3>4, <2>3 DEF IsFree
    <3> QED
      BY <3>2, <3>3, <3>4 DEF Conserved
  <2>6. \A q, r \in Procs : \A i \in Live(q)', j \in Live(r)' :
            pte'[q][i].frame = pte'[r][j].frame => q = r /\ i = j
    BY <2>3, <2>4 DEF Conserved
  <2>7. \A q \in Procs : \A i \in Live(q)', j \in DOMAIN freelist' : pte'[q][i].frame # freelist'[j]
    BY <2>3, <2>4 DEF Conserved
  <2>8. \A q \in Procs, r \in Holding' : \A i \in Live(q)' : pte'[q][i].frame # mem'[r]
    BY <2>3, <2>4 DEF Conserved
  <2> QED
    BY <2>3, <2>5, <2>6, <2>7, <2>8 DEF Conserved
<1>4. ASSUME NEW p \in Procs, Kfree(p) PROVE Conserved'
  <2> DEFINE n == Len(pte[p])
  <2>1. /\ n \in Live(p) /\ Live(p)' = Live(p) \ {n} /\ mem[p] = pte[p][n].frame
    BY <1>0, <1>4 DEF Kfree, Live, At, Goto, Inv, HandInv, Hand, Unmapping
  <2>2. pte' = pte /\ \A q \in Procs \ {p} : Live(q)' = Live(q)
    BY <1>0, <1>4 DEF Kfree, Live, At, Goto
  <2>3. Holding' = Holding /\ mem' = mem
    BY <1>0, <1>4 DEF Kfree, Holding, At, Goto
  <2>4. mem[p] \in Frames
    BY <1>0, <2>1, FrameOfEntry DEF Inv
  <2>5. /\ DOMAIN freelist = 1..Len(freelist) /\ DOMAIN freelist' = 1..(Len(freelist) + 1)
        /\ freelist'[1] = mem[p] /\ \A i \in 1..Len(freelist) : freelist'[i + 1] = freelist[i]
    BY <1>0, <1>4, <2>4 DEF Kfree
  <2> HIDE DEF n
  <2>6. \A j \in DOMAIN freelist' : \/ j = 1 /\ freelist'[j] = mem[p]
                                   \/ /\ j - 1 \in DOMAIN freelist
                                      /\ freelist'[j] = freelist[j - 1]
    <3>1. TAKE j \in DOMAIN freelist'
    <3>2. CASE j = 1
      BY <2>5, <3>2
    <3>3. CASE j # 1
      <4>1. j - 1 \in 1..Len(freelist) /\ (j - 1) + 1 = j
        BY <1>0, <2>5, <3>3
      <4> QED
        BY <4>1, <2>5
    <3> QED
      BY <3>2, <3>3
  <2>7. \A q \in Procs : \A i \in Live(q)' : i \in Live(q) /\ (q = p => i # n)
    BY <2>1, <2>2
  <2>8. \A f \in Frames : IsMapped(f)' \/ IsHeld(f)' \/ IsFree(f)'
    <3>1. TAKE f \in Frames
    <3>2. CASE IsMapped(f)
      <4>1. PICK q \in Procs : \E i \in Live(q) : pte[q][i].frame = f
        BY <3>2 DEF IsMapped
      <4>2. PICK i \in Live(q) : pte[q][i].frame = f
        BY <4>1
      <4>3. CASE q = p /\ i = n
        <5>1. 1 \in DOMAIN freelist' /\ freelist'[1] = f
          BY <1>0, <2>1, <2>5, <4>2, <4>3
        <5> QED
          BY <5>1 DEF IsFree
      <4>4. CASE ~(q = p /\ i = n)
        BY <2>1, <2>2, <4>2, <4>4 DEF IsMapped
      <4> QED
        BY <4>3, <4>4
    <3>3. CASE IsHeld(f)
      BY <3>3, <2>3 DEF IsHeld
    <3>4. CASE IsFree(f)
      <4>1. PICK j \in 1..Len(freelist) : freelist[j] = f
        BY <3>4, <2>5 DEF IsFree
      <4>2. j + 1 \in DOMAIN freelist' /\ freelist'[j + 1] = f
        BY <1>0, <4>1, <2>5
      <4> QED
        BY <4>2 DEF IsFree
    <3> QED
      BY <3>2, <3>3, <3>4 DEF Conserved
  <2>9. \A q, r \in Procs : \A i \in Live(q)', j \in Live(r)' :
            pte'[q][i].frame = pte'[r][j].frame => q = r /\ i = j
    BY <2>2, <2>7 DEF Conserved
  <2>10. \A q \in Procs : \A i \in Live(q)' : pte[q][i].frame # mem[p]
    BY <2>1, <2>7 DEF Conserved
  <2>11. \A q \in Procs : \A i \in Live(q)', j \in DOMAIN freelist' : pte'[q][i].frame # freelist'[j]
    BY <2>2, <2>6, <2>7, <2>10 DEF Conserved
  <2>12. \A q \in Procs, r \in Holding' : \A i \in Live(q)' : pte'[q][i].frame # mem'[r]
    BY <2>2, <2>3, <2>7 DEF Conserved
  <2>13. \A r \in Holding' : \A j \in DOMAIN freelist' : mem'[r] # freelist'[j]
    BY <2>1, <2>3, <2>6 DEF Conserved
  <2>14. \A i, j \in DOMAIN freelist' : freelist'[i] = freelist'[j] => i = j
    <3>1. SUFFICES ASSUME NEW i \in DOMAIN freelist', NEW j \in DOMAIN freelist',
                          freelist'[i] = freelist'[j]
                   PROVE  i = j
      OBVIOUS
    <3>2. \A k \in DOMAIN freelist : freelist[k] # mem[p]
      BY <2>1 DEF Conserved
    <3>3. \/ i = 1 /\ j = 1
          \/ i - 1 \in DOMAIN freelist /\ j - 1 \in DOMAIN freelist /\ freelist[i - 1] = freelist[j - 1]
      BY <3>1, <3>2, <2>6
    <3>4. i - 1 = j - 1 => i = j
      BY <1>0, <2>5
    <3> QED
      BY <3>3, <3>4 DEF Conserved
  <2> QED
    BY <2>3, <2>8, <2>9, <2>11, <2>12, <2>13, <2>14 DEF Conserved
<1>5. ASSUME NEW p \in Procs, ClearPTE(p) PROVE Conserved'
  <2>1. Live(p)' = Live(p) /\ \A i \in Live(p) : pte'[p][i] = pte[p][i]
    BY <1>0, <1>5 DEF ClearPTE, Live, At, Goto, Inv, HandInv, Hand, Unmapping
  <2>2. \A q \in Procs \ {p} : Live(q)' = Live(q) /\ pte'[q] = pte[q]
    BY <1>0, <1>5 DEF ClearPTE, Live, At, Goto
  <2>3. Holding' = Holding /\ \A q \in Holding : mem'[q] = mem[q]
    BY <1>0, <1>5 DEF ClearPTE, Holding, At, Goto
  <2> QED
    BY <1>5, <2>1, <2>2, <2>3, SamePages DEF Inv, ClearPTE
<1>6. CASE UNCHANGED vars
  BY <1>6 DEF vars, Conserved, Live, Holding, IsMapped, IsHeld, IsFree
<1> QED
  BY <1>1, <1>2, <1>3, <1>4, <1>5, <1>6 DEF Next, GrowStep, ShrinkStep, Aside

----------------------------------------------------------------------------
(* Theorems *)

\* After userinit every page but the first is free.
LEMMA InitInv == Init => Inv
<1> SUFFICES ASSUME Init PROVE Inv
  OBVIOUS
<1> DEFINE n == Cardinality(Frames)
<1>1. n \in Nat /\ KERNBASE \in Nat /\ initproc \in Procs
  BY PagingAssumption, FS_CardinalityType
<1>2. Frames = KERNBASE..(KERNBASE + n - 1) /\ KERNBASE \in Frames
  BY PagingAssumption
<1> HIDE DEF n
<1>3. n > 0
  BY <1>1, <1>2
<1>4. freelist = [i \in 1..(n - 1) |-> KERNBASE + i]
  BY DEF Init, n
<1>5. freelist \in Seq(Frames) /\ DOMAIN freelist = 1..(n - 1)
  BY <1>1, <1>2, <1>3, <1>4
<1>6. [frame |-> KERNBASE, A |-> FALSE] \in PTEs
  BY <1>2 DEF PTEs
<1>7. FrameTypes
  BY <1>5, <1>6 DEF Init, FrameTypes, Places
<1>8. HandInv
  BY DEF Init, HandInv, Hand, Unmapping
<1>9. /\ Live(initproc) = {1} /\ pte[initproc][1].frame = KERNBASE
      /\ \A p \in Procs \ {initproc} : Live(p) = {}
  BY <1>1 DEF Init, Live
<1>10. Holding = {}
  BY DEF Init, Holding
<1>11. \A j \in DOMAIN freelist : freelist[j] # KERNBASE
  BY <1>1, <1>4
<1>12. \A i, j \in DOMAIN freelist : freelist[i] = freelist[j] => i = j
  BY <1>1, <1>4
<1>13. \A f \in Frames : IsMapped(f) \/ IsHeld(f) \/ IsFree(f)
  <2>1. TAKE f \in Frames
  <2>2. CASE f = KERNBASE
    BY <1>1, <1>9, <2>2 DEF IsMapped
  <2>3. CASE f # KERNBASE
    <3>1. f - KERNBASE \in DOMAIN freelist /\ freelist[f - KERNBASE] = f
      BY <1>1, <1>2, <1>3, <1>4, <2>3
    <3> QED
      BY <3>1 DEF IsFree
  <2> QED
    BY <2>2, <2>3
<1>14. Conserved
  BY <1>9, <1>10, <1>11, <1>12, <1>13 DEF Conserved
<1> QED
  BY <1>7, <1>8, <1>14, Entries DEF Inv

\* Every step of every thread keeps the invariant.
LEMMA NextInv == Inv /\ [Next]_vars => Inv'
<1> SUFFICES ASSUME Inv, [Next]_vars PROVE Inv'
  OBVIOUS
<1>1. FrameTypes' /\ HandInv'
  BY TypesKept, HandKept
<1>2. Conserved'
  BY <1>1, Entries, ConservedKept DEF Inv
<1>3. (FrameTypes /\ HandInv => (FramesConserved <=> Conserved))'
  BY Entries, PTL
<1> QED
  BY <1>1, <1>2, <1>3 DEF Inv

\* kalloc, kfree, mappages and uvmunmap of any number of processes neither lose a
\* page nor use one twice, whatever the unlocked reads and the list do.
THEOREM NoPageLost == Spec => []FramesConserved
<1>1. Inv => FramesConserved
  BY DEF Inv
<1> QED
  BY <1>1, InitInv, NextInv, PTL DEF Spec
============================================================================
