------------------------------- MODULE Paging ------------------------------
(***************************************************************************)
(* kernel/kalloc.c and kernel/vm.c: the page allocator, the user mappings  *)
(* of each process, the list of evictable pages and the choice of a victim *)
(* when memory runs out.  Processes are kernel threads on their own CPUs;  *)
(* each critical section is a step.  A virtual address is a page number.   *)
(***************************************************************************)
EXTENDS LruList, Sequences

CONSTANTS Procs,           \* processes; one page table each
          initproc,
          KERNBASE,        \* the number of the first physical page
          MaxSize,         \* bound on the size of a process, in pages
          MaxCount,        \* bound on the drift of num_lru_pages
          MAX_SWAP_PAGES

VARIABLES freelist,  \* kmem.freelist
          pte,       \* the valid leaf PTEs of each process, by page number
          lru,       \* the list, with pages[]
          lrulk,     \* the process whose CPU holds lru_lock and page_lock
          hand,      \* clock_hand
          swapmap,   \* swap_bitmap
          pc, mem,   \* of each process: place, kalloc's result or the page to free
          victim,    \* of each process: start, then the result, of select_victim
          panic

vars == <<freelist, pte, lru, lrulk, hand, swapmap, pc, mem, victim, panic>>

ASSUME PagingAssumption ==
    /\ initproc \in Procs /\ KERNBASE \in Nat
    /\ KERNBASE \in Frames /\ IsFiniteSet(Frames)
    /\ Frames = KERNBASE..(KERNBASE + Cardinality(Frames) - 1)
    /\ MaxSize <= KERNBASE  \* user addresses are below physical memory

\* After userinit: uvmfirst maps page 0 of initproc and adds it to the list
\* once in mappages and once more itself.
First == lru_add(lru_add(EmptyList, KERNBASE, initproc, 0), KERNBASE, initproc, 0)

Init == /\ freelist = [i \in 1..(Cardinality(Frames) - 1) |-> KERNBASE + i]
        /\ pte = [p \in Procs |-> IF p = initproc THEN <<[frame |-> KERNBASE, A |-> FALSE]>>
                                                  ELSE <<>>]
        /\ lru = First
        /\ lrulk = NULL
        /\ hand = NULL
        /\ swapmap = [b \in 0..(MAX_SWAP_PAGES - 1) |-> FALSE]
        /\ pc = [p \in Procs |-> "user"]
        /\ mem = [p \in Procs |-> NULL]
        /\ victim = [p \in Procs |-> NULL]
        /\ panic = "none"

----------------------------------------------------------------------------
At(p, l) == panic = "none" /\ pc[p] = l
Goto(p, l) == pc' = [pc EXCEPT ![p] = l]

\* *pte & PTE_V of page va of process q, and the entry itself.
Valid(q, va) == q # NULL /\ va < Len(pte[q])
Entry(q, va) == pte[q][va + 1]

\* User code touches a page and the hardware sets PTE_A.
Touch(p, va) == /\ At(p, "user")
                /\ Valid(p, va)
                /\ pte' = [pte EXCEPT ![p][va + 1].A = TRUE]
                /\ UNCHANGED <<freelist, lru, lrulk, hand, swapmap, pc, mem, victim, panic>>

----------------------------------------------------------------------------
\* uvmalloc of one page: kalloc, then mappages

Grow(p) == /\ At(p, "user")
           /\ Len(pte[p]) < MaxSize /\ lru.num \in -MaxCount..MaxCount
           /\ Goto(p, "kalloc")
           /\ UNCHANGED <<freelist, pte, lru, lrulk, hand, swapmap, mem, victim, panic>>

\* kalloc finds a free page.
Kalloc(p) == /\ At(p, "kalloc")
             /\ freelist # <<>>
             /\ mem' = [mem EXCEPT ![p] = Head(freelist)]
             /\ freelist' = Tail(freelist)
             /\ Goto(p, "map")
             /\ UNCHANGED <<pte, lru, lrulk, hand, swapmap, victim, panic>>

\* mappages writes the PTE under pte_lock.
MapPTE(p) == /\ At(p, "map")
             /\ pte' = [pte EXCEPT ![p] = Append(@, [frame |-> mem[p], A |-> FALSE])]
             /\ Goto(p, "test")
             /\ UNCHANGED <<freelist, lru, lrulk, hand, swapmap, mem, victim, panic>>

\* !pg->in_lru, read without a lock.
TestListed(p) == /\ At(p, "test")
                 /\ Goto(p, IF lru.in_lru[mem[p]] THEN "user" ELSE "add")
                 /\ mem' = IF lru.in_lru[mem[p]] THEN [mem EXCEPT ![p] = NULL] ELSE mem
                 /\ UNCHANGED <<freelist, pte, lru, lrulk, hand, swapmap, victim, panic>>

LruAdd(p) == /\ At(p, "add")
             /\ lrulk = NULL
             /\ lru' = lru_add(lru, mem[p], p, Len(pte[p]) - 1)
             /\ mem' = [mem EXCEPT ![p] = NULL]
             /\ Goto(p, "check")
             /\ UNCHANGED <<freelist, pte, lrulk, hand, swapmap, victim, panic>>

\* check_lru_consistency: with the list empty and the count 0 the release of
\* lru_lock is skipped, because it is the body of the if above it.
Check(p) == /\ lrulk = NULL
            /\ lrulk' = IF lru.head = NULL /\ lru.num = 0 THEN p ELSE NULL
            /\ UNCHANGED <<freelist, pte, lru, hand, swapmap, mem, victim, panic>>

\* acquire() panics on a lock that this CPU holds already.
Reacquire(p) == /\ pc[p] \in {"add", "check", "select", "remove", "check_removed"}
                /\ panic = "none" /\ lrulk = p
                /\ panic' = "acquire"
                /\ UNCHANGED <<freelist, pte, lru, lrulk, hand, swapmap, pc, mem, victim>>

CheckAdded(p) == At(p, "check") /\ Check(p) /\ Goto(p, "user")

----------------------------------------------------------------------------
\* kalloc with an empty free list: evictpage

KallocEmpty(p) == /\ At(p, "kalloc")
                  /\ freelist = <<>>
                  /\ Goto(p, "select")
                  /\ UNCHANGED <<freelist, pte, lru, lrulk, hand, swapmap, mem, victim, panic>>

\* select_victim takes the locks and starts at clock_hand.
StartScan(p) == LET h == IF hand = NULL THEN lru.head ELSE hand IN
    /\ At(p, "select")
    /\ lrulk = NULL
    /\ IF lru.head = NULL
       THEN Goto(p, "user") /\ UNCHANGED <<lrulk, hand, victim>>
       ELSE /\ lrulk' = p
            /\ hand' = h
            /\ victim' = [victim EXCEPT ![p] = h]
            /\ Goto(p, "scan")
    /\ UNCHANGED <<freelist, pte, lru, swapmap, mem, panic>>

\* The victim is f: release the locks and return it.
Choose(p, f, L) == /\ victim' = [victim EXCEPT ![p] = f]
                   /\ hand' = L.next[f]
                   /\ lrulk' = NULL
                   /\ Goto(p, "evict")

\* One turn of the loop.  Unmapped: go on.  Accessed: clear PTE_A and move the
\* page to the tail, with the vaddr that lru_remove has left.  Else: take it.
Scan(p) == LET q == lru.pagetable[hand]
               va == lru.vaddr[hand]
               skip == ~Valid(q, va)
               second == ~skip /\ Entry(q, va).A
               R == lru_remove(lru, hand)
               L == IF second /\ hand # lru.tail THEN lru_add(R, hand, q, R.vaddr[hand]) ELSE lru
               go == lru.next[hand]
           IN
    /\ At(p, "scan")
    /\ hand # NULL
    /\ lru' = L
    /\ pte' = IF second THEN [pte EXCEPT ![q][va + 1].A = FALSE] ELSE pte
    /\ IF ~skip /\ ~second THEN Choose(p, hand, L)
       ELSE IF go = victim[p] THEN Choose(p, go, L)
       ELSE hand' = go /\ UNCHANGED <<lrulk, victim, pc>>
    /\ UNCHANGED <<freelist, swapmap, mem, panic>>

\* The hand has followed the next of a removed page: a null dereference.
ScanNull(p) == /\ At(p, "scan")
               /\ hand = NULL
               /\ panic' = "kerneltrap"
               /\ UNCHANGED <<freelist, pte, lru, lrulk, hand, swapmap, pc, mem, victim>>

\* either_copyin with user_src = 1: addr is looked up in p's own page table.
UserAddress(p, addr) == Valid(p, addr)

\* evictpage: give up if the victim is unmapped by now, otherwise take a swap
\* slot and swapwrite the page, passing its physical address as the source.
\* That address is never mapped in user space, so swapwrite panics and the
\* steps after it are not reached.
Evict(p) == LET q == lru.pagetable[victim[p]]
                va == lru.vaddr[victim[p]]
                slots == {b \in DOMAIN swapmap : ~swapmap[b]}
            IN
    /\ At(p, "evict")
    /\ IF ~Valid(q, va)
       THEN Goto(p, "user") /\ UNCHANGED <<swapmap, panic>>
       ELSE /\ panic' = IF slots = {} THEN "allocswap"
                        ELSE IF ~UserAddress(p, Entry(q, va).frame) THEN "swapwrite" ELSE "none"
            /\ swapmap' = [b \in DOMAIN swapmap |->
                              swapmap[b] \/ (b \in slots /\ \A c \in slots : b <= c)]
            /\ UNCHANGED pc
    /\ victim' = [victim EXCEPT ![p] = NULL]
    /\ UNCHANGED <<freelist, pte, lru, lrulk, hand, mem>>

----------------------------------------------------------------------------
\* uvmdealloc of the last page: uvmunmap with do_free

\* initproc lives for ever and keeps its first page.
Shrink(p) == /\ At(p, "user")
             /\ Len(pte[p]) > (IF p = initproc THEN 1 ELSE 0)
             /\ mem' = [mem EXCEPT ![p] = pte[p][Len(pte[p])].frame]
             /\ Goto(p, IF lru.in_lru[mem'[p]] THEN "remove" ELSE "kfree")
             /\ UNCHANGED <<freelist, pte, lru, lrulk, hand, swapmap, victim, panic>>

LruRemove(p) == /\ At(p, "remove")
                /\ lrulk = NULL
                /\ lru' = lru_remove(lru, mem[p])
                /\ Goto(p, "check_removed")
                /\ UNCHANGED <<freelist, pte, lrulk, hand, swapmap, mem, victim, panic>>

CheckRemoved(p) == At(p, "check_removed") /\ Check(p) /\ Goto(p, "kfree")

\* Mutant: the page is not linked into the free list.
KfreeLost(p) == /\ At(p, "kfree")
                /\ Goto(p, "clear")
                /\ UNCHANGED <<freelist, pte, lru, lrulk, hand, swapmap, mem, victim, panic>>

Kfree(p) == /\ At(p, "kfree")
            /\ freelist' = <<mem[p]>> \o freelist
            /\ Goto(p, "clear")
            /\ UNCHANGED <<pte, lru, lrulk, hand, swapmap, mem, victim, panic>>

\* *pte = 0 under pte_lock, after the page has been freed.
ClearPTE(p) == /\ At(p, "clear")
               /\ pte' = [pte EXCEPT ![p] = SubSeq(@, 1, Len(@) - 1)]
               /\ mem' = [mem EXCEPT ![p] = NULL]
               /\ Goto(p, "user")
               /\ UNCHANGED <<freelist, lru, lrulk, hand, swapmap, victim, panic>>

----------------------------------------------------------------------------
GrowStep(p) == Grow(p) \/ Kalloc(p) \/ MapPTE(p) \/ TestListed(p) \/ LruAdd(p) \/ CheckAdded(p)
EvictStep(p) == KallocEmpty(p) \/ StartScan(p) \/ Scan(p) \/ ScanNull(p) \/ Evict(p)
ShrinkStep(p) == Shrink(p) \/ LruRemove(p) \/ CheckRemoved(p) \/ Kfree(p) \/ ClearPTE(p)

Next == \E p \in Procs : \/ GrowStep(p) \/ EvictStep(p) \/ ShrinkStep(p) \/ Reacquire(p)
                         \/ \E va \in 0..(MaxSize - 1) : Touch(p, va)

Spec == Init /\ [][Next]_vars

----------------------------------------------------------------------------
\* Properties

\* The mappings that count: uvmunmap frees a page before it clears its PTE.
Live(p) == 1..(IF pc[p] = "clear" THEN Len(pte[p]) - 1 ELSE Len(pte[p]))
Mapped == UNION {{pte[p][i].frame : i \in Live(p)} : p \in Procs}
Holding == {p \in Procs : pc[p] = "map"}
InHand == {mem[p] : p \in Holding}
FreePages == {freelist[i] : i \in DOMAIN freelist}

\* No page is lost, free twice or mapped twice: each is free, about to be mapped
\* by one thread, or mapped at one place.  So kalloc never hands out a page that
\* some process still uses, whatever kfree and mappages of others run in between.
FramesConserved == /\ \A p, q \in Procs : \A i \in Live(p), j \in Live(q) :
                        pte[p][i].frame = pte[q][j].frame => p = q /\ i = j
                   /\ Mapped \cup InHand \cup FreePages = Frames
                   /\ Mapped \cap FreePages = {} /\ InHand \cap (Mapped \cup FreePages) = {}
                   /\ \A i, j \in DOMAIN freelist : freelist[i] = freelist[j] => i = j
                   /\ \A p, q \in Holding : mem[p] = mem[q] => p = q

\* evictpage swaps a page out to disk: swapwrite can read the page it is given.
SwapOutWorks == panic # "swapwrite"
============================================================================
