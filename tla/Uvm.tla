-------------------------------- MODULE Uvm --------------------------------
(***************************************************************************)
(* The memory of processes over their life: sbrk, fork, exec, exit and     *)
(* wait in kernel/proc.c and kernel/exec.c, with the page tables that      *)
(* kernel/vm.c builds for them and takes apart, page by page, and what     *)
(* they undo when kalloc returns 0 half-way.  Only kalloc and kfree are    *)
(* seen by others (a page table is private until its process runs), so     *)
(* each is a step, with the private work up to the next one.  The list of  *)
(* evictable pages and the eviction itself are in Paging.                  *)
(***************************************************************************)
EXTENDS Integers, Sequences

CONSTANTS Procs,     \* slots of proc[]
          initproc,
          Frames,    \* the pages of kmem, as numbers
          LEVELS,    \* page-table pages below the root on the way to a PTE
          MaxSize,   \* bound on the size of a process, in pages
          Images,    \* programs: the sizes after each segment and the stack
          NULL

ASSUME UvmAssumption == /\ initproc \in Procs
                        /\ NULL \notin Frames \cup Procs
                        /\ LEVELS \in Nat \ {0} /\ MaxSize \in Nat
                        /\ 1..(3 + 2 * LEVELS) \subseteq Frames
                        /\ Images \subseteq Seq(1..MaxSize)

VARIABLES free,    \* the pages of kmem.freelist
          state, parent, sz, trapframe,   \* of each process, sz in pages
          root, hi, lo, tramp, user,      \* of each page table
          th,      \* of each process: its thread in the kernel
          panic

procs == <<state, parent, sz, trapframe>>
tables == <<root, hi, lo, tramp, user>>
vars == <<free, procs, tables, th, panic>>

\* The page tables: p->pagetable, and the one that exec works on.  Of each: the
\* pages of walk towards high and low addresses below the root; whether
\* trampoline and trapframe are mapped; the user pages, each with its number.
Tables == Procs \X {"cur", "new"}
Cur(p) == <<p, "cur">>
New(p) == <<p, "new">>

NoTable(k) == /\ root[k] = NULL /\ hi[k] = <<>> /\ lo[k] = <<>>
              /\ ~tramp[k] /\ user[k] = {}

\* The page numbers that have a PTE, and their pages.
Vas(pages) == {e[1] : e \in pages}
Pages(pages) == {e[2] : e \in pages}

\* The locals of a system call: the process it is about, the range of pages it
\* works on, the page in hand, the sizes exec still has to reach, the result;
\* and the memory at the call, to compare with.
Idle == [pc |-> "user", call |-> "none", np |-> initproc, base |-> 0, va |-> 0,
         want |-> 0, mem |-> NULL, rest |-> <<>>, res |-> 0, was |-> <<{}, 0>>]

\* After userinit: initproc with one page.
Init == LET first == Cur(initproc)
            OfFirst(x, y) == [k \in Tables |-> IF k = first THEN x ELSE y]
        IN  /\ free = Frames \ 1..(3 + 2 * LEVELS)
            /\ state = [p \in Procs |-> IF p = initproc THEN "running" ELSE "unused"]
            /\ parent = [p \in Procs |-> NULL]
            /\ sz = [p \in Procs |-> IF p = initproc THEN 1 ELSE 0]
            /\ trapframe = [p \in Procs |-> IF p = initproc THEN 1 ELSE NULL]
            /\ root = OfFirst(2, NULL)
            /\ hi = OfFirst([i \in 1..LEVELS |-> 2 + i], <<>>)
            /\ lo = OfFirst([i \in 1..LEVELS |-> 2 + LEVELS + i], <<>>)
            /\ tramp = OfFirst(TRUE, FALSE)
            /\ user = OfFirst({<<0, 3 + 2 * LEVELS>>}, {})
            /\ th = [p \in Procs |-> Idle]
            /\ panic = FALSE

At(p, l) == ~panic /\ th[p].pc = l
With(r, f) == [x \in DOMAIN r |-> IF x \in DOMAIN f THEN f[x] ELSE r[x]]
Set(p, f) == th' = [th EXCEPT ![p] = With(@, f)]
Return(p, r) == Set(p, [pc |-> "ret", res |-> r])

\* The page table that the call of p works on.
Table(p) == IF th[p].call = "exec" THEN New(p) ELSE Cur(th[p].np)

\* The call c of p, about np, begins at l with the locals f.
Call(p, c, np, l, f) == /\ At(p, "user") /\ state[p] = "running"
                        /\ th' = [th EXCEPT ![p] = With([Idle EXCEPT
                                     !.pc = l, !.call = c, !.np = np,
                                     !.was = <<user[Cur(p)], sz[p]>>], f)]

Leave(p) == /\ At(p, "ret")
            /\ th' = [th EXCEPT ![p] = Idle]
            /\ UNCHANGED <<free, procs, tables, panic>>

\* kalloc takes a page, whichever: the order of the list does not matter.
Taken == CHOOSE f \in free : TRUE
\* kalloc returns 0, which is when evictpage gives up; or it panics there.
NoneFree == free = {}

----------------------------------------------------------------------------
\* The system calls

\* growproc: uvmalloc up or uvmdealloc down to n pages.
Sbrk(p, n) == /\ IF n > sz[p]
                 THEN Call(p, "sbrk", p, "mem", [base |-> sz[p], va |-> sz[p], want |-> n])
                 ELSE Call(p, "sbrk", p, "shrink", [va |-> n, want |-> sz[p], base |-> n])
              /\ n # sz[p]
              /\ UNCHANGED <<free, procs, tables, panic>>

\* fork: allocproc finds a slot, then the trapframe is next.
Fork(p, np) == /\ state[np] = "unused"
               /\ state' = [state EXCEPT ![np] = "used"]
               /\ Call(p, "fork", np, "trapframe", [want |-> sz[p]])
               /\ UNCHANGED <<free, parent, sz, trapframe, tables, panic>>

\* exec of a file that holds the program image: proc_pagetable is next.
Exec(p, image) == /\ Call(p, "exec", p, "root", [rest |-> image])
                  /\ UNCHANGED <<free, procs, tables, panic>>

\* exit: the children go to initproc; the memory stays for wait.
Exit(p) == /\ At(p, "user") /\ state[p] = "running" /\ p # initproc
           /\ state' = [state EXCEPT ![p] = "zombie"]
           /\ parent' = [c \in Procs |-> IF parent[c] = p THEN initproc ELSE parent[c]]
           /\ UNCHANGED <<free, sz, trapframe, tables, th, panic>>

\* wait finds the zombie c: freeproc is next.
Wait(p, c) == /\ state[c] = "zombie" /\ parent[c] = p
              /\ Call(p, "wait", c, "freeproc", [va |-> 0])
              /\ UNCHANGED <<free, procs, tables, panic>>

----------------------------------------------------------------------------
\* allocproc and proc_pagetable

AllocTrapframe(p) ==
    /\ At(p, "trapframe") /\ ~NoneFree
    /\ trapframe' = [trapframe EXCEPT ![th[p].np] = Taken]
    /\ free' = free \ {Taken}
    /\ Set(p, [pc |-> "root"])
    /\ UNCHANGED <<state, parent, sz, tables, panic>>

\* uvmcreate.
AllocRoot(p) == /\ At(p, "root") /\ ~NoneFree
                /\ root' = [root EXCEPT ![Table(p)] = Taken]
                /\ free' = free \ {Taken}
                /\ Set(p, [pc |-> "high"])
                /\ UNCHANGED <<procs, hi, lo, tramp, user, panic>>

\* Where exec goes with the sizes still to reach (one below the size already
\* reached changes nothing), and the others after that.
Segment(p) == IF th[p].rest = <<>> THEN [pc |-> "mem"]
              ELSE [pc |-> "mem", base |-> th[p].va, rest |-> Tail(th[p].rest),
                    want |-> IF Head(th[p].rest) < th[p].want THEN th[p].want
                                                              ELSE Head(th[p].rest)]

\* walk for TRAMPOLINE; TRAPFRAME then finds the same page-table page.
WalkHigh(p) == LET k == Table(p)
                   last == Len(hi[k]) + 1 = LEVELS
               IN  /\ At(p, "high") /\ ~NoneFree
                   /\ hi' = [hi EXCEPT ![k] = Append(@, Taken)]
                   /\ tramp' = [tramp EXCEPT ![k] = last]
                   /\ free' = free \ {Taken}
                   /\ IF last THEN Set(p, Segment(p)) ELSE UNCHANGED th
                   /\ UNCHANGED <<procs, root, lo, user, panic>>

\* Without a page: allocproc goes to freeproc and exec to bad, and the table
\* begun, if any, is freed before.
TableFails(p) == /\ th[p].pc \in {"trapframe", "root", "high"} /\ ~panic /\ NoneFree
                 /\ Set(p, [pc |-> IF th[p].pc = "high" THEN "freewalk"
                                   ELSE IF th[p].call = "exec" THEN "ret" ELSE "freeproc",
                            res |-> -1])
                 /\ UNCHANGED <<free, procs, tables, panic>>
----------------------------------------------------------------------------
\* uvmalloc from base to want, and the same loop of uvmcopy

\* kalloc of the next page; uvmcopy looks at the parent's page first.
AllocPage(p) == /\ At(p, "mem") /\ th[p].va < th[p].want /\ ~NoneFree
                /\ panic' = (th[p].call = "fork" /\ th[p].va \notin Vas(user[Cur(p)]))
                /\ free' = free \ {Taken}
                /\ Set(p, [pc |-> "map", mem |-> Taken])
                /\ UNCHANGED <<procs, tables>>

\* mappages: walk allocates the page-table pages that are missing.
WalkLow(p) == /\ At(p, "map") /\ Len(lo[Table(p)]) < LEVELS /\ ~NoneFree
              /\ lo' = [lo EXCEPT ![Table(p)] = Append(@, Taken)]
              /\ free' = free \ {Taken}
              /\ UNCHANGED <<procs, root, hi, tramp, user, th, panic>>

MapPage(p) == LET k == Table(p) IN
              /\ At(p, "map") /\ Len(lo[k]) >= LEVELS
              /\ panic' = (th[p].va \in Vas(user[k]))
              /\ user' = [user EXCEPT ![k] = @ \cup {<<th[p].va, th[p].mem>>}]
              /\ Set(p, [pc |-> "mem", va |-> th[p].va + 1, mem |-> NULL])
              /\ UNCHANGED <<free, procs, root, hi, lo, tramp>>

\* The pages mapped so far, from base to va, are unmapped.
Undo(p) == Set(p, [pc |-> "undo", va |-> th[p].base, want |-> th[p].va,
                   mem |-> NULL, res |-> -1])

\* No page: undo, after kfree of the one in hand when it is walk that has failed.
AllocFails(p) == /\ At(p, "mem") /\ th[p].va < th[p].want /\ NoneFree
                 /\ Undo(p)
                 /\ UNCHANGED <<free, procs, tables, panic>>

WalkFails(p) == /\ At(p, "map") /\ Len(lo[Table(p)]) < LEVELS /\ NoneFree
                /\ Set(p, [pc |-> "drop"])
                /\ UNCHANGED <<free, procs, tables, panic>>

\* Mutant: the page in hand is forgotten.
DropLost(p) == /\ At(p, "drop")
               /\ Undo(p)
               /\ UNCHANGED <<free, procs, tables, panic>>

DropPage(p) == /\ At(p, "drop")
               /\ free' = free \cup {th[p].mem}
               /\ Undo(p)
               /\ UNCHANGED <<procs, tables, panic>>

Allocated(p, c) == At(p, "mem") /\ th[p].call = c /\ th[p].va = th[p].want

SbrkDone(p) == /\ Allocated(p, "sbrk")
               /\ sz' = [sz EXCEPT ![p] = th[p].want]
               /\ Return(p, 0)
               /\ UNCHANGED <<free, state, parent, trapframe, tables, panic>>

\* The child has its memory, gets its parent and can run.
ForkDone(p) == /\ Allocated(p, "fork")
               /\ sz' = [sz EXCEPT ![th[p].np] = th[p].want]
               /\ parent' = [parent EXCEPT ![th[p].np] = p]
               /\ state' = [state EXCEPT ![th[p].np] = "running"]
               /\ Return(p, 0)
               /\ UNCHANGED <<free, trapframe, tables, panic>>

\* A segment is mapped and loaded: on to the next one, or to the stack.
ExecNext(p) == /\ Allocated(p, "exec") /\ th[p].rest # <<>>
               /\ Set(p, Segment(p))
               /\ UNCHANGED <<free, procs, tables, panic>>

\* bad, after loadseg or an argument that does not fit the stack.
ExecBad(p) == /\ Allocated(p, "exec")
              /\ Set(p, [pc |-> "table", base |-> th[p].want, va |-> 0, res |-> -1])
              /\ UNCHANGED <<free, procs, tables, panic>>

Swapped(f, p) == [f EXCEPT ![Cur(p)] = f[New(p)], ![New(p)] = f[Cur(p)]]

\* Commit to the new image; the old page table is freed next, with the old size.
ExecCommit(p) == /\ Allocated(p, "exec") /\ th[p].rest = <<>>
                 /\ root' = Swapped(root, p) /\ hi' = Swapped(hi, p) /\ lo' = Swapped(lo, p)
                 /\ tramp' = Swapped(tramp, p) /\ user' = Swapped(user, p)
                 /\ sz' = [sz EXCEPT ![p] = th[p].want]
                 /\ Set(p, [pc |-> "table", va |-> 0, want |-> sz[p]])
                 /\ UNCHANGED <<free, state, parent, trapframe, panic>>

----------------------------------------------------------------------------
\* uvmunmap, uvmfree, freeproc

\* uvmunmap of one page, with do_free.
Unmap(p) == LET k == Table(p)
                gone == {e \in user[k] : e[1] = th[p].va}
            IN  /\ th[p].pc \in {"undo", "shrink", "unmap"} /\ ~panic
                /\ th[p].va < th[p].want
                /\ panic' = (gone = {})
                /\ free' = free \cup Pages(gone)
                /\ user' = [user EXCEPT ![k] = @ \ gone]
                /\ Set(p, [va |-> th[p].va + 1])
                /\ UNCHANGED <<procs, root, hi, lo, tramp>>

Unmapped(p, l) == At(p, l) /\ th[p].va = th[p].want

\* Mutant: the undo of exec keeps the size that could not be reached.
UndoDoneLong(p) == /\ Unmapped(p, "undo")
                   /\ Set(p, CASE th[p].call = "sbrk" -> [pc |-> "ret"]
                               [] th[p].call = "exec" -> [pc |-> "table", va |-> 0]
                               [] th[p].call = "fork" -> [pc |-> "freeproc"])
                   /\ UNCHANGED <<free, procs, tables, panic>>

\* sbrk fails, exec goes to bad with the size it had, fork goes to freeproc.
UndoDone(p) == /\ Unmapped(p, "undo")
               /\ Set(p, CASE th[p].call = "sbrk" -> [pc |-> "ret"]
                           [] th[p].call = "exec" -> [pc |-> "table", va |-> 0, want |-> th[p].base]
                           [] th[p].call = "fork" -> [pc |-> "freeproc"])
               /\ UNCHANGED <<free, procs, tables, panic>>

ShrinkDone(p) == /\ Unmapped(p, "shrink")
                 /\ sz' = [sz EXCEPT ![p] = th[p].base]
                 /\ Return(p, 0)
                 /\ UNCHANGED <<free, state, parent, trapframe, tables, panic>>

UnmapDone(p) == /\ Unmapped(p, "unmap")
                /\ Set(p, [pc |-> "freewalk"])
                /\ UNCHANGED <<free, procs, tables, panic>>

\* freeproc: the trapframe, then the page table with the pages below sz.
FreeTrapframe(p) == LET np == th[p].np IN
    /\ At(p, "freeproc")
    /\ free' = free \cup ({trapframe[np]} \ {NULL})
    /\ trapframe' = [trapframe EXCEPT ![np] = NULL]
    /\ Set(p, IF root[Cur(np)] = NULL THEN [pc |-> "cleared"]
                 ELSE [pc |-> "table", va |-> 0, want |-> sz[np]])
    /\ UNCHANGED <<state, parent, sz, tables, panic>>

\* proc_freepagetable: trampoline and trapframe are unmapped, without do_free.
FreeTable(p) == /\ At(p, "table")
                /\ panic' = ~tramp[Table(p)]
                /\ tramp' = [tramp EXCEPT ![Table(p)] = FALSE]
                /\ Set(p, [pc |-> "unmap"])
                /\ UNCHANGED <<free, procs, root, hi, lo, user>>

\* The last page of one branch of k is freed; the root goes when both are gone.
Front(s) == SubSeq(s, 1, Len(s) - 1)
FreeLow(k) == /\ lo[k] # <<>>
              /\ free' = free \cup {lo[k][Len(lo[k])]}
              /\ lo' = [lo EXCEPT ![k] = Front(@)]
              /\ UNCHANGED <<root, hi>>
FreeHigh(k) == /\ lo[k] = <<>> /\ hi[k] # <<>>
               /\ free' = free \cup {hi[k][Len(hi[k])]}
               /\ hi' = [hi EXCEPT ![k] = Front(@)]
               /\ UNCHANGED <<root, lo>>
FreeRoot(k) == /\ lo[k] = <<>> /\ hi[k] = <<>>
               /\ free' = free \cup {root[k]}
               /\ root' = [root EXCEPT ![k] = NULL]
               /\ UNCHANGED <<hi, lo>>

\* One kfree of freewalk, which finds no PTE of a page left.
FreeWalk(p) == LET k == Table(p) IN
               /\ At(p, "freewalk") /\ root[k] # NULL
               /\ IF tramp[k] \/ user[k] # {}
                  THEN panic' = TRUE /\ UNCHANGED <<free, root, hi, lo>>
                  ELSE (FreeLow(k) \/ FreeHigh(k) \/ FreeRoot(k)) /\ UNCHANGED panic
               /\ UNCHANGED <<procs, tramp, user, th>>

\* allocproc that has failed in proc_pagetable still has the trapframe to free.
TableFreed(p) == /\ At(p, "freewalk") /\ root[Table(p)] = NULL
                 /\ Set(p, [pc |-> IF th[p].call = "exec" THEN "ret"
                                   ELSE IF trapframe[th[p].np] # NULL THEN "freeproc"
                                   ELSE "cleared"])
                 /\ UNCHANGED <<free, procs, tables, panic>>

ClearSlot(p) == LET np == th[p].np IN
                /\ At(p, "cleared")
                /\ state' = [state EXCEPT ![np] = "unused"]
                /\ parent' = [parent EXCEPT ![np] = NULL]
                /\ sz' = [sz EXCEPT ![np] = 0]
                /\ Set(p, [pc |-> "ret"])
                /\ UNCHANGED <<free, trapframe, tables, panic>>

----------------------------------------------------------------------------
Begin(p) == \/ \E n \in 0..MaxSize : Sbrk(p, n)
            \/ \E np \in Procs : Fork(p, np) \/ Wait(p, np)
            \/ \E image \in Images : Exec(p, image)
            \/ Exit(p)

Build(p) == \/ AllocTrapframe(p) \/ AllocRoot(p) \/ WalkHigh(p) \/ TableFails(p)
            \/ AllocPage(p) \/ WalkLow(p) \/ MapPage(p)
            \/ AllocFails(p) \/ WalkFails(p) \/ DropPage(p)
            \/ SbrkDone(p) \/ ForkDone(p) \/ ExecNext(p) \/ ExecBad(p) \/ ExecCommit(p)

TakeDown(p) == \/ Unmap(p) \/ UndoDone(p) \/ ShrinkDone(p) \/ UnmapDone(p)
               \/ FreeTrapframe(p) \/ FreeTable(p) \/ FreeWalk(p) \/ TableFreed(p)
               \/ ClearSlot(p)

Next == \E p \in Procs : Begin(p) \/ Build(p) \/ TakeDown(p) \/ Leave(p)

Spec == Init /\ [][Next]_vars

----------------------------------------------------------------------------
\* Properties

\* What uses pages, each use with its page: the trapframe of a process, the page
\* a thread has just got from kalloc, the pages of a table and those it maps.
Use(kind, x, i, page) == <<<<kind, x, i>>, page>>
InHand == {p \in Procs : th[p].pc \in {"map", "drop"}}
Trapframes == {Use("trapframe", p, 0, trapframe[p]) : p \in {q \in Procs : trapframe[q] # NULL}}
Hands == {Use("hand", p, 0, th[p].mem) : p \in InHand}
Roots == {Use("root", k, 0, root[k]) : k \in {j \in Tables : root[j] # NULL}}
Branch(b, k, s) == {Use(b, k, i, s[i]) : i \in DOMAIN s}
Highs == UNION {Branch("high", k, hi[k]) : k \in Tables}
Lows == UNION {Branch("low", k, lo[k]) : k \in Tables}
Mapped(k, u) == {Use("user", k, e[1], e[2]) : e \in u}
Users == UNION {Mapped(k, user[k]) : k \in Tables}
Uses == Trapframes \cup Hands \cup Roots \cup Highs \cup Lows \cup Users

\* No page is lost or used twice, at no point of any call that succeeds or backs
\* out: a page that is not free is used for one thing, and a free one for none.
Conserved(uses, rest) == /\ Pages(uses) = Frames \ rest /\ rest \subseteq Frames
                         /\ \A u, v \in uses : u[2] = v[2] => u = v
PagesConserved == Conserved(Uses, free)

\* A call that returns has done all or nothing, whichever kalloc has failed: on
\* success the pages below sz are mapped and no others; on failure the caller has
\* the pages it had; a free slot and a finished exec leave no page table behind;
\* and no panic of uvmunmap, mappages, uvmcopy or freewalk is reached.
AllOrNothing ==
    /\ ~panic
    /\ \A p \in Procs :
         /\ th[p].pc = "ret" =>
              /\ Vas(user[Cur(p)]) = 0..(sz[p] - 1)
              /\ th[p].res = -1 => th[p].was = <<user[Cur(p)], sz[p]>>
              /\ NoTable(New(p))
         /\ state[p] = "unused" =>
              NoTable(Cur(p)) /\ trapframe[p] = NULL /\ sz[p] = 0
============================================================================
