-------------------------- MODULE Uvm_proofs --------------------------
(***************************************************************************)
(* That Uvm conserves pages and that its calls do all or nothing, for any  *)
(* number of processes, pages and levels, any sizes and any programs.      *)
(***************************************************************************)
EXTENDS Uvm, TLAPS

\* The prover is Zenon unless a step asks for SMT.
USE Zenon

----------------------------------------------------------------------------
\* The inductive invariant

Fields == {"pc", "call", "np", "base", "va", "want", "mem", "rest", "res", "was"}
States == {"unused", "used", "running", "zombie"}
Opening == {"trapframe", "root", "high"}
Building == {"mem", "map", "drop"}

ThreadType ==
    /\ th = [p \in Procs |-> th[p]]
    /\ \A p \in Procs :
         /\ DOMAIN th[p] = Fields
         /\ th[p].np \in Procs
         /\ th[p].base \in Nat /\ th[p].va \in Nat /\ th[p].want \in Nat
         /\ th[p].rest \in Seq(Nat)

TableType == /\ root \in [Tables -> Frames \cup {NULL}]
             /\ hi \in [Tables -> Seq(Frames)]
             /\ lo \in [Tables -> Seq(Frames)]
             /\ tramp \in [Tables -> BOOLEAN]
             /\ user \in [Tables -> SUBSET (Nat \X Frames)]

TypeInv == /\ free \subseteq Frames
           /\ state \in [Procs -> States]
           /\ parent \in [Procs -> Procs \cup {NULL}]
           /\ sz \in [Procs -> Nat]
           /\ trapframe \in [Procs -> Frames \cup {NULL}]

\* A thread in the middle of a call, and which calls have which steps.
Active(p) == th[p].pc \notin {"user", "ret"}
In(p, c) == Active(p) /\ th[p].call = c

Label(t) ==
    \/ t.pc \in {"user", "ret"}
    \/ t.call = "sbrk" /\ t.pc \in Building \cup {"undo", "shrink"}
    \/ t.call = "fork" /\ t.pc \in Building \cup {"trapframe", "root", "high", "undo", "freeproc",
                                                 "table", "unmap", "freewalk", "cleared"}
    \/ t.call = "exec" /\ t.pc \in Building \cup {"root", "high", "undo", "table", "unmap",
                                                 "freewalk"}
    \/ t.call = "wait" /\ t.pc \in {"freeproc", "table", "unmap", "freewalk", "cleared"}

\* What the call of a thread is about is its own: the process itself, a slot that
\* it has taken for fork, a zombie child of its own.
Claim(p) ==
    /\ th[p].pc # "user" => state[p] = "running"
    /\ In(p, "sbrk") \/ In(p, "exec") => th[p].np = p
    /\ In(p, "fork") => state[th[p].np] = "used" /\ sz[th[p].np] = 0
    /\ In(p, "wait") => state[th[p].np] = "zombie" /\ parent[th[p].np] = p
    /\ \A q \in Procs : In(p, "fork") /\ In(q, "fork") /\ th[p].np = th[q].np => p = q

\* A table without a root is empty.
Rooted(k) == root[k] = NULL => NoTable(k)

\* The memory of a process that no call is working on.
Whole(p) == tramp[Cur(p)] /\ Vas(user[Cur(p)]) = 0..(sz[p] - 1)
Reaped(p) == \E q \in Procs : In(q, "wait") /\ th[q].np = p
Slot(p) ==
    /\ state[p] = "unused" => root[Cur(p)] = NULL /\ trapframe[p] = NULL /\ sz[p] = 0
    /\ ~In(p, "exec") => root[New(p)] = NULL
    /\ state[p] = "running" /\ ~In(p, "sbrk") => Whole(p)
    /\ state[p] = "zombie" /\ ~Reaped(p) => Whole(p)

\* How far the page table is that a thread t is working on: its root r, whether
\* its trampoline is mapped, its pages u; with the trapframe f and the size n of
\* the process the call is about, and the size s of the one that calls.
Stage(t, r, m, u, f, s, n) ==
    /\ t.pc \in Opening => /\ t.base = 0 /\ t.va = 0
                           /\ t.call = "fork" => t.rest = <<>> /\ t.want = s
    /\ t.pc = "trapframe" => f = NULL /\ r = NULL
    /\ t.pc = "root" => r = NULL
    /\ t.pc = "high" => r # NULL /\ ~m /\ u = {}
    /\ t.pc \in Building => /\ m /\ Vas(u) = 0..(t.va - 1)
                            /\ t.base <= t.va /\ t.va <= t.want
                            /\ t.pc # "mem" => t.va < t.want
                            /\ t.call = "fork" => t.base = 0 /\ t.want = s
    /\ t.pc \in {"undo", "shrink"} => /\ m /\ Vas(u) = 0..(t.base - 1) \cup t.va..(t.want - 1)
                                      /\ t.base <= t.va /\ t.va <= t.want
                                      /\ t.call = "fork" => t.base = 0
    /\ t.pc = "freeproc" => r = NULL \/ (m /\ Vas(u) = 0..(n - 1))
    /\ t.pc = "table" => m /\ t.va = 0 /\ Vas(u) = 0..(t.want - 1)
    /\ t.pc = "unmap" => ~m /\ Vas(u) = t.va..(t.want - 1) /\ t.va <= t.want
    /\ t.pc = "freewalk" => ~m /\ u = {}
    /\ t.pc = "cleared" => r = NULL /\ f = NULL

Progress(p) == LET k == Table(p)
                   np == th[p].np
               IN  Stage(th[p], root[k], tramp[k], user[k], trapframe[np], sz[p], sz[np])

\* What a call that fails will find that it had: the pages u, the size s.
Early(t) == t.pc \notin {"table", "unmap", "freewalk"} \/ t.res = -1
Had(t, u, s) ==
    /\ t.call = "sbrk" /\ t.pc \in Building \cup {"undo"} =>
         t.base = s /\ t.was = <<{e \in u : e[1] < s}, s>>
    /\ t.call \in {"fork", "wait"} /\ t.pc \notin {"user", "ret"} => t.was = <<u, s>>
    /\ t.call = "exec" /\ t.pc \notin {"user", "ret"} /\ Early(t) => t.was = <<u, s>>
    /\ t.call = "exec" /\ t.pc \in Opening \cup Building => t.res = 0
    /\ t.pc = "ret" /\ t.res = -1 => t.was = <<u, s>>

Before(p) == Had(th[p], user[Cur(p)], sz[p])

Thread(p) == Label(th[p]) /\ Claim(p) /\ Progress(p) /\ Before(p)

Inv == /\ TypeInv /\ TableType /\ ThreadType /\ ~panic
       /\ \A k \in Tables : Rooted(k)
       /\ \A p \in Procs : Slot(p)
       /\ \A p \in Procs : Thread(p)
       /\ PagesConserved

----------------------------------------------------------------------------
\* The initial states and the steps that change nothing

\* A step that leaves panic alone.
LEMMA StillFine ==
    ASSUME Inv, panic' = panic
    PROVE  ~panic'
<1>1. ~panic
  BY DEF Inv
<1> QED
  BY <1>1, SMT

\* Outside a call nothing is asked of a table.
LEMMA StageIdle ==
    ASSUME NEW t, t.pc \in {"user", "ret"}, NEW r, NEW m, NEW u, NEW f, NEW s, NEW n
    PROVE  Stage(t, r, m, u, f, s, n)
  BY SMT DEF Stage, Opening, Building

\* Outside a call nothing is remembered.
LEMMA HadUser ==
    ASSUME NEW t, t.pc = "user", NEW u, NEW s
    PROVE  Had(t, u, s)
  BY SMT DEF Had, Opening, Building

\* The uses of pages after userinit.
First(u) == LET k == Cur(initproc) IN
    \/ u = Use("trapframe", initproc, 0, 1)
    \/ u = Use("root", k, 0, 2)
    \/ \E i \in 1..LEVELS : u = Use("high", k, i, 2 + i)
    \/ \E i \in 1..LEVELS : u = Use("low", k, i, 2 + LEVELS + i)
    \/ u = Use("user", k, 0, 3 + 2 * LEVELS)

\* The initial state satisfies the invariant.
LEMMA InitInv ==
    ASSUME Init
    PROVE  Inv
\* The numbers 1 and 2 are pages, and none of the first ones is NULL.
<1>InitFrames.
    ASSUME NEW n \in 1..(3 + 2 * LEVELS)
    PROVE  n \in Frames /\ n # NULL
    BY <1>InitFrames, UvmAssumption

\* What Init says of a table and of a slot.
<1>InitTables.
    /\ Cur(initproc) \in Tables
    /\ root[Cur(initproc)] = 2 /\ tramp[Cur(initproc)]
    /\ hi[Cur(initproc)] = [i \in 1..LEVELS |-> 2 + i]
    /\ lo[Cur(initproc)] = [i \in 1..LEVELS |-> 2 + LEVELS + i]
    /\ user[Cur(initproc)] = {<<0, 3 + 2 * LEVELS>>}
    /\ \A k \in Tables : k # Cur(initproc) => NoTable(k)
    /\ th = [p \in Procs |-> Idle]
    /\ state[initproc] = "running" /\ sz[initproc] = 1 /\ trapframe[initproc] = 1
    /\ \A p \in Procs : p # initproc => state[p] = "unused" /\ sz[p] = 0
                                        /\ trapframe[p] = NULL
  <2>1. Cur(initproc) \in Tables /\ initproc \in Procs
    BY UvmAssumption DEF Cur, Tables
  <2> QED
    BY <2>1 DEF Init, NoTable

\* The uses of pages in the initial state are those.
<1>InitUses.
    \A u : u \in Uses <=> First(u)
  <2> DEFINE k0 == Cur(initproc)
  <2>1. initproc \in Procs /\ LEVELS \in Nat
    BY UvmAssumption
  <2>2. 1 # NULL /\ 2 # NULL
    <3>1. 1 \in 1..(3 + 2 * LEVELS) /\ 2 \in 1..(3 + 2 * LEVELS)
      BY <2>1, SMT
    <3> QED
      BY <3>1, <1>InitFrames
  <2>3. \A u : u \in Trapframes <=> u = Use("trapframe", initproc, 0, 1)
    <3>1. \A u : u \in Trapframes <=>
            \E p \in Procs : trapframe[p] # NULL /\ u = Use("trapframe", p, 0, trapframe[p])
      BY DEF Trapframes
    <3>2. trapframe[initproc] = 1 /\ \A p \in Procs : p # initproc => trapframe[p] = NULL
      BY <1>InitTables
    <3> QED
      BY <2>1, <2>2, <3>1, <3>2
  <2>4. \A u : u \notin Hands
    <3>1. Idle.pc = "user" /\ th = [p \in Procs |-> Idle]
      BY <1>InitTables, SMT DEF Idle
    <3>2. \A p \in Procs : p \notin InHand
      BY <3>1 DEF InHand
    <3> QED
      BY <3>2 DEF Hands, InHand
  <2>5. /\ k0 \in Tables /\ root[k0] = 2 /\ user[k0] = {<<0, 3 + 2 * LEVELS>>}
        /\ hi[k0] = [i \in 1..LEVELS |-> 2 + i]
        /\ lo[k0] = [i \in 1..LEVELS |-> 2 + LEVELS + i]
        /\ \A k \in Tables : k # k0 => root[k] = NULL /\ hi[k] = <<>> /\ lo[k] = <<>>
                                       /\ user[k] = {}
    BY <1>InitTables DEF NoTable
  <2> HIDE DEF k0
  <2>6. \A u : u \in Roots <=> u = Use("root", k0, 0, 2)
    <3>1. \A u : u \in Roots <=>
            \E k \in Tables : root[k] # NULL /\ u = Use("root", k, 0, root[k])
      BY DEF Roots
    <3>2. k0 \in Tables /\ root[k0] = 2 /\ \A k \in Tables : k # k0 => root[k] = NULL
      BY <2>5
    <3> QED
      BY <2>2, <3>1, <3>2, SMT
  <2>7. \A u : u \in Highs <=> \E i \in 1..LEVELS : u = Use("high", k0, i, 2 + i)
    <3>1. \A u : u \in Branch("high", k0, hi[k0]) <=>
                   \E i \in 1..LEVELS : u = Use("high", k0, i, 2 + i)
      <4>1. DOMAIN hi[k0] = 1..LEVELS /\ \A i \in 1..LEVELS : hi[k0][i] = 2 + i
        BY <2>5
      <4> QED
        BY <4>1 DEF Branch
    <3>2. \A k \in Tables : k # k0 => \A u : u \notin Branch("high", k, hi[k])
      BY <2>5, SMT DEF Branch
    <3>3. \A u : u \in Highs <=> \E k \in Tables : u \in Branch("high", k, hi[k])
      BY DEF Highs
    <3>4. k0 \in Tables
      BY <2>5
    <3> QED
      BY <3>1, <3>2, <3>3, <3>4
  <2>8. \A u : u \in Lows <=> \E i \in 1..LEVELS : u = Use("low", k0, i, 2 + LEVELS + i)
    <3>1. \A u : u \in Branch("low", k0, lo[k0]) <=>
                   \E i \in 1..LEVELS : u = Use("low", k0, i, 2 + LEVELS + i)
      <4>1. DOMAIN lo[k0] = 1..LEVELS /\ \A i \in 1..LEVELS : lo[k0][i] = 2 + LEVELS + i
        BY <2>5
      <4> QED
        BY <4>1 DEF Branch
    <3>2. \A k \in Tables : k # k0 => \A u : u \notin Branch("low", k, lo[k])
      BY <2>5, SMT DEF Branch
    <3>3. \A u : u \in Lows <=> \E k \in Tables : u \in Branch("low", k, lo[k])
      BY DEF Lows
    <3>4. k0 \in Tables
      BY <2>5
    <3> QED
      BY <3>1, <3>2, <3>3, <3>4
  <2>9. \A u : u \in Users <=> u = Use("user", k0, 0, 3 + 2 * LEVELS)
    <3>1. PICK e : e = <<0, 3 + 2 * LEVELS>> /\ e[1] = 0 /\ e[2] = 3 + 2 * LEVELS
      <4>1. <<0, 3 + 2 * LEVELS>>[1] = 0 /\ <<0, 3 + 2 * LEVELS>>[2] = 3 + 2 * LEVELS
        OBVIOUS
      <4> QED
        BY <4>1
    <3>2. user[k0] = {e}
      BY <2>5, <3>1
    <3>3. \A u : u \in Mapped(k0, user[k0]) <=> u = Use("user", k0, e[1], e[2])
      BY <3>2 DEF Mapped
    <3>4. \A u : u \in Mapped(k0, user[k0]) <=> u = Use("user", k0, 0, 3 + 2 * LEVELS)
      BY <3>1, <3>3
    <3>5. \A k \in Tables : k # k0 => \A u : u \notin Mapped(k, user[k])
      BY <2>5 DEF Mapped
    <3>6. \A u : u \in Users <=> \E k \in Tables : u \in Mapped(k, user[k])
      BY DEF Users
    <3> QED
      BY <2>5, <3>4, <3>5, <3>6
  <2>10. \A u : First(u) <=> \/ u = Use("trapframe", initproc, 0, 1)
                             \/ u = Use("root", k0, 0, 2)
                             \/ \E i \in 1..LEVELS : u = Use("high", k0, i, 2 + i)
                             \/ \E i \in 1..LEVELS : u = Use("low", k0, i, 2 + LEVELS + i)
                             \/ u = Use("user", k0, 0, 3 + 2 * LEVELS)
    BY DEF First, k0
  <2> QED
    BY <2>3, <2>4, <2>6, <2>7, <2>8, <2>9, <2>10 DEF Uses

\* They have one page each, of the first ones.
<1>InitConserves.
    PagesConserved
  <2> DEFINE last == 3 + 2 * LEVELS
  <2>1. LEVELS \in Nat /\ 1..last \subseteq Frames /\ free = Frames \ 1..last
    BY UvmAssumption DEF Init
  <2>2. /\ Use("trapframe", initproc, 0, 1)[2] = 1 /\ Use("root", Cur(initproc), 0, 2)[2] = 2
        /\ Use("user", Cur(initproc), 0, last)[2] = last
        /\ \A i \in 1..LEVELS : /\ Use("high", Cur(initproc), i, 2 + i)[2] = 2 + i
                                /\ Use("low", Cur(initproc), i, 2 + LEVELS + i)[2] = 2 + LEVELS + i
    BY DEF Use
  <2>3. ASSUME NEW f \in 1..last PROVE \E u \in Uses : u[2] = f
    <3>1. CASE f = 1 \/ f = 2 \/ f = last
      <4>1. /\ First(Use("trapframe", initproc, 0, 1)) /\ First(Use("root", Cur(initproc), 0, 2))
            /\ First(Use("user", Cur(initproc), 0, last))
        BY DEF First
      <4> QED
        BY <2>2, <3>1, <4>1, <1>InitUses
    <3>2. CASE f - 2 \in 1..LEVELS
      <4>1. PICK i \in 1..LEVELS : f = 2 + i
        BY <2>1, <3>2, SMT
      <4>2. First(Use("high", Cur(initproc), i, 2 + i))
        BY DEF First
      <4>3. Use("high", Cur(initproc), i, 2 + i)[2] = f
        BY <2>2, <4>1
      <4> QED
        BY <4>2, <4>3, <1>InitUses
    <3>3. CASE f - 2 - LEVELS \in 1..LEVELS
      <4>1. PICK i \in 1..LEVELS : f = 2 + LEVELS + i
        BY <2>1, <3>3, SMT
      <4>2. First(Use("low", Cur(initproc), i, 2 + LEVELS + i))
        BY DEF First
      <4>3. Use("low", Cur(initproc), i, 2 + LEVELS + i)[2] = f
        BY <2>2, <4>1
      <4> QED
        BY <4>2, <4>3, <1>InitUses
    <3>4. f = 1 \/ f = 2 \/ f - 2 \in 1..LEVELS \/ f - 2 - LEVELS \in 1..LEVELS \/ f = last
      BY <2>1, <2>3, SMT
    <3> QED
      BY <3>1, <3>2, <3>3, <3>4
  <2> DEFINE Place(u) ==
        /\ u[2] \in 1..last
        /\ u[2] = 1 => u = Use("trapframe", initproc, 0, 1)
        /\ u[2] = 2 => u = Use("root", Cur(initproc), 0, 2)
        /\ u[2] = last => u = Use("user", Cur(initproc), 0, last)
        /\ u[2] \in 3..(2 + LEVELS) => u = Use("high", Cur(initproc), u[2] - 2, u[2])
        /\ u[2] \in (3 + LEVELS)..(2 + 2 * LEVELS) =>
             u = Use("low", Cur(initproc), u[2] - 2 - LEVELS, u[2])
  <2>4. ASSUME NEW u, First(u) PROVE Place(u)
    <3>1. CASE u = Use("trapframe", initproc, 0, 1)
      <4>1. u[2] = 1
        BY <2>2, <3>1
      <4> QED
        BY <2>1, <3>1, <4>1, SMT
    <3>2. CASE u = Use("root", Cur(initproc), 0, 2)
      <4>1. u[2] = 2
        BY <2>2, <3>2
      <4> QED
        BY <2>1, <3>2, <4>1, SMT
    <3>3. CASE u = Use("user", Cur(initproc), 0, last)
      <4>1. u[2] = last
        BY <2>2, <3>3
      <4> QED
        BY <2>1, <3>3, <4>1, SMT
    <3>4. ASSUME NEW i \in 1..LEVELS, u = Use("high", Cur(initproc), i, 2 + i) PROVE Place(u)
      <4>1. u[2] = 2 + i /\ i = u[2] - 2
        <5>1. u[2] = 2 + i
          BY <2>2, <3>4
        <5> QED
          BY <2>1, <5>1, SMT
      <4>2. u = Use("high", Cur(initproc), u[2] - 2, u[2])
        BY <3>4, <4>1
      <4> QED
        BY <2>1, <4>1, <4>2, SMT
    <3>5. ASSUME NEW i \in 1..LEVELS, u = Use("low", Cur(initproc), i, 2 + LEVELS + i)
          PROVE  Place(u)
      <4>1. u[2] = 2 + LEVELS + i /\ i = u[2] - 2 - LEVELS
        <5>1. u[2] = 2 + LEVELS + i
          BY <2>2, <3>5
        <5> QED
          BY <2>1, <5>1, SMT
      <4>2. u = Use("low", Cur(initproc), u[2] - 2 - LEVELS, u[2])
        BY <3>5, <4>1
      <4> QED
        BY <2>1, <4>1, <4>2, SMT
    <3> HIDE DEF Place
    <3> QED
      BY <2>4, <3>1, <3>2, <3>3, <3>4, <3>5 DEF First
  <2>5. ASSUME NEW u, NEW v, First(u), First(v), u[2] = v[2] PROVE u = v
    <3>1. u[2] \in 1..last
      BY <2>4, <2>5
    <3>2. \/ u[2] = 1 \/ u[2] = 2 \/ u[2] = last \/ u[2] \in 3..(2 + LEVELS)
          \/ u[2] \in (3 + LEVELS)..(2 + 2 * LEVELS)
      BY <2>1, <3>1, SMT
    <3> QED
      BY <2>4, <2>5, <3>2
  <2>6. Pages(Uses) = Frames \ free
    <3>1. \A f : f \in Pages(Uses) <=> f \in 1..last
      BY <2>3, <2>4, <1>InitUses DEF Pages
    <3> QED
      BY <2>1, <3>1
  <2>7. \A u, v \in Uses : u[2] = v[2] => u = v
    BY <2>5, <1>InitUses
  <2> QED
    BY <2>1, <2>6, <2>7 DEF PagesConserved, Conserved

<1> DEFINE k0 == Cur(initproc)
<1>1. initproc \in Procs /\ LEVELS \in Nat /\ 0 \in Nat /\ 1 \in Nat
  BY UvmAssumption, SMT
<1>2. 1 \in Frames /\ 2 \in Frames /\ 2 # NULL
  <2>1. 1 \in 1..(3 + 2 * LEVELS) /\ 2 \in 1..(3 + 2 * LEVELS)
    BY <1>1, SMT
  <2> QED
    BY <2>1, <1>InitFrames
<1>3. TypeInv /\ ~panic
  BY <1>1, <1>2 DEF TypeInv, Init, States
<1>4. TableType
  <2>1. [i \in 1..LEVELS |-> 2 + i] \in Seq(Frames)
    <3>1. \A i \in 1..LEVELS : 2 + i \in 1..(3 + 2 * LEVELS)
      BY <1>1, SMT
    <3>2. \A i \in 1..LEVELS : 2 + i \in Frames
      BY <3>1, <1>InitFrames
    <3> QED
      BY <1>1, <3>2, SMT
  <2>2. [i \in 1..LEVELS |-> 2 + LEVELS + i] \in Seq(Frames)
    <3>1. \A i \in 1..LEVELS : 2 + LEVELS + i \in 1..(3 + 2 * LEVELS)
      BY <1>1, SMT
    <3>2. \A i \in 1..LEVELS : 2 + LEVELS + i \in Frames
      BY <3>1, <1>InitFrames
    <3> QED
      BY <1>1, <3>2, SMT
  <2>3. <<>> \in Seq(Frames)
    BY SMT
  <2>4. {<<0, 3 + 2 * LEVELS>>} \in SUBSET (Nat \X Frames)
    <3>1. 3 + 2 * LEVELS \in 1..(3 + 2 * LEVELS)
      BY <1>1, SMT
    <3>2. 3 + 2 * LEVELS \in Frames
      BY <3>1, <1>InitFrames
    <3> QED
      BY <1>1, <3>2, SMT
  <2>5. root \in [Tables -> Frames \cup {NULL}] /\ tramp \in [Tables -> BOOLEAN]
    BY <1>2 DEF Init
  <2>6. hi \in [Tables -> Seq(Frames)] /\ lo \in [Tables -> Seq(Frames)]
    BY <2>1, <2>2, <2>3 DEF Init
  <2>7. user \in [Tables -> SUBSET (Nat \X Frames)]
    BY <2>4 DEF Init
  <2> QED
    BY <2>5, <2>6, <2>7 DEF TableType
<1>5. /\ Idle.pc = "user" /\ Idle.np = initproc /\ Idle.base = 0 /\ Idle.va = 0
      /\ Idle.want = 0 /\ Idle.rest = <<>> /\ DOMAIN Idle = Fields
  BY SMT DEF Idle, Fields
<1>6. th = [p \in Procs |-> Idle]
  BY DEF Init
<1>7. ThreadType
  <2>1. <<>> \in Seq(Nat)
    BY SMT
  <2> QED
    BY <1>1, <1>5, <1>6, <2>1 DEF ThreadType
<1>8. \A p \in Procs : th[p].pc = "user" /\ ~Active(p) /\ \A c : ~In(p, c)
  BY <1>5, <1>6 DEF Active, In
<1>9. \A k \in Tables : Rooted(k)
  BY <1>2, <1>InitTables DEF Rooted
<1>10. ASSUME NEW p \in Procs PROVE Slot(p)
  <2>1. New(p) \in Tables /\ New(p) # k0 /\ (p # initproc => Cur(p) \in Tables /\ Cur(p) # k0)
    BY DEF New, Cur, Tables
  <2>2. root[New(p)] = NULL
    BY <2>1, <1>InitTables DEF NoTable
  <2>3. CASE p # initproc
    BY <2>1, <2>2, <2>3, <1>InitTables DEF Slot, NoTable
  <2>4. CASE p = initproc
    <3>1. Vas({<<0, 3 + 2 * LEVELS>>}) = {0}
      <4>1. <<0, 3 + 2 * LEVELS>>[1] = 0
        OBVIOUS
      <4> QED
        BY <4>1 DEF Vas
    <3>2. 0..(1 - 1) = {0}
      BY SMT
    <3>3. Whole(p)
      BY <2>4, <3>1, <3>2, <1>InitTables DEF Whole
    <3> QED
      BY <2>2, <2>4, <3>3, <1>InitTables DEF Slot
  <2> QED
    BY <2>3, <2>4
<1>11. ASSUME NEW p \in Procs PROVE Thread(p)
  <2>1. Progress(p)
    BY <1>8, StageIdle, SMT DEF Progress
  <2>2. Before(p)
    BY <1>8, HadUser DEF Before
  <2> QED
    BY <1>8, <2>1, <2>2 DEF Thread, Label, Claim
<1> QED
  BY <1>3, <1>4, <1>7, <1>9, <1>10, <1>11, <1>InitConserves DEF Inv

\* A step that changes nothing.
LEMMA StutterKeeps ==
    ASSUME Inv, UNCHANGED vars
    PROVE  Inv'
<1>1. /\ free' = free /\ state' = state /\ parent' = parent /\ sz' = sz
      /\ trapframe' = trapframe /\ root' = root /\ hi' = hi /\ lo' = lo /\ tramp' = tramp
      /\ user' = user /\ th' = th /\ panic' = panic
  BY DEF vars, procs, tables
<1>2. TypeInv' /\ TableType' /\ ThreadType' /\ ~panic'
  BY <1>1 DEF Inv, TypeInv, TableType, ThreadType
<1>3. \A k \in Tables : Rooted(k)'
  BY <1>1 DEF Inv, Rooted, NoTable
<1>4. \A p \in Procs : Slot(p)'
  BY <1>1 DEF Inv, Slot, Whole, Reaped, In, Active
<1>5. \A p \in Procs : Thread(p)'
  <2>1. ASSUME NEW p \in Procs PROVE Label(th[p])' /\ Claim(p)'
    <3>1. Label(th'[p]) /\ Claim(p)
      BY <1>1 DEF Inv, Thread
    <3>2. \A q, c : In(q, c)' <=> In(q, c)
      BY <1>1 DEF In, Active
    <3> QED
      BY <1>1, <3>1, <3>2 DEF Claim
  <2>2. \A p \in Procs : Progress(p)'
    BY <1>1 DEF Inv, Thread, Progress, Table
  <2>3. \A p \in Procs : Before(p)'
    BY <1>1 DEF Inv, Thread, Before
  <2> QED
    BY <2>1, <2>2, <2>3 DEF Thread
<1>6. PagesConserved'
  BY <1>1 DEF Inv, PagesConserved, Uses, Trapframes, Hands, InHand, Roots, Highs, Lows, Users
<1> QED
  BY <1>2, <1>3, <1>4, <1>5, <1>6 DEF Inv

----------------------------------------------------------------------------
\* The locals of a thread

Others(p) == \A q \in Procs : q # p => th'[q] = th[q]

\* p goes to l, in the same call.
Goes(p, l) == /\ Others(p) /\ th' = [q \in Procs |-> th'[q]] /\ DOMAIN th'[p] = Fields
              /\ th'[p].pc = l /\ th'[p].call = th[p].call /\ th'[p].np = th[p].np
              /\ th'[p].was = th[p].was

\* The numbers and sizes of p stay as they are.
Keeps(p) == /\ th'[p].base = th[p].base /\ th'[p].va = th[p].va /\ th'[p].want = th[p].want
            /\ th'[p].rest = th[p].rest

Numbers(p) == /\ th'[p].base \in Nat /\ th'[p].va \in Nat /\ th'[p].want \in Nat
              /\ th'[p].rest \in Seq(Nat)

\* No thread gets or gives up a page in hand.
LEMMA HandsSame ==
    ASSUME NEW p \in Procs, Others(p),
           th[p].pc \in {"map", "drop"} <=> th'[p].pc \in {"map", "drop"},
           th[p].pc \in {"map", "drop"} => th'[p].mem = th[p].mem
    PROVE  Hands' = Hands
<1>1. InHand' = InHand
  BY DEF InHand, Others
<1>2. \A q \in InHand : th'[q].mem = th[q].mem
  BY DEF InHand, Others
<1> QED
  BY <1>1, <1>2 DEF Hands

\* Set changes the locals it names, of one thread.
LEMMA SetIs ==
    ASSUME Inv, NEW p \in Procs, NEW f, Set(p, f)
    PROVE  /\ Others(p) /\ th' = [q \in Procs |-> th'[q]] /\ DOMAIN th'[p] = Fields
           /\ th'[p].pc = IF "pc" \in DOMAIN f THEN f.pc ELSE th[p].pc
           /\ th'[p].call = IF "call" \in DOMAIN f THEN f.call ELSE th[p].call
           /\ th'[p].np = IF "np" \in DOMAIN f THEN f.np ELSE th[p].np
           /\ th'[p].base = IF "base" \in DOMAIN f THEN f.base ELSE th[p].base
           /\ th'[p].va = IF "va" \in DOMAIN f THEN f.va ELSE th[p].va
           /\ th'[p].want = IF "want" \in DOMAIN f THEN f.want ELSE th[p].want
           /\ th'[p].mem = IF "mem" \in DOMAIN f THEN f.mem ELSE th[p].mem
           /\ th'[p].rest = IF "rest" \in DOMAIN f THEN f.rest ELSE th[p].rest
           /\ th'[p].res = IF "res" \in DOMAIN f THEN f.res ELSE th[p].res
           /\ th'[p].was = IF "was" \in DOMAIN f THEN f.was ELSE th[p].was
<1>1. ThreadType
  BY DEF Inv
<1>2. /\ Others(p) /\ th' = [q \in Procs |-> th'[q]] /\ DOMAIN th'[p] = Fields
      /\ \A x \in Fields : th'[p][x] = IF x \in DOMAIN f THEN f[x] ELSE th[p][x]
  <2>1. DOMAIN th = Procs /\ DOMAIN th[p] = Fields
    BY <1>1 DEF ThreadType
  <2>2. th' = [q \in Procs |-> IF q = p THEN With(th[p], f) ELSE th[q]]
    BY <2>1 DEF Set
  <2>3. th'[p] = With(th[p], f)
    BY <2>2
  <2>4. th'[p] = [x \in Fields |-> IF x \in DOMAIN f THEN f[x] ELSE th[p][x]]
    BY <2>1, <2>3 DEF With
  <2> QED
    BY <2>2, <2>4 DEF Others
<1> QED
  BY <1>2 DEF Fields

\* Types of locals, when those of p change.
LEMMA ThreadTypeKept ==
    ASSUME ThreadType, NEW p \in Procs, Others(p), th' = [q \in Procs |-> th'[q]],
           DOMAIN th'[p] = Fields, th'[p].np \in Procs, th'[p].base \in Nat,
           th'[p].va \in Nat, th'[p].want \in Nat, th'[p].rest \in Seq(Nat)
    PROVE  ThreadType'
  BY DEF ThreadType, Others

----------------------------------------------------------------------------
\* What a thread works on, no other thread looks at

SameSlot(r) == /\ state'[r] = state[r] /\ parent'[r] = parent[r] /\ sz'[r] = sz[r]
               /\ trapframe'[r] = trapframe[r]
SameTable(k) == /\ root'[k] = root[k] /\ hi'[k] = hi[k] /\ lo'[k] = lo[k]
                /\ tramp'[k] = tramp[k] /\ user'[k] = user[k]

\* A step of p in its call changes the process the call is about, its page table
\* and the table the call works on; all but one step change one table only.
Reaches(p) == /\ \A r \in Procs : r # th[p].np => SameSlot(r)
              /\ \A k \in Tables : k # Table(p) /\ k # Cur(th[p].np) => SameTable(k)
              /\ Others(p) /\ th'[p].call = th[p].call /\ th'[p].np = th[p].np
Touches(p) == /\ Reaches(p)
              /\ \A k \in Tables : k # Table(p) => SameTable(k)

\* Each process has two tables of its own.
LEMMA TablesAre ==
    /\ \A p \in Procs : Cur(p) \in Tables /\ New(p) \in Tables
    /\ \A p, q : Cur(p) # New(q)
    /\ \A p, q : Cur(p) = Cur(q) => p = q
    /\ \A p, q : New(p) = New(q) => p = q
  BY SMT DEF Tables, Cur, New

\* The table a thread works on is one of the tables.
LEMMA TableIn ==
    ASSUME ThreadType, NEW p \in Procs
    PROVE  th[p].np \in Procs /\ Table(p) \in Tables
  BY TablesAre DEF ThreadType, Table

\* A step of p keeps the invariant of every other thread.
LEMMA OthersKept ==
    ASSUME Inv, NEW p \in Procs, Active(p), Reaches(p), NEW q \in Procs, q # p
    PROVE  Thread(q)'
\* From the calls of two threads: what they are about differs.
<1>Apart.
    /\ th[q].pc # "user" => th[p].np # q
    /\ Active(q) => th[p].np # th[q].np
  <2>1. Label(th[p]) /\ Claim(p) /\ Label(th[q]) /\ Claim(q)
    BY DEF Inv, Thread
  <2>2. \/ In(p, "sbrk") \/ In(p, "exec") \/ In(p, "fork") \/ In(p, "wait")
    BY <2>1 DEF Label, In, Active
  <2>3. \/ th[p].np = p
        \/ In(p, "fork") /\ state[th[p].np] = "used"
        \/ In(p, "wait") /\ state[th[p].np] = "zombie" /\ parent[th[p].np] = p
    BY <2>1, <2>2 DEF Claim
  <2>4. ASSUME th[q].pc # "user" PROVE th[p].np # q
    <3>1. state[q] = "running"
      BY <2>1, <2>4 DEF Claim
    <3> QED
      BY <2>3, <3>1
  <2>5. ASSUME Active(q) PROVE th[p].np # th[q].np
    <3>1. \/ In(q, "sbrk") \/ In(q, "exec") \/ In(q, "fork") \/ In(q, "wait")
      BY <2>1, <2>5 DEF Label, In, Active
    <3>2. \/ th[q].np = q
          \/ In(q, "fork") /\ state[th[q].np] = "used"
          \/ In(q, "wait") /\ state[th[q].np] = "zombie" /\ parent[th[q].np] = q
      BY <2>1, <3>1 DEF Claim
    <3>3. state[p] = "running" /\ state[q] = "running"
      BY <2>1, <2>5 DEF Claim, Active
    <3>4. In(p, "fork") /\ In(q, "fork") => th[p].np # th[q].np
      BY <2>1 DEF Claim
    <3> QED
      BY <2>3, <3>2, <3>3, <3>4
  <2> QED
    BY <2>4, <2>5

\* So do the tables they work on, and the tables of a process in a call.
<1>TablesApart.
    /\ Table(p) # New(q) /\ Cur(th[p].np) # New(q)
    /\ th[q].pc # "user" => Table(p) # Cur(q) /\ Cur(th[p].np) # Cur(q)
    /\ Active(q) => Table(p) # Table(q) /\ Cur(th[p].np) # Table(q)
  <2>1. Table(p) = New(p) \/ Table(p) = Cur(th[p].np)
    BY DEF Table
  <2>2. Table(q) = New(q) \/ Table(q) = Cur(th[q].np)
    BY DEF Table
  <2> QED
    BY <2>1, <2>2, <1>Apart, TablesAre

<1>1. Label(th[q]) /\ Claim(q) /\ Progress(q) /\ Before(q)
  BY DEF Inv, Thread
<1>2. th'[q] = th[q]
  BY DEF Reaches, Others
<1>3. Label(th[q])'
  BY <1>1, <1>2
<1>4. Cur(q) \in Tables /\ th[q].np \in Procs /\ Table(q) \in Tables
  BY TablesAre, TableIn DEF Inv
<1>5. th[q].pc # "user" => SameTable(Cur(q)) /\ SameSlot(q)
  BY <1>4, <1>Apart, <1>TablesApart DEF Reaches
<1>6. Active(q) => SameTable(Table(q)) /\ SameSlot(th[q].np)
  BY <1>4, <1>Apart, <1>TablesApart DEF Reaches
<1>7. \A c : In(q, c)' <=> In(q, c)
  BY <1>2 DEF In, Active
<1>8. Claim(q)'
  <2>1. th'[q].pc # "user" => state'[q] = "running"
    BY <1>1, <1>2, <1>5 DEF Claim, SameSlot
  <2>2. In(q, "sbrk")' \/ In(q, "exec")' => th'[q].np = q
    BY <1>1, <1>2, <1>7 DEF Claim
  <2>3. In(q, "fork")' => state'[th'[q].np] = "used" /\ sz'[th'[q].np] = 0
    BY <1>1, <1>2, <1>6, <1>7 DEF Claim, SameSlot, In
  <2>4. In(q, "wait")' => state'[th'[q].np] = "zombie" /\ parent'[th'[q].np] = q
    BY <1>1, <1>2, <1>6, <1>7 DEF Claim, SameSlot, In
  <2>5. ASSUME NEW r \in Procs, In(q, "fork")', In(r, "fork")', th'[q].np = th'[r].np
        PROVE  q = r
    <3>1. CASE r = p
      <4>1. th'[p].np = th[p].np /\ Active(q)
        BY <2>5, <1>7 DEF Reaches, In
      <4> QED
        BY <2>5, <3>1, <4>1, <1>2, <1>Apart
    <3>2. CASE r # p
      <4>1. th'[r] = th[r]
        BY <3>2 DEF Reaches, Others
      <4>2. In(q, "fork") /\ In(r, "fork") /\ th[q].np = th[r].np
        BY <2>5, <4>1, <1>2 DEF In, Active
      <4> QED
        BY <1>1, <4>2 DEF Claim
    <3> QED
      BY <3>1, <3>2
  <2> QED
    BY <2>1, <2>2, <2>3, <2>4, <2>5 DEF Claim
<1>9. Progress(q)'
  <2>1. CASE Active(q)
    <3>1. Table(q)' = Table(q)
      BY <1>2 DEF Table
    <3>2. sz'[q] = sz[q]
      BY <2>1, <1>5 DEF Active, SameSlot
    <3>3. /\ root'[Table(q)] = root[Table(q)] /\ tramp'[Table(q)] = tramp[Table(q)]
          /\ user'[Table(q)] = user[Table(q)] /\ sz'[th[q].np] = sz[th[q].np]
          /\ trapframe'[th[q].np] = trapframe[th[q].np]
      BY <2>1, <1>6 DEF SameTable, SameSlot
    <3> QED
      BY <1>1, <1>2, <3>1, <3>2, <3>3 DEF Progress
  <2>2. CASE ~Active(q)
    <3>1. th'[q].pc \in {"user", "ret"}
      BY <2>2, <1>2 DEF Active
    <3> QED
      BY <3>1, StageIdle, SMT DEF Progress
  <2> QED
    BY <2>1, <2>2
<1>10. Before(q)'
  <2>1. CASE th[q].pc # "user"
    BY <2>1, <1>1, <1>2, <1>5 DEF Before, SameTable, SameSlot
  <2>2. CASE th[q].pc = "user"
    BY <2>2, <1>2, HadUser DEF Before
  <2> QED
    BY <2>1, <2>2
<1> QED
  BY <1>3, <1>8, <1>9, <1>10 DEF Thread

\* A step of p keeps the invariant of the slots it is not about.
LEMMA SlotsKept ==
    ASSUME Inv, NEW p \in Procs, Active(p), Reaches(p), NEW r \in Procs, r # p, r # th[p].np
    PROVE  Slot(r)'
<1>1. Slot(r) /\ th'[r] = th[r] /\ SameSlot(r)
  BY DEF Inv, Reaches, Others
<1>2. SameTable(Cur(r)) /\ SameTable(New(r))
  <2>1. Table(p) = New(p) \/ Table(p) = Cur(th[p].np)
    BY DEF Table
  <2> QED
    BY <2>1, TablesAre DEF Reaches
<1>3. \A c : In(r, c)' <=> In(r, c)
  BY <1>1 DEF In, Active
<1>4. Reaped(r) => Reaped(r)'
  <2> SUFFICES ASSUME Reaped(r) PROVE Reaped(r)'
    OBVIOUS
  <2>1. PICK q \in Procs : In(q, "wait") /\ th[q].np = r
    BY DEF Reaped
  <2>2. q # p
    BY <2>1
  <2>3. th'[q] = th[q]
    BY <2>2 DEF Reaches, Others
  <2>4. In(q, "wait")' /\ th'[q].np = r
    BY <2>1, <2>3 DEF In, Active
  <2> QED
    BY <2>4 DEF Reaped
<1>5. Whole(r) => Whole(r)'
  BY <1>1, <1>2 DEF Whole, SameSlot, SameTable
<1>6. /\ state'[r] = state[r] /\ root'[Cur(r)] = root[Cur(r)] /\ root'[New(r)] = root[New(r)]
      /\ trapframe'[r] = trapframe[r] /\ sz'[r] = sz[r]
  BY <1>1, <1>2 DEF SameSlot, SameTable
<1> QED
  BY <1>1, <1>3, <1>4, <1>5, <1>6 DEF Slot

\* What the invariant says of one thread.
LEMMA Start ==
    ASSUME Inv, NEW p \in Procs
    PROVE  /\ TypeInv /\ TableType /\ ThreadType /\ PagesConserved /\ ~panic
           /\ Label(th[p]) /\ Claim(p) /\ Before(p)
           /\ th[p].np \in Procs /\ Table(p) \in Tables /\ Rooted(Table(p))
           /\ th[p].base \in Nat /\ th[p].va \in Nat /\ th[p].want \in Nat
           /\ th[p].rest \in Seq(Nat)
           /\ Stage(th[p], root[Table(p)], tramp[Table(p)], user[Table(p)],
                    trapframe[th[p].np], sz[p], sz[th[p].np])
<1>1. TypeInv /\ TableType /\ ThreadType /\ PagesConserved /\ ~panic
  BY DEF Inv
<1>2. Label(th[p]) /\ Claim(p) /\ Before(p) /\ Progress(p)
  BY DEF Inv, Thread
<1>3. th[p].np \in Procs /\ Table(p) \in Tables
  BY <1>1, TableIn
<1>4. Rooted(Table(p))
  BY <1>3 DEF Inv
<1>5. /\ th[p].base \in Nat /\ th[p].va \in Nat /\ th[p].want \in Nat
      /\ th[p].rest \in Seq(Nat)
  BY <1>1 DEF ThreadType
<1> QED
  BY <1>1, <1>2, <1>3, <1>4, <1>5 DEF Progress

\* The memory of a process in a call of its own other than sbrk is whole.
LEMMA CallerWhole ==
    ASSUME Inv, NEW p \in Procs, th[p].pc # "user", ~In(p, "sbrk")
    PROVE  Whole(p) /\ state[p] = "running"
  BY DEF Inv, Thread, Claim, Slot

----------------------------------------------------------------------------
\* The steps outside a call, and those that begin one

\* A step of p that touches no memory, with p not in the middle of a call before.
Quiet(p) == /\ Others(p) /\ ~Active(p) /\ th'[p].pc \notin {"map", "drop"}
            /\ UNCHANGED <<free, sz, trapframe, tables, panic>>
            /\ \A r \in Procs : \/ state'[r] = state[r]
                                \/ state[r] = "unused" /\ state'[r] = "used"
                                \/ r = p /\ state[p] = "running" /\ state'[p] = "zombie"
            /\ \A r \in Procs : parent[r] # p => parent'[r] = parent[r]
            /\ In(p, "fork")' => state[th'[p].np] = "unused"

\* p enters the call c at l; was is what it has.
Enters(p, c, np, l) ==
    /\ th[p].pc = "user" /\ state[p] = "running" /\ ~panic
    /\ Others(p) /\ th' = [q \in Procs |-> th'[q]] /\ DOMAIN th'[p] = Fields
    /\ th'[p].pc = l /\ th'[p].call = c /\ th'[p].np = np
    /\ th'[p].res = 0 /\ th'[p].was = <<user[Cur(p)], sz[p]>>

\* A range is split at a.
LEMMA RangeSplit ==
    ASSUME NEW a \in Nat, NEW v \in Nat, a <= v
    PROVE  0..(v - 1) = 0..(a - 1) \cup a..(v - 1)
  BY SMT

\* The steps that begin a call or end one, and exit.
LEMMA BeginKeeps ==
    ASSUME Inv, NEW p \in Procs, Begin(p) \/ Leave(p)
    PROVE  Inv'
\* A step of p that touches no page and no table.
<1>QuietStep.
    ASSUME Quiet(p), Thread(p)', ThreadType', TypeInv'
    PROVE  Inv'
  <2> USE <1>QuietStep
  <2>1. TypeInv /\ TableType /\ ThreadType /\ PagesConserved /\ ~panic
    BY Start
  <2>2. /\ free' = free /\ sz' = sz /\ trapframe' = trapframe /\ panic' = panic
        /\ root' = root /\ hi' = hi /\ lo' = lo /\ tramp' = tramp /\ user' = user
    BY DEF Quiet, tables
  <2>3. \A q \in Procs : q # p => th'[q] = th[q]
    BY DEF Quiet, Others
  <2>4. \A q \in Procs : q # p => \A c : In(q, c)' <=> In(q, c)
    BY <2>3 DEF In, Active
  <2>5. ~Active(p) /\ \A c : ~In(p, c)
    BY DEF Quiet, In
  <2>6. ASSUME NEW q \in Procs, q # p PROVE Thread(q)'
    <3>1. Label(th[q]) /\ Claim(q) /\ Progress(q) /\ Before(q)
      BY DEF Inv, Thread
    <3>2. Table(q)' = Table(q)
      BY <2>3, <2>6 DEF Table
    <3>3. Label(th'[q]) /\ Progress(q)' /\ Before(q)'
      BY <2>2, <2>3, <2>6, <3>1, <3>2 DEF Progress, Before
    <3>4. th'[q].pc # "user" => state'[q] = "running"
      BY <2>3, <2>6, <3>1 DEF Claim, Quiet
    <3>5. In(q, "sbrk")' \/ In(q, "exec")' => th'[q].np = q
      BY <2>3, <2>4, <2>6, <3>1 DEF Claim
    <3>6. th[q].np \in Procs
      BY <2>1 DEF ThreadType
    <3>7. In(q, "fork")' => state'[th'[q].np] = "used" /\ sz'[th'[q].np] = 0
      <4>1. ASSUME In(q, "fork") PROVE state[th[q].np] = "used" /\ sz[th[q].np] = 0
        BY <3>1, <4>1 DEF Claim
      <4>2. ASSUME state[th[q].np] = "used" PROVE state'[th[q].np] = "used"
        BY <3>6, <4>2 DEF Quiet
      <4> QED
        BY <2>2, <2>3, <2>4, <2>6, <4>1, <4>2
    <3>8. In(q, "wait")' => state'[th'[q].np] = "zombie" /\ parent'[th'[q].np] = q
      <4>1. ASSUME In(q, "wait") PROVE state[th[q].np] = "zombie" /\ parent[th[q].np] = q
        BY <3>1, <4>1 DEF Claim
      <4>2. ASSUME state[th[q].np] = "zombie" PROVE state'[th[q].np] = "zombie"
        BY <3>6, <4>2 DEF Quiet
      <4>3. ASSUME parent[th[q].np] = q PROVE parent'[th[q].np] = q
        BY <2>6, <3>6, <4>3 DEF Quiet
      <4> QED
        BY <2>3, <2>4, <2>6, <4>1, <4>2, <4>3
    <3>9. ASSUME NEW r \in Procs, In(q, "fork")', In(r, "fork")', th'[q].np = th'[r].np
          PROVE  q = r
      <4>1. In(q, "fork") /\ state[th[q].np] = "used"
        BY <2>4, <2>6, <3>1, <3>9 DEF Claim
      <4>2. r # p
        BY <2>3, <2>6, <3>9, <4>1 DEF Quiet
      <4>3. In(r, "fork") /\ th[q].np = th[r].np
        BY <2>3, <2>4, <2>6, <3>9, <4>2
      <4> QED
        BY <3>1, <4>1, <4>3 DEF Claim
    <3> QED
      BY <3>3, <3>4, <3>5, <3>7, <3>8, <3>9 DEF Thread, Claim
  <2>7. ASSUME NEW r \in Procs PROVE Slot(r)'
    <3>1. Slot(r)
      BY DEF Inv
    <3>2. ~In(r, "exec")' => root'[New(r)] = NULL
      BY <2>2, <2>4, <2>5, <3>1 DEF Slot
    <3>3. state'[r] = "unused" => root'[Cur(r)] = NULL /\ trapframe'[r] = NULL /\ sz'[r] = 0
      BY <2>2, <3>1 DEF Slot, Quiet
    <3>4. Whole(r) => Whole(r)'
      BY <2>2 DEF Whole
    <3>5. state'[r] = "running" /\ ~In(r, "sbrk")' => Whole(r)
      BY <2>4, <2>5, <3>1 DEF Slot, Quiet
    <3>6. Reaped(r) => Reaped(r)'
      <4> SUFFICES ASSUME Reaped(r) PROVE Reaped(r)'
        OBVIOUS
      <4>1. PICK q \in Procs : In(q, "wait") /\ th[q].np = r
        BY DEF Reaped
      <4>2. q # p
        BY <2>5, <4>1
      <4> QED
        BY <2>3, <2>4, <4>1, <4>2 DEF Reaped
    <3>7. state'[r] = "zombie" /\ ~Reaped(r)' => Whole(r)
      BY <2>5, <3>1, <3>6 DEF Slot, Quiet
    <3> QED
      BY <3>2, <3>3, <3>4, <3>5, <3>7 DEF Slot
  <2>8. TableType' /\ ~panic'
    <3>1. TableType'
      BY <2>1, <2>2 DEF TableType
    <3>2. ~panic'
      BY <2>2, StillFine
    <3> QED
      BY <3>1, <3>2
  <2>9. PagesConserved'
    <3>1. Hands' = Hands
      BY <2>5, HandsSame DEF Quiet, Active
    <3>2. /\ Trapframes' = Trapframes /\ Roots' = Roots /\ Highs' = Highs /\ Lows' = Lows
          /\ Users' = Users
      BY <2>2 DEF Trapframes, Roots, Highs, Lows, Users
    <3> QED
      BY <2>1, <2>2, <3>1, <3>2 DEF PagesConserved, Uses
  <2>10. \A k \in Tables : Rooted(k)'
    BY <2>2 DEF Inv, Rooted, NoTable
  <2> QED
    BY <2>6, <2>7, <2>8, <2>9, <2>10 DEF Inv

\* A thread outside the kernel.
<1>IdleThread.
    ASSUME th'[p].pc = "user"
    PROVE  Thread(p)'
  <2> USE <1>IdleThread
  <2>1. th'[p].pc \in {"user", "ret"} /\ \A c : ~In(p, c)'
    BY DEF In, Active
  <2>2. Progress(p)'
    BY <2>1, StageIdle, SMT DEF Progress
  <2>3. Before(p)'
    BY HadUser DEF Before
  <2> QED
    BY <2>1, <2>2, <2>3 DEF Thread, Label, Claim

\* A call returns to user space.
<1>LeaveKeeps.
    ASSUME Leave(p)
    PROVE  Inv'
  <2> USE <1>LeaveKeeps
  <2>1. TypeInv /\ ThreadType /\ th[p].pc = "ret"
    BY Start DEF Leave, At
  <2>2. th' = [th EXCEPT ![p] = Idle]
    BY DEF Leave
  <2>3. Others(p) /\ th'[p] = Idle /\ th' = [q \in Procs |-> th'[q]]
    BY <2>1, <2>2 DEF ThreadType, Others
  <2>4. /\ Idle.pc = "user" /\ Idle.np = initproc /\ Idle.base = 0 /\ Idle.va = 0
        /\ Idle.want = 0 /\ Idle.rest = <<>> /\ DOMAIN Idle = Fields
    BY SMT DEF Idle, Fields
  <2>5. ThreadType'
    <3>1. 0 \in Nat /\ <<>> \in Seq(Nat)
      BY SMT
    <3> QED
      BY <2>1, <2>3, <2>4, <3>1, ThreadTypeKept, UvmAssumption
  <2>6. Thread(p)'
    BY <2>3, <2>4, <1>IdleThread
  <2>7. UNCHANGED <<free, procs, tables, panic>>
    BY DEF Leave
  <2>8. TypeInv'
    BY <2>1, <2>7 DEF TypeInv, procs
  <2>9. Quiet(p)
    BY <2>1, <2>3, <2>4, <2>7 DEF Quiet, procs, Active, In
  <2> QED
    BY <2>5, <2>6, <2>8, <2>9, <1>QuietStep

\* exit leaves the memory whole for wait.
<1>ExitKeeps.
    ASSUME Exit(p)
    PROVE  Inv'
  <2> USE <1>ExitKeeps
  <2>1. TypeInv /\ ThreadType /\ th[p].pc = "user" /\ state[p] = "running"
    BY Start DEF Exit, At
  <2>2. /\ state' = [state EXCEPT ![p] = "zombie"]
        /\ parent' = [c \in Procs |-> IF parent[c] = p THEN initproc ELSE parent[c]]
        /\ UNCHANGED <<free, sz, trapframe, tables, panic>> /\ th' = th
    BY DEF Exit
  <2>3. ThreadType'
    BY <2>1, <2>2 DEF ThreadType
  <2>4. Thread(p)'
    BY <2>1, <2>2, <1>IdleThread
  <2>5. TypeInv'
    <3>1. state' \in [Procs -> States]
      <4>1. "zombie" \in States
        BY DEF States
      <4> QED
        BY <2>1, <2>2, <4>1 DEF TypeInv
    <3>2. parent' \in [Procs -> Procs \cup {NULL}]
      BY <2>1, <2>2, UvmAssumption DEF TypeInv
    <3> QED
      BY <2>1, <2>2, <3>1, <3>2 DEF TypeInv
  <2>6. Quiet(p)
    <3>1. \A r \in Procs : \/ state'[r] = state[r]
                           \/ r = p /\ state[p] = "running" /\ state'[p] = "zombie"
      BY <2>1, <2>2 DEF TypeInv
    <3>2. \A r \in Procs : parent[r] # p => parent'[r] = parent[r]
      BY <2>2
    <3> QED
      BY <2>1, <2>2, <3>1, <3>2 DEF Quiet, Others, Active, In
  <2> QED
    BY <2>3, <2>4, <2>5, <2>6, <1>QuietStep

\* The process that calls has all its pages below its size, and no second table.
<1>CallerHas.
    ASSUME th[p].pc = "user", state[p] = "running"
    PROVE  /\ Whole(p) /\ root[New(p)] = NULL /\ ~Active(p) /\ sz[p] \in Nat
           /\ {e \in user[Cur(p)] : e[1] < sz[p]} = user[Cur(p)]
  <2> USE <1>CallerHas
  <2>1. ~Active(p) /\ \A c : ~In(p, c)
    BY DEF Active, In
  <2>2. Whole(p) /\ root[New(p)] = NULL
    BY <2>1 DEF Inv, Slot
  <2>3. sz[p] \in Nat
    BY DEF Inv, TypeInv
  <2>4. ASSUME NEW e \in user[Cur(p)] PROVE e[1] < sz[p]
    <3>1. PICK v \in 0..(sz[p] - 1) : v = e[1]
      BY <2>2, <2>4 DEF Whole, Vas
    <3>2. v < sz[p]
      BY <2>3, <3>1, SMT
    <3> QED
      BY <3>1, <3>2
  <2> QED
    BY <2>1, <2>2, <2>3, <2>4

\* A call that begins without a change to memory or to the state of p.
<1>BeginStep.
    ASSUME NEW c, NEW np \in Procs, NEW l, Enters(p, c, np, l),
           l \notin {"user", "ret", "map", "drop"}, Numbers(p), TypeInv',
           UNCHANGED <<free, parent, sz, trapframe, tables, panic>>,
           \A r \in Procs : \/ state'[r] = state[r]
                            \/ state[r] = "unused" /\ state'[r] = "used",
           c = "fork" => state[np] = "unused", Label(th'[p]), Claim(p)', Progress(p)',
           Before(p)'
    PROVE  Inv'
  <2> USE <1>BeginStep
  <2>1. ThreadType
    BY Start
  <2>2. ThreadType'
    BY <2>1, ThreadTypeKept DEF Enters, Numbers
  <2>3. Quiet(p)
    BY DEF Quiet, Enters, Active, In
  <2>4. Thread(p)'
    BY DEF Thread
  <2> QED
    BY <2>2, <2>3, <2>4, <1>QuietStep

\* CallFields, field by field.
<1>CallIs.
    ASSUME ThreadType, NEW c, NEW np, NEW l, NEW f, Call(p, c, np, l, f),
           DOMAIN f \subseteq {"base", "va", "want", "rest"}
    PROVE  /\ Enters(p, c, np, l)
           /\ th'[p].base = IF "base" \in DOMAIN f THEN f.base ELSE 0
           /\ th'[p].va = IF "va" \in DOMAIN f THEN f.va ELSE 0
           /\ th'[p].want = IF "want" \in DOMAIN f THEN f.want ELSE 0
           /\ th'[p].rest = IF "rest" \in DOMAIN f THEN f.rest ELSE <<>>
  <2> USE <1>CallIs
  \* Call starts from the locals of Idle, except for those that it or f names.
  <2>CallFields.
      /\ Others(p) /\ th' = [q \in Procs |-> th'[q]] /\ DOMAIN th'[p] = Fields
      /\ th'[p].pc = l /\ th'[p].call = c /\ th'[p].np = np
      /\ th'[p].mem = NULL /\ th'[p].res = 0 /\ th'[p].was = <<user[Cur(p)], sz[p]>>
      /\ \A x \in {"base", "va", "want", "rest"} :
           th'[p][x] = IF x \in DOMAIN f THEN f[x] ELSE Idle[x]
    <3> DEFINE r == [Idle EXCEPT !.pc = l, !.call = c, !.np = np, !.was = <<user[Cur(p)], sz[p]>>]
    <3>1. DOMAIN th = Procs
      BY DEF ThreadType
    <3>2. th' = [q \in Procs |-> IF q = p THEN With(r, f) ELSE th[q]]
      BY <3>1 DEF Call
    <3>3. th'[p] = With(r, f)
      BY <3>2
    <3>4. /\ DOMAIN r = Fields
          /\ r.pc = l /\ r.call = c /\ r.np = np /\ r.was = <<user[Cur(p)], sz[p]>>
          /\ r.mem = NULL /\ r.res = 0 /\ r.base = Idle.base /\ r.va = Idle.va
          /\ r.want = Idle.want /\ r.rest = Idle.rest
      BY SMT DEF Idle, Fields
    <3> HIDE DEF r
    <3>5. th'[p] = [x \in Fields |-> IF x \in DOMAIN f THEN f[x] ELSE r[x]]
      BY <3>3, <3>4 DEF With
    <3>6. /\ "pc" \in Fields \ DOMAIN f /\ "call" \in Fields \ DOMAIN f
          /\ "np" \in Fields \ DOMAIN f
          /\ "mem" \in Fields \ DOMAIN f /\ "res" \in Fields \ DOMAIN f
          /\ "was" \in Fields \ DOMAIN f
          /\ {"base", "va", "want", "rest"} \subseteq Fields
      BY SMT DEF Fields
    <3>7. \A x \in {"base", "va", "want", "rest"} : r[x] = Idle[x]
      BY <3>4
    <3>8. \A x \in {"base", "va", "want", "rest"} :
             th'[p][x] = IF x \in DOMAIN f THEN f[x] ELSE Idle[x]
      BY <3>5, <3>6, <3>7
    <3>9. \A x \in Fields \ DOMAIN f : th'[p][x] = r[x]
      BY <3>5
    <3>10. /\ th'[p].pc = r.pc /\ th'[p].call = r.call /\ th'[p].np = r.np
           /\ th'[p].mem = r.mem /\ th'[p].res = r.res /\ th'[p].was = r.was
      BY <3>6, <3>9
    <3> QED
      BY <3>2, <3>4, <3>5, <3>8, <3>10 DEF Others

  <2>1. /\ Others(p) /\ th' = [q \in Procs |-> th'[q]] /\ DOMAIN th'[p] = Fields
        /\ th'[p].pc = l /\ th'[p].call = c /\ th'[p].np = np
        /\ th'[p].mem = NULL /\ th'[p].res = 0 /\ th'[p].was = <<user[Cur(p)], sz[p]>>
        /\ \A x \in {"base", "va", "want", "rest"} :
             th'[p][x] = IF x \in DOMAIN f THEN f[x] ELSE Idle[x]
    BY <2>CallFields, SMT
  <2>2. Enters(p, c, np, l)
    BY <2>1 DEF Enters, Call, At
  <2>3. Idle.base = 0 /\ Idle.va = 0 /\ Idle.want = 0 /\ Idle.rest = <<>>
    BY SMT DEF Idle
  <2> QED
    BY <2>1, <2>2, <2>3

\* sbrk begins with all pages below sz mapped and no others.
<1>SbrkKeeps.
    ASSUME NEW n \in Nat, Sbrk(p, n)
    PROVE  Inv'
  <2> USE <1>SbrkKeeps
  <2>1. TypeInv /\ ThreadType
    BY Start
  <2>2. PICK s \in Nat : s = sz[p]
    BY <2>1 DEF TypeInv
  <2>3. /\ free' = free /\ state' = state /\ parent' = parent /\ sz' = sz
        /\ trapframe' = trapframe /\ panic' = panic /\ UNCHANGED tables
        /\ root' = root /\ tramp' = tramp /\ user' = user
    BY DEF Sbrk, procs, tables
  <2>4. TypeInv'
    BY <2>1, <2>3 DEF TypeInv
  <2>5. <<>> \in Seq(Nat)
    BY SMT
  <2>6. PICK l \in {"mem", "shrink"} :
            /\ Enters(p, "sbrk", p, l) /\ th'[p].rest = <<>>
            /\ l = "mem" => /\ th'[p].base = s /\ th'[p].va = s /\ th'[p].want = n
                            /\ s <= n
            /\ l = "shrink" => /\ th'[p].base = n /\ th'[p].va = n /\ th'[p].want = s
                               /\ n <= s
    <3>1. CASE n > s
      <4>1. Call(p, "sbrk", p, "mem", [base |-> s, va |-> s, want |-> n])
        BY <2>2, <3>1 DEF Sbrk
      <4>2. /\ Enters(p, "sbrk", p, "mem") /\ th'[p].rest = <<>>
            /\ th'[p].base = s /\ th'[p].va = s /\ th'[p].want = n
        BY <2>1, <4>1, <1>CallIs, SMT
      <4>3. s <= n
        BY <3>1, SMT
      <4> QED
        BY <4>2, <4>3
    <3>2. CASE ~(n > s)
      <4>1. Call(p, "sbrk", p, "shrink", [va |-> n, want |-> s, base |-> n])
        BY <2>2, <3>2 DEF Sbrk
      <4>2. /\ Enters(p, "sbrk", p, "shrink") /\ th'[p].rest = <<>>
            /\ th'[p].base = n /\ th'[p].va = n /\ th'[p].want = s
        BY <2>1, <4>1, <1>CallIs, SMT
      <4>3. n <= s
        BY <3>2, SMT
      <4> QED
        BY <4>2, <4>3
    <3> QED
      BY <3>1, <3>2
  <2>7. /\ Whole(p) /\ {e \in user[Cur(p)] : e[1] < s} = user[Cur(p)]
    BY <2>2, <2>6, <1>CallerHas DEF Enters
  <2>8. Numbers(p) /\ Label(th'[p])
    BY <2>5, <2>6 DEF Numbers, Label, Enters, Building
  <2>9. Claim(p)'
    BY <2>3, <2>6 DEF Claim, Enters, In
  <2>10. Progress(p)'
    <3>1. Table(p)' = Cur(p)
      BY <2>6 DEF Table, Enters
    <3>2. tramp'[Cur(p)] /\ Vas(user'[Cur(p)]) = 0..(s - 1)
      BY <2>2, <2>3, <2>7 DEF Whole
    <3>3. CASE l = "mem"
      BY <2>6, <3>1, <3>2, <3>3, SMT DEF Progress, Stage, Enters, Opening, Building
    <3>4. CASE l = "shrink"
      <4>1. 0..(s - 1) = 0..(n - 1) \cup n..(s - 1)
        BY <2>6, <3>4, RangeSplit
      <4> QED
        BY <2>6, <3>1, <3>2, <3>4, <4>1, SMT DEF Progress, Stage, Enters, Opening, Building
    <3> QED
      BY <3>3, <3>4
  <2>11. Before(p)'
    <3>1. th'[p].was = <<{e \in user'[Cur(p)] : e[1] < sz'[p]}, sz'[p]>>
      BY <2>2, <2>3, <2>6, <2>7 DEF Enters
    <3>2. CASE l = "mem"
      BY <2>2, <2>3, <2>6, <3>1, <3>2 DEF Before, Had, Enters, Building
    <3>3. CASE l = "shrink"
      BY <2>6, <3>3 DEF Before, Had, Enters, Building
    <3> QED
      BY <3>2, <3>3
  <2>12. \A r \in Procs : state'[r] = state[r]
    BY <2>3
  <2>13. l \notin {"user", "ret", "map", "drop"}
    BY <2>6
  <2> QED
    BY <2>3, <2>4, <2>6, <2>8, <2>9, <2>10, <2>11, <2>12, <2>13, <1>BeginStep

\* fork begins with a slot that has nothing.
<1>ForkKeeps.
    ASSUME NEW np \in Procs, Fork(p, np)
    PROVE  Inv'
  <2> USE <1>ForkKeeps
  <2>1. TypeInv /\ ThreadType
    BY Start
  <2>2. PICK s \in Nat : s = sz[p]
    BY <2>1 DEF TypeInv
  <2>3. /\ state[np] = "unused" /\ state' = [state EXCEPT ![np] = "used"]
        /\ UNCHANGED <<free, parent, sz, trapframe, tables, panic>>
        /\ sz' = sz /\ trapframe' = trapframe /\ root' = root /\ user' = user
    BY DEF Fork, tables
  <2>4. /\ Enters(p, "fork", np, "trapframe") /\ th'[p].rest = <<>>
        /\ th'[p].base = 0 /\ th'[p].va = 0 /\ th'[p].want = s
    <3>1. Call(p, "fork", np, "trapframe", [want |-> s])
      BY <2>2 DEF Fork
    <3> QED
      BY <2>1, <3>1, <1>CallIs, SMT
  <2>5. TypeInv'
    <3>1. state' \in [Procs -> States]
      <4>1. "used" \in States
        BY DEF States
      <4> QED
        BY <2>1, <2>3, <4>1 DEF TypeInv
    <3> QED
      BY <2>1, <2>3, <3>1 DEF TypeInv
  <2>6. state'[np] = "used" /\ \A r \in Procs : r # np => state'[r] = state[r]
    BY <2>1, <2>3 DEF TypeInv
  <2>7. root[Cur(np)] = NULL /\ trapframe[np] = NULL /\ sz[np] = 0
    BY <2>3 DEF Inv, Slot
  <2>8. Numbers(p) /\ Label(th'[p])
    <3>1. 0 \in Nat /\ <<>> \in Seq(Nat)
      BY SMT
    <3> QED
      BY <2>4, <3>1 DEF Numbers, Label, Enters
  <2>9. Claim(p)'
    <3>1. state'[p] = "running"
      BY <2>3, <2>4, <2>6 DEF Enters
    <3>2. ASSUME NEW q \in Procs, In(q, "fork")', th'[q].np = np PROVE q = p
      <4>1. CASE q # p
        <5>1. th'[q] = th[q]
          BY <2>4, <4>1 DEF Enters, Others
        <5>2. In(q, "fork") /\ th[q].np = np
          BY <3>2, <5>1 DEF In, Active
        <5>3. state[np] = "used"
          BY <5>2 DEF Inv, Thread, Claim
        <5> QED
          BY <2>3, <5>3
      <4> QED
        BY <4>1
    <3>3. th'[p].np = np /\ th'[p].call = "fork"
      BY <2>4 DEF Enters
    <3> QED
      BY <2>3, <2>6, <2>7, <3>1, <3>2, <3>3 DEF Claim, In
  <2>10. Progress(p)'
    <3>1. Table(p)' = Cur(np) /\ th'[p].np = np
      BY <2>4 DEF Table, Enters
    <3> QED
      BY <2>2, <2>3, <2>4, <2>7, <3>1, SMT DEF Progress, Stage, Enters, Opening, Building
  <2>11. Before(p)'
    BY <2>3, <2>4 DEF Before, Had, Enters
  <2>12. \A r \in Procs : \/ state'[r] = state[r]
                          \/ state[r] = "unused" /\ state'[r] = "used"
    BY <2>3, <2>6
  <2> QED
    BY <2>3, <2>4, <2>5, <2>8, <2>9, <2>10, <2>11, <2>12, <1>BeginStep

\* exec begins with no second table.
<1>ExecKeeps.
    ASSUME NEW image \in Images, Exec(p, image)
    PROVE  Inv'
  <2> USE <1>ExecKeeps
  <2>1. TypeInv /\ ThreadType
    BY Start
  <2>2. /\ free' = free /\ state' = state /\ parent' = parent /\ sz' = sz
        /\ trapframe' = trapframe /\ panic' = panic /\ UNCHANGED tables
        /\ root' = root /\ user' = user
    BY DEF Exec, procs, tables
  <2>3. /\ Enters(p, "exec", p, "root") /\ th'[p].rest = image
        /\ th'[p].base = 0 /\ th'[p].va = 0 /\ th'[p].want = 0
    <3>1. Call(p, "exec", p, "root", [rest |-> image])
      BY DEF Exec
    <3> QED
      BY <2>1, <3>1, <1>CallIs, SMT
  <2>4. TypeInv'
    BY <2>1, <2>2 DEF TypeInv
  <2>5. Numbers(p) /\ Label(th'[p])
    <3>1. 0 \in Nat
      BY SMT
    <3>2. image \in Seq(Nat)
      <4>1. image \in Seq(1..MaxSize)
        BY UvmAssumption
      <4>2. \A i \in 1..Len(image) : image[i] \in Nat
        BY <4>1, UvmAssumption, SMT
      <4> QED
        BY <4>1, <4>2, SMT
    <3> QED
      BY <2>3, <3>1, <3>2 DEF Numbers, Label, Enters
  <2>6. root[New(p)] = NULL
    BY <2>3, <1>CallerHas DEF Enters
  <2>7. Claim(p)'
    BY <2>2, <2>3 DEF Claim, Enters, In
  <2>8. Progress(p)'
    <3>1. Table(p)' = New(p)
      BY <2>3 DEF Table, Enters
    <3> QED
      BY <2>2, <2>3, <2>6, <3>1, SMT DEF Progress, Stage, Enters, Opening, Building
  <2>9. Before(p)'
    BY <2>2, <2>3 DEF Before, Had, Enters
  <2> QED
    BY <2>2, <2>3, <2>4, <2>5, <2>7, <2>8, <2>9, <1>BeginStep

\* wait begins with a zombie that nobody else is freeing.
<1>WaitKeeps.
    ASSUME NEW c \in Procs, Wait(p, c)
    PROVE  Inv'
  <2> USE <1>WaitKeeps
  <2>1. TypeInv /\ ThreadType
    BY Start
  <2>2. /\ free' = free /\ state' = state /\ parent' = parent /\ sz' = sz
        /\ trapframe' = trapframe /\ panic' = panic /\ UNCHANGED tables
        /\ tramp' = tramp /\ user' = user /\ state[c] = "zombie" /\ parent[c] = p
    BY DEF Wait, procs, tables
  <2>3. /\ Enters(p, "wait", c, "freeproc") /\ th'[p].rest = <<>>
        /\ th'[p].base = 0 /\ th'[p].va = 0 /\ th'[p].want = 0
    <3>1. Call(p, "wait", c, "freeproc", [va |-> 0])
      BY DEF Wait
    <3> QED
      BY <2>1, <3>1, <1>CallIs, SMT
  <2>4. TypeInv'
    BY <2>1, <2>2 DEF TypeInv
  <2>5. Numbers(p) /\ Label(th'[p])
    <3>1. 0 \in Nat /\ <<>> \in Seq(Nat)
      BY SMT
    <3> QED
      BY <2>3, <3>1 DEF Numbers, Label, Enters
  <2>6. Whole(c)
    <3>1. ~Reaped(c)
      <4> SUFFICES ASSUME Reaped(c) PROVE FALSE
        OBVIOUS
      <4>1. PICK q \in Procs : In(q, "wait") /\ th[q].np = c
        BY DEF Reaped
      <4>2. parent[c] = q
        BY <4>1 DEF Inv, Thread, Claim
      <4> QED
        BY <2>2, <2>3, <4>1, <4>2 DEF Enters, In, Active
    <3> QED
      BY <2>2, <3>1 DEF Inv, Slot
  <2>7. Claim(p)'
    BY <2>2, <2>3 DEF Claim, Enters, In
  <2>8. Progress(p)'
    <3>1. Table(p)' = Cur(c) /\ th'[p].np = c
      BY <2>3 DEF Table, Enters
    <3> QED
      BY <2>2, <2>3, <2>6, <3>1, SMT DEF Progress, Stage, Enters, Opening, Building, Whole
  <2>9. Before(p)'
    BY <2>2, <2>3 DEF Before, Had, Enters
  <2> QED
    BY <2>2, <2>3, <2>4, <2>5, <2>7, <2>8, <2>9, <1>BeginStep

<1>1. ASSUME NEW n \in 0..MaxSize, Sbrk(p, n) PROVE Inv'
  <2>1. n \in Nat
    BY UvmAssumption, SMT
  <2> QED
    BY <1>1, <2>1, <1>SbrkKeeps
<1>2. ASSUME NEW np \in Procs, Fork(p, np) \/ Wait(p, np) PROVE Inv'
  BY <1>2, <1>ForkKeeps, <1>WaitKeeps
<1>3. ASSUME NEW image \in Images, Exec(p, image) PROVE Inv'
  BY <1>3, <1>ExecKeeps
<1>4. CASE Exit(p)
  BY <1>4, <1>ExitKeeps
<1>5. CASE Leave(p)
  BY <1>5, <1>LeaveKeeps
<1> QED
  BY <1>1, <1>2, <1>3, <1>4, <1>5 DEF Begin

----------------------------------------------------------------------------
\* The steps that end a call

\* A range that is used up is empty.
LEMMA RangeNone ==
    ASSUME NEW v \in Nat
    PROVE  v..(v - 1) = {} /\ 0..(0 - 1) = {}
  BY SMT

\* The steps with which fork and wait return.
LEMMA OtherKeeps ==
    ASSUME Inv, NEW p \in Procs, ForkDone(p) \/ ClearSlot(p)
    PROVE  Inv'
\* A call of p about another process np is done with it and returns.
<1>OtherDone.
    ASSUME Active(p), NEW np \in Procs, np = th[p].np, th[p].call \in {"fork", "wait"},
           Goes(p, "ret"), Numbers(p), th[p].pc \notin {"map", "drop"}, free' = free,
           trapframe' = trapframe, UNCHANGED tables, panic' = panic,
           \A r \in Procs : r # np => state'[r] = state[r] /\ parent'[r] = parent[r]
                                      /\ sz'[r] = sz[r],
           TypeInv', Slot(np)'
    PROVE  Inv'
  <2> USE <1>OtherDone
  <2>1. TypeInv /\ TableType /\ ThreadType /\ PagesConserved /\ ~panic /\ Claim(p) /\ Before(p)
    BY Start
  <2>2. root' = root /\ hi' = hi /\ lo' = lo /\ tramp' = tramp /\ user' = user
    BY DEF tables
  <2>3. Reaches(p)
    BY <2>2 DEF Reaches, Goes, SameSlot, SameTable
  <2>4. \A q \in Procs : q # p => Thread(q)'
    BY <2>3, OthersKept
  <2>5. state[p] = "running" /\ Whole(p)
    BY CallerWhole DEF In, Active
  <2>6. np # p
    BY <2>1, <2>5 DEF Claim, In
  <2>7. \A c : ~In(p, c)'
    BY DEF In, Active, Goes
  <2>8. Slot(p)'
    <3>1. root[New(p)] = NULL
      BY DEF Inv, Slot, In
    <3> QED
      BY <2>2, <2>5, <2>6, <3>1 DEF Slot, Whole
  <2>9. \A r \in Procs : Slot(r)'
    BY <2>3, <2>8, SlotsKept
  <2>10. Thread(p)'
    <3>1. Label(th'[p])
      BY DEF Label, Goes
    <3>2. Claim(p)'
      BY <2>5, <2>6, <2>7 DEF Claim
    <3>3. Progress(p)'
      <4>1. th'[p].pc \in {"user", "ret"}
        BY DEF Goes
      <4> QED
        BY <4>1, StageIdle, SMT DEF Progress
    <3>4. Before(p)'
      <4>1. th[p].was = <<user[Cur(p)], sz[p]>>
        BY <2>1 DEF Before, Had, Active
      <4>2. sz'[p] = sz[p]
        BY <2>6
      <4> QED
        BY <2>2, <4>1, <4>2 DEF Before, Had, Goes, Building
    <3> QED
      BY <3>1, <3>2, <3>3, <3>4 DEF Thread
  <2>11. ThreadType'
    BY <2>1, ThreadTypeKept DEF Goes, Numbers, ThreadType
  <2>12. TableType' /\ ~panic'
    <3>1. TableType'
      BY <2>1, <2>2 DEF TableType
    <3>2. ~panic'
      BY <2>1, StillFine
    <3> QED
      BY <3>1, <3>2
  <2>13. PagesConserved'
    <3>1. Hands' = Hands
      BY HandsSame DEF Goes
    <3>2. Trapframes' = Trapframes
      BY DEF Trapframes
    <3>3. Roots' = Roots
      BY <2>2 DEF Roots
    <3>4. Highs' = Highs
      BY <2>2 DEF Highs
    <3>5. Lows' = Lows
      BY <2>2 DEF Lows
    <3>6. Users' = Users
      BY <2>2 DEF Users
    <3> QED
      BY <2>1, <3>1, <3>2, <3>3, <3>4, <3>5, <3>6 DEF PagesConserved, Uses
  <2>14. \A j \in Tables : Rooted(j)'
    BY <2>2 DEF Inv, Rooted, NoTable
  <2> QED
    BY <2>4, <2>9, <2>10, <2>11, <2>12, <2>13, <2>14 DEF Inv

\* fork lets the child run, with a copy of all pages of the parent.
<1>ForkDoneKeeps.
    ASSUME ForkDone(p)
    PROVE  Inv'
  <2> USE <1>ForkDoneKeeps
  <2>0. PICK k \in Tables, np \in Procs : k = Table(p) /\ np = th[p].np
    BY Start
  <2>1. /\ TypeInv /\ TableType /\ ThreadType /\ PagesConserved /\ ~panic
        /\ Label(th[p]) /\ Claim(p) /\ Before(p) /\ Rooted(k)
        /\ th[p].base \in Nat /\ th[p].va \in Nat /\ th[p].want \in Nat /\ th[p].rest \in Seq(Nat)
        /\ Stage(th[p], root[k], tramp[k], user[k], trapframe[np], sz[p], sz[np])
    BY <2>0, Start
  <2>2. th[p].pc = "mem" /\ th[p].call = "fork" /\ th[p].va = th[p].want /\ Active(p)
    BY DEF ForkDone, Allocated, At, Active
  <2>3. k = Cur(np) /\ tramp[k] /\ Vas(user[k]) = 0..(th[p].want - 1)
    BY <2>0, <2>1, <2>2 DEF Table, Stage, Building
  <2>4. Goes(p, "ret") /\ Keeps(p)
    BY SetIs, SMT DEF ForkDone, Return, Goes, Keeps
  <2>5. PICK w \in Nat : w = th[p].want
    BY <2>1
  <2>6. /\ sz' = [sz EXCEPT ![np] = w] /\ parent' = [parent EXCEPT ![np] = p]
        /\ state' = [state EXCEPT ![np] = "running"]
        /\ free' = free /\ trapframe' = trapframe /\ UNCHANGED tables /\ panic' = panic
    BY <2>0, <2>5 DEF ForkDone
  <2>7. DOMAIN sz = Procs /\ DOMAIN parent = Procs /\ DOMAIN state = Procs
    BY <2>1 DEF TypeInv
  <2>8. /\ \A r \in Procs : r # np => state'[r] = state[r] /\ parent'[r] = parent[r]
                                      /\ sz'[r] = sz[r]
        /\ state'[np] = "running" /\ sz'[np] = w
    BY <2>6, <2>7
  <2>9. TypeInv'
    <3>1. sz' \in [Procs -> Nat]
      BY <2>1, <2>6 DEF TypeInv
    <3>2. parent' \in [Procs -> Procs \cup {NULL}]
      BY <2>1, <2>6 DEF TypeInv
    <3>3. state' \in [Procs -> States]
      <4>1. "running" \in States
        BY DEF States
      <4> QED
        BY <2>1, <2>6, <4>1 DEF TypeInv
    <3> QED
      BY <2>1, <2>6, <3>1, <3>2, <3>3 DEF TypeInv
  <2>10. Slot(np)'
    <3>1. root[New(np)] = NULL
      <4>1. state[np] = "used"
        BY <2>0, <2>1, <2>2 DEF Claim, In
      <4>2. ~In(np, "exec")
        BY <4>1 DEF Inv, Thread, Claim, In, Active
      <4> QED
        BY <4>2 DEF Inv, Slot
    <3>2. root' = root /\ tramp' = tramp /\ user' = user
      BY <2>6 DEF tables
    <3> QED
      BY <2>3, <2>5, <2>8, <3>1, <3>2 DEF Slot, Whole
  <2>11. Numbers(p)
    BY <2>1, <2>4 DEF Numbers, Keeps
  <2> QED
    BY <2>0, <2>2, <2>4, <2>6, <2>8, <2>9, <2>10, <2>11, <1>OtherDone

\* freeproc is done: the slot is unused and has no pages.
<1>ClearSlotKeeps.
    ASSUME ClearSlot(p)
    PROVE  Inv'
  <2> USE <1>ClearSlotKeeps
  <2>0. PICK k \in Tables, np \in Procs : k = Table(p) /\ np = th[p].np
    BY Start
  <2>1. /\ TypeInv /\ TableType /\ ThreadType /\ PagesConserved /\ ~panic
        /\ Label(th[p]) /\ Claim(p) /\ Before(p) /\ Rooted(k)
        /\ th[p].base \in Nat /\ th[p].va \in Nat /\ th[p].want \in Nat /\ th[p].rest \in Seq(Nat)
        /\ Stage(th[p], root[k], tramp[k], user[k], trapframe[np], sz[p], sz[np])
    BY <2>0, Start
  <2>2. th[p].pc = "cleared" /\ th[p].call \in {"fork", "wait"} /\ Active(p)
    BY <2>1 DEF ClearSlot, At, Active, Label, Building
  <2>3. root[Cur(np)] = NULL /\ trapframe[np] = NULL
    BY <2>0, <2>1, <2>2 DEF Table, Stage
  <2>4. Goes(p, "ret") /\ Keeps(p)
    BY SetIs, SMT DEF ClearSlot, Goes, Keeps
  <2>5. /\ sz' = [sz EXCEPT ![np] = 0] /\ parent' = [parent EXCEPT ![np] = NULL]
        /\ state' = [state EXCEPT ![np] = "unused"]
        /\ free' = free /\ trapframe' = trapframe /\ UNCHANGED tables /\ panic' = panic
    BY <2>0 DEF ClearSlot
  <2>6. DOMAIN sz = Procs /\ DOMAIN parent = Procs /\ DOMAIN state = Procs
    BY <2>1 DEF TypeInv
  <2>7. /\ \A r \in Procs : r # np => state'[r] = state[r] /\ parent'[r] = parent[r]
                                      /\ sz'[r] = sz[r]
        /\ state'[np] = "unused" /\ sz'[np] = 0
    BY <2>5, <2>6
  <2>8. TypeInv'
    <3>1. sz' \in [Procs -> Nat]
      <4>1. 0 \in Nat
        BY SMT
      <4> QED
        BY <2>1, <2>5, <4>1 DEF TypeInv
    <3>2. parent' \in [Procs -> Procs \cup {NULL}]
      BY <2>1, <2>5 DEF TypeInv
    <3>3. state' \in [Procs -> States]
      <4>1. "unused" \in States
        BY DEF States
      <4> QED
        BY <2>1, <2>5, <4>1 DEF TypeInv
    <3> QED
      BY <2>1, <2>5, <3>1, <3>2, <3>3 DEF TypeInv
  <2>9. Slot(np)'
    <3>1. root[New(np)] = NULL
      <4>1. state[np] # "running"
        BY <2>0, <2>1, <2>2 DEF Claim, In
      <4>2. ~In(np, "exec")
        BY <4>1 DEF Inv, Thread, Claim, In, Active
      <4> QED
        BY <4>2 DEF Inv, Slot
    <3>2. root' = root
      BY <2>5 DEF tables
    <3> QED
      BY <2>3, <2>5, <2>7, <3>1, <3>2 DEF Slot
  <2>10. Numbers(p)
    BY <2>1, <2>4 DEF Numbers, Keeps
  <2> QED
    BY <2>0, <2>2, <2>4, <2>5, <2>7, <2>8, <2>9, <2>10, <1>OtherDone

<1> QED
  BY <1>ForkDoneKeeps, <1>ClearSlotKeeps

\* The steps with which a call on the memory of p returns.
LEMMA ReturnKeeps ==
    ASSUME Inv, NEW p \in Procs,
           \/ SbrkDone(p) \/ ShrinkDone(p)
           \/ UndoDone(p) /\ th[p].call = "sbrk"
           \/ TableFreed(p) /\ th[p].call = "exec"
           \/ TableFails(p) /\ th[p].pc # "high" /\ th[p].call = "exec"
    PROVE  Inv'
\* A call about p itself returns, with the size that sz' says.
<1>ReturnStep.
    ASSUME Active(p), th[p].np = p, Goes(p, "ret"), Numbers(p),
           th[p].pc \notin {"map", "drop"}, free' = free, state' = state, parent' = parent,
           trapframe' = trapframe, UNCHANGED tables, panic' = panic, sz' \in [Procs -> Nat],
           \A r \in Procs : r # p => sz'[r] = sz[r], tramp[Cur(p)],
           Vas(user[Cur(p)]) = 0..(sz'[p] - 1), root[New(p)] = NULL,
           th'[p].res = -1 => th[p].was = <<user[Cur(p)], sz'[p]>>
    PROVE  Inv'
  <2> USE <1>ReturnStep
  <2>1. TypeInv /\ TableType /\ ThreadType /\ PagesConserved /\ ~panic /\ Claim(p)
    BY Start
  <2>2. root' = root /\ hi' = hi /\ lo' = lo /\ tramp' = tramp /\ user' = user
    BY DEF tables
  <2>3. Touches(p)
    BY <2>2 DEF Touches, Reaches, Goes, SameSlot, SameTable
  <2>4. \A q \in Procs : q # p => Thread(q)'
    BY <2>3, OthersKept DEF Touches
  <2>5. \A r \in Procs : r # p => Slot(r)'
    BY <2>3, SlotsKept DEF Touches
  <2>6. state'[p] = "running"
    BY <2>1 DEF Claim, Active
  <2>7. \A c : ~In(p, c)'
    BY DEF In, Active, Goes
  <2>8. Slot(p)'
    BY <2>2, <2>6 DEF Slot, Whole
  <2>9. Thread(p)'
    <3>1. Label(th'[p])
      BY DEF Label, Goes
    <3>2. Claim(p)'
      BY <2>6, <2>7 DEF Claim
    <3>3. Progress(p)'
      <4>1. th'[p].pc \in {"user", "ret"}
        BY DEF Goes
      <4> QED
        BY <4>1, StageIdle, SMT DEF Progress
    <3>4. Before(p)'
      BY <2>2, SMT DEF Before, Had, Goes, Opening, Building
    <3> QED
      BY <3>1, <3>2, <3>3, <3>4 DEF Thread
  <2>10. ThreadType'
    BY <2>1, ThreadTypeKept DEF Goes, Numbers
  <2>11. TypeInv' /\ TableType' /\ ~panic'
    <3>1. TypeInv'
      BY <2>1 DEF TypeInv
    <3>2. TableType'
      BY <2>1, <2>2 DEF TableType
    <3>3. ~panic'
      BY <2>1, StillFine
    <3> QED
      BY <3>1, <3>2, <3>3
  <2>12. PagesConserved'
    <3>1. Hands' = Hands
      BY HandsSame DEF Goes
    <3>2. /\ Trapframes' = Trapframes /\ Roots' = Roots /\ Highs' = Highs /\ Lows' = Lows
          /\ Users' = Users
      BY <2>2 DEF Trapframes, Roots, Highs, Lows, Users
    <3> QED
      BY <2>1, <3>1, <3>2 DEF PagesConserved, Uses
  <2>13. \A j \in Tables : Rooted(j)'
    BY <2>2 DEF Inv, Rooted, NoTable
  <2> QED
    BY <2>4, <2>5, <2>8, <2>9, <2>10, <2>11, <2>12, <2>13 DEF Inv

\* exec fails before it has a page table.
<1>TableFailsReturns.
    ASSUME TableFails(p), th[p].pc # "high", th[p].call = "exec"
    PROVE  Inv'
  <2> USE <1>TableFailsReturns
  <2>1. /\ ThreadType /\ Label(th[p]) /\ Claim(p) /\ Before(p)
        /\ th[p].np \in Procs /\ th[p].base \in Nat /\ th[p].va \in Nat
        /\ th[p].want \in Nat /\ th[p].rest \in Seq(Nat)
        /\ Stage(th[p], root[Table(p)], tramp[Table(p)], user[Table(p)],
                 trapframe[th[p].np], sz[p], sz[th[p].np])
    BY Start
  <2>2. th[p].pc = "root" /\ Active(p) /\ TypeInv
    BY <2>1, Start DEF TableFails, Label, Building, Active
  <2>3. Set(p, [pc |-> "ret", res |-> -1])
    BY <2>2 DEF TableFails
  <2>4. Goes(p, "ret") /\ Keeps(p)
    BY <2>3, SetIs, SMT DEF Goes, Keeps
  <2>5. Numbers(p)
    BY <2>1, <2>4 DEF Numbers, Keeps
  <2>6. UNCHANGED <<free, procs, tables, panic>>
    BY DEF TableFails
  <2>7. th[p].np = p /\ ~In(p, "sbrk")
    BY <2>1, <2>2 DEF Claim, In
  <2>8. Whole(p)
    BY <2>2, <2>7, CallerWhole
  <2>9. root[New(p)] = NULL
    BY <2>1, <2>2 DEF Stage, Table
  <2>10. th[p].was = <<user[Cur(p)], sz[p]>>
    BY <2>1, <2>2 DEF Before, Had, Early
  <2>11. free' = free /\ state' = state /\ parent' = parent /\ trapframe' = trapframe
         /\ sz' = sz /\ panic' = panic /\ UNCHANGED tables
    BY <2>6 DEF procs
  <2>12. sz' \in [Procs -> Nat]
    BY <2>2, <2>11 DEF TypeInv
  <2> QED
    BY <2>2, <2>4, <2>5, <2>7, <2>8, <2>9, <2>10, <2>11, <2>12, <1>ReturnStep DEF Whole

\* exec has freed the table that it leaves, the old one or the new one.
<1>TableFreedReturns.
    ASSUME TableFreed(p), th[p].call = "exec"
    PROVE  Inv'
  <2> USE <1>TableFreedReturns
  <2>1. /\ ThreadType /\ Label(th[p]) /\ Claim(p) /\ Before(p)
        /\ th[p].np \in Procs /\ th[p].base \in Nat /\ th[p].va \in Nat
        /\ th[p].want \in Nat /\ th[p].rest \in Seq(Nat)
        /\ Stage(th[p], root[Table(p)], tramp[Table(p)], user[Table(p)],
                 trapframe[th[p].np], sz[p], sz[th[p].np])
    BY Start
  <2>2. th[p].pc = "freewalk" /\ Active(p) /\ TypeInv /\ root[Table(p)] = NULL
    BY Start DEF TableFreed, At, Active
  <2>3. Set(p, [pc |-> "ret"])
    BY DEF TableFreed
  <2>4. Goes(p, "ret") /\ Keeps(p) /\ th'[p].res = th[p].res
    BY <2>3, SetIs, SMT DEF Goes, Keeps
  <2>5. Numbers(p)
    BY <2>1, <2>4 DEF Numbers, Keeps
  <2>6. UNCHANGED <<free, procs, tables, panic>>
    BY DEF TableFreed
  <2>7. th[p].np = p /\ ~In(p, "sbrk")
    BY <2>1, <2>2 DEF Claim, In
  <2>8. Whole(p)
    BY <2>2, <2>7, CallerWhole
  <2>9. root[New(p)] = NULL
    BY <2>2 DEF Table
  <2>10. th[p].res = -1 => th[p].was = <<user[Cur(p)], sz[p]>>
    BY <2>1, <2>2 DEF Before, Had, Early
  <2>11. free' = free /\ state' = state /\ parent' = parent /\ trapframe' = trapframe
         /\ sz' = sz /\ panic' = panic /\ UNCHANGED tables
    BY <2>6 DEF procs
  <2>12. sz' \in [Procs -> Nat]
    BY <2>2, <2>11 DEF TypeInv
  <2> QED
    BY <2>2, <2>4, <2>5, <2>7, <2>8, <2>9, <2>10, <2>11, <2>12, <1>ReturnStep DEF Whole

\* sbrk has undone what it did.
<1>UndoDoneReturns.
    ASSUME UndoDone(p), th[p].call = "sbrk"
    PROVE  Inv'
  <2> USE <1>UndoDoneReturns
  <2>1. /\ ThreadType /\ Label(th[p]) /\ Claim(p) /\ Before(p)
        /\ th[p].np \in Procs /\ th[p].base \in Nat /\ th[p].va \in Nat
        /\ th[p].want \in Nat /\ th[p].rest \in Seq(Nat)
        /\ Stage(th[p], root[Table(p)], tramp[Table(p)], user[Table(p)],
                 trapframe[th[p].np], sz[p], sz[th[p].np])
    BY Start
  <2>2. th[p].pc = "undo" /\ Active(p) /\ TypeInv /\ th[p].va = th[p].want
    BY Start DEF UndoDone, Unmapped, At, Active
  <2>3. Set(p, [pc |-> "ret"])
    BY SMT DEF UndoDone
  <2>4. Goes(p, "ret") /\ Keeps(p) /\ th'[p].res = th[p].res
    BY <2>3, SetIs, SMT DEF Goes, Keeps
  <2>5. Numbers(p)
    BY <2>1, <2>4 DEF Numbers, Keeps
  <2>6. UNCHANGED <<free, procs, tables, panic>>
    BY DEF UndoDone
  <2>7. th[p].np = p /\ Table(p) = Cur(p)
    BY <2>1, <2>2 DEF Claim, In, Table
  <2>8. th[p].base = sz[p] /\ th[p].was = <<{e \in user[Cur(p)] : e[1] < sz[p]}, sz[p]>>
    BY <2>1, <2>2 DEF Before, Had
  <2>9. tramp[Cur(p)] /\ Vas(user[Cur(p)]) = 0..(sz[p] - 1)
    <3>1. /\ tramp[Cur(p)]
          /\ Vas(user[Cur(p)]) = 0..(sz[p] - 1) \cup th[p].va..(th[p].want - 1)
      BY <2>1, <2>2, <2>7, <2>8 DEF Stage
    <3>2. th[p].va..(th[p].want - 1) = {}
      BY <2>1, <2>2, RangeNone
    <3> QED
      BY <3>1, <3>2
  <2>10. root[New(p)] = NULL
    <3>1. ~In(p, "exec")
      BY DEF In
    <3> QED
      BY <3>1 DEF Inv, Slot
  <2>11. {e \in user[Cur(p)] : e[1] < sz[p]} = user[Cur(p)]
    <3>1. ASSUME NEW e \in user[Cur(p)] PROVE e[1] < sz[p]
      <4>1. PICK v \in 0..(sz[p] - 1) : v = e[1]
        BY <2>9, <3>1 DEF Vas
      <4>2. sz[p] \in Nat
        BY <2>2 DEF TypeInv
      <4>3. v < sz[p]
        BY <4>1, <4>2, SMT
      <4> QED
        BY <4>1, <4>3
    <3> QED
      BY <3>1
  <2>12. free' = free /\ state' = state /\ parent' = parent /\ trapframe' = trapframe
         /\ sz' = sz /\ panic' = panic /\ UNCHANGED tables
    BY <2>6 DEF procs
  <2>13. sz' \in [Procs -> Nat]
    BY <2>2, <2>12 DEF TypeInv
  <2> QED
    BY <2>2, <2>4, <2>5, <2>7, <2>8, <2>9, <2>10, <2>11, <2>12, <2>13, <1>ReturnStep

\* sbrk returns with the size n that it has reached, up or down.
<1>SizeSet.
    ASSUME Active(p), th[p].call = "sbrk", NEW n \in Nat, th[p].pc \in {"mem", "shrink"},
           tramp[Table(p)], Vas(user[Table(p)]) = 0..(n - 1), sz' = [sz EXCEPT ![p] = n],
           Return(p, 0), UNCHANGED <<free, state, parent, trapframe, tables, panic>>
    PROVE  Inv'
  <2> USE <1>SizeSet
  <2>1. /\ ThreadType /\ Label(th[p]) /\ Claim(p) /\ Before(p)
        /\ th[p].np \in Procs /\ th[p].base \in Nat /\ th[p].va \in Nat
        /\ th[p].want \in Nat /\ th[p].rest \in Seq(Nat)
        /\ Stage(th[p], root[Table(p)], tramp[Table(p)], user[Table(p)],
                 trapframe[th[p].np], sz[p], sz[th[p].np])
    BY Start
  <2>2. Goes(p, "ret") /\ Keeps(p) /\ th'[p].res = 0
    BY SetIs, SMT DEF Return, Goes, Keeps
  <2>3. Numbers(p)
    BY <2>1, <2>2 DEF Numbers, Keeps
  <2>4. th[p].np = p /\ Table(p) = Cur(p)
    BY <2>1 DEF Claim, In, Table
  <2>5. root[New(p)] = NULL
    <3>1. ~In(p, "exec")
      BY DEF In
    <3> QED
      BY <3>1 DEF Inv, Slot
  <2>6. sz \in [Procs -> Nat]
    BY Start DEF TypeInv
  <2>7. sz' \in [Procs -> Nat] /\ sz'[p] = n /\ \A r \in Procs : r # p => sz'[r] = sz[r]
    BY <2>6
  <2>8. th'[p].res # -1
    BY <2>2, SMT
  <2> QED
    BY <2>2, <2>3, <2>4, <2>5, <2>7, <2>8, <1>ReturnStep

\* growproc has grown.
<1>SbrkDoneKeeps.
    ASSUME SbrkDone(p)
    PROVE  Inv'
  <2> USE <1>SbrkDoneKeeps
  <2>1. /\ ThreadType /\ Label(th[p]) /\ Claim(p) /\ Before(p)
        /\ th[p].np \in Procs /\ th[p].base \in Nat /\ th[p].va \in Nat
        /\ th[p].want \in Nat /\ th[p].rest \in Seq(Nat)
        /\ Stage(th[p], root[Table(p)], tramp[Table(p)], user[Table(p)],
                 trapframe[th[p].np], sz[p], sz[th[p].np])
    BY Start
  <2>2. th[p].pc = "mem" /\ th[p].call = "sbrk" /\ th[p].va = th[p].want
    BY DEF SbrkDone, Allocated, At
  <2>3. tramp[Table(p)] /\ Vas(user[Table(p)]) = 0..(th[p].want - 1)
    BY <2>1, <2>2 DEF Stage, Building
  <2> QED
    BY <2>1, <2>2, <2>3, <1>SizeSet DEF SbrkDone, Active

\* growproc has shrunk.
<1>ShrinkDoneKeeps.
    ASSUME ShrinkDone(p)
    PROVE  Inv'
  <2> USE <1>ShrinkDoneKeeps
  <2>1. /\ ThreadType /\ Label(th[p]) /\ Claim(p) /\ Before(p)
        /\ th[p].np \in Procs /\ th[p].base \in Nat /\ th[p].va \in Nat
        /\ th[p].want \in Nat /\ th[p].rest \in Seq(Nat)
        /\ Stage(th[p], root[Table(p)], tramp[Table(p)], user[Table(p)],
                 trapframe[th[p].np], sz[p], sz[th[p].np])
    BY Start
  <2>2. th[p].pc = "shrink" /\ th[p].call = "sbrk" /\ th[p].va = th[p].want
    BY <2>1 DEF ShrinkDone, Unmapped, At, Label, Building
  <2>3. tramp[Table(p)] /\ Vas(user[Table(p)]) = 0..(th[p].base - 1)
    <3>1. /\ tramp[Table(p)]
          /\ Vas(user[Table(p)]) = 0..(th[p].base - 1) \cup th[p].va..(th[p].want - 1)
      BY <2>1, <2>2 DEF Stage
    <3>2. th[p].va..(th[p].want - 1) = {}
      BY <2>1, <2>2, RangeNone
    <3> QED
      BY <3>1, <3>2
  <2> QED
    BY <2>1, <2>2, <2>3, <1>SizeSet DEF ShrinkDone, Active

<1> QED
  BY <1>SbrkDoneKeeps, <1>ShrinkDoneKeeps, <1>UndoDoneReturns, <1>TableFreedReturns,
     <1>TableFailsReturns

----------------------------------------------------------------------------
\* The steps that change nothing but the locals

\* What exec remembers of its result: no step goes back to building.
Onward(p) == th[p].call = "exec" =>
    /\ Early(th'[p]) => Early(th[p])
    /\ th'[p].pc \in Opening \cup Building =>
         th[p].pc \in Opening \cup Building /\ th'[p].res = th[p].res

\* The invariant, when the table p works on is as its next step needs it.
LEMMA InvStep ==
    ASSUME Inv, NEW p \in Procs, Active(p), Touches(p), Active(p)',
           state' = state, parent' = parent, sz' = sz, th'[p].was = th[p].was,
           Onward(p),
           TypeInv', TableType', ThreadType', ~panic', Rooted(Table(p))', Label(th[p])',
           Progress(p)', th[p].call = "sbrk" => Before(p)', PagesConserved'
    PROVE  Inv'
\* The invariant of everything but the table p works on, when the call of p goes
\* on and no process changes its state or size.
<1>StepKept.
    /\ \A q \in Procs : q # p => Thread(q)'
    /\ \A r \in Procs : Slot(r)'
    /\ Claim(p)'
    /\ th[p].call # "sbrk" => Before(p)'
  <2>0. PICK np \in Procs : np = th[p].np
    BY TableIn DEF Inv
  <2>1. \A q \in Procs : q # p => Thread(q)'
    BY OthersKept DEF Touches
  <2>2. Label(th[p]) /\ Claim(p) /\ Before(p)
    BY DEF Inv, Thread
  <2>3. \A c : In(p, c)' <=> In(p, c)
    BY DEF In, Touches, Reaches
  <2>4. th'[p].np = np /\ th'[p].call = th[p].call
    BY <2>0 DEF Touches, Reaches
  <2>5. Claim(p)'
    <3>1. ASSUME NEW r \in Procs, In(p, "fork")', In(r, "fork")', th'[p].np = th'[r].np
          PROVE  p = r
      <4>1. CASE r # p
        <5>1. th'[r] = th[r]
          BY <4>1 DEF Touches, Reaches, Others
        <5>2. In(p, "fork") /\ In(r, "fork") /\ th[p].np = th[r].np
          BY <2>0, <3>1, <5>1, <2>3, <2>4 DEF In, Active
        <5> QED
          BY <2>2, <5>2 DEF Claim
      <4> QED
        BY <4>1
    <3>2. th'[p].pc # "user" => state'[p] = "running"
      BY <2>2 DEF Claim, Active
    <3>3. In(p, "sbrk")' \/ In(p, "exec")' => th'[p].np = p
      BY <2>0, <2>2, <2>3, <2>4 DEF Claim
    <3>4. In(p, "fork")' => state'[th'[p].np] = "used" /\ sz'[th'[p].np] = 0
      BY <2>0, <2>2, <2>3, <2>4 DEF Claim
    <3>5. In(p, "wait")' => state'[th'[p].np] = "zombie" /\ parent'[th'[p].np] = p
      BY <2>0, <2>2, <2>3, <2>4 DEF Claim
    <3> QED
      BY <3>1, <3>2, <3>3, <3>4, <3>5 DEF Claim
  <2>6. state[p] = "running"
    BY <2>2 DEF Claim, Active
  <2>7. \/ In(p, "sbrk") /\ np = p
        \/ In(p, "exec") /\ np = p
        \/ In(p, "fork") /\ np # p /\ state[np] = "used"
        \/ In(p, "wait") /\ np # p /\ state[np] = "zombie"
    <3>1. \/ In(p, "sbrk") \/ In(p, "exec") \/ In(p, "fork") \/ In(p, "wait")
      BY <2>2 DEF Label, In, Active
    <3> QED
      BY <2>0, <2>2, <2>6, <3>1 DEF Claim
  <2>8. Table(p) = IF In(p, "exec") THEN New(p) ELSE Cur(np)
    BY <2>0 DEF Table, In
  <2>9. ~In(p, "sbrk") => SameTable(Cur(p))
    <3>1. ASSUME ~In(p, "sbrk") PROVE Table(p) # Cur(p)
      BY <2>7, <2>8, <3>1, TablesAre
    <3> QED
      BY <3>1, TablesAre DEF Touches
  <2>10. Slot(p)'
    <3>1. Slot(p)
      BY DEF Inv
    <3>2. ~In(p, "exec") => root'[New(p)] = NULL
      <4>1. ASSUME ~In(p, "exec") PROVE SameTable(New(p))
        BY <2>8, <4>1, TablesAre DEF Touches
      <4> QED
        BY <3>1, <4>1 DEF Slot, SameTable
    <3>3. ~In(p, "sbrk") => Whole(p)'
      <4>1. ASSUME ~In(p, "sbrk") PROVE Whole(p)
        BY <3>1, <2>6, <4>1 DEF Slot
      <4> QED
        BY <2>9, <4>1 DEF Whole, SameTable
    <3> QED
      BY <2>3, <2>6, <3>2, <3>3 DEF Slot
  <2>11. ASSUME np # p PROVE Slot(np)'
    <3>1. Slot(np) /\ th'[np] = th[np]
      BY <2>11 DEF Inv, Touches, Reaches, Others
    <3>2. ~In(np, "exec")' => root'[New(np)] = NULL
      <4>1. SameTable(New(np))
        BY <2>7, <2>8, <2>11, <3>1, TablesAre DEF Touches
      <4>2. In(np, "exec")' <=> In(np, "exec")
        BY <3>1 DEF In, Active
      <4> QED
        BY <3>1, <4>1, <4>2 DEF Slot, SameTable
    <3>3. state[np] = "zombie" => Reaped(np)'
      <4>1. ASSUME state[np] = "zombie" PROVE In(p, "wait")' /\ th'[p].np = np
        BY <2>3, <2>4, <2>7, <2>11, <4>1
      <4> QED
        BY <4>1 DEF Reaped
    <3> QED
      BY <2>7, <2>11, <3>2, <3>3 DEF Slot
  <2>12. \A r \in Procs : Slot(r)'
    BY <2>0, <2>10, <2>11, SlotsKept DEF Touches
  <2>13. ASSUME th[p].call # "sbrk" PROVE Before(p)'
    <3>1. user'[Cur(p)] = user[Cur(p)]
      BY <2>9, <2>13 DEF SameTable, In
    <3>2. th[p].call \in {"fork", "wait"} => th[p].was = <<user[Cur(p)], sz[p]>>
      BY <2>2 DEF Before, Had, Active
    <3>3. th[p].call = "exec" /\ Early(th[p]) => th[p].was = <<user[Cur(p)], sz[p]>>
      BY <2>2 DEF Before, Had, Active
    <3>4. th[p].call = "exec" /\ th'[p].pc \in Opening \cup Building => th'[p].res = 0
      BY <2>2 DEF Before, Had, Onward
    <3>5. th'[p].pc # "ret"
      BY DEF Active
    <3>6. th[p].call = "exec" /\ Early(th'[p]) => Early(th[p])
      BY DEF Onward
    <3> QED
      BY <2>4, <2>13, <3>1, <3>2, <3>3, <3>4, <3>5, <3>6 DEF Before, Had
  <2> QED
    BY <2>1, <2>5, <2>12, <2>13

<1>1. /\ \A q \in Procs : q # p => Thread(q)'
      /\ \A r \in Procs : Slot(r)'
      /\ Claim(p)'
      /\ th[p].call # "sbrk" => Before(p)'
  BY <1>StepKept
<1>2. Thread(p)'
  BY <1>1 DEF Thread
<1>3. Table(p)' = Table(p)
  BY DEF Touches, Reaches, Table
<1>4. ASSUME NEW k \in Tables PROVE Rooted(k)'
  <2>1. CASE k # Table(p)
    <3>1. SameTable(k) /\ Rooted(k)
      BY <2>1 DEF Touches, Reaches, Inv
    <3> QED
      BY <3>1 DEF SameTable, Rooted, NoTable
  <2>2. CASE k = Table(p)
    BY <2>2, <1>3 DEF Rooted, NoTable
  <2> QED
    BY <2>1, <2>2
<1> QED
  BY <1>1, <1>2, <1>4 DEF Inv

\* A page number is there when a mapping has it.
LEMMA VasOf ==
    ASSUME NEW u
    PROVE  /\ Vas(u) = {} => u = {}
           /\ u = {} => Vas(u) = {}
           /\ \A v : v \in Vas(u) => {e \in u : e[1] = v} # {}
  BY DEF Vas

\* Back over the pages mapped so far.
LEMMA UndoIs ==
    ASSUME Inv, NEW p \in Procs, Undo(p)
    PROVE  /\ Goes(p, "undo") /\ th'[p].base = th[p].base /\ th'[p].va = th[p].base
           /\ th'[p].want = th[p].va /\ th'[p].rest = th[p].rest
<1>1. PICK b, v : /\ b = th[p].base /\ v = th[p].va
                  /\ Set(p, [pc |-> "undo", va |-> b, want |-> v, mem |-> NULL, res |-> -1])
  BY DEF Undo
<1> QED
  BY <1>1, SetIs, SMT DEF Goes

\* On to the next segment.
LEMMA SegmentIs ==
    ASSUME Inv, NEW p \in Procs, NEW b, NEW r, NEW w,
           Set(p, [pc |-> "mem", base |-> b, rest |-> r, want |-> w])
    PROVE  /\ Goes(p, "mem") /\ th'[p].base = b /\ th'[p].va = th[p].va
           /\ th'[p].want = w /\ th'[p].rest = r /\ th'[p].res = th[p].res
  BY SetIs, SMT DEF Goes

\* The steps that only move the thread on, in its call.
LEMMA ControlKeeps ==
    ASSUME Inv, NEW p \in Procs,
           \/ WalkFails(p) \/ AllocFails(p) \/ ExecNext(p) \/ ExecBad(p) \/ UnmapDone(p)
           \/ UndoDone(p) /\ th[p].call # "sbrk"
           \/ TableFreed(p) /\ th[p].call # "exec"
           \/ TableFails(p) /\ (th[p].pc = "high" \/ th[p].call # "exec")
    PROVE  Inv'
\* A step that changes the locals of p only.
<1>ControlStep.
    ASSUME NEW l, Active(p), Goes(p, l), l \notin {"user", "ret"},
           UNCHANGED <<free, procs, tables, panic>>, Numbers(p),
           th[p].pc \in {"map", "drop"} <=> l \in {"map", "drop"},
           th[p].pc \in {"map", "drop"} => th'[p].mem = th[p].mem, Onward(p), Label(th'[p]),
           Stage(th'[p], root[Table(p)], tramp[Table(p)], user[Table(p)],
                 trapframe[th[p].np], sz[p], sz[th[p].np]),
           th[p].call = "sbrk" => Had(th'[p], user[Cur(p)], sz[p])
    PROVE  Inv'
  <2> USE <1>ControlStep
  <2>1. /\ TypeInv /\ TableType /\ ThreadType /\ PagesConserved /\ ~panic
        /\ th[p].np \in Procs /\ Table(p) \in Tables /\ Rooted(Table(p))
    BY Start
  <2>2. /\ free' = free /\ state' = state /\ parent' = parent /\ sz' = sz
        /\ trapframe' = trapframe /\ panic' = panic
        /\ root' = root /\ hi' = hi /\ lo' = lo /\ tramp' = tramp /\ user' = user
    BY DEF procs, tables
  <2>3. Touches(p)
    BY <2>2 DEF Touches, Reaches, Goes, SameSlot, SameTable
  <2>4. ThreadType'
    BY <2>1, ThreadTypeKept DEF Goes, Numbers
  <2>5. TypeInv' /\ TableType' /\ ~panic'
    <3>1. TypeInv'
      BY <2>1, <2>2 DEF TypeInv
    <3>2. TableType'
      BY <2>1, <2>2 DEF TableType
    <3>3. ~panic'
      BY <2>2, StillFine
    <3> QED
      BY <3>1, <3>2, <3>3
  <2>6. Table(p)' = Table(p) /\ th'[p].np = th[p].np
    BY DEF Table, Goes
  <2>7. PagesConserved'
    <3>1. Hands' = Hands
      BY HandsSame DEF Goes
    <3>2. /\ Trapframes' = Trapframes /\ Roots' = Roots /\ Highs' = Highs /\ Lows' = Lows
          /\ Users' = Users
      BY <2>2 DEF Trapframes, Roots, Highs, Lows, Users
    <3> QED
      BY <2>1, <2>2, <3>1, <3>2 DEF PagesConserved, Uses
  <2>8. Progress(p)'
    BY <2>2, <2>6 DEF Progress
  <2>9. th[p].call = "sbrk" => Before(p)'
    BY <2>2 DEF Before
  <2>10. Rooted(Table(p))'
    BY <2>1, <2>2, <2>6 DEF Rooted, NoTable
  <2>11. Active(p)'
    BY DEF Goes, Active
  <2> QED
    BY <2>2, <2>3, <2>4, <2>5, <2>7, <2>8, <2>9, <2>10, <2>11, InvStep DEF Goes

\* walk of mappages gets no page.
<1>WalkFailsKeeps.
    ASSUME WalkFails(p)
    PROVE  Inv'
  <2> USE <1>WalkFailsKeeps
  <2>1. /\ ThreadType /\ Label(th[p]) /\ Before(p)
        /\ th[p].base \in Nat /\ th[p].va \in Nat /\ th[p].want \in Nat
        /\ th[p].rest \in Seq(Nat)
        /\ Stage(th[p], root[Table(p)], tramp[Table(p)], user[Table(p)],
                 trapframe[th[p].np], sz[p], sz[th[p].np])
    BY Start
  <2>2. th[p].pc = "map"
    BY DEF WalkFails, At
  <2>3. Goes(p, "drop") /\ Keeps(p) /\ th'[p].mem = th[p].mem /\ th'[p].res = th[p].res
    BY SetIs, SMT DEF WalkFails, Goes, Keeps
  <2>4. Numbers(p)
    BY <2>1, <2>3 DEF Numbers, Keeps
  <2>5. Label(th'[p])
    BY <2>1, <2>2, <2>3 DEF Label, Goes, Building
  <2>6. Stage(th'[p], root[Table(p)], tramp[Table(p)], user[Table(p)],
              trapframe[th[p].np], sz[p], sz[th[p].np])
    BY <2>1, <2>2, <2>3, SMT DEF Stage, Goes, Keeps, Opening, Building
  <2>7. th[p].call = "sbrk" => Had(th'[p], user[Cur(p)], sz[p])
    BY <2>1, <2>2, <2>3 DEF Before, Had, Goes, Keeps, Building
  <2>8. UNCHANGED <<free, procs, tables, panic>>
    BY DEF WalkFails
  <2>9. Active(p) /\ Onward(p)
    BY <2>2, <2>3 DEF Active, Onward, Early, Goes, Building, Opening
  <2> QED
    BY <2>2, <2>3, <2>4, <2>5, <2>6, <2>7, <2>8, <2>9, <1>ControlStep

\* kalloc of uvmalloc or uvmcopy gets no page.
<1>AllocFailsKeeps.
    ASSUME AllocFails(p)
    PROVE  Inv'
  <2> USE <1>AllocFailsKeeps
  <2>1. /\ ThreadType /\ Label(th[p]) /\ Before(p)
        /\ th[p].base \in Nat /\ th[p].va \in Nat /\ th[p].want \in Nat
        /\ th[p].rest \in Seq(Nat)
        /\ Stage(th[p], root[Table(p)], tramp[Table(p)], user[Table(p)],
                 trapframe[th[p].np], sz[p], sz[th[p].np])
    BY Start
  <2>2. th[p].pc = "mem"
    BY DEF AllocFails, At
  <2>3. /\ Goes(p, "undo") /\ th'[p].base = th[p].base /\ th'[p].va = th[p].base
        /\ th'[p].want = th[p].va /\ th'[p].rest = th[p].rest
    BY UndoIs DEF AllocFails
  <2>4. Numbers(p)
    BY <2>1, <2>3 DEF Numbers
  <2>5. Label(th'[p])
    BY <2>1, <2>2, <2>3 DEF Label, Goes, Building
  <2>6. Stage(th'[p], root[Table(p)], tramp[Table(p)], user[Table(p)],
              trapframe[th[p].np], sz[p], sz[th[p].np])
    <3>1. /\ tramp[Table(p)] /\ Vas(user[Table(p)]) = 0..(th[p].va - 1)
          /\ th[p].base <= th[p].va
          /\ th[p].call = "fork" => th[p].base = 0
      BY <2>1, <2>2 DEF Stage, Opening, Building
    <3>2. 0..(th[p].va - 1) = 0..(th[p].base - 1) \cup th[p].base..(th[p].va - 1)
      BY <2>1, <3>1, RangeSplit
    <3> QED
      BY <2>1, <2>3, <3>1, <3>2, SMT DEF Stage, Goes, Opening, Building
  <2>7. th[p].call = "sbrk" => Had(th'[p], user[Cur(p)], sz[p])
    BY <2>1, <2>2, <2>3 DEF Before, Had, Goes, Building
  <2>8. UNCHANGED <<free, procs, tables, panic>>
    BY DEF AllocFails
  <2>9. Active(p) /\ Onward(p)
    BY <2>2, <2>3 DEF Active, Onward, Early, Goes, Building, Opening
  <2> QED
    BY <2>2, <2>3, <2>4, <2>5, <2>6, <2>7, <2>8, <2>9, <1>ControlStep

\* exec goes on to its next segment.
<1>ExecNextKeeps.
    ASSUME ExecNext(p)
    PROVE  Inv'
  <2> USE <1>ExecNextKeeps
  <2>1. /\ ThreadType /\ Label(th[p]) /\ Claim(p) /\ Before(p)
        /\ th[p].np \in Procs /\ th[p].base \in Nat /\ th[p].va \in Nat
        /\ th[p].want \in Nat /\ th[p].rest \in Seq(Nat)
        /\ Stage(th[p], root[Table(p)], tramp[Table(p)], user[Table(p)],
                 trapframe[th[p].np], sz[p], sz[th[p].np])
    BY Start
  <2>2. th[p].pc = "mem" /\ th[p].call = "exec" /\ th[p].va = th[p].want /\ th[p].rest # <<>>
    BY DEF ExecNext, Allocated, At
  <2> DEFINE want == IF Head(th[p].rest) < th[p].want THEN th[p].want ELSE Head(th[p].rest)
  <2>3. /\ Goes(p, "mem") /\ th'[p].base = th[p].va /\ th'[p].va = th[p].va
        /\ th'[p].want = want /\ th'[p].rest = Tail(th[p].rest) /\ th'[p].res = th[p].res
    <3>1. Set(p, [pc |-> "mem", base |-> th[p].va, rest |-> Tail(th[p].rest), want |-> want])
      BY <2>2 DEF ExecNext, Segment
    <3> HIDE DEF want
    <3> QED
      BY <3>1, SegmentIs
  <2>4. Numbers(p) /\ th'[p].base <= th'[p].va /\ th'[p].va <= th'[p].want
    <3>1. Head(th[p].rest) \in Nat /\ Tail(th[p].rest) \in Seq(Nat)
      <4>1. PICK r \in Seq(Nat) : r = th[p].rest /\ r # <<>>
        BY <2>1, <2>2
      <4>2. Head(r) \in Nat /\ Tail(r) \in Seq(Nat)
        BY <4>1, SMT
      <4> QED
        BY <4>1, <4>2
    <3> QED
      BY <2>1, <2>2, <2>3, <3>1, SMT DEF Numbers
  <2>5. Label(th'[p])
    BY <2>2, <2>3 DEF Label, Goes, Building
  <2>6. Stage(th'[p], root[Table(p)], tramp[Table(p)], user[Table(p)],
              trapframe[th[p].np], sz[p], sz[th[p].np])
    <3>1. tramp[Table(p)] /\ Vas(user[Table(p)]) = 0..(th[p].va - 1)
      BY <2>1, <2>2 DEF Stage, Opening, Building
    <3> QED
      BY <2>2, <2>3, <2>4, <3>1, SMT DEF Stage, Goes, Opening, Building
  <2>7. UNCHANGED <<free, procs, tables, panic>>
    BY DEF ExecNext
  <2>8. Active(p) /\ Onward(p)
    BY <2>2, <2>3 DEF Active, Onward, Early, Goes, Opening, Building
  <2> QED
    BY <2>2, <2>3, <2>4, <2>5, <2>6, <2>7, <2>8, <1>ControlStep

\* exec gives up, with all pages below the size it has reached.
<1>ExecBadKeeps.
    ASSUME ExecBad(p)
    PROVE  Inv'
  <2> USE <1>ExecBadKeeps
  <2>1. /\ ThreadType /\ Label(th[p]) /\ Claim(p) /\ Before(p)
        /\ th[p].np \in Procs /\ th[p].base \in Nat /\ th[p].va \in Nat
        /\ th[p].want \in Nat /\ th[p].rest \in Seq(Nat)
        /\ Stage(th[p], root[Table(p)], tramp[Table(p)], user[Table(p)],
                 trapframe[th[p].np], sz[p], sz[th[p].np])
    BY Start
  <2>2. th[p].pc = "mem" /\ th[p].call = "exec" /\ th[p].va = th[p].want
    BY DEF ExecBad, Allocated, At
  <2>3. /\ Goes(p, "table") /\ th'[p].base = th[p].want /\ th'[p].va = 0
        /\ th'[p].want = th[p].want /\ th'[p].rest = th[p].rest
    BY SetIs, SMT DEF ExecBad, Goes
  <2>4. Numbers(p)
    BY <2>1, <2>3, SMT DEF Numbers
  <2>5. Label(th'[p])
    BY <2>2, <2>3 DEF Label, Goes, Building
  <2>6. Stage(th'[p], root[Table(p)], tramp[Table(p)], user[Table(p)],
              trapframe[th[p].np], sz[p], sz[th[p].np])
    <3>1. tramp[Table(p)] /\ Vas(user[Table(p)]) = 0..(th[p].want - 1)
      BY <2>1, <2>2 DEF Stage, Opening, Building
    <3> QED
      BY <2>3, <3>1, SMT DEF Stage, Goes, Opening, Building
  <2>7. UNCHANGED <<free, procs, tables, panic>>
    BY DEF ExecBad
  <2>8. Active(p) /\ Onward(p)
    BY <2>2, <2>3 DEF Active, Onward, Early, Goes, Opening, Building
  <2> QED
    BY <2>2, <2>3, <2>4, <2>5, <2>6, <2>7, <2>8, <1>ControlStep

\* The undo of exec and of fork goes on to free what they have built.
<1>UndoDoneGoesOn.
    ASSUME UndoDone(p), th[p].call # "sbrk"
    PROVE  Inv'
  <2> USE <1>UndoDoneGoesOn
  <2>1. /\ ThreadType /\ Label(th[p]) /\ Claim(p) /\ Before(p)
        /\ th[p].np \in Procs /\ th[p].base \in Nat /\ th[p].va \in Nat
        /\ th[p].want \in Nat /\ th[p].rest \in Seq(Nat)
        /\ Stage(th[p], root[Table(p)], tramp[Table(p)], user[Table(p)],
                 trapframe[th[p].np], sz[p], sz[th[p].np])
    BY Start
  <2>2. th[p].pc = "undo" /\ th[p].va = th[p].want /\ th[p].call \in {"fork", "exec"}
    BY <2>1 DEF UndoDone, Unmapped, At, Label, Building
  <2>3. /\ tramp[Table(p)]
        /\ Vas(user[Table(p)]) = 0..(th[p].base - 1) \cup th[p].va..(th[p].want - 1)
        /\ th[p].call = "fork" => th[p].base = 0
    BY <2>1, <2>2 DEF Stage
  <2>4. Vas(user[Table(p)]) = 0..(th[p].base - 1)
    <3>1. th[p].va..(th[p].want - 1) = {}
      BY <2>1, <2>2, RangeNone
    <3> QED
      BY <2>3, <3>1
  <2>5. UNCHANGED <<free, procs, tables, panic>>
    BY DEF UndoDone
  <2>6. Active(p) /\ Early(th[p])
    BY <2>2 DEF Active, Early
  <2>7. CASE th[p].call = "exec"
    <3>1. Set(p, [pc |-> "table", va |-> 0, want |-> th[p].base])
      BY <2>7, SMT DEF UndoDone
    <3>2. /\ Goes(p, "table") /\ th'[p].base = th[p].base /\ th'[p].va = 0
          /\ th'[p].want = th[p].base /\ th'[p].rest = th[p].rest
      BY <3>1, SetIs, SMT DEF Goes
    <3>3. Numbers(p)
      BY <2>1, <3>2, SMT DEF Numbers
    <3>4. Label(th'[p])
      BY <2>7, <3>2 DEF Label, Goes, Building
    <3>5. Stage(th'[p], root[Table(p)], tramp[Table(p)], user[Table(p)],
                trapframe[th[p].np], sz[p], sz[th[p].np])
      <4>1. tramp[Table(p)]
        BY <2>3
      <4> QED
        BY <2>4, <3>2, <4>1, SMT DEF Stage, Goes, Opening, Building
    <3>6. Onward(p)
      BY <2>6, <3>2 DEF Onward, Goes, Opening, Building
    <3> QED
      BY <2>2, <2>5, <2>6, <2>7, <3>2, <3>3, <3>4, <3>5, <3>6, <1>ControlStep
  <2>8. CASE th[p].call = "fork"
    <3>1. Set(p, [pc |-> "freeproc"])
      BY <2>8, SMT DEF UndoDone
    <3>2. Goes(p, "freeproc") /\ Keeps(p)
      BY <3>1, SetIs, SMT DEF Goes, Keeps
    <3>3. Numbers(p)
      BY <2>1, <3>2 DEF Numbers, Keeps
    <3>4. Label(th'[p])
      BY <2>8, <3>2 DEF Label, Goes
    <3>5. sz[th[p].np] = 0
      BY <2>1, <2>6, <2>8 DEF Claim, In
    <3>6. Stage(th'[p], root[Table(p)], tramp[Table(p)], user[Table(p)],
                trapframe[th[p].np], sz[p], sz[th[p].np])
      BY <2>3, <2>4, <2>8, <3>2, <3>5, SMT DEF Stage, Goes, Opening, Building
    <3>7. Onward(p)
      BY <2>8 DEF Onward
    <3> QED
      BY <2>2, <2>5, <2>6, <2>8, <3>2, <3>3, <3>4, <3>6, <3>7, <1>ControlStep
  <2> QED
    BY <2>2, <2>7, <2>8

\* uvmfree has unmapped all pages below the size, which were all.
<1>UnmapDoneKeeps.
    ASSUME UnmapDone(p)
    PROVE  Inv'
  <2> USE <1>UnmapDoneKeeps
  <2>1. /\ ThreadType /\ Label(th[p]) /\ Claim(p) /\ Before(p)
        /\ th[p].np \in Procs /\ th[p].base \in Nat /\ th[p].va \in Nat
        /\ th[p].want \in Nat /\ th[p].rest \in Seq(Nat)
        /\ Stage(th[p], root[Table(p)], tramp[Table(p)], user[Table(p)],
                 trapframe[th[p].np], sz[p], sz[th[p].np])
    BY Start
  <2>2. th[p].pc = "unmap" /\ th[p].va = th[p].want /\ th[p].call \in {"fork", "wait", "exec"}
    BY <2>1 DEF UnmapDone, Unmapped, At, Label, Building
  <2>3. Goes(p, "freewalk") /\ Keeps(p) /\ th'[p].res = th[p].res
    BY SetIs, SMT DEF UnmapDone, Goes, Keeps
  <2>4. Numbers(p)
    BY <2>1, <2>3 DEF Numbers, Keeps
  <2>5. Label(th'[p])
    BY <2>2, <2>3 DEF Label, Goes
  <2>6. Stage(th'[p], root[Table(p)], tramp[Table(p)], user[Table(p)],
              trapframe[th[p].np], sz[p], sz[th[p].np])
    <3>1. ~tramp[Table(p)] /\ Vas(user[Table(p)]) = th[p].va..(th[p].want - 1)
      BY <2>1, <2>2 DEF Stage
    <3>2. th[p].va..(th[p].want - 1) = {}
      BY <2>1, <2>2, RangeNone
    <3>3. user[Table(p)] = {}
      BY <3>1, <3>2, VasOf
    <3> QED
      BY <2>3, <3>1, <3>3, SMT DEF Stage, Goes, Opening, Building
  <2>7. UNCHANGED <<free, procs, tables, panic>>
    BY DEF UnmapDone
  <2>8. Active(p) /\ Onward(p)
    BY <2>2, <2>3 DEF Active, Onward, Early, Goes, Opening, Building
  <2> QED
    BY <2>2, <2>3, <2>4, <2>5, <2>6, <2>7, <2>8, <1>ControlStep

\* In fork and wait the trapframe or the slot comes after the page table.
<1>TableFreedGoesOn.
    ASSUME TableFreed(p), th[p].call # "exec"
    PROVE  Inv'
  <2> USE <1>TableFreedGoesOn
  <2>1. /\ ThreadType /\ Label(th[p]) /\ Claim(p) /\ Before(p)
        /\ th[p].np \in Procs /\ th[p].base \in Nat /\ th[p].va \in Nat
        /\ th[p].want \in Nat /\ th[p].rest \in Seq(Nat)
        /\ Stage(th[p], root[Table(p)], tramp[Table(p)], user[Table(p)],
                 trapframe[th[p].np], sz[p], sz[th[p].np])
    BY Start
  <2>2. th[p].pc = "freewalk" /\ root[Table(p)] = NULL /\ th[p].call \in {"fork", "wait"}
    BY <2>1 DEF TableFreed, At, Label, Building
  <2>3. PICK l \in {"freeproc", "cleared"} :
            Set(p, [pc |-> l]) /\ (l = "cleared" => trapframe[th[p].np] = NULL)
    <3>1. CASE trapframe[th[p].np] # NULL
      BY <3>1, SMT DEF TableFreed
    <3>2. CASE trapframe[th[p].np] = NULL
      BY <3>2, SMT DEF TableFreed
    <3> QED
      BY <3>1, <3>2
  <2>4. Goes(p, l) /\ Keeps(p) /\ th'[p].res = th[p].res
    BY <2>3, SetIs, SMT DEF Goes, Keeps
  <2>5. Numbers(p)
    BY <2>1, <2>4 DEF Numbers, Keeps
  <2>6. Label(th'[p])
    BY <2>2, <2>3, <2>4 DEF Label, Goes
  <2>7. Stage(th'[p], root[Table(p)], tramp[Table(p)], user[Table(p)],
              trapframe[th[p].np], sz[p], sz[th[p].np])
    BY <2>2, <2>3, <2>4, SMT DEF Stage, Goes, Opening, Building
  <2>8. UNCHANGED <<free, procs, tables, panic>>
    BY DEF TableFreed
  <2>9. Active(p) /\ Onward(p)
    BY <2>2 DEF Active, Onward
  <2> QED
    BY <2>2, <2>3, <2>4, <2>5, <2>6, <2>7, <2>8, <2>9, <1>ControlStep

\* Without a page for the trapframe, the root or a page towards the trampoline.
<1>TableFailsGoesOn.
    ASSUME TableFails(p), th[p].pc = "high" \/ th[p].call # "exec"
    PROVE  Inv'
  <2> USE <1>TableFailsGoesOn
  <2>1. /\ ThreadType /\ Label(th[p]) /\ Claim(p) /\ Before(p)
        /\ th[p].np \in Procs /\ th[p].base \in Nat /\ th[p].va \in Nat
        /\ th[p].want \in Nat /\ th[p].rest \in Seq(Nat)
        /\ Stage(th[p], root[Table(p)], tramp[Table(p)], user[Table(p)],
                 trapframe[th[p].np], sz[p], sz[th[p].np])
    BY Start
  <2>2. th[p].pc \in {"trapframe", "root", "high"} /\ th[p].call \in {"fork", "exec"}
    BY <2>1 DEF TableFails, Label, Building
  <2>3. PICK l \in {"freeproc", "freewalk"} :
            /\ Set(p, [pc |-> l, res |-> -1])
            /\ th[p].pc = "high" => l = "freewalk"
            /\ th[p].pc # "high" => l = "freeproc"
    <3>1. CASE th[p].pc = "high"
      BY <3>1, SMT DEF TableFails
    <3>2. CASE th[p].pc # "high"
      BY <3>2, SMT DEF TableFails
    <3> QED
      BY <3>1, <3>2
  <2>4. Goes(p, l) /\ Keeps(p)
    BY <2>3, SetIs, SMT DEF Goes, Keeps
  <2>5. Numbers(p)
    BY <2>1, <2>4 DEF Numbers, Keeps
  <2>6. Label(th'[p])
    BY <2>2, <2>3, <2>4 DEF Label, Goes
  <2>7. Stage(th'[p], root[Table(p)], tramp[Table(p)], user[Table(p)],
              trapframe[th[p].np], sz[p], sz[th[p].np])
    <3>1. th[p].pc # "high" => root[Table(p)] = NULL
      BY <2>1, <2>2 DEF Stage
    <3>2. th[p].pc = "high" => ~tramp[Table(p)] /\ user[Table(p)] = {}
      BY <2>1 DEF Stage
    <3> QED
      BY <2>2, <2>3, <2>4, <3>1, <3>2, SMT DEF Stage, Goes, Opening, Building
  <2>8. UNCHANGED <<free, procs, tables, panic>>
    BY DEF TableFails
  <2>9. Active(p) /\ Onward(p)
    BY <2>2, <2>3, <2>4 DEF Active, Onward, Early, Goes, Opening, Building
  <2> QED
    BY <2>2, <2>3, <2>4, <2>5, <2>6, <2>7, <2>8, <2>9, <1>ControlStep

<1> QED
  BY <1>WalkFailsKeeps, <1>AllocFailsKeeps, <1>ExecNextKeeps, <1>ExecBadKeeps, <1>UnmapDoneKeeps,
     <1>UndoDoneGoesOn, <1>TableFreedGoesOn, <1>TableFailsGoesOn

----------------------------------------------------------------------------
\* exec commits: the two tables of p change places

\* A use names its page, and two uses are equal when they agree in everything.
LEMMA UseIs ==
    ASSUME NEW a, NEW x, NEW i, NEW f
    PROVE  /\ Use(a, x, i, f)[2] = f
           /\ \A b, y, j, g : Use(a, x, i, f) = Use(b, y, j, g) => a = b /\ x = y /\ i = j /\ f = g
  BY DEF Use

\* The kinds of uses are told apart.
Kind(u) == u[1][1]

\* Each set of uses has a kind of its own, so they are disjoint.
LEMMA Kinds ==
    /\ \A u \in Trapframes : Kind(u) = "trapframe"
    /\ \A u \in Hands : Kind(u) = "hand"
    /\ \A u \in Roots : Kind(u) = "root"
    /\ \A u \in Highs : Kind(u) = "high"
    /\ \A u \in Lows : Kind(u) = "low"
    /\ \A u \in Users : Kind(u) = "user"
<1>1. \A a, x, i, f : Kind(Use(a, x, i, f)) = a
  BY SMT DEF Kind, Use
<1>2. \A u \in Trapframes : Kind(u) = "trapframe"
  BY <1>1, SMT DEF Trapframes
<1>3. \A u \in Hands : Kind(u) = "hand"
  BY <1>1, SMT DEF Hands
<1>4. \A u \in Roots : Kind(u) = "root"
  BY <1>1, SMT DEF Roots
<1>5. \A b, k, s : \A u \in Branch(b, k, s) : Kind(u) = b
  BY <1>1, SMT DEF Branch
<1>6. \A u \in Highs : Kind(u) = "high"
  BY <1>5, SMT DEF Highs
<1>7. \A u \in Lows : Kind(u) = "low"
  BY <1>5, SMT DEF Lows
<1>8. \A k, s : \A u \in Mapped(k, s) : Kind(u) = "user"
  BY <1>1, SMT DEF Mapped
<1>9. \A u \in Users : Kind(u) = "user"
  BY <1>8 DEF Users
<1> QED
  BY <1>2, <1>3, <1>4, <1>6, <1>7, <1>9

\* The other name of a table of p.
Swap(p, k) == IF k = Cur(p) THEN New(p) ELSE IF k = New(p) THEN Cur(p) ELSE k

OfTables == {"root", "high", "low", "user"}

\* The use u after, or before, the tables of p have changed places.
Ren(p, u) == IF Kind(u) \in OfTables THEN Use(Kind(u), Swap(p, u[1][2]), u[1][3], u[2]) ELSE u

\* What Ren does with a use u: it gives one of the same page in A, and back.
Turns(p, u, A) == Ren(p, u) \in A /\ Ren(p, Ren(p, u)) = u /\ Ren(p, u)[2] = u[2]

\* exec commits: no page changes its use but for the name of its table.
LEMMA ExecCommitKeeps ==
    ASSUME Inv, NEW p \in Procs, ExecCommit(p)
    PROVE  Inv'
\* The renaming of tables that the commit of exec is: its own inverse.
<1>SwapIs.
    /\ \A k \in Tables : Swap(p, k) \in Tables /\ Swap(p, Swap(p, k)) = k
    /\ Swap(p, Cur(p)) = New(p) /\ Swap(p, New(p)) = Cur(p)
    /\ \A k : k # Cur(p) /\ k # New(p) => Swap(p, k) = k
    BY TablesAre DEF Swap

\* A variable of the tables after the commit, through the renaming.
<1>SwappedIs.
    ASSUME NEW f, DOMAIN f = Tables
    PROVE  /\ DOMAIN Swapped(f, p) = Tables
           /\ \A k \in Tables : Swapped(f, p)[k] = f[Swap(p, k)]
    BY <1>SwappedIs, TablesAre DEF Swapped, Swap

\* A use, renamed.
<1>UseTurns.
    ASSUME NEW b \in OfTables, NEW k \in Tables, NEW i, NEW f
    PROVE  Turns(p, Use(b, k, i, f), {Use(b, Swap(p, k), i, f)})
  <2> USE <1>UseTurns
  <2>1. PICK u, v : u = Use(b, k, i, f) /\ v = Use(b, Swap(p, k), i, f)
    OBVIOUS
  <2>2. Kind(u) = b /\ u[1][2] = k /\ u[1][3] = i /\ u[2] = f
    BY <2>1 DEF Use, Kind
  <2>3. Kind(v) = b /\ v[1][2] = Swap(p, k) /\ v[1][3] = i /\ v[2] = f
    BY <2>1 DEF Use, Kind
  <2>4. Ren(p, u) = v
    BY <2>1, <2>2 DEF Ren
  <2>5. Swap(p, Swap(p, k)) = k
    BY <1>SwapIs
  <2>6. Ren(p, v) = u
    BY <2>1, <2>3, <2>5 DEF Ren
  <2> QED
    BY <2>1, <2>2, <2>3, <2>4, <2>6 DEF Turns

\* The uses of a branch, renamed.
<1>BranchTurns.
    ASSUME NEW b \in OfTables, NEW k \in Tables, NEW s, NEW u \in Branch(b, k, s)
    PROVE  Turns(p, u, Branch(b, Swap(p, k), s))
  <2> USE <1>BranchTurns
  <2>1. PICK i \in DOMAIN s : u = Use(b, k, i, s[i])
    BY DEF Branch
  <2>2. Turns(p, u, {Use(b, Swap(p, k), i, s[i])})
    BY <2>1, <1>UseTurns
  <2>3. Use(b, Swap(p, k), i, s[i]) \in Branch(b, Swap(p, k), s)
    BY DEF Branch
  <2> QED
    BY <2>2, <2>3 DEF Turns

\* The uses of mapped pages, renamed.
<1>MappedTurns.
    ASSUME NEW k \in Tables, NEW s, NEW u \in Mapped(k, s)
    PROVE  Turns(p, u, Mapped(Swap(p, k), s))
  <2> USE <1>MappedTurns
  <2>1. PICK e \in s : u = Use("user", k, e[1], e[2])
    BY DEF Mapped
  <2>2. Turns(p, u, {Use("user", Swap(p, k), e[1], e[2])})
    <3>1. "user" \in OfTables
      BY DEF OfTables
    <3> QED
      BY <2>1, <3>1, <1>UseTurns
  <2>3. Use("user", Swap(p, k), e[1], e[2]) \in Mapped(Swap(p, k), s)
    BY DEF Mapped
  <2> QED
    BY <2>2, <2>3 DEF Turns

\* Every use has its counterpart before and after.
<1>UsesTurn.
    ASSUME TableType, trapframe' = trapframe, Hands' = Hands, root' = Swapped(root, p),
           hi' = Swapped(hi, p), lo' = Swapped(lo, p), user' = Swapped(user, p)
    PROVE  (\A u \in Uses : Turns(p, u, Uses')) /\ (\A u \in Uses' : Turns(p, u, Uses))
  <2> USE <1>UsesTurn
  <2>1. \A k \in Tables : /\ root'[k] = root[Swap(p, k)] /\ hi'[k] = hi[Swap(p, k)]
                          /\ lo'[k] = lo[Swap(p, k)] /\ user'[k] = user[Swap(p, k)]
    BY <1>SwappedIs DEF TableType
  <2>2. \A k \in Tables : Swap(p, k) \in Tables /\ Swap(p, Swap(p, k)) = k
    BY <1>SwapIs
  <2>3. \A k \in Tables : /\ root[k] = root'[Swap(p, k)] /\ hi[k] = hi'[Swap(p, k)]
                          /\ lo[k] = lo'[Swap(p, k)] /\ user[k] = user'[Swap(p, k)]
    <3> SUFFICES ASSUME NEW k \in Tables
                 PROVE  /\ root[k] = root'[Swap(p, k)] /\ hi[k] = hi'[Swap(p, k)]
                        /\ lo[k] = lo'[Swap(p, k)] /\ user[k] = user'[Swap(p, k)]
      OBVIOUS
    <3>1. PICK j \in Tables : j = Swap(p, k) /\ Swap(p, j) = k
      BY <2>2
    <3> QED
      BY <2>1, <3>1
  <2>4. /\ "root" \in OfTables /\ "high" \in OfTables /\ "low" \in OfTables
        /\ "hand" \notin OfTables /\ "trapframe" \notin OfTables
    BY DEF OfTables
  <2>5. ASSUME NEW u \in Highs PROVE Turns(p, u, Highs')
    <3>1. PICK k \in Tables : u \in Branch("high", k, hi[k])
      BY DEF Highs
    <3>2. Turns(p, u, Branch("high", Swap(p, k), hi'[Swap(p, k)]))
      BY <2>3, <2>4, <3>1, <1>BranchTurns
    <3> QED
      BY <2>2, <3>2 DEF Turns, Highs
  <2>6. ASSUME NEW u \in Highs' PROVE Turns(p, u, Highs)
    <3>1. PICK k \in Tables : u \in Branch("high", k, hi'[k])
      BY DEF Highs
    <3>2. Turns(p, u, Branch("high", Swap(p, k), hi[Swap(p, k)]))
      BY <2>1, <2>4, <3>1, <1>BranchTurns
    <3> QED
      BY <2>2, <3>2 DEF Turns, Highs
  <2>7. ASSUME NEW u \in Lows PROVE Turns(p, u, Lows')
    <3>1. PICK k \in Tables : u \in Branch("low", k, lo[k])
      BY DEF Lows
    <3>2. Turns(p, u, Branch("low", Swap(p, k), lo'[Swap(p, k)]))
      BY <2>3, <2>4, <3>1, <1>BranchTurns
    <3> QED
      BY <2>2, <3>2 DEF Turns, Lows
  <2>8. ASSUME NEW u \in Lows' PROVE Turns(p, u, Lows)
    <3>1. PICK k \in Tables : u \in Branch("low", k, lo'[k])
      BY DEF Lows
    <3>2. Turns(p, u, Branch("low", Swap(p, k), lo[Swap(p, k)]))
      BY <2>1, <2>4, <3>1, <1>BranchTurns
    <3> QED
      BY <2>2, <3>2 DEF Turns, Lows
  <2>9. ASSUME NEW u \in Users PROVE Turns(p, u, Users')
    <3>1. PICK k \in Tables : u \in Mapped(k, user[k])
      BY DEF Users
    <3>2. Turns(p, u, Mapped(Swap(p, k), user'[Swap(p, k)]))
      BY <2>3, <3>1, <1>MappedTurns
    <3> QED
      BY <2>2, <3>2 DEF Turns, Users
  <2>10. ASSUME NEW u \in Users' PROVE Turns(p, u, Users)
    <3>1. PICK k \in Tables : u \in Mapped(k, user'[k])
      BY DEF Users
    <3>2. Turns(p, u, Mapped(Swap(p, k), user[Swap(p, k)]))
      BY <2>1, <3>1, <1>MappedTurns
    <3> QED
      BY <2>2, <3>2 DEF Turns, Users
  <2>11. ASSUME NEW u \in Roots PROVE Turns(p, u, Roots')
    <3>1. PICK k \in Tables : root[k] # NULL /\ u = Use("root", k, 0, root[k])
      BY DEF Roots
    <3>2. PICK j, f : j \in Tables /\ j = Swap(p, k) /\ f = root[k] /\ root'[j] = f
      BY <2>2, <2>3
    <3>3. Turns(p, u, {Use("root", j, 0, f)})
      BY <2>4, <3>1, <3>2, <1>UseTurns
    <3>4. Use("root", j, 0, f) \in Roots'
      BY <3>1, <3>2 DEF Roots
    <3> QED
      BY <3>3, <3>4 DEF Turns
  <2>12. ASSUME NEW u \in Roots' PROVE Turns(p, u, Roots)
    <3>1. PICK k \in Tables : root'[k] # NULL /\ u = Use("root", k, 0, root'[k])
      BY DEF Roots
    <3>2. PICK j, f : j \in Tables /\ j = Swap(p, k) /\ f = root'[k] /\ root[j] = f
      BY <2>1, <2>2
    <3>3. Turns(p, u, {Use("root", j, 0, f)})
      BY <2>4, <3>1, <3>2, <1>UseTurns
    <3>4. Use("root", j, 0, f) \in Roots
      BY <3>1, <3>2 DEF Roots
    <3> QED
      BY <3>3, <3>4 DEF Turns
  <2>13. Trapframes' = Trapframes
    BY DEF Trapframes
  <2>14. ASSUME NEW A, NEW u \in A, A = Hands \/ A = Trapframes PROVE Turns(p, u, A)
    <3>1. Kind(u) \notin OfTables
      BY <2>4, <2>14, Kinds
    <3> QED
      BY <3>1 DEF Turns, Ren
  <2>15. \A u \in Uses : Turns(p, u, Uses')
    BY <2>5, <2>7, <2>9, <2>11, <2>13, <2>14 DEF Uses, Turns
  <2>16. ASSUME NEW u \in Uses' PROVE Turns(p, u, Uses)
    <3>1. CASE u \in Trapframes' \cup Hands'
      BY <2>13, <2>14, <3>1 DEF Uses, Turns
    <3>2. CASE u \in Roots' \cup Highs'
      BY <2>6, <2>8, <2>10, <2>12, <3>2 DEF Uses, Turns
    <3>3. CASE u \in Lows' \cup Users'
      BY <2>6, <2>8, <2>10, <2>12, <3>3 DEF Uses, Turns
    <3> QED
      BY <2>16, <3>1, <3>2, <3>3 DEF Uses
  <2> QED
    BY <2>15, <2>16

\* Changing names conserves.
<1>Renamed.
    ASSUME NEW U, NEW V, NEW F, Conserved(U, F), \A u \in U : Turns(p, u, V),
           \A v \in V : Turns(p, v, U)
    PROVE  Conserved(V, F)
  <2> USE <1>Renamed
  <2>1. Pages(V) = Pages(U)
    <3>1. ASSUME NEW f \in Pages(V) PROVE f \in Pages(U)
      <4>1. PICK v \in V : f = v[2]
        BY DEF Pages
      <4>2. Ren(p, v) \in U /\ Ren(p, v)[2] = f
        BY <4>1 DEF Turns
      <4> QED
        BY <4>2 DEF Pages
    <3>2. ASSUME NEW f \in Pages(U) PROVE f \in Pages(V)
      <4>1. PICK u \in U : f = u[2]
        BY DEF Pages
      <4>2. Ren(p, u) \in V /\ Ren(p, u)[2] = f
        BY <4>1 DEF Turns
      <4> QED
        BY <4>2 DEF Pages
    <3> QED
      BY <3>1, <3>2
  <2>2. ASSUME NEW u \in V, NEW v \in V, u[2] = v[2] PROVE u = v
    <3>1. Ren(p, u) \in U /\ Ren(p, v) \in U /\ Ren(p, u)[2] = Ren(p, v)[2]
      BY <2>2 DEF Turns
    <3>2. Ren(p, u) = Ren(p, v)
      BY <3>1 DEF Conserved
    <3> QED
      BY <3>2 DEF Turns
  <2> QED
    BY <2>1, <2>2 DEF Conserved

<1>1. /\ ThreadType /\ Label(th[p]) /\ Claim(p) /\ Before(p)
      /\ th[p].np \in Procs /\ th[p].base \in Nat /\ th[p].va \in Nat
      /\ th[p].want \in Nat /\ th[p].rest \in Seq(Nat)
      /\ Stage(th[p], root[Table(p)], tramp[Table(p)], user[Table(p)],
               trapframe[th[p].np], sz[p], sz[th[p].np])
  BY Start
<1>2. /\ th[p].pc = "mem" /\ th[p].call = "exec" /\ th[p].va = th[p].want /\ Active(p)
      /\ TypeInv /\ TableType /\ PagesConserved /\ ~panic
  BY Start DEF ExecCommit, Allocated, At, Active
<1>3. PICK s \in Nat, w \in Nat : s = sz[p] /\ w = th[p].want
  BY <1>1, <1>2 DEF TypeInv
<1>4. /\ Goes(p, "table") /\ th'[p].va = 0 /\ th'[p].want = s
      /\ th'[p].base = th[p].base /\ th'[p].rest = th[p].rest /\ th'[p].res = th[p].res
  <2>1. Set(p, [pc |-> "table", va |-> 0, want |-> s])
    BY <1>3 DEF ExecCommit
  <2> QED
    BY <2>1, SetIs, SMT DEF Goes
<1>5. /\ root' = Swapped(root, p) /\ hi' = Swapped(hi, p) /\ lo' = Swapped(lo, p)
      /\ tramp' = Swapped(tramp, p) /\ user' = Swapped(user, p)
      /\ sz' = [sz EXCEPT ![p] = w] /\ free' = free /\ state' = state /\ parent' = parent
      /\ trapframe' = trapframe /\ panic' = panic
  BY <1>3 DEF ExecCommit
<1>6. th[p].np = p /\ Table(p) = New(p)
  BY <1>1, <1>2 DEF Claim, In, Table
<1>7. /\ tramp[New(p)] /\ Vas(user[New(p)]) = 0..(w - 1)
      /\ tramp[Cur(p)] /\ Vas(user[Cur(p)]) = 0..(s - 1)
  <2>1. ~In(p, "sbrk")
    BY <1>2 DEF In
  <2>2. Whole(p)
    BY <1>2, <2>1, CallerWhole
  <2> QED
    BY <1>1, <1>2, <1>3, <1>6, <2>2 DEF Whole, Stage, Building
<1>8. \A k \in Tables : /\ root'[k] = root[Swap(p, k)] /\ hi'[k] = hi[Swap(p, k)]
                        /\ lo'[k] = lo[Swap(p, k)] /\ user'[k] = user[Swap(p, k)]
                        /\ tramp'[k] = tramp[Swap(p, k)]
  BY <1>2, <1>5, <1>SwappedIs DEF TableType
<1>9. /\ \A k \in Tables : Swap(p, k) \in Tables
      /\ Swap(p, Cur(p)) = New(p) /\ Swap(p, New(p)) = Cur(p)
      /\ \A k : k # Cur(p) /\ k # New(p) => Swap(p, k) = k
  BY <1>SwapIs
<1>10. Cur(p) \in Tables /\ New(p) \in Tables
  BY TablesAre
<1>11. /\ tramp'[Cur(p)] /\ Vas(user'[Cur(p)]) = 0..(w - 1)
       /\ tramp'[New(p)] /\ Vas(user'[New(p)]) = 0..(s - 1)
  BY <1>7, <1>8, <1>9, <1>10
<1>12. Reaches(p)
  <2>1. \A k \in Tables : k # New(p) /\ k # Cur(p) => SameTable(k)
    <3> SUFFICES ASSUME NEW k \in Tables, k # New(p), k # Cur(p) PROVE SameTable(k)
      OBVIOUS
    <3>1. Swap(p, k) = k
      BY <1>9
    <3> QED
      BY <1>8, <3>1 DEF SameTable
  <2>2. DOMAIN sz = Procs
    BY <1>2 DEF TypeInv
  <2>3. \A r \in Procs : r # p => SameSlot(r)
    BY <1>5, <2>2 DEF SameSlot
  <2> QED
    BY <1>4, <1>6, <2>1, <2>3 DEF Reaches, Goes
<1>13. \A q \in Procs : q # p => Thread(q)'
  BY <1>2, <1>12, OthersKept
<1>14. TypeInv' /\ TableType' /\ ~panic'
  <2>1. sz' \in [Procs -> Nat]
    BY <1>2, <1>5 DEF TypeInv
  <2>2. TypeInv'
    BY <1>2, <1>5, <2>1 DEF TypeInv
  <2>3. TableType'
    <3>1. /\ DOMAIN Swapped(root, p) = Tables /\ DOMAIN Swapped(hi, p) = Tables
          /\ DOMAIN Swapped(lo, p) = Tables /\ DOMAIN Swapped(tramp, p) = Tables
          /\ DOMAIN Swapped(user, p) = Tables
      BY <1>2, <1>SwappedIs DEF TableType
    <3>2. \A k \in Tables :
            /\ root'[k] \in Frames \cup {NULL} /\ hi'[k] \in Seq(Frames)
            /\ lo'[k] \in Seq(Frames) /\ tramp'[k] \in BOOLEAN
            /\ user'[k] \in SUBSET (Nat \X Frames)
      BY <1>2, <1>8, <1>9 DEF TableType
    <3>3. /\ root' = [k \in Tables |-> root'[k]] /\ hi' = [k \in Tables |-> hi'[k]]
          /\ lo' = [k \in Tables |-> lo'[k]] /\ tramp' = [k \in Tables |-> tramp'[k]]
          /\ user' = [k \in Tables |-> user'[k]]
      BY <1>5, <3>1 DEF Swapped
    <3> QED
      BY <3>2, <3>3 DEF TableType
  <2>4. ~panic'
    BY <1>5, StillFine
  <2> QED
    BY <2>2, <2>3, <2>4
<1>15. sz'[p] = w
  BY <1>2, <1>5 DEF TypeInv
<1>16. state[p] = "running"
  BY <1>1, <1>2 DEF Claim
<1>17. In(p, "exec")' /\ ~In(p, "sbrk")' /\ ~In(p, "fork")' /\ ~In(p, "wait")'
  BY <1>2, <1>4 DEF In, Active, Goes
<1>18. \A r \in Procs : Slot(r)'
  <2>1. Slot(p)'
    BY <1>5, <1>11, <1>15, <1>16, <1>17 DEF Slot, Whole
  <2> QED
    BY <1>2, <1>6, <1>12, <2>1, SlotsKept
<1>19. Thread(p)'
  <2>1. Label(th'[p])
    BY <1>2, <1>4 DEF Label, Goes
  <2>2. Claim(p)'
    BY <1>4, <1>5, <1>6, <1>16, <1>17 DEF Claim, Goes
  <2>3. Progress(p)'
    <3>1. Table(p)' = New(p)
      BY <1>2, <1>4 DEF Table, Goes
    <3> QED
      BY <1>4, <1>11, <3>1, SMT DEF Progress, Stage, Goes, Opening, Building
  <2>4. Before(p)'
    <3>1. th[p].res = 0
      BY <1>1, <1>2 DEF Before, Had, Building
    <3>2. ~Early(th'[p])
      BY <1>4, <3>1, SMT DEF Early, Goes
    <3> QED
      BY <1>2, <1>4, <3>2 DEF Before, Had, Goes, Opening, Building
  <2> QED
    BY <2>1, <2>2, <2>3, <2>4 DEF Thread
<1>20. ThreadType'
  <2>1. 0 \in Nat
    BY SMT
  <2> QED
    BY <1>1, <1>4, <2>1, ThreadTypeKept DEF Goes
<1>21. PagesConserved'
  <2>1. Hands' = Hands
    BY <1>2, <1>4, HandsSame DEF Goes
  <2>2. (\A u \in Uses : Turns(p, u, Uses')) /\ (\A u \in Uses' : Turns(p, u, Uses))
    BY <1>2, <1>5, <2>1, <1>UsesTurn
  <2> QED
    BY <1>2, <1>5, <2>2, <1>Renamed DEF PagesConserved
<1>22. \A k \in Tables : Rooted(k)'
  <2> SUFFICES ASSUME NEW k \in Tables PROVE Rooted(k)'
    OBVIOUS
  <2>1. Rooted(Swap(p, k))
    BY <1>9 DEF Inv
  <2> QED
    BY <1>8, <2>1 DEF Rooted, NoTable
<1> QED
  BY <1>13, <1>14, <1>18, <1>19, <1>20, <1>21, <1>22 DEF Inv

----------------------------------------------------------------------------
\* The steps that take a page

\* A step that goes on in the call of p, on its table k and its process np.
LEMMA TableStep ==
    ASSUME Inv, NEW p \in Procs, NEW l, Active(p), Goes(p, l), l \notin {"user", "ret"},
           Numbers(p), NEW k, k = Table(p), NEW np, np = th[p].np,
           state' = state, parent' = parent, sz' = sz,
           \A r \in Procs : r # np => trapframe'[r] = trapframe[r],
           \A j \in Tables : j # k => SameTable(j),
           Onward(p), Label(th'[p]),
           Stage(th'[p], root'[k], tramp'[k], user'[k], trapframe'[np], sz[p], sz[np]),
           th[p].call = "sbrk" => Had(th'[p], user'[Cur(p)], sz[p]),
           TypeInv', TableType', ~panic', Rooted(k)', PagesConserved'
    PROVE  Inv'
<1>1. ThreadType /\ th[p].np \in Procs
  BY Start
<1>2. Touches(p)
  BY DEF Touches, Reaches, Goes, SameSlot
<1>3. ThreadType'
  BY <1>1, ThreadTypeKept DEF Goes, Numbers
<1>4. Table(p)' = k /\ th'[p].np = np
  BY DEF Table, Goes
<1>5. Progress(p)'
  BY <1>4 DEF Progress
<1>6. th[p].call = "sbrk" => Before(p)'
  BY DEF Before
<1>7. Rooted(Table(p))'
  BY <1>4 DEF Rooted, NoTable
<1>8. Active(p)'
  BY DEF Goes, Active
<1> QED
  BY <1>2, <1>3, <1>5, <1>6, <1>7, <1>8, InvStep DEF Goes

\* proc_freepagetable finds the trampoline mapped.
LEMMA FreeTableKeeps ==
    ASSUME Inv, NEW p \in Procs, FreeTable(p)
    PROVE  Inv'
<1>0. PICK k \in Tables, np \in Procs : k = Table(p) /\ np = th[p].np
  BY Start
<1>1. /\ TypeInv /\ TableType /\ ThreadType /\ PagesConserved /\ ~panic
      /\ Label(th[p]) /\ Claim(p) /\ Before(p) /\ Rooted(k)
      /\ th[p].base \in Nat /\ th[p].va \in Nat /\ th[p].want \in Nat /\ th[p].rest \in Seq(Nat)
      /\ Stage(th[p], root[k], tramp[k], user[k], trapframe[np], sz[p], sz[np])
  BY <1>0, Start
<1>N. th[p].base \in Nat /\ th[p].va \in Nat /\ th[p].want \in Nat /\ th[p].rest \in Seq(Nat)
  BY <1>1
<1>2. th[p].pc = "table" /\ Active(p) /\ th[p].call \in {"fork", "wait", "exec"}
  BY <1>1 DEF FreeTable, At, Active, Label, Building
<1>3. tramp[k] /\ th[p].va = 0 /\ Vas(user[k]) = 0..(th[p].want - 1)
  BY <1>1, <1>2 DEF Stage
<1>4. Goes(p, "unmap") /\ Keeps(p) /\ th'[p].res = th[p].res
  BY SetIs, SMT DEF FreeTable, Goes, Keeps
<1>5. /\ tramp' = [tramp EXCEPT ![k] = FALSE] /\ panic' = ~tramp[k]
      /\ free' = free /\ state' = state /\ parent' = parent /\ sz' = sz
      /\ trapframe' = trapframe /\ root' = root /\ hi' = hi /\ lo' = lo /\ user' = user
  BY <1>0 DEF FreeTable, procs
<1>6. ~tramp'[k] /\ \A j \in Tables : j # k => SameTable(j)
  <2>1. DOMAIN tramp = Tables
    BY <1>1 DEF TableType
  <2> QED
    BY <1>5, <2>1 DEF SameTable
<1>7. TypeInv' /\ TableType' /\ ~panic'
  <2>1. TypeInv'
    BY <1>1, <1>5 DEF TypeInv
  <2>2. tramp' \in [Tables -> BOOLEAN]
    BY <1>1, <1>5 DEF TableType
  <2>3. TableType'
    BY <1>1, <1>5, <2>2 DEF TableType
  <2> QED
    BY <1>3, <1>5, <2>1, <2>3
<1>8. PagesConserved'
  <2>1. Hands' = Hands
    BY <1>2, <1>4, HandsSame DEF Goes
  <2>2. /\ Trapframes' = Trapframes /\ Roots' = Roots /\ Highs' = Highs /\ Lows' = Lows
        /\ Users' = Users
    BY <1>5 DEF Trapframes, Roots, Highs, Lows, Users
  <2> QED
    BY <1>1, <1>5, <2>1, <2>2 DEF PagesConserved, Uses
<1>9. Stage(th'[p], root'[k], tramp'[k], user'[k], trapframe'[np], sz[p], sz[np])
  BY <1>N, <1>3, <1>4, <1>5, <1>6, SMT DEF Stage, Goes, Keeps, Opening, Building
<1>10. Numbers(p) /\ Label(th'[p]) /\ Rooted(k)' /\ Onward(p)
  <2>1. root[k] # NULL
    BY <1>1, <1>3 DEF Rooted, NoTable
  <2>2. Label(th'[p])
    BY <1>2, <1>4 DEF Label, Goes
  <2>3. Onward(p)
    BY <1>2, <1>4 DEF Onward, Early, Goes, Opening, Building
  <2> QED
    BY <1>1, <1>4, <1>5, <2>1, <2>2, <2>3 DEF Numbers, Keeps, Rooted
<1> QED
  BY <1>0, <1>2, <1>4, <1>5, <1>6, <1>7, <1>8, <1>9, <1>10, TableStep

\* kalloc gives a page to a new use.
LEMMA TakeOne ==
    ASSUME NEW U, NEW F, Conserved(U, F), NEW u, u[2] \in F
    PROVE  Conserved(U \cup {u}, F \ {u[2]})
<1>1. /\ Pages(U) = Frames \ F /\ F \subseteq Frames
      /\ \A v, w \in U : v[2] = w[2] => v = w
  BY DEF Conserved
<1>2. Pages(U \cup {u}) = Pages(U) \cup {u[2]}
  BY DEF Pages
<1>3. \A v \in U : v[2] # u[2]
  BY <1>1 DEF Pages
<1>4. \A v, w \in U \cup {u} : v[2] = w[2] => v = w
  BY <1>1, <1>3
<1>5. Pages(U) \cup {u[2]} = Frames \ (F \ {u[2]}) /\ F \ {u[2]} \subseteq Frames
  BY <1>1
<1> QED
  BY <1>2, <1>4, <1>5 DEF Conserved

\* kalloc takes a free page.
LEMMA TakenFree ==
    ASSUME Inv, ~NoneFree
    PROVE  Taken \in free /\ Taken \in Frames /\ Taken # NULL
<1>1. Taken \in free
  BY DEF Taken, NoneFree
<1> QED
  BY <1>1, UvmAssumption DEF Inv, TypeInv

\* kalloc has given the page f to a new use.
LEMMA TakenBy ==
    ASSUME PagesConserved, NEW a, NEW x, NEW i, NEW f, f \in free,
           Uses' = Uses \cup {Use(a, x, i, f)}, free' = free \ {f}
    PROVE  PagesConserved'
<1>1. PICK u : u = Use(a, x, i, f)
  OBVIOUS
<1>2. u[2] = f
  BY <1>1, UseIs, SMT
<1>3. Conserved(Uses \cup {u}, free \ {u[2]})
  BY <1>2, TakeOne DEF PagesConserved
<1> QED
  BY <1>1, <1>2, <1>3 DEF PagesConserved

\* allocproc gets the trapframe.
LEMMA AllocTrapframeKeeps ==
    ASSUME Inv, NEW p \in Procs, AllocTrapframe(p)
    PROVE  Inv'
\* What each variable contributes, when one entry of it changes.
<1>TrapframesSet.
    ASSUME NEW np \in Procs, NEW f, f # NULL, trapframe[np] = NULL, DOMAIN trapframe = Procs,
           trapframe' = [trapframe EXCEPT ![np] = f]
    PROVE  Trapframes' = Trapframes \cup {Use("trapframe", np, 0, f)}
  <2> USE <1>TrapframesSet
  <2>1. trapframe'[np] = f /\ \A q \in Procs : q # np => trapframe'[q] = trapframe[q]
    OBVIOUS
  <2> QED
    BY <2>1 DEF Trapframes

<1>0. PICK k \in Tables, np \in Procs : k = Table(p) /\ np = th[p].np
  BY Start
<1>1. /\ TypeInv /\ TableType /\ ThreadType /\ PagesConserved /\ ~panic
      /\ Label(th[p]) /\ Claim(p) /\ Before(p) /\ Rooted(k)
      /\ th[p].base \in Nat /\ th[p].va \in Nat /\ th[p].want \in Nat /\ th[p].rest \in Seq(Nat)
      /\ Stage(th[p], root[k], tramp[k], user[k], trapframe[np], sz[p], sz[np])
  BY <1>0, Start
<1>2. PICK f \in Frames : f = Taken /\ f \in free /\ f # NULL
  BY TakenFree DEF AllocTrapframe
<1>3. th[p].pc = "trapframe" /\ th[p].call = "fork"
  BY <1>1 DEF AllocTrapframe, At, Label, Building
<1>4. /\ trapframe[np] = NULL /\ root[k] = NULL
      /\ th[p].base = 0 /\ th[p].va = 0 /\ th[p].rest = <<>> /\ th[p].want = sz[p]
  BY <1>1, <1>3 DEF Stage, Opening
<1>5. Goes(p, "root") /\ Keeps(p)
  BY SetIs, SMT DEF AllocTrapframe, Goes, Keeps
<1>6. /\ trapframe' = [trapframe EXCEPT ![np] = f]
      /\ free' = free \ {f}
      /\ state' = state /\ parent' = parent /\ sz' = sz /\ panic' = panic
      /\ root' = root /\ hi' = hi /\ lo' = lo /\ tramp' = tramp /\ user' = user
  BY <1>0, <1>2 DEF AllocTrapframe, tables
<1>7. /\ \A r \in Procs : r # np => trapframe'[r] = trapframe[r]
      /\ DOMAIN trapframe = Procs
  BY <1>1, <1>6 DEF TypeInv
<1>8. \A j \in Tables : j # k => SameTable(j)
  BY <1>6 DEF SameTable
<1>9. TypeInv' /\ TableType' /\ ~panic'
  <2>1. trapframe' \in [Procs -> Frames \cup {NULL}]
    BY <1>1, <1>6 DEF TypeInv
  <2>2. TypeInv'
    BY <1>1, <1>6, <2>1 DEF TypeInv
  <2>3. TableType'
    BY <1>1, <1>6 DEF TableType
  <2>4. ~panic'
    BY <1>6, StillFine
  <2> QED
    BY <2>2, <2>3, <2>4
<1>10. PagesConserved'
  <2>1. Trapframes' = Trapframes \cup {Use("trapframe", np, 0, f)}
    BY <1>2, <1>4, <1>6, <1>7, <1>TrapframesSet
  <2>2. Hands' = Hands
    BY <1>3, <1>5, HandsSame DEF Goes
  <2>3. Roots' = Roots /\ Highs' = Highs /\ Lows' = Lows /\ Users' = Users
    BY <1>6 DEF Roots, Highs, Lows, Users
  <2>4. Uses' = Uses \cup {Use("trapframe", np, 0, f)}
    BY <2>1, <2>2, <2>3 DEF Uses
  <2> QED
    BY <1>1, <1>2, <1>6, <2>4, TakenBy
<1>11. Stage(th'[p], root'[k], tramp'[k], user'[k], trapframe'[np], sz[p], sz[np])
  BY <1>4, <1>5, <1>6, SMT DEF Stage, Goes, Keeps, Opening, Building
<1>12. Numbers(p) /\ Label(th'[p]) /\ Active(p) /\ Rooted(k)' /\ Onward(p)
  BY <1>1, <1>3, <1>5, <1>6 DEF Onward, Numbers, Keeps, Label, Goes, Active, Rooted, NoTable
<1> QED
  BY <1>0, <1>3, <1>5, <1>6, <1>7, <1>8, <1>9, <1>10, <1>11, <1>12, TableStep

\* uvmcreate gets the root.
LEMMA AllocRootKeeps ==
    ASSUME Inv, NEW p \in Procs, AllocRoot(p)
    PROVE  Inv'
\* Table k gets a root.
<1>RootsSet.
    ASSUME NEW k \in Tables, NEW f, f # NULL, root[k] = NULL, DOMAIN root = Tables,
           root' = [root EXCEPT ![k] = f]
    PROVE  Roots' = Roots \cup {Use("root", k, 0, f)}
  <2> USE <1>RootsSet
  <2>1. root'[k] = f /\ \A j \in Tables : j # k => root'[j] = root[j]
    OBVIOUS
  <2> QED
    BY <2>1 DEF Roots

<1>0. PICK k \in Tables, np \in Procs : k = Table(p) /\ np = th[p].np
  BY Start
<1>1. /\ TypeInv /\ TableType /\ ThreadType /\ PagesConserved /\ ~panic
      /\ Label(th[p]) /\ Claim(p) /\ Before(p) /\ Rooted(k)
      /\ th[p].base \in Nat /\ th[p].va \in Nat /\ th[p].want \in Nat /\ th[p].rest \in Seq(Nat)
      /\ Stage(th[p], root[k], tramp[k], user[k], trapframe[np], sz[p], sz[np])
  BY <1>0, Start
<1>2. PICK f \in Frames : f = Taken /\ f \in free /\ f # NULL
  BY TakenFree DEF AllocRoot
<1>3. th[p].pc = "root" /\ th[p].call \in {"fork", "exec"}
  BY <1>1 DEF AllocRoot, At, Label, Building
<1>4. /\ root[k] = NULL /\ ~tramp[k] /\ user[k] = {}
      /\ th[p].base = 0 /\ th[p].va = 0
      /\ th[p].call = "fork" => th[p].rest = <<>> /\ th[p].want = sz[p]
  BY <1>1, <1>3 DEF Stage, Opening, Rooted, NoTable
<1>5. Goes(p, "high") /\ Keeps(p) /\ th'[p].res = th[p].res
  BY SetIs, SMT DEF AllocRoot, Goes, Keeps
<1>6. /\ root' = [root EXCEPT ![k] = f]
      /\ free' = free \ {f}
      /\ state' = state /\ parent' = parent /\ sz' = sz /\ panic' = panic
      /\ trapframe' = trapframe /\ hi' = hi /\ lo' = lo /\ tramp' = tramp /\ user' = user
  BY <1>0, <1>2 DEF AllocRoot, procs
<1>7. /\ \A j \in Tables : j # k => root'[j] = root[j]
      /\ DOMAIN root = Tables /\ root'[k] = f
  BY <1>1, <1>6 DEF TableType
<1>8. \A j \in Tables : j # k => SameTable(j)
  BY <1>6, <1>7 DEF SameTable
<1>9. TypeInv' /\ TableType' /\ ~panic'
  <2>1. TypeInv'
    BY <1>1, <1>6 DEF TypeInv
  <2>2. root' \in [Tables -> Frames \cup {NULL}]
    BY <1>1, <1>6 DEF TableType
  <2>3. TableType'
    BY <1>1, <1>6, <2>2 DEF TableType
  <2>4. ~panic'
    BY <1>6, StillFine
  <2> QED
    BY <2>1, <2>3, <2>4
<1>10. PagesConserved'
  <2>1. Roots' = Roots \cup {Use("root", k, 0, f)}
    BY <1>2, <1>4, <1>6, <1>7, <1>RootsSet
  <2>2. Hands' = Hands
    BY <1>3, <1>5, HandsSame DEF Goes
  <2>3. Trapframes' = Trapframes /\ Highs' = Highs /\ Lows' = Lows /\ Users' = Users
    BY <1>6 DEF Trapframes, Highs, Lows, Users
  <2>4. Uses' = Uses \cup {Use("root", k, 0, f)}
    BY <2>1, <2>2, <2>3 DEF Uses
  <2> QED
    BY <1>1, <1>2, <1>6, <2>4, TakenBy
<1>11. Stage(th'[p], root'[k], tramp'[k], user'[k], trapframe'[np], sz[p], sz[np])
  BY <1>2, <1>4, <1>5, <1>6, <1>7, SMT DEF Stage, Goes, Keeps, Opening, Building
<1>12. Numbers(p) /\ Label(th'[p]) /\ Active(p) /\ Rooted(k)'
  BY <1>1, <1>2, <1>3, <1>5, <1>7 DEF Numbers, Keeps, Label, Goes, Active, Rooted
<1>13. Onward(p)
  BY <1>3, <1>5 DEF Onward, Early, Goes, Opening
<1> QED
  BY <1>0, <1>3, <1>5, <1>6, <1>8, <1>9, <1>10, <1>11, <1>12, <1>13, TableStep

\* kalloc of uvmalloc or uvmcopy gets a page; the parent has the one to copy.
LEMMA AllocPageKeeps ==
    ASSUME Inv, NEW p \in Procs, AllocPage(p)
    PROVE  Inv'
\* The thread of p gets a page in hand.
<1>HandsTake.
    ASSUME Others(p), th[p].pc \notin {"map", "drop"}, th'[p].pc = "map"
    PROVE  Hands' = Hands \cup {Use("hand", p, 0, th'[p].mem)}
  <2> USE <1>HandsTake
  <2>1. InHand' = InHand \cup {p}
    BY DEF InHand, Others
  <2>2. \A q \in InHand : th'[q].mem = th[q].mem
    BY DEF InHand, Others
  <2> QED
    BY <2>1, <2>2 DEF Hands

<1>0. PICK k \in Tables, np \in Procs : k = Table(p) /\ np = th[p].np
  BY Start
<1>1. /\ TypeInv /\ TableType /\ ThreadType /\ PagesConserved /\ ~panic
      /\ Label(th[p]) /\ Claim(p) /\ Before(p) /\ Rooted(k)
      /\ th[p].base \in Nat /\ th[p].va \in Nat /\ th[p].want \in Nat /\ th[p].rest \in Seq(Nat)
      /\ Stage(th[p], root[k], tramp[k], user[k], trapframe[np], sz[p], sz[np])
  BY <1>0, Start
<1>2. PICK f \in Frames : f = Taken /\ f \in free
  BY TakenFree DEF AllocPage
<1>3. th[p].pc = "mem" /\ th[p].va < th[p].want /\ Active(p)
  BY DEF AllocPage, At, Active
<1>4. Goes(p, "map") /\ Keeps(p) /\ th'[p].mem = f /\ th'[p].res = th[p].res
  <2>1. Set(p, [pc |-> "map", mem |-> f])
    BY <1>2 DEF AllocPage
  <2> QED
    BY <2>1, SetIs, SMT DEF Goes, Keeps
<1>5. /\ free' = free \ {f}
      /\ state' = state /\ parent' = parent /\ sz' = sz /\ trapframe' = trapframe
      /\ root' = root /\ hi' = hi /\ lo' = lo /\ tramp' = tramp /\ user' = user
  BY <1>2 DEF AllocPage, procs, tables
<1>6. ~panic'
  <2>1. ASSUME th[p].call = "fork" PROVE th[p].va \in Vas(user[Cur(p)])
    <3>1. In(p, "fork") /\ state[p] = "running"
      BY <1>1, <1>3, <2>1 DEF In, Claim, Active
    <3>2. Whole(p)
      BY <3>1 DEF Inv, Slot, In
    <3>3. th[p].want = sz[p]
      BY <1>1, <1>3, <2>1 DEF Stage, Building
    <3>4. PICK v \in Nat, n \in Nat : v = th[p].va /\ n = sz[p] /\ v < n
      BY <1>1, <1>3, <3>3 DEF TypeInv
    <3>5. v \in 0..(n - 1)
      BY <3>4, SMT
    <3> QED
      BY <3>2, <3>4, <3>5 DEF Whole
  <2> QED
    BY <2>1 DEF AllocPage
<1>7. \A j \in Tables : j # k => SameTable(j)
  BY <1>5 DEF SameTable
<1>8. TypeInv' /\ TableType'
  BY <1>1, <1>5 DEF TypeInv, TableType
<1>9. PagesConserved'
  <2>1. Hands' = Hands \cup {Use("hand", p, 0, f)}
    BY <1>3, <1>4, <1>HandsTake DEF Goes
  <2>2. /\ Trapframes' = Trapframes /\ Roots' = Roots /\ Highs' = Highs /\ Lows' = Lows
        /\ Users' = Users
    BY <1>5 DEF Trapframes, Roots, Highs, Lows, Users
  <2>3. Uses' = Uses \cup {Use("hand", p, 0, f)}
    BY <2>1, <2>2 DEF Uses
  <2> QED
    BY <1>1, <1>2, <1>5, <2>3, TakenBy
<1>10. Stage(th'[p], root'[k], tramp'[k], user'[k], trapframe'[np], sz[p], sz[np])
  <2>1. /\ tramp[k] /\ Vas(user[k]) = 0..(th[p].va - 1)
        /\ th[p].base <= th[p].va /\ th[p].va <= th[p].want
        /\ th[p].call = "fork" => th[p].base = 0 /\ th[p].want = sz[p]
    BY <1>1, <1>3 DEF Stage, Building
  <2> QED
    BY <1>3, <1>4, <1>5, <2>1, SMT DEF Stage, Goes, Keeps, Opening, Building
<1>11. th[p].call = "sbrk" => Had(th'[p], user'[Cur(p)], sz[p])
  BY <1>1, <1>3, <1>4, <1>5 DEF Before, Had, Goes, Keeps, Building
<1>12. Numbers(p) /\ Label(th'[p]) /\ Rooted(k)' /\ Onward(p)
  <2>1. Label(th'[p])
    BY <1>1, <1>3, <1>4 DEF Label, Goes, Building
  <2>2. Onward(p)
    BY <1>3, <1>4 DEF Onward, Early, Building
  <2> QED
    BY <1>1, <1>3, <1>4, <1>5, <2>1, <2>2 DEF Numbers, Keeps, Rooted, NoTable
<1> QED
  BY <1>0, <1>3, <1>4, <1>5, <1>6, <1>7, <1>8, <1>9, <1>10, <1>11, <1>12, TableStep

\* One table of all changes.
Join(F) == UNION {F[k] : k \in Tables}

\* What is in the union over all tables.
LEMMA JoinAt ==
    ASSUME NEW F, NEW x
    PROVE  x \in Join(F) <=> \E k \in Tables : x \in F[k]
  BY DEF Join

Within(G, F, k, A) == G[k] = F[k] \cup A /\ \A j \in Tables : j # k => G[j] = F[j]

\* One table gains A, and so does the union.
LEMMA JoinAdd ==
    ASSUME NEW F, NEW G, NEW k \in Tables, NEW A, Within(G, F, k, A)
    PROVE  \A x : x \in Join(G) <=> x \in Join(F) \cup A
<1> USE DEF Within
<1>1. ASSUME NEW x \in Join(G) PROVE x \in Join(F) \cup A
  BY JoinAt
<1>2. ASSUME NEW x \in Join(F) PROVE x \in Join(G)
  <2>1. PICK j \in Tables : x \in F[j]
    BY JoinAt
  <2>2. x \in G[j]
    BY <2>1
  <2> QED
    BY <2>2, JoinAt
<1>3. ASSUME NEW x \in A PROVE x \in Join(G)
  BY JoinAt
<1> QED
  BY <1>1, <1>2, <1>3

\* walk adds the page f at the end of a branch.
LEMMA BranchAppend ==
    ASSUME NEW b, NEW k, NEW s \in Seq(Frames), NEW f \in Frames
    PROVE  Branch(b, k, Append(s, f)) = Branch(b, k, s) \cup {Use(b, k, Len(s) + 1, f)}
<1> DEFINE n == Len(s) + 1
           t == Append(s, f)
<1>1. DOMAIN t = DOMAIN s \cup {n} /\ t[n] = f /\ \A i \in DOMAIN s : t[i] = s[i]
  BY SMT
<1> HIDE DEF n, t
<1>2. ASSUME NEW x PROVE x \in Branch(b, k, t) <=> x \in Branch(b, k, s) \cup {Use(b, k, n, f)}
  BY <1>1 DEF Branch
<1> QED
  BY <1>2 DEF n, t

\* th as it was goes on where it was.
LEMMA GoesSame ==
    ASSUME Inv, NEW p \in Procs, th' = th
    PROVE  Goes(p, th[p].pc) /\ Numbers(p) /\ Keeps(p)
  BY DEF Inv, ThreadType, Goes, Numbers, Keeps, Others

\* walk for the trampoline gets a page, the last one or not.
LEMMA WalkHighKeeps ==
    ASSUME Inv, NEW p \in Procs, WalkHigh(p)
    PROVE  Inv'
\* walk towards the trampoline adds a page to table k.
<1>HighsPush.
    ASSUME hi \in [Tables -> Seq(Frames)], NEW k \in Tables, NEW f \in Frames,
           hi' = [hi EXCEPT ![k] = Append(hi[k], f)]
    PROVE  Highs' = Highs \cup {Use("high", k, Len(hi[k]) + 1, f)}
  <2> USE <1>HighsPush
  <2> DEFINE F == [j \in Tables |-> Branch("high", j, hi[j])]
             G == [j \in Tables |-> Branch("high", j, hi'[j])]
             A == {Use("high", k, Len(hi[k]) + 1, f)}
  <2>1. hi'[k] = Append(hi[k], f) /\ \A j \in Tables : j # k => hi'[j] = hi[j]
    OBVIOUS
  <2>2. hi[k] \in Seq(Frames)
    OBVIOUS
  <2>3. G[k] = F[k] \cup A
    <3>1. F[k] = Branch("high", k, hi[k]) /\ G[k] = Branch("high", k, Append(hi[k], f))
      BY <2>1
    <3>2. Branch("high", k, Append(hi[k], f)) = Branch("high", k, hi[k]) \cup A
      BY <2>2, BranchAppend, SMT
    <3> QED
      BY <3>1, <3>2
  <2>4. \A j \in Tables : j # k => G[j] = F[j]
    BY <2>1
  <2>5. Highs = Join(F) /\ Highs' = Join(G)
    BY DEF Highs, Join
  <2> HIDE DEF F, G, A
  <2>6. \A x : x \in Join(G) <=> x \in Join(F) \cup A
    <3>1. Within(G, F, k, A)
      BY <2>3, <2>4 DEF Within
    <3> QED
      BY <3>1, JoinAdd
  <2> QED
    BY <2>5, <2>6 DEF A

<1>0. PICK k \in Tables, np \in Procs : k = Table(p) /\ np = th[p].np
  BY Start
<1>1. /\ TypeInv /\ TableType /\ ThreadType /\ PagesConserved /\ ~panic
      /\ Label(th[p]) /\ Claim(p) /\ Before(p) /\ Rooted(k)
      /\ th[p].base \in Nat /\ th[p].va \in Nat /\ th[p].want \in Nat /\ th[p].rest \in Seq(Nat)
      /\ Stage(th[p], root[k], tramp[k], user[k], trapframe[np], sz[p], sz[np])
  BY <1>0, Start
<1>N. th[p].base \in Nat /\ th[p].va \in Nat /\ th[p].want \in Nat /\ th[p].rest \in Seq(Nat)
  BY <1>1
<1>T. TableType
  BY <1>1
<1>2. PICK f \in Frames : f = Taken /\ f \in free
  BY TakenFree DEF WalkHigh
<1>3. th[p].pc = "high" /\ th[p].call \in {"fork", "exec"}
  BY <1>1 DEF WalkHigh, At, Label, Building
<1>4. /\ root[k] # NULL /\ user[k] = {} /\ th[p].base = 0 /\ th[p].va = 0
      /\ th[p].call = "fork" => th[p].rest = <<>> /\ th[p].want = sz[p]
  BY <1>1, <1>3 DEF Stage, Opening
<1>5. /\ hi' = [hi EXCEPT ![k] = Append(hi[k], f)]
      /\ tramp' = [tramp EXCEPT ![k] = (Len(hi[k]) + 1 = LEVELS)]
      /\ free' = free \ {f}
      /\ state' = state /\ parent' = parent /\ sz' = sz /\ panic' = panic
      /\ trapframe' = trapframe /\ root' = root /\ lo' = lo /\ user' = user
  BY <1>0, <1>2 DEF WalkHigh, procs
<1>6. /\ \A j \in Tables : j # k => hi'[j] = hi[j] /\ tramp'[j] = tramp[j]
      /\ tramp'[k] <=> Len(hi[k]) + 1 = LEVELS
  <2>1. DOMAIN hi = Tables /\ DOMAIN tramp = Tables
    BY <1>1 DEF TableType
  <2>2. tramp'[k] <=> Len(hi[k]) + 1 = LEVELS
    BY <1>5, <2>1
  <2> QED
    BY <1>5, <2>1, <2>2
<1>7. PICK l \in {"mem", "high"} :
          /\ Goes(p, l) /\ Numbers(p) /\ th'[p].base = 0 /\ th'[p].va = 0
          /\ th'[p].want \in Nat /\ th'[p].res = th[p].res
          /\ l = "high" => ~tramp'[k]
          /\ l = "mem" => tramp'[k]
          /\ th[p].call = "fork" => th'[p].want = sz[p] /\ th'[p].rest = <<>>
  <2>1. CASE Len(hi[k]) + 1 # LEVELS
    <3>1. th' = th
      BY <1>0, <2>1 DEF WalkHigh
    <3>2. Goes(p, "high") /\ Numbers(p)
      BY <1>3, <3>1, GoesSame
    <3>3. ~tramp'[k]
      BY <1>6, <2>1
    <3> QED
      BY <1>1, <1>4, <3>1, <3>2, <3>3
  <2>2. CASE Len(hi[k]) + 1 = LEVELS
    <3>1. Set(p, Segment(p))
      BY <1>0, <2>2 DEF WalkHigh
    <3>2. tramp'[k]
      BY <1>6, <2>2
    <3>3. CASE th[p].rest = <<>>
      <4>1. Set(p, [pc |-> "mem"])
        BY <3>1, <3>3 DEF Segment
      <4>2. Goes(p, "mem") /\ Keeps(p) /\ th'[p].res = th[p].res
        BY <4>1, SetIs, SMT DEF Goes, Keeps
      <4> QED
        BY <1>N, <1>4, <3>2, <4>2, SMT DEF Keeps, Numbers
    <3>4. CASE th[p].rest # <<>>
      <4> DEFINE want == IF Head(th[p].rest) < th[p].want THEN th[p].want ELSE Head(th[p].rest)
      <4>1. Set(p, [pc |-> "mem", base |-> th[p].va, rest |-> Tail(th[p].rest), want |-> want])
        BY <3>1, <3>4 DEF Segment
      <4>2. want \in Nat /\ Tail(th[p].rest) \in Seq(Nat)
        BY <1>N, <3>4, SMT
      <4> HIDE DEF want
      <4>3. /\ Goes(p, "mem") /\ th'[p].base = th[p].va /\ th'[p].va = th[p].va
            /\ th'[p].want = want /\ th'[p].rest = Tail(th[p].rest)
            /\ th'[p].res = th[p].res
        BY <4>1, SegmentIs
      <4>4. th[p].call # "fork"
        BY <1>4, <3>4
      <4> QED
        BY <1>1, <1>4, <3>2, <4>2, <4>3, <4>4 DEF Numbers
    <3> QED
      BY <3>3, <3>4
  <2> QED
    BY <2>1, <2>2
<1>8. \A j \in Tables : j # k => SameTable(j)
  BY <1>5, <1>6 DEF SameTable
<1>9. TypeInv' /\ TableType' /\ ~panic'
  <2>1. TypeInv'
    BY <1>1, <1>5 DEF TypeInv
  <2>2. hi' \in [Tables -> Seq(Frames)]
    BY <1>T, <1>5, SMT DEF TableType
  <2>3. tramp' \in [Tables -> BOOLEAN]
    BY <1>T, <1>5, SMT DEF TableType
  <2>4. TableType'
    BY <1>1, <1>5, <2>2, <2>3 DEF TableType
  <2>5. ~panic'
    BY <1>5, StillFine
  <2> QED
    BY <2>1, <2>4, <2>5
<1>10. PagesConserved'
  <2>1. Highs' = Highs \cup {Use("high", k, Len(hi[k]) + 1, f)}
    BY <1>1, <1>5, <1>HighsPush DEF TableType
  <2>2. Hands' = Hands
    BY <1>3, <1>7, HandsSame DEF Goes
  <2>3. Trapframes' = Trapframes /\ Roots' = Roots /\ Lows' = Lows /\ Users' = Users
    BY <1>5 DEF Trapframes, Roots, Lows, Users
  <2>4. Uses' = Uses \cup {Use("high", k, Len(hi[k]) + 1, f)}
    BY <2>1, <2>2, <2>3 DEF Uses
  <2> QED
    BY <1>1, <1>2, <1>5, <2>4, TakenBy
<1>11. Stage(th'[p], root'[k], tramp'[k], user'[k], trapframe'[np], sz[p], sz[np])
  <2>1. user'[k] = {} /\ root'[k] # NULL
    BY <1>4, <1>5
  <2>2. Vas(user'[k]) = 0..(0 - 1)
    BY <2>1, VasOf, RangeNone
  <2>3. CASE l = "mem"
    BY <1>7, <2>2, <2>3, SMT DEF Stage, Goes, Opening, Building
  <2>4. CASE l = "high"
    BY <1>7, <2>1, <2>4, SMT DEF Stage, Goes, Opening, Building
  <2> QED
    BY <2>3, <2>4
<1>12. Label(th'[p]) /\ Active(p) /\ Rooted(k)' /\ Onward(p)
  <2>1. Onward(p)
    BY <1>3, <1>7 DEF Onward, Early, Opening
  <2> QED
    BY <1>3, <1>4, <1>5, <1>7, <2>1 DEF Label, Goes, Building, Active, Rooted
<1> QED
  BY <1>0, <1>3, <1>5, <1>7, <1>8, <1>9, <1>10, <1>11, <1>12, TableStep

\* walk of mappages gets a page.
LEMMA WalkLowKeeps ==
    ASSUME Inv, NEW p \in Procs, WalkLow(p)
    PROVE  Inv'
\* walk towards user memory adds a page to table k.
<1>LowsPush.
    ASSUME lo \in [Tables -> Seq(Frames)], NEW k \in Tables, NEW f \in Frames,
           lo' = [lo EXCEPT ![k] = Append(lo[k], f)]
    PROVE  Lows' = Lows \cup {Use("low", k, Len(lo[k]) + 1, f)}
  <2> USE <1>LowsPush
  <2> DEFINE F == [j \in Tables |-> Branch("low", j, lo[j])]
             G == [j \in Tables |-> Branch("low", j, lo'[j])]
             A == {Use("low", k, Len(lo[k]) + 1, f)}
  <2>1. lo'[k] = Append(lo[k], f) /\ \A j \in Tables : j # k => lo'[j] = lo[j]
    OBVIOUS
  <2>2. lo[k] \in Seq(Frames)
    OBVIOUS
  <2>3. G[k] = F[k] \cup A
    <3>1. F[k] = Branch("low", k, lo[k]) /\ G[k] = Branch("low", k, Append(lo[k], f))
      BY <2>1
    <3>2. Branch("low", k, Append(lo[k], f)) = Branch("low", k, lo[k]) \cup A
      BY <2>2, BranchAppend, SMT
    <3> QED
      BY <3>1, <3>2
  <2>4. \A j \in Tables : j # k => G[j] = F[j]
    BY <2>1
  <2>5. Lows = Join(F) /\ Lows' = Join(G)
    BY DEF Lows, Join
  <2> HIDE DEF F, G, A
  <2>6. \A x : x \in Join(G) <=> x \in Join(F) \cup A
    <3>1. Within(G, F, k, A)
      BY <2>3, <2>4 DEF Within
    <3> QED
      BY <3>1, JoinAdd
  <2> QED
    BY <2>5, <2>6 DEF A

<1>0. PICK k \in Tables, np \in Procs : k = Table(p) /\ np = th[p].np
  BY Start
<1>1. /\ TypeInv /\ TableType /\ ThreadType /\ PagesConserved /\ ~panic
      /\ Label(th[p]) /\ Claim(p) /\ Before(p) /\ Rooted(k)
      /\ th[p].base \in Nat /\ th[p].va \in Nat /\ th[p].want \in Nat /\ th[p].rest \in Seq(Nat)
      /\ Stage(th[p], root[k], tramp[k], user[k], trapframe[np], sz[p], sz[np])
  BY <1>0, Start
<1>T. TableType
  BY <1>1
<1>2. PICK f \in Frames : f = Taken /\ f \in free
  BY TakenFree DEF WalkLow
<1>3. th[p].pc = "map" /\ Active(p)
  BY DEF WalkLow, At, Active
<1>4. root[k] # NULL
  BY <1>1, <1>3 DEF Stage, Building, Rooted, NoTable
<1>5. /\ lo' = [lo EXCEPT ![k] = Append(lo[k], f)]
      /\ free' = free \ {f} /\ th' = th
      /\ state' = state /\ parent' = parent /\ sz' = sz /\ panic' = panic
      /\ trapframe' = trapframe /\ root' = root /\ hi' = hi /\ tramp' = tramp /\ user' = user
  BY <1>0, <1>2 DEF WalkLow, procs
<1>6. \A j \in Tables : j # k => SameTable(j)
  <2>1. \A j \in Tables : j # k => lo'[j] = lo[j]
    BY <1>1, <1>5 DEF TableType
  <2> QED
    BY <1>5, <2>1 DEF SameTable
<1>7. Goes(p, "map") /\ Numbers(p)
  BY <1>3, <1>5, GoesSame
<1>8. TypeInv' /\ TableType' /\ ~panic'
  <2>1. TypeInv'
    BY <1>1, <1>5 DEF TypeInv
  <2>2. lo' \in [Tables -> Seq(Frames)]
    BY <1>T, <1>5, SMT DEF TableType
  <2>3. TableType'
    BY <1>1, <1>5, <2>2 DEF TableType
  <2>4. ~panic'
    BY <1>5, StillFine
  <2> QED
    BY <2>1, <2>3, <2>4
<1>9. PagesConserved'
  <2>1. Lows' = Lows \cup {Use("low", k, Len(lo[k]) + 1, f)}
    BY <1>1, <1>5, <1>LowsPush DEF TableType
  <2>2. /\ Trapframes' = Trapframes /\ Roots' = Roots /\ Highs' = Highs /\ Users' = Users
        /\ Hands' = Hands
    BY <1>5 DEF Trapframes, Roots, Highs, Users, Hands, InHand
  <2>3. Uses' = Uses \cup {Use("low", k, Len(lo[k]) + 1, f)}
    BY <2>1, <2>2 DEF Uses
  <2> QED
    BY <1>1, <1>2, <1>5, <2>3, TakenBy
<1>10. Stage(th'[p], root'[k], tramp'[k], user'[k], trapframe'[np], sz[p], sz[np])
  BY <1>1, <1>5
<1>11. th[p].call = "sbrk" => Had(th'[p], user'[Cur(p)], sz[p])
  BY <1>1, <1>5 DEF Before
<1>12. Label(th'[p]) /\ Rooted(k)' /\ Onward(p)
  BY <1>1, <1>3, <1>4, <1>5 DEF Rooted, Onward
<1> QED
  BY <1>0, <1>3, <1>5, <1>6, <1>7, <1>8, <1>9, <1>10, <1>11, <1>12, TableStep

----------------------------------------------------------------------------
\* The steps that free a page, or map one

\* kfree takes pages back from their uses.
LEMMA GiveBack ==
    ASSUME NEW U, NEW F, Conserved(U, F), NEW R, R \subseteq U
    PROVE  Conserved(U \ R, F \cup Pages(R))
<1>1. /\ Pages(U) = Frames \ F /\ F \subseteq Frames
      /\ \A u, v \in U : u[2] = v[2] => u = v
  BY DEF Conserved
<1>2. Pages(R) \subseteq Pages(U)
  BY DEF Pages
<1>3. Pages(U \ R) \subseteq Pages(U)
  BY DEF Pages
<1>4. Pages(U) \subseteq Pages(U \ R) \cup Pages(R)
  BY DEF Pages
<1>5. ASSUME NEW y \in Pages(U \ R), y \in Pages(R) PROVE FALSE
  <2>1. PICK u \in U \ R : y = u[2]
    BY <1>5 DEF Pages
  <2>2. PICK v \in R : y = v[2]
    BY <1>5 DEF Pages
  <2> QED
    BY <1>1, <2>1, <2>2
<1>6. Pages(U \ R) = Frames \ (F \cup Pages(R))
  BY <1>1, <1>2, <1>3, <1>4, <1>5
<1>7. F \cup Pages(R) \subseteq Frames
  BY <1>1, <1>2
<1> QED
  BY <1>1, <1>6, <1>7 DEF Conserved

\* kfree of pages of one kind.
LEMMA FreedOf ==
    ASSUME PagesConserved, NEW R, NEW A, NEW B, Uses = A \cup B, Uses' = (A \ R) \cup B,
           R \subseteq A, A \cap B = {}, free' = free \cup Pages(R)
    PROVE  PagesConserved'
<1>1. Uses' = Uses \ R
  OBVIOUS
<1>2. Conserved(Uses \ R, free \cup Pages(R))
  BY GiveBack DEF PagesConserved
<1> QED
  BY <1>1, <1>2 DEF PagesConserved

\* The page f of one use of A goes back to kalloc.
LEMMA FreedOne ==
    ASSUME PagesConserved, NEW A, NEW B, NEW a, NEW x, NEW i, NEW f,
           Use(a, x, i, f) \in A, Uses = A \cup B, A \cap B = {},
           Uses' = (A \ {Use(a, x, i, f)}) \cup B, free' = free \cup {f}
    PROVE  PagesConserved'
<1>1. PICK u : u = Use(a, x, i, f)
  OBVIOUS
<1>2. u[2] = f
  BY <1>1, UseIs, SMT
<1>3. PICK R : R = {u}
  OBVIOUS
<1>4. Pages(R) = {f}
  BY <1>2, <1>3 DEF Pages
<1>5. R \subseteq A /\ Uses' = (A \ R) \cup B /\ free' = free \cup Pages(R)
  BY <1>1, <1>3, <1>4
<1> QED
  BY <1>5, FreedOf

\* freeproc frees the trapframe, if there is one.
LEMMA FreeTrapframeKeeps ==
    ASSUME Inv, NEW p \in Procs, FreeTrapframe(p)
    PROVE  Inv'
\* The trapframe of np is no longer used.
<1>TrapframesClear.
    ASSUME NEW np \in Procs, trapframe[np] # NULL, DOMAIN trapframe = Procs,
           trapframe' = [trapframe EXCEPT ![np] = NULL]
    PROVE  /\ Use("trapframe", np, 0, trapframe[np]) \in Trapframes
           /\ Trapframes' = Trapframes \ {Use("trapframe", np, 0, trapframe[np])}
  <2> USE <1>TrapframesClear
  <2>1. trapframe'[np] = NULL /\ \A q \in Procs : q # np => trapframe'[q] = trapframe[q]
    OBVIOUS
  <2>2. \A x : x \in Trapframes <=>
          \E q \in Procs : trapframe[q] # NULL /\ x = Use("trapframe", q, 0, trapframe[q])
    BY DEF Trapframes
  <2>3. \A x : x \in Trapframes' <=>
          \E q \in Procs : trapframe'[q] # NULL /\ x = Use("trapframe", q, 0, trapframe'[q])
    BY DEF Trapframes
  <2>4. \A q \in Procs : q # np =>
          Use("trapframe", q, 0, trapframe[q]) # Use("trapframe", np, 0, trapframe[np])
    BY UseIs, SMT
  <2>5. ASSUME NEW x PROVE x \in Trapframes' <=>
          x \in Trapframes \ {Use("trapframe", np, 0, trapframe[np])}
    <3>1. CASE x \in Trapframes'
      <4>1. PICK q \in Procs : trapframe'[q] # NULL /\ x = Use("trapframe", q, 0, trapframe'[q])
        BY <3>1, <2>3
      <4>2. q # np /\ trapframe'[q] = trapframe[q]
        BY <4>1, <2>1
      <4>3. x = Use("trapframe", q, 0, trapframe[q])
        BY <4>1, <4>2
      <4> QED
        BY <3>1, <4>1, <4>2, <4>3, <2>2, <2>4
    <3>2. CASE x \in Trapframes \ {Use("trapframe", np, 0, trapframe[np])}
      <4>1. PICK q \in Procs : trapframe[q] # NULL /\ x = Use("trapframe", q, 0, trapframe[q])
        BY <3>2, <2>2
      <4>2. q # np
        BY <3>2, <4>1
      <4>3. trapframe'[q] = trapframe[q]
        BY <4>2, <2>1
      <4> QED
        BY <3>2, <4>1, <4>3, <2>3
    <3> QED
      BY <3>1, <3>2
  <2> QED
    BY <2>2, <2>5

<1>0. PICK k \in Tables, np \in Procs : k = Table(p) /\ np = th[p].np
  BY Start
<1>1. /\ TypeInv /\ TableType /\ ThreadType /\ PagesConserved /\ ~panic
      /\ Label(th[p]) /\ Claim(p) /\ Before(p) /\ Rooted(k)
      /\ th[p].base \in Nat /\ th[p].va \in Nat /\ th[p].want \in Nat /\ th[p].rest \in Seq(Nat)
      /\ Stage(th[p], root[k], tramp[k], user[k], trapframe[np], sz[p], sz[np])
  BY <1>0, Start
<1>N. th[p].base \in Nat /\ th[p].va \in Nat /\ th[p].want \in Nat /\ th[p].rest \in Seq(Nat)
  BY <1>1
<1>2. th[p].pc = "freeproc" /\ Active(p) /\ th[p].call \in {"fork", "wait"}
  BY <1>1 DEF FreeTrapframe, At, Active, Label, Building
<1>3. k = Cur(np)
  BY <1>0, <1>2 DEF Table
<1>4. /\ trapframe' = [trapframe EXCEPT ![np] = NULL]
      /\ free' = free \cup ({trapframe[np]} \ {NULL})
      /\ state' = state /\ parent' = parent /\ sz' = sz /\ panic' = panic
      /\ root' = root /\ hi' = hi /\ lo' = lo /\ tramp' = tramp /\ user' = user
  BY <1>0 DEF FreeTrapframe, tables
<1>5. /\ \A r \in Procs : r # np => trapframe'[r] = trapframe[r]
      /\ DOMAIN trapframe = Procs /\ trapframe'[np] = NULL
  BY <1>1, <1>4 DEF TypeInv
<1>6. \A j \in Tables : j # k => SameTable(j)
  BY <1>4 DEF SameTable
<1>7. sz[np] \in Nat
  BY <1>1 DEF TypeInv
<1>8. PICK l \in {"cleared", "table"} :
          /\ Goes(p, l) /\ Numbers(p)
          /\ l = "cleared" => root[k] = NULL
          /\ l = "table" => /\ tramp[k] /\ Vas(user[k]) = 0..(sz[np] - 1)
                            /\ th'[p].va = 0 /\ th'[p].want = sz[np]
  <2>1. CASE root[k] = NULL
    <3>1. Set(p, [pc |-> "cleared"])
      BY <1>0, <1>3, <2>1 DEF FreeTrapframe
    <3>2. Goes(p, "cleared") /\ Keeps(p)
      BY <3>1, SetIs, SMT DEF Goes, Keeps
    <3> QED
      BY <1>1, <2>1, <3>2 DEF Numbers, Keeps
  <2>2. CASE root[k] # NULL
    <3>1. PICK s : s = sz[np] /\ Set(p, [pc |-> "table", va |-> 0, want |-> s])
      BY <1>0, <1>3, <2>2 DEF FreeTrapframe
    <3>2. /\ Goes(p, "table") /\ th'[p].va = 0 /\ th'[p].want = s
          /\ th'[p].base = th[p].base /\ th'[p].rest = th[p].rest
      BY <3>1, SetIs, SMT DEF Goes
    <3>3. Numbers(p)
      BY <1>N, <1>7, <3>1, <3>2, SMT DEF Numbers
    <3>4. tramp[k] /\ Vas(user[k]) = 0..(sz[np] - 1)
      BY <1>1, <1>2, <2>2 DEF Stage
    <3> QED
      BY <3>1, <3>2, <3>3, <3>4
  <2> QED
    BY <2>1, <2>2
<1>9. PagesConserved'
  <2>1. /\ Hands' = Hands /\ Roots' = Roots /\ Highs' = Highs /\ Lows' = Lows
        /\ Users' = Users
    <3>1. Hands' = Hands
      BY <1>2, <1>8, HandsSame DEF Goes
    <3> QED
      BY <1>4, <3>1 DEF Roots, Highs, Lows, Users
  <2>2. CASE trapframe[np] = NULL
    <3>1. \A r \in Procs : trapframe'[r] = trapframe[r]
      BY <1>5, <2>2
    <3>2. Trapframes' = Trapframes
      BY <3>1 DEF Trapframes
    <3>3. free' = free
      BY <1>4, <2>2
    <3> QED
      BY <1>1, <2>1, <3>2, <3>3 DEF PagesConserved, Uses
  <2>3. CASE trapframe[np] # NULL
    <3>1. PICK f : f = trapframe[np]
      OBVIOUS
    <3>2. /\ Use("trapframe", np, 0, f) \in Trapframes
          /\ Trapframes' = Trapframes \ {Use("trapframe", np, 0, f)}
      BY <1>4, <1>5, <2>3, <3>1, <1>TrapframesClear
    <3>3. PICK B : B = Hands \cup Roots \cup Highs \cup Lows \cup Users
      OBVIOUS
    <3>4. Trapframes \cap B = {}
      BY <3>3, Kinds
    <3>5. Uses = Trapframes \cup B /\ Uses' = (Trapframes \ {Use("trapframe", np, 0, f)}) \cup B
      BY <2>1, <3>2, <3>3 DEF Uses
    <3>6. free' = free \cup {f}
      BY <1>4, <2>3, <3>1
    <3> QED
      BY <1>1, <3>2, <3>4, <3>5, <3>6, FreedOne
  <2> QED
    BY <2>2, <2>3
<1>10. TypeInv' /\ TableType' /\ ~panic'
  <2>1. free' \subseteq Frames
    BY <1>9 DEF PagesConserved, Conserved
  <2>2. trapframe' \in [Procs -> Frames \cup {NULL}]
    BY <1>1, <1>4 DEF TypeInv
  <2>3. TypeInv'
    BY <1>1, <1>4, <2>1, <2>2 DEF TypeInv
  <2>4. TableType'
    BY <1>1, <1>4 DEF TableType
  <2>5. ~panic'
    BY <1>4, StillFine
  <2> QED
    BY <2>3, <2>4, <2>5
<1>11. Stage(th'[p], root'[k], tramp'[k], user'[k], trapframe'[np], sz[p], sz[np])
  <2>1. CASE l = "cleared"
    BY <1>4, <1>5, <1>8, <2>1, SMT DEF Stage, Goes, Opening, Building
  <2>2. CASE l = "table"
    BY <1>4, <1>8, <2>2, SMT DEF Stage, Goes, Opening, Building
  <2> QED
    BY <2>1, <2>2
<1>12. Label(th'[p]) /\ Rooted(k)' /\ Onward(p) /\ th[p].call # "sbrk"
  BY <1>1, <1>2, <1>4, <1>8 DEF Label, Goes, Rooted, NoTable, Onward
<1> QED
  BY <1>0, <1>2, <1>4, <1>5, <1>6, <1>8, <1>9, <1>10, <1>11, <1>12, TableStep

\* The thread of p gives up its page in hand.
LEMMA HandsDrop ==
    ASSUME NEW p \in Procs, Others(p), th[p].pc \in {"map", "drop"},
           th'[p].pc \notin {"map", "drop"}
    PROVE  /\ Use("hand", p, 0, th[p].mem) \in Hands
           /\ Hands' = Hands \ {Use("hand", p, 0, th[p].mem)}
<1>1. p \in InHand /\ InHand' = InHand \ {p}
  BY DEF InHand, Others
<1>2. \A q \in InHand : q # p => th'[q].mem = th[q].mem
  BY DEF InHand, Others
<1>3. \A x : x \in Hands <=> \E q \in InHand : x = Use("hand", q, 0, th[q].mem)
  BY DEF Hands
<1>4. \A x : x \in Hands' <=> \E q \in InHand' : x = Use("hand", q, 0, th'[q].mem)
  BY DEF Hands
<1>5. \A q \in InHand : q # p => Use("hand", q, 0, th[q].mem) # Use("hand", p, 0, th[p].mem)
  BY UseIs, SMT
<1>6. ASSUME NEW x PROVE x \in Hands' <=> x \in Hands \ {Use("hand", p, 0, th[p].mem)}
  <2>1. CASE x \in Hands'
    <3>1. PICK q \in InHand' : x = Use("hand", q, 0, th'[q].mem)
      BY <2>1, <1>4
    <3>2. q \in InHand /\ q # p /\ th'[q].mem = th[q].mem
      BY <3>1, <1>1, <1>2
    <3>3. x = Use("hand", q, 0, th[q].mem)
      BY <3>1, <3>2
    <3> QED
      BY <2>1, <3>2, <3>3, <1>3, <1>5
  <2>2. CASE x \in Hands \ {Use("hand", p, 0, th[p].mem)}
    <3>1. PICK q \in InHand : x = Use("hand", q, 0, th[q].mem)
      BY <2>2, <1>3
    <3>2. q # p
      BY <2>2, <3>1
    <3>3. q \in InHand' /\ th'[q].mem = th[q].mem
      BY <3>2, <1>1, <1>2
    <3> QED
      BY <2>2, <3>1, <3>3, <1>4
  <2> QED
    BY <2>1, <2>2
<1> QED
  BY <1>1, <1>3, <1>6

\* The page in hand is freed.
LEMMA DropPageKeeps ==
    ASSUME Inv, NEW p \in Procs, DropPage(p)
    PROVE  Inv'
<1>0. PICK k \in Tables, np \in Procs : k = Table(p) /\ np = th[p].np
  BY Start
<1>1. /\ TypeInv /\ TableType /\ ThreadType /\ PagesConserved /\ ~panic
      /\ Label(th[p]) /\ Claim(p) /\ Before(p) /\ Rooted(k)
      /\ th[p].base \in Nat /\ th[p].va \in Nat /\ th[p].want \in Nat /\ th[p].rest \in Seq(Nat)
      /\ Stage(th[p], root[k], tramp[k], user[k], trapframe[np], sz[p], sz[np])
  BY <1>0, Start
<1>N. th[p].base \in Nat /\ th[p].va \in Nat /\ th[p].want \in Nat /\ th[p].rest \in Seq(Nat)
  BY <1>1
<1>2. PICK f : f = th[p].mem
  OBVIOUS
<1>3. th[p].pc = "drop" /\ Active(p)
  BY DEF DropPage, At, Active
<1>4. /\ Goes(p, "undo") /\ th'[p].base = th[p].base /\ th'[p].va = th[p].base
      /\ th'[p].want = th[p].va /\ th'[p].rest = th[p].rest
  BY UndoIs DEF DropPage
<1>5. /\ free' = free \cup {f} /\ panic' = panic
      /\ state' = state /\ parent' = parent /\ sz' = sz /\ trapframe' = trapframe
      /\ root' = root /\ hi' = hi /\ lo' = lo /\ tramp' = tramp /\ user' = user
  BY <1>2 DEF DropPage, procs, tables
<1>6. \A j \in Tables : j # k => SameTable(j)
  BY <1>5 DEF SameTable
<1>7. PagesConserved'
  <2>1. Use("hand", p, 0, f) \in Hands /\ Hands' = Hands \ {Use("hand", p, 0, f)}
    BY <1>2, <1>3, <1>4, HandsDrop DEF Goes
  <2>2. /\ Trapframes' = Trapframes /\ Roots' = Roots /\ Highs' = Highs /\ Lows' = Lows
        /\ Users' = Users
    BY <1>5 DEF Trapframes, Roots, Highs, Lows, Users
  <2>3. PICK B : B = Trapframes \cup Roots \cup Highs \cup Lows \cup Users
    OBVIOUS
  <2>4. Hands \cap B = {}
    BY <2>3, Kinds
  <2>5. Uses = Hands \cup B /\ Uses' = (Hands \ {Use("hand", p, 0, f)}) \cup B
    BY <2>1, <2>2, <2>3 DEF Uses
  <2> QED
    BY <1>1, <1>5, <2>1, <2>4, <2>5, FreedOne
<1>8. TypeInv' /\ TableType' /\ ~panic'
  <2>1. free' \subseteq Frames
    BY <1>7 DEF PagesConserved, Conserved
  <2>2. TypeInv' /\ TableType'
    BY <1>1, <1>5, <2>1 DEF TypeInv, TableType
  <2>3. ~panic'
    BY <1>5, StillFine
  <2> QED
    BY <2>2, <2>3
<1>9. Stage(th'[p], root'[k], tramp'[k], user'[k], trapframe'[np], sz[p], sz[np])
  <2>1. /\ tramp[k] /\ Vas(user[k]) = 0..(th[p].va - 1) /\ th[p].base <= th[p].va
        /\ th[p].call = "fork" => th[p].base = 0
    BY <1>1, <1>3 DEF Stage, Building
  <2>2. 0..(th[p].va - 1) = 0..(th[p].base - 1) \cup th[p].base..(th[p].va - 1)
    BY <1>1, <2>1, RangeSplit
  <2> QED
    BY <1>N, <1>4, <1>5, <2>1, <2>2, SMT DEF Stage, Goes, Opening, Building
<1>10. th[p].call = "sbrk" => Had(th'[p], user'[Cur(p)], sz[p])
  BY <1>1, <1>3, <1>4, <1>5 DEF Before, Had, Goes, Building
<1>11. Numbers(p) /\ Label(th'[p]) /\ Rooted(k)' /\ Onward(p)
  <2>1. Label(th'[p])
    BY <1>1, <1>3, <1>4 DEF Label, Goes, Building
  <2>2. Onward(p)
    BY <1>3, <1>4 DEF Onward, Early, Goes, Opening, Building
  <2> QED
    BY <1>1, <1>3, <1>4, <1>5, <2>1, <2>2 DEF Numbers, Rooted, NoTable
<1> QED
  BY <1>0, <1>3, <1>4, <1>5, <1>6, <1>7, <1>8, <1>9, <1>10, <1>11, TableStep

Without(G, F, k, A) == /\ A \subseteq F[k] /\ G[k] = F[k] \ A
                       /\ \A j \in Tables : j # k => G[j] = F[j] /\ F[j] \cap A = {}

\* One table loses A, which no other has, and so does the union.
LEMMA JoinDel ==
    ASSUME NEW F, NEW G, NEW k \in Tables, NEW A, Without(G, F, k, A)
    PROVE  \A x : x \in Join(G) <=> x \in Join(F) \ A
<1>1. ASSUME NEW x \in Join(G) PROVE x \in Join(F) \ A
  <2>1. PICK j \in Tables : x \in G[j]
    BY JoinAt
  <2>2. x \in F[j] /\ x \notin A
    BY <2>1 DEF Without
  <2> QED
    BY <2>2, JoinAt
<1>2. ASSUME NEW x \in Join(F), x \notin A PROVE x \in Join(G)
  <2>1. PICK j \in Tables : x \in F[j]
    BY JoinAt
  <2>2. x \in G[j]
    BY <2>1, <1>2 DEF Without
  <2> QED
    BY <2>2, JoinAt
<1> QED
  BY <1>1, <1>2

\* uvmunmap finds and frees the next page.
LEMMA UnmapKeeps ==
    ASSUME Inv, NEW p \in Procs, Unmap(p)
    PROVE  Inv'
\* Pages g of a table are unmapped.
<1>MappedDel.
    ASSUME NEW k, NEW u \in SUBSET (Nat \X Frames), NEW g, g \subseteq u
    PROVE  /\ Mapped(k, g) \subseteq Mapped(k, u)
           /\ \A x : x \in Mapped(k, u \ g) <=> x \in Mapped(k, u) \ Mapped(k, g)
  <2> USE <1>MappedDel
  <2>1. \A d, e \in u : d[1] = e[1] /\ d[2] = e[2] => d = e
    BY SMT
  <2>2. \A d, e \in u : Use("user", k, d[1], d[2]) = Use("user", k, e[1], e[2]) => d = e
    BY <2>1, UseIs, SMT
  <2>3. Mapped(k, g) \subseteq Mapped(k, u)
    BY DEF Mapped
  <2>4. ASSUME NEW x \in Mapped(k, u \ g) PROVE x \in Mapped(k, u) /\ x \notin Mapped(k, g)
    <3>1. PICK d \in u \ g : x = Use("user", k, d[1], d[2])
      BY DEF Mapped
    <3>2. x \in Mapped(k, u)
      BY <3>1 DEF Mapped
    <3>3. ASSUME x \in Mapped(k, g) PROVE FALSE
      <4>1. PICK e \in g : x = Use("user", k, e[1], e[2])
        BY <3>3 DEF Mapped
      <4> QED
        BY <2>2, <3>1, <4>1
    <3> QED
      BY <3>2, <3>3
  <2>5. ASSUME NEW x \in Mapped(k, u), x \notin Mapped(k, g) PROVE x \in Mapped(k, u \ g)
    BY <2>5 DEF Mapped
  <2> QED
    BY <2>3, <2>4, <2>5

\* Two tables have no use in common.
<1>MappedTag.
    ASSUME NEW j, NEW k, j # k, NEW u, NEW g
    PROVE  Mapped(j, u) \cap Mapped(k, g) = {}
  <2> USE <1>MappedTag
  <2> SUFFICES ASSUME NEW x \in Mapped(j, u), x \in Mapped(k, g) PROVE FALSE
    OBVIOUS
  <2>1. PICK d \in u : x = Use("user", j, d[1], d[2])
    BY DEF Mapped
  <2>2. PICK e \in g : x = Use("user", k, e[1], e[2])
    BY DEF Mapped
  <2> QED
    BY <2>1, <2>2, UseIs, SMT

\* The pages of uses are those of the mappings.
<1>MappedPages.
    ASSUME NEW k, NEW g
    PROVE  Pages(Mapped(k, g)) = Pages(g)
  <2> USE <1>MappedPages
  <2>1. \A e \in g : Use("user", k, e[1], e[2])[2] = e[2]
    BY UseIs, SMT
  <2>2. ASSUME NEW y \in Pages(Mapped(k, g)) PROVE y \in Pages(g)
    <3>1. PICK x \in Mapped(k, g) : y = x[2]
      BY DEF Pages
    <3>2. PICK e \in g : x = Use("user", k, e[1], e[2])
      BY DEF Mapped
    <3>3. y = e[2]
      BY <2>1, <3>1, <3>2
    <3> QED
      BY <3>3 DEF Pages
  <2>3. ASSUME NEW y \in Pages(g) PROVE y \in Pages(Mapped(k, g))
    <3>1. PICK e \in g : y = e[2]
      BY DEF Pages
    <3>2. Use("user", k, e[1], e[2]) \in Mapped(k, g)
      BY DEF Mapped
    <3> QED
      BY <2>1, <3>1, <3>2 DEF Pages
  <2> QED
    BY <2>2, <2>3

\* uvmunmap removes the mappings g from table k.
<1>UsersDel.
    ASSUME user \in [Tables -> SUBSET (Nat \X Frames)], NEW k \in Tables, NEW g,
           g \subseteq user[k], user' = [user EXCEPT ![k] = user[k] \ g]
    PROVE  Mapped(k, g) \subseteq Users /\ Users' = Users \ Mapped(k, g)
  <2> USE <1>UsersDel
  <2> DEFINE F == [j \in Tables |-> Mapped(j, user[j])]
             G == [j \in Tables |-> Mapped(j, user'[j])]
             A == Mapped(k, g)
  <2>1. user'[k] = user[k] \ g /\ \A j \in Tables : j # k => user'[j] = user[j]
    OBVIOUS
  <2>2. F[k] = Mapped(k, user[k]) /\ G[k] = Mapped(k, user[k] \ g)
    BY <2>1
  <2>3. A \subseteq Mapped(k, user[k]) /\ Mapped(k, user[k] \ g) = Mapped(k, user[k]) \ A
    <3>1. user[k] \in SUBSET (Nat \X Frames)
      OBVIOUS
    <3>2. \A x : x \in Mapped(k, user[k] \ g) <=> x \in Mapped(k, user[k]) \ A
      BY <3>1, <1>MappedDel
    <3>3. A \subseteq Mapped(k, user[k])
      BY DEF Mapped
    <3> QED
      BY <3>2, <3>3
  <2>4. \A j \in Tables : j # k => F[j] \cap A = {}
    BY <1>MappedTag
  <2>5. Without(G, F, k, A)
    BY <2>1, <2>2, <2>3, <2>4 DEF Without
  <2>6. Users = Join(F) /\ Users' = Join(G)
    BY DEF Users, Join
  <2> HIDE DEF F, G, A
  <2>7. \A x : x \in Join(G) <=> x \in Join(F) \ A
    BY <2>5, JoinDel
  <2>8. A \subseteq Join(F)
    BY <2>5, JoinAt DEF Without
  <2> QED
    BY <2>6, <2>7, <2>8 DEF A

\* The page numbers after the page at v is unmapped.
<1>VasDel.
    ASSUME NEW u, NEW v
    PROVE  Vas(u \ {e \in u : e[1] = v}) = Vas(u) \ {v}
    BY <1>VasDel DEF Vas

<1>0. PICK k \in Tables, np \in Procs : k = Table(p) /\ np = th[p].np
  BY Start
<1>1. /\ TypeInv /\ TableType /\ ThreadType /\ PagesConserved /\ ~panic
      /\ Label(th[p]) /\ Claim(p) /\ Before(p) /\ Rooted(k)
      /\ th[p].base \in Nat /\ th[p].va \in Nat /\ th[p].want \in Nat /\ th[p].rest \in Seq(Nat)
      /\ Stage(th[p], root[k], tramp[k], user[k], trapframe[np], sz[p], sz[np])
  BY <1>0, Start
<1>N. th[p].base \in Nat /\ th[p].va \in Nat /\ th[p].want \in Nat /\ th[p].rest \in Seq(Nat)
  BY <1>1
<1>2. PICK v \in Nat, l \in {"undo", "shrink", "unmap"} : v = th[p].va /\ l = th[p].pc
  BY <1>1 DEF Unmap
<1>3. /\ l \in {"undo", "shrink", "unmap"} /\ v < th[p].want /\ Active(p)
      /\ l \in {"undo", "shrink"} => th[p].call \in {"sbrk", "fork", "exec"}
  <2>1. l \in {"undo", "shrink", "unmap"} /\ v < th[p].want
    BY <1>2 DEF Unmap
  <2> QED
    BY <1>1, <1>2, <2>1 DEF Active, Label, Building
<1>4. /\ v \in Vas(user[k])
      /\ l # "unmap" => /\ tramp[k] /\ th[p].base <= v
                        /\ Vas(user[k]) = 0..(th[p].base - 1) \cup v..(th[p].want - 1)
                        /\ th[p].call = "fork" => th[p].base = 0
      /\ l = "unmap" => ~tramp[k] /\ Vas(user[k]) = v..(th[p].want - 1)
  <2>1. /\ l # "unmap" => /\ tramp[k] /\ th[p].base <= v
                          /\ Vas(user[k]) = 0..(th[p].base - 1) \cup v..(th[p].want - 1)
                          /\ th[p].call = "fork" => th[p].base = 0
        /\ l = "unmap" => ~tramp[k] /\ Vas(user[k]) = v..(th[p].want - 1)
    BY <1>1, <1>2, <1>3 DEF Stage
  <2>2. v \in v..(th[p].want - 1)
    BY <1>N, <1>3, SMT
  <2> QED
    BY <2>1, <2>2
<1>5. PICK g : g = {e \in user[k] : e[1] = v}
  OBVIOUS
<1>6. g \subseteq user[k] /\ g # {} /\ Vas(user[k] \ g) = Vas(user[k]) \ {v}
  <2>1. Vas(user[k] \ {e \in user[k] : e[1] = v}) = Vas(user[k]) \ {v}
    BY <1>VasDel
  <2>2. g # {}
    BY <1>4, <1>5 DEF Vas
  <2> QED
    BY <1>5, <2>1, <2>2
<1>7. /\ Goes(p, l) /\ th'[p].va = v + 1 /\ th'[p].base = th[p].base
      /\ th'[p].want = th[p].want /\ th'[p].rest = th[p].rest /\ th'[p].res = th[p].res
  <2>1. Set(p, [va |-> v + 1])
    BY <1>2 DEF Unmap
  <2> QED
    BY <1>2, <2>1, SetIs, SMT DEF Goes
<1>8. /\ user' = [user EXCEPT ![k] = user[k] \ g] /\ free' = free \cup Pages(g)
      /\ state' = state /\ parent' = parent /\ sz' = sz /\ trapframe' = trapframe
      /\ root' = root /\ hi' = hi /\ lo' = lo /\ tramp' = tramp /\ panic' = (g = {})
  BY <1>0, <1>2, <1>5 DEF Unmap, procs
<1>9. user'[k] = user[k] \ g /\ \A j \in Tables : j # k => SameTable(j)
  <2>1. DOMAIN user = Tables
    BY <1>1 DEF TableType
  <2> QED
    BY <1>8, <2>1 DEF SameTable
<1>10. PagesConserved'
  <2>1. Mapped(k, g) \subseteq Users /\ Users' = Users \ Mapped(k, g)
    BY <1>1, <1>6, <1>8, <1>UsersDel DEF TableType
  <2>2. Hands' = Hands
    BY <1>2, <1>3, <1>7, HandsSame DEF Goes
  <2>3. Trapframes' = Trapframes /\ Roots' = Roots /\ Highs' = Highs /\ Lows' = Lows
    BY <1>8 DEF Trapframes, Roots, Highs, Lows
  <2>4. PICK R, B : /\ R = Mapped(k, g)
                    /\ B = Trapframes \cup Hands \cup Roots \cup Highs \cup Lows
    OBVIOUS
  <2>5. Users \cap B = {}
    BY <2>4, Kinds
  <2>6. Uses = Users \cup B /\ Uses' = (Users \ R) \cup B /\ R \subseteq Users
    BY <2>1, <2>2, <2>3, <2>4 DEF Uses
  <2>7. free' = free \cup Pages(R)
    BY <1>8, <2>4, <1>MappedPages
  <2> QED
    BY <1>1, <2>5, <2>6, <2>7, FreedOf
<1>11. TypeInv' /\ TableType' /\ ~panic'
  <2>1. free' \subseteq Frames
    BY <1>10 DEF PagesConserved, Conserved
  <2>2. TypeInv'
    BY <1>1, <1>8, <2>1 DEF TypeInv
  <2>3. user' \in [Tables -> SUBSET (Nat \X Frames)]
    BY <1>1, <1>8 DEF TableType
  <2>4. TableType'
    BY <1>1, <1>8, <2>3 DEF TableType
  <2> QED
    BY <1>6, <1>8, <2>2, <2>4
<1>12. Stage(th'[p], root'[k], tramp'[k], user'[k], trapframe'[np], sz[p], sz[np])
  <2>1. v + 1 \in Nat /\ th[p].base \in Nat /\ v + 1 <= th[p].want
    BY <1>N, <1>3, SMT
  <2>2. CASE l # "unmap"
    <3>1. Vas(user'[k]) = 0..(th[p].base - 1) \cup (v + 1)..(th[p].want - 1)
      <4>1. (0..(th[p].base - 1) \cup v..(th[p].want - 1)) \ {v}
              = 0..(th[p].base - 1) \cup (v + 1)..(th[p].want - 1)
        <5>1. PICK a \in Nat, w \in Nat : a = th[p].base /\ w = th[p].want /\ a <= v /\ v < w
          BY <1>1, <1>3, <1>4, <2>2
        <5>2. (0..(a - 1) \cup v..(w - 1)) \ {v} = 0..(a - 1) \cup (v + 1)..(w - 1)
          BY <5>1, SMT
        <5> QED
          BY <5>1, <5>2
      <4> QED
        BY <1>4, <1>6, <1>9, <2>2, <4>1
    <3>2. th[p].base <= v + 1
      BY <1>N, <1>4, <2>2, SMT
    <3>3. tramp'[k] /\ (th[p].call = "fork" => th[p].base = 0)
      BY <1>4, <1>8, <2>2
    <3> QED
      BY <1>3, <1>7, <2>1, <2>2, <3>1, <3>2, <3>3, SMT DEF Stage, Goes, Opening, Building
  <2>3. CASE l = "unmap"
    <3>1. Vas(user'[k]) = (v + 1)..(th[p].want - 1)
      <4>1. 0 <= v /\ 0 \in Nat
        BY SMT
      <4>2. v..(th[p].want - 1) \ {v} = (v + 1)..(th[p].want - 1)
        <5>1. PICK a \in Nat, w \in Nat : a = 0 /\ w = th[p].want /\ a <= v /\ v < w
          BY <1>1, <1>3, <4>1
        <5>2. v..(w - 1) \ {v} = (v + 1)..(w - 1)
          BY <5>1, SMT
        <5> QED
          BY <5>1, <5>2
      <4> QED
        BY <1>4, <1>6, <1>9, <2>3, <4>2
    <3>2. ~tramp'[k]
      BY <1>4, <1>8, <2>3
    <3> QED
      BY <1>7, <2>1, <2>3, <3>1, <3>2, SMT DEF Stage, Goes, Opening, Building
  <2> QED
    BY <2>2, <2>3
<1>13. ASSUME th[p].call = "sbrk" PROVE Had(th'[p], user'[Cur(p)], sz[p])
  <2>1. k = Cur(p)
    BY <1>0, <1>1, <1>3, <1>13 DEF Table, Claim, In
  <2>2. CASE l = "undo"
    <3>1. th[p].base = sz[p] /\ th[p].was = <<{e \in user[k] : e[1] < sz[p]}, sz[p]>>
      BY <1>1, <1>2, <1>13, <2>1, <2>2 DEF Before, Had
    <3>2. ~(v < sz[p])
      BY <1>N, <1>4, <2>2, <3>1, SMT
    <3>3. {e \in user'[k] : e[1] < sz[p]} = {e \in user[k] : e[1] < sz[p]}
      BY <1>5, <1>9, <3>2
    <3> QED
      BY <1>7, <1>13, <2>1, <2>2, <3>1, <3>3 DEF Had, Goes
  <2>3. CASE l = "shrink"
    BY <1>7, <1>13, <2>3 DEF Had, Goes, Building
  <2>4. l # "unmap"
    BY <1>1, <1>2, <1>13 DEF Label, Building
  <2> QED
    BY <1>3, <2>2, <2>3, <2>4
<1>14. Numbers(p) /\ Label(th'[p]) /\ Rooted(k)' /\ Onward(p)
  <2>1. Label(th'[p])
    BY <1>1, <1>2, <1>3, <1>7 DEF Label, Goes, Building
  <2>2. Numbers(p)
    BY <1>N, <1>7, SMT DEF Numbers
  <2>3. root[k] # NULL
    BY <1>1, <1>6 DEF Rooted, NoTable
  <2>4. Onward(p)
    BY <1>2, <1>3, <1>7 DEF Onward, Early, Goes, Opening, Building
  <2> QED
    BY <1>8, <2>1, <2>2, <2>3, <2>4 DEF Rooted
<1>15. l \notin {"user", "ret"}
  BY <1>3
<1> QED
  BY <1>0, <1>3, <1>7, <1>8, <1>9, <1>10, <1>11, <1>12, <1>13, <1>14, <1>15, TableStep

\* freewalk finds no mapping left and frees a page of the table.
LEMMA FreeWalkKeeps ==
    ASSUME Inv, NEW p \in Procs, FreeWalk(p)
    PROVE  Inv'
\* Table k loses its root.
<1>RootsClear.
    ASSUME NEW k \in Tables, root[k] # NULL, DOMAIN root = Tables,
           root' = [root EXCEPT ![k] = NULL]
    PROVE  /\ Use("root", k, 0, root[k]) \in Roots
           /\ Roots' = Roots \ {Use("root", k, 0, root[k])}
  <2> USE <1>RootsClear
  <2>1. root'[k] = NULL /\ \A j \in Tables : j # k => root'[j] = root[j]
    OBVIOUS
  <2>2. \A x : x \in Roots <=> \E j \in Tables : root[j] # NULL /\ x = Use("root", j, 0, root[j])
    BY DEF Roots
  <2>3. \A x : x \in Roots' <=> \E j \in Tables : root'[j] # NULL /\ x = Use("root", j, 0, root'[j])
    BY DEF Roots
  <2>4. \A j \in Tables : j # k => Use("root", j, 0, root[j]) # Use("root", k, 0, root[k])
    BY UseIs, SMT
  <2>5. ASSUME NEW x PROVE x \in Roots' <=> x \in Roots \ {Use("root", k, 0, root[k])}
    <3>1. CASE x \in Roots'
      <4>1. PICK j \in Tables : root'[j] # NULL /\ x = Use("root", j, 0, root'[j])
        BY <3>1, <2>3
      <4>2. j # k /\ root'[j] = root[j]
        BY <4>1, <2>1
      <4>3. x = Use("root", j, 0, root[j])
        BY <4>1, <4>2
      <4> QED
        BY <3>1, <4>1, <4>2, <4>3, <2>2, <2>4
    <3>2. CASE x \in Roots \ {Use("root", k, 0, root[k])}
      <4>1. PICK j \in Tables : root[j] # NULL /\ x = Use("root", j, 0, root[j])
        BY <3>2, <2>2
      <4>2. j # k
        BY <3>2, <4>1
      <4>3. root'[j] = root[j]
        BY <4>2, <2>1
      <4> QED
        BY <3>2, <4>1, <4>3, <2>3
    <3> QED
      BY <3>1, <3>2
  <2> QED
    BY <2>2, <2>5

\* The pages that walk adds to a branch of a table, and freewalk takes from it.
<1>BranchTag.
    ASSUME NEW b, NEW k, NEW i, NEW f, NEW j, NEW s
    PROVE  Use(b, k, i, f) \in Branch(b, j, s) => j = k /\ i \in DOMAIN s
  <2> USE <1>BranchTag
  <2> SUFFICES ASSUME Use(b, k, i, f) \in Branch(b, j, s) PROVE j = k /\ i \in DOMAIN s
    OBVIOUS
  <2>1. PICK h \in DOMAIN s : Use(b, k, i, f) = Use(b, j, h, s[h])
    BY DEF Branch
  <2> QED
    BY <2>1, UseIs, SMT

\* freewalk takes the last page of a branch.
<1>BranchFront.
    ASSUME NEW b, NEW k, NEW s \in Seq(Frames), s # <<>>
    PROVE  /\ Use(b, k, Len(s), s[Len(s)]) \in Branch(b, k, s)
           /\ Branch(b, k, Front(s)) = Branch(b, k, s) \ {Use(b, k, Len(s), s[Len(s)])}
  <2> USE <1>BranchFront
  <2> DEFINE n == Len(s)
             t == Front(s)
  <2>1. /\ DOMAIN s = DOMAIN t \cup {n} /\ n \notin DOMAIN t
        /\ \A i \in DOMAIN t : t[i] = s[i]
    <3>1. n \in Nat \ {0} /\ DOMAIN s = 1..n
      BY SMT
    <3>2. t = [i \in 1..(n - 1) |-> s[i]]
      BY <3>1, SMT DEF Front
    <3> QED
      BY <3>1, <3>2, SMT
  <2> HIDE DEF n, t
  <2>2. Use(b, k, n, s[n]) \in Branch(b, k, s)
    BY <2>1 DEF Branch
  <2>3. Use(b, k, n, s[n]) \notin Branch(b, k, t)
    BY <2>1, <1>BranchTag
  <2>4. ASSUME NEW x \in Branch(b, k, t) PROVE x \in Branch(b, k, s)
    BY <2>1 DEF Branch
  <2>5. ASSUME NEW x \in Branch(b, k, s), x # Use(b, k, n, s[n]) PROVE x \in Branch(b, k, t)
    BY <2>1, <2>5 DEF Branch
  <2> QED
    BY <2>2, <2>3, <2>4, <2>5 DEF n, t

\* freewalk takes a page from the high branch of k.
<1>HighsPop.
    ASSUME hi \in [Tables -> Seq(Frames)], NEW k \in Tables, hi[k] # <<>>,
           hi' = [hi EXCEPT ![k] = Front(hi[k])]
    PROVE  LET u == Use("high", k, Len(hi[k]), hi[k][Len(hi[k])])
           IN  u \in Highs /\ Highs' = Highs \ {u}
  <2> USE <1>HighsPop
  <2> DEFINE F == [j \in Tables |-> Branch("high", j, hi[j])]
             G == [j \in Tables |-> Branch("high", j, hi'[j])]
             u == Use("high", k, Len(hi[k]), hi[k][Len(hi[k])])
  <2>1. hi'[k] = Front(hi[k]) /\ \A j \in Tables : j # k => hi'[j] = hi[j]
    OBVIOUS
  <2>2. hi[k] \in Seq(Frames)
    OBVIOUS
  <2>3. {u} \subseteq F[k] /\ G[k] = F[k] \ {u}
    <3>1. F[k] = Branch("high", k, hi[k]) /\ G[k] = Branch("high", k, Front(hi[k]))
      BY <2>1
    <3>2. /\ u \in Branch("high", k, hi[k])
          /\ Branch("high", k, Front(hi[k])) = Branch("high", k, hi[k]) \ {u}
      BY <2>2, <1>BranchFront
    <3> QED
      BY <3>1, <3>2
  <2>4. \A j \in Tables : j # k => G[j] = F[j]
    BY <2>1
  <2>5. \A j \in Tables : j # k => F[j] \cap {u} = {}
    BY <1>BranchTag, SMT
  <2>6. Highs = Join(F) /\ Highs' = Join(G)
    BY DEF Highs, Join
  <2> HIDE DEF F, G, u
  <2> DEFINE A == {u}
  <2>7. Without(G, F, k, A)
    BY <2>3, <2>4, <2>5 DEF Without
  <2> HIDE DEF A
  <2>8. \A x : x \in Join(G) <=> x \in Join(F) \ A
    BY <2>7, JoinDel
  <2>9. A \subseteq Join(F)
    BY <2>7, JoinAt DEF Without
  <2> QED
    BY <2>6, <2>8, <2>9 DEF A, u

\* freewalk takes a page from the low branch of k.
<1>LowsPop.
    ASSUME lo \in [Tables -> Seq(Frames)], NEW k \in Tables, lo[k] # <<>>,
           lo' = [lo EXCEPT ![k] = Front(lo[k])]
    PROVE  LET u == Use("low", k, Len(lo[k]), lo[k][Len(lo[k])])
           IN  u \in Lows /\ Lows' = Lows \ {u}
  <2> USE <1>LowsPop
  <2> DEFINE F == [j \in Tables |-> Branch("low", j, lo[j])]
             G == [j \in Tables |-> Branch("low", j, lo'[j])]
             u == Use("low", k, Len(lo[k]), lo[k][Len(lo[k])])
  <2>1. lo'[k] = Front(lo[k]) /\ \A j \in Tables : j # k => lo'[j] = lo[j]
    OBVIOUS
  <2>2. lo[k] \in Seq(Frames)
    OBVIOUS
  <2>3. {u} \subseteq F[k] /\ G[k] = F[k] \ {u}
    <3>1. F[k] = Branch("low", k, lo[k]) /\ G[k] = Branch("low", k, Front(lo[k]))
      BY <2>1
    <3>2. /\ u \in Branch("low", k, lo[k])
          /\ Branch("low", k, Front(lo[k])) = Branch("low", k, lo[k]) \ {u}
      BY <2>2, <1>BranchFront
    <3> QED
      BY <3>1, <3>2
  <2>4. \A j \in Tables : j # k => G[j] = F[j]
    BY <2>1
  <2>5. \A j \in Tables : j # k => F[j] \cap {u} = {}
    BY <1>BranchTag, SMT
  <2>6. Lows = Join(F) /\ Lows' = Join(G)
    BY DEF Lows, Join
  <2> HIDE DEF F, G, u
  <2> DEFINE A == {u}
  <2>7. Without(G, F, k, A)
    BY <2>3, <2>4, <2>5 DEF Without
  <2> HIDE DEF A
  <2>8. \A x : x \in Join(G) <=> x \in Join(F) \ A
    BY <2>7, JoinDel
  <2>9. A \subseteq Join(F)
    BY <2>7, JoinAt DEF Without
  <2> QED
    BY <2>6, <2>8, <2>9 DEF A, u

<1>0. PICK k \in Tables, np \in Procs : k = Table(p) /\ np = th[p].np
  BY Start
<1>1. /\ TypeInv /\ TableType /\ ThreadType /\ PagesConserved /\ ~panic
      /\ Label(th[p]) /\ Claim(p) /\ Before(p) /\ Rooted(k)
      /\ th[p].base \in Nat /\ th[p].va \in Nat /\ th[p].want \in Nat /\ th[p].rest \in Seq(Nat)
      /\ Stage(th[p], root[k], tramp[k], user[k], trapframe[np], sz[p], sz[np])
  BY <1>0, Start
<1>T. TableType
  BY <1>1
<1>2. /\ th[p].pc = "freewalk" /\ Active(p) /\ th[p].call # "sbrk" /\ root[k] # NULL
  BY <1>0, <1>1 DEF FreeWalk, At, Active, Label, Building
<1>3. ~tramp[k] /\ user[k] = {}
  BY <1>1, <1>2 DEF Stage
<1>4. /\ FreeLow(k) \/ FreeHigh(k) \/ FreeRoot(k)
      /\ panic' = panic /\ tramp' = tramp /\ user' = user /\ th' = th
      /\ state' = state /\ parent' = parent /\ sz' = sz /\ trapframe' = trapframe
  BY <1>0, <1>3 DEF FreeWalk, procs
<1>5. Goes(p, "freewalk") /\ Numbers(p)
  BY <1>2, <1>4, GoesSame
<1>6. Trapframes' = Trapframes /\ Hands' = Hands /\ Users' = Users
  BY <1>4 DEF Trapframes, Hands, InHand, Users
<1>7. DOMAIN root = Tables /\ DOMAIN hi = Tables /\ DOMAIN lo = Tables
  BY <1>1 DEF TableType
<1>8. /\ \A j \in Tables : j # k => SameTable(j)
      /\ root' \in [Tables -> Frames \cup {NULL}] /\ hi' \in [Tables -> Seq(Frames)]
      /\ lo' \in [Tables -> Seq(Frames)]
      /\ Rooted(k)' /\ PagesConserved'
  <2>1. CASE FreeLow(k)
    <3>1. /\ lo[k] # <<>> /\ lo' = [lo EXCEPT ![k] = Front(lo[k])]
          /\ free' = free \cup {lo[k][Len(lo[k])]} /\ root' = root /\ hi' = hi
      BY <2>1 DEF FreeLow
    <3>2. \A j \in Tables : j # k => SameTable(j)
      BY <1>4, <1>7, <3>1 DEF SameTable
    <3>3. lo' \in [Tables -> Seq(Frames)]
      <4>1. Front(lo[k]) \in Seq(Frames)
        BY <1>T, <3>1, SMT DEF TableType, Front
      <4> QED
        BY <1>1, <3>1, <4>1 DEF TableType
    <3>4. PICK i, f : i = Len(lo[k]) /\ f = lo[k][Len(lo[k])]
      OBVIOUS
    <3>5. Use("low", k, i, f) \in Lows /\ Lows' = Lows \ {Use("low", k, i, f)}
      BY <1>1, <3>1, <3>4, <1>LowsPop DEF TableType
    <3>6. PICK B : B = Trapframes \cup Hands \cup Roots \cup Highs \cup Users
      OBVIOUS
    <3>7. Lows \cap B = {}
      BY <3>6, Kinds
    <3>8. Roots' = Roots /\ Highs' = Highs
      BY <3>1 DEF Roots, Highs
    <3>9. Uses = Lows \cup B /\ Uses' = (Lows \ {Use("low", k, i, f)}) \cup B
      BY <1>6, <3>5, <3>6, <3>8 DEF Uses
    <3>10. PagesConserved'
      BY <1>1, <3>1, <3>4, <3>5, <3>7, <3>9, FreedOne
    <3> QED
      BY <1>1, <1>2, <3>1, <3>2, <3>3, <3>10 DEF Rooted, TableType
  <2>2. CASE FreeHigh(k)
    <3>1. /\ hi[k] # <<>> /\ hi' = [hi EXCEPT ![k] = Front(hi[k])]
          /\ free' = free \cup {hi[k][Len(hi[k])]} /\ root' = root /\ lo' = lo
      BY <2>2 DEF FreeHigh
    <3>2. \A j \in Tables : j # k => SameTable(j)
      BY <1>4, <1>7, <3>1 DEF SameTable
    <3>3. hi' \in [Tables -> Seq(Frames)]
      <4>1. Front(hi[k]) \in Seq(Frames)
        BY <1>T, <3>1, SMT DEF TableType, Front
      <4> QED
        BY <1>1, <3>1, <4>1 DEF TableType
    <3>4. PICK i, f : i = Len(hi[k]) /\ f = hi[k][Len(hi[k])]
      OBVIOUS
    <3>5. Use("high", k, i, f) \in Highs /\ Highs' = Highs \ {Use("high", k, i, f)}
      BY <1>1, <3>1, <3>4, <1>HighsPop DEF TableType
    <3>6. PICK B : B = Trapframes \cup Hands \cup Roots \cup Lows \cup Users
      OBVIOUS
    <3>7. Highs \cap B = {}
      BY <3>6, Kinds
    <3>8. Roots' = Roots /\ Lows' = Lows
      BY <3>1 DEF Roots, Lows
    <3>9. Uses = Highs \cup B /\ Uses' = (Highs \ {Use("high", k, i, f)}) \cup B
      BY <1>6, <3>5, <3>6, <3>8 DEF Uses
    <3>10. PagesConserved'
      BY <1>1, <3>1, <3>4, <3>5, <3>7, <3>9, FreedOne
    <3> QED
      BY <1>1, <1>2, <3>1, <3>2, <3>3, <3>10 DEF Rooted, TableType
  <2>3. CASE FreeRoot(k)
    <3>1. /\ lo[k] = <<>> /\ hi[k] = <<>> /\ root' = [root EXCEPT ![k] = NULL]
          /\ free' = free \cup {root[k]} /\ hi' = hi /\ lo' = lo
      BY <2>3 DEF FreeRoot
    <3>2. \A j \in Tables : j # k => SameTable(j)
      BY <1>4, <1>7, <3>1 DEF SameTable
    <3>3. root' \in [Tables -> Frames \cup {NULL}]
      BY <1>1, <3>1 DEF TableType
    <3>4. PICK f : f = root[k]
      OBVIOUS
    <3>5. Use("root", k, 0, f) \in Roots /\ Roots' = Roots \ {Use("root", k, 0, f)}
      BY <1>2, <1>7, <3>1, <3>4, <1>RootsClear
    <3>6. PICK B : B = Trapframes \cup Hands \cup Highs \cup Lows \cup Users
      OBVIOUS
    <3>7. Roots \cap B = {}
      BY <3>6, Kinds
    <3>8. Highs' = Highs /\ Lows' = Lows
      BY <3>1 DEF Highs, Lows
    <3>9. Uses = Roots \cup B /\ Uses' = (Roots \ {Use("root", k, 0, f)}) \cup B
      BY <1>6, <3>5, <3>6, <3>8 DEF Uses
    <3>10. PagesConserved'
      BY <1>1, <3>1, <3>4, <3>5, <3>7, <3>9, FreedOne
    <3>11. Rooted(k)'
      <4>1. root'[k] = NULL
        BY <1>7, <3>1
      <4> QED
        BY <1>3, <1>4, <3>1, <4>1 DEF Rooted, NoTable
    <3> QED
      BY <1>1, <3>1, <3>2, <3>3, <3>10, <3>11 DEF TableType
  <2> QED
    BY <1>4, <2>1, <2>2, <2>3
<1>9. TypeInv' /\ TableType' /\ ~panic'
  <2>1. free' \subseteq Frames
    BY <1>8 DEF PagesConserved, Conserved
  <2>2. TypeInv'
    BY <1>1, <1>4, <2>1 DEF TypeInv
  <2>3. TableType'
    BY <1>1, <1>4, <1>8 DEF TableType
  <2>4. ~panic'
    BY <1>4, StillFine
  <2> QED
    BY <2>2, <2>3, <2>4
<1>10. Stage(th'[p], root'[k], tramp'[k], user'[k], trapframe'[np], sz[p], sz[np])
  BY <1>2, <1>3, <1>4, SMT DEF Stage, Opening, Building
<1>11. Label(th'[p]) /\ Onward(p)
  BY <1>1, <1>2, <1>4 DEF Onward, Opening, Building
<1> QED
  BY <1>0, <1>2, <1>4, <1>5, <1>8, <1>9, <1>10, <1>11, TableStep

\* mappages maps the page in hand where no page is mapped.
LEMMA MapPageKeeps ==
    ASSUME Inv, NEW p \in Procs, MapPage(p)
    PROVE  Inv'
\* A page in use is put to another use.
<1>MoveOne.
    ASSUME NEW U, NEW F, Conserved(U, F), NEW u \in U, NEW v, v[2] = u[2]
    PROVE  Conserved((U \ {u}) \cup {v}, F)
  <2> USE <1>MoveOne
  <2>1. Pages({u}) = {u[2]}
    BY DEF Pages
  <2>2. Conserved(U \ {u}, F \cup {u[2]})
    BY <2>1, GiveBack
  <2>3. u[2] \notin F
    BY DEF Conserved, Pages
  <2>4. Conserved((U \ {u}) \cup {v}, (F \cup {u[2]}) \ {u[2]})
    BY <2>2, TakeOne
  <2>5. (F \cup {u[2]}) \ {u[2]} = F
    BY <2>3
  <2> QED
    BY <2>4, <2>5

\* The page in the hand of p is mapped: it goes from one use to another.
<1>HandToUser.
    ASSUME PagesConserved, NEW k, NEW v, NEW f, Use("hand", p, 0, f) \in Hands,
           Hands' = Hands \ {Use("hand", p, 0, f)}, Users' = Users \cup {Use("user", k, v, f)},
           Trapframes' = Trapframes, Roots' = Roots, Highs' = Highs, Lows' = Lows, free' = free
    PROVE  PagesConserved'
  <2> USE <1>HandToUser
  <2>1. PICK h, u : h = Use("hand", p, 0, f) /\ u = Use("user", k, v, f)
    OBVIOUS
  <2>2. u[2] = h[2]
    BY <2>1, UseIs, SMT
  <2>3. h \in Uses
    BY <2>1 DEF Uses
  <2>4. /\ h \notin Trapframes /\ h \notin Roots /\ h \notin Highs /\ h \notin Lows
        /\ h \notin Users
    <3>1. Kind(h) = "hand"
      BY <2>1, Kinds
    <3> QED
      BY <3>1, Kinds
  <2>5. Uses' = (Uses \ {h}) \cup {u}
    BY <2>1, <2>4 DEF Uses
  <2>6. Conserved((Uses \ {h}) \cup {u}, free)
    BY <2>2, <2>3, <1>MoveOne DEF PagesConserved
  <2> QED
    BY <2>5, <2>6 DEF PagesConserved

\* The user pages of one table.
<1>MappedAdd.
    ASSUME NEW k, NEW u, NEW v, NEW f
    PROVE  \A x : x \in Mapped(k, u \cup {<<v, f>>}) <=>
                  x \in Mapped(k, u) \cup {Use("user", k, v, f)}
  <2> USE <1>MappedAdd
  <2> DEFINE e == <<v, f>>
  <2>1. e[1] = v /\ e[2] = f
    OBVIOUS
  <2> HIDE DEF e
  <2>2. Mapped(k, u \cup {e}) = Mapped(k, u) \cup {Use("user", k, e[1], e[2])}
    BY DEF Mapped
  <2> QED
    BY <2>1, <2>2 DEF e

\* mappages maps the page f at v in table k.
<1>UsersAdd.
    ASSUME user \in [Tables -> SUBSET (Nat \X Frames)], NEW k \in Tables, NEW v, NEW f,
           user' = [user EXCEPT ![k] = user[k] \cup {<<v, f>>}]
    PROVE  Users' = Users \cup {Use("user", k, v, f)}
  <2> USE <1>UsersAdd
  <2> DEFINE F == [j \in Tables |-> Mapped(j, user[j])]
             G == [j \in Tables |-> Mapped(j, user'[j])]
             A == {Use("user", k, v, f)}
  <2>1. user'[k] = user[k] \cup {<<v, f>>} /\ \A j \in Tables : j # k => user'[j] = user[j]
    OBVIOUS
  <2>2. F[k] = Mapped(k, user[k]) /\ G[k] = Mapped(k, user[k] \cup {<<v, f>>})
    BY <2>1
  <2>3. Mapped(k, user[k] \cup {<<v, f>>}) = Mapped(k, user[k]) \cup A
    <3>1. \A x : x \in Mapped(k, user[k] \cup {<<v, f>>}) <=> x \in Mapped(k, user[k]) \cup A
      BY <1>MappedAdd
    <3> QED
      BY <3>1
  <2>4. G[k] = F[k] \cup A
    BY <2>2, <2>3
  <2>5. \A j \in Tables : j # k => G[j] = F[j]
    BY <2>1
  <2>6. Users = Join(F) /\ Users' = Join(G)
    BY DEF Users, Join
  <2> HIDE DEF F, G, A
  <2>7. \A x : x \in Join(G) <=> x \in Join(F) \cup A
    <3>1. Within(G, F, k, A)
      BY <2>4, <2>5 DEF Within
    <3> QED
      BY <3>1, JoinAdd
  <2> QED
    BY <2>6, <2>7 DEF A

\* The page numbers after a page is mapped at v.
<1>VasAdd.
    ASSUME NEW u, NEW v, NEW f
    PROVE  Vas(u \cup {<<v, f>>}) = Vas(u) \cup {v}
  <2> USE <1>VasAdd
  <2> DEFINE e == <<v, f>>
  <2>1. e[1] = v
    OBVIOUS
  <2> HIDE DEF e
  <2>2. Vas(u \cup {e}) = Vas(u) \cup {e[1]}
    BY DEF Vas
  <2> QED
    BY <2>1, <2>2 DEF e

\* A range grows by one.
<1>RangeUp.
    ASSUME NEW v \in Nat
    PROVE  /\ 0..(v - 1) \cup {v} = 0..((v + 1) - 1)
           /\ v \notin 0..(v - 1)
    BY <1>RangeUp, SMT

<1>0. PICK k \in Tables, np \in Procs : k = Table(p) /\ np = th[p].np
  BY Start
<1>1. /\ TypeInv /\ TableType /\ ThreadType /\ PagesConserved /\ ~panic
      /\ Label(th[p]) /\ Claim(p) /\ Before(p) /\ Rooted(k)
      /\ th[p].base \in Nat /\ th[p].va \in Nat /\ th[p].want \in Nat /\ th[p].rest \in Seq(Nat)
      /\ Stage(th[p], root[k], tramp[k], user[k], trapframe[np], sz[p], sz[np])
  BY <1>0, Start
<1>N. th[p].base \in Nat /\ th[p].va \in Nat /\ th[p].want \in Nat /\ th[p].rest \in Seq(Nat)
  BY <1>1
<1>2. PICK v \in Nat, f \in {th[p].mem} : v = th[p].va /\ f = th[p].mem
  BY <1>1
<1>3. th[p].pc = "map" /\ Active(p)
  BY DEF MapPage, At, Active
<1>4. /\ tramp[k] /\ Vas(user[k]) = 0..(v - 1) /\ th[p].base <= v /\ v < th[p].want
      /\ th[p].call = "fork" => th[p].base = 0 /\ th[p].want = sz[p]
  BY <1>1, <1>2, <1>3 DEF Stage, Building
<1>5. /\ Goes(p, "mem") /\ th'[p].va = v + 1 /\ th'[p].base = th[p].base
      /\ th'[p].want = th[p].want /\ th'[p].rest = th[p].rest /\ th'[p].res = th[p].res
  <2>1. Set(p, [pc |-> "mem", va |-> v + 1, mem |-> NULL])
    BY <1>2 DEF MapPage
  <2> QED
    BY <2>1, SetIs, SMT DEF Goes
<1>6. /\ user' = [user EXCEPT ![k] = user[k] \cup {<<v, f>>}] /\ panic' = (v \in Vas(user[k]))
      /\ free' = free /\ state' = state /\ parent' = parent /\ sz' = sz
      /\ trapframe' = trapframe /\ root' = root /\ hi' = hi /\ lo' = lo /\ tramp' = tramp
  BY <1>0, <1>2 DEF MapPage, procs
<1>7. DOMAIN user = Tables
  BY <1>1 DEF TableType
<1>8. user'[k] = user[k] \cup {<<v, f>>} /\ \A j \in Tables : j # k => SameTable(j)
  BY <1>6, <1>7 DEF SameTable
<1>9. Use("hand", p, 0, f) \in Hands /\ Hands' = Hands \ {Use("hand", p, 0, f)}
  BY <1>2, <1>3, <1>5, HandsDrop DEF Goes
<1>10. f \in Frames
  <2>1. PICK u : u = Use("hand", p, 0, f)
    OBVIOUS
  <2>2. u[2] = f
    BY <2>1, UseIs, SMT
  <2>3. u \in Uses
    BY <1>9, <2>1 DEF Uses
  <2> QED
    BY <1>1, <2>2, <2>3 DEF PagesConserved, Conserved, Pages
<1>11. TypeInv' /\ TableType' /\ ~panic'
  <2>1. TypeInv'
    BY <1>1, <1>6 DEF TypeInv
  <2>2. user' \in [Tables -> SUBSET (Nat \X Frames)]
    <3>1. PICK x \in Nat \X Frames : x = <<v, f>>
      BY <1>10
    <3>2. user[k] \cup {x} \subseteq Nat \X Frames
      BY <1>1, <3>1 DEF TableType
    <3> QED
      BY <1>1, <1>6, <3>1, <3>2 DEF TableType
  <2>3. TableType'
    BY <1>1, <1>6, <2>2 DEF TableType
  <2>4. v \notin Vas(user[k])
    BY <1>4, <1>RangeUp
  <2> QED
    BY <1>6, <2>1, <2>3, <2>4
<1>12. PagesConserved'
  <2>1. Users' = Users \cup {Use("user", k, v, f)}
    BY <1>1, <1>6, <1>UsersAdd DEF TableType
  <2>2. Trapframes' = Trapframes /\ Roots' = Roots /\ Highs' = Highs /\ Lows' = Lows
    BY <1>6 DEF Trapframes, Roots, Highs, Lows
  <2> QED
    BY <1>1, <1>6, <1>9, <2>1, <2>2, <1>HandToUser
<1>13. Stage(th'[p], root'[k], tramp'[k], user'[k], trapframe'[np], sz[p], sz[np])
  <2>1. Vas(user'[k]) = 0..((v + 1) - 1)
    <3>1. Vas(user[k] \cup {<<v, f>>}) = Vas(user[k]) \cup {v}
      BY <1>VasAdd
    <3> QED
      BY <1>4, <1>8, <3>1, <1>RangeUp
  <2>2. th[p].base <= v + 1 /\ v + 1 <= th[p].want
    BY <1>N, <1>4, SMT
  <2>3. tramp'[k]
    BY <1>4, <1>6
  <2> QED
    BY <1>4, <1>5, <2>1, <2>2, <2>3, SMT DEF Stage, Goes, Opening, Building
<1>14. ASSUME th[p].call = "sbrk" PROVE Had(th'[p], user'[Cur(p)], sz[p])
  <2>1. k = Cur(p)
    BY <1>0, <1>1, <1>3, <1>14 DEF Table, Claim, In
  <2>2. th[p].base = sz[p] /\ th[p].was = <<{e \in user[k] : e[1] < sz[p]}, sz[p]>>
    BY <1>1, <1>3, <1>14, <2>1 DEF Before, Had, Building
  <2>3. sz[p] \in Nat
    BY <1>1 DEF TypeInv
  <2>4. {e \in user'[k] : e[1] < sz[p]} = {e \in user[k] : e[1] < sz[p]}
    <3>0. <<v, f>>[1] = v
      OBVIOUS
    <3>1. PICK x : x = <<v, f>> /\ x[1] = v
      BY <3>0
    <3>2. ~(v < sz[p])
      BY <1>N, <1>4, <2>2, <2>3, SMT
    <3>3. {e \in user[k] \cup {x} : e[1] < sz[p]} = {e \in user[k] : e[1] < sz[p]}
      BY <3>1, <3>2
    <3> QED
      BY <1>8, <3>1, <3>3
  <2> QED
    BY <1>5, <1>14, <2>1, <2>2, <2>4 DEF Had, Goes
<1>15. Numbers(p) /\ Label(th'[p]) /\ Rooted(k)' /\ Onward(p)
  <2>1. Label(th'[p])
    BY <1>1, <1>3, <1>5 DEF Label, Goes, Building
  <2>2. root'[k] # NULL
    BY <1>1, <1>4, <1>6 DEF Rooted, NoTable
  <2>3. Numbers(p)
    BY <1>N, <1>5, SMT DEF Numbers
  <2>4. Onward(p)
    BY <1>3, <1>5 DEF Onward, Early, Building
  <2> QED
    BY <2>1, <2>2, <2>3, <2>4 DEF Rooted
<1> QED
  BY <1>0, <1>3, <1>5, <1>6, <1>8, <1>11, <1>12, <1>13, <1>14, <1>15, TableStep

----------------------------------------------------------------------------
\* Every step keeps the invariant

\* The steps of Build.
LEMMA BuildKeeps ==
    ASSUME Inv, NEW p \in Procs, Build(p)
    PROVE  Inv'
<1>1. CASE TableFails(p)
  BY <1>1, ControlKeeps, ReturnKeeps
<1>2. CASE AllocTrapframe(p) \/ AllocRoot(p) \/ WalkHigh(p)
  BY <1>2, AllocTrapframeKeeps, AllocRootKeeps, WalkHighKeeps
<1>3. CASE AllocPage(p) \/ WalkLow(p) \/ MapPage(p)
  BY <1>3, AllocPageKeeps, WalkLowKeeps, MapPageKeeps
<1>4. CASE AllocFails(p) \/ WalkFails(p) \/ DropPage(p)
  BY <1>4, ControlKeeps, DropPageKeeps
<1>5. CASE SbrkDone(p) \/ ForkDone(p) \/ ExecNext(p) \/ ExecBad(p) \/ ExecCommit(p)
  BY <1>5, ReturnKeeps, OtherKeeps, ControlKeeps, ExecCommitKeeps
<1> QED
  BY <1>1, <1>2, <1>3, <1>4, <1>5 DEF Build

\* The steps of TakeDown.
LEMMA TakeDownKeeps ==
    ASSUME Inv, NEW p \in Procs, TakeDown(p)
    PROVE  Inv'
<1>1. CASE UndoDone(p) \/ TableFreed(p)
  BY <1>1, ControlKeeps, ReturnKeeps
<1>2. CASE ShrinkDone(p) \/ UnmapDone(p) \/ ClearSlot(p)
  BY <1>2, ControlKeeps, ReturnKeeps, OtherKeeps
<1>3. CASE Unmap(p) \/ FreeTrapframe(p) \/ FreeTable(p) \/ FreeWalk(p)
  BY <1>3, UnmapKeeps, FreeTrapframeKeeps, FreeTableKeeps, FreeWalkKeeps
<1> QED
  BY <1>1, <1>2, <1>3 DEF TakeDown

\* A thread that is back from a call has its memory whole and no second table, and
\* a slot that is unused has nothing.
LEMMA InvDone ==
    ASSUME Inv
    PROVE  AllOrNothing
<1>1. ASSUME NEW p \in Procs, th[p].pc = "ret"
      PROVE  /\ Vas(user[Cur(p)]) = 0..(sz[p] - 1)
             /\ th[p].res = -1 => th[p].was = <<user[Cur(p)], sz[p]>>
             /\ NoTable(New(p))
  <2>1. \A c : ~In(p, c)
    BY <1>1 DEF In, Active
  <2>2. Whole(p)
    BY <1>1, <2>1, CallerWhole
  <2>3. th[p].res = -1 => th[p].was = <<user[Cur(p)], sz[p]>>
    BY <1>1 DEF Inv, Thread, Before, Had
  <2>4. New(p) \in Tables
    BY DEF New, Tables
  <2>5. NoTable(New(p))
    BY <2>1, <2>4 DEF Inv, Slot, Rooted
  <2> QED
    BY <2>2, <2>3, <2>5 DEF Whole
<1>2. ASSUME NEW p \in Procs, state[p] = "unused"
      PROVE  NoTable(Cur(p)) /\ trapframe[p] = NULL /\ sz[p] = 0
  <2>1. Cur(p) \in Tables
    BY DEF Cur, Tables
  <2> QED
    BY <1>2, <2>1 DEF Inv, Slot, Rooted
<1>3. ~panic
  BY DEF Inv
<1> QED
  BY <1>1, <1>2, <1>3 DEF AllOrNothing

----------------------------------------------------------------------------
\* The theorems

\* Whatever the processes call and whenever kalloc fails, each thread is where its
\* call can be, with the page table it works on as far as that step says.
THEOREM Invariant == Spec => []Inv
<1>1. Init => Inv
  BY InitInv
<1>2. Inv /\ [Next]_vars => Inv'
  <2>1. ASSUME Inv, NEW p \in Procs, Begin(p) \/ Build(p) \/ TakeDown(p) \/ Leave(p)
        PROVE  Inv'
    BY <2>1, BeginKeeps, BuildKeeps, TakeDownKeeps
  <2> QED
    BY <2>1, StutterKeeps DEF Next
<1> QED
  BY <1>1, <1>2, PTL DEF Spec

\* No page is lost and none is used for two things, however many processes call
\* sbrk, fork, exec, exit and wait at once and whichever kalloc fails.
THEOREM Conservation == Spec => []PagesConserved
<1>1. Inv => PagesConserved
  BY DEF Inv
<1> QED
  BY <1>1, Invariant, PTL

\* A call that returns has its memory up to sz mapped, a failed one has what it had,
\* a free slot has no page left, and uvmunmap, mappages, uvmcopy and freewalk
\* never panic.
THEOREM Atomicity == Spec => []AllOrNothing
<1>1. Inv => AllOrNothing
  BY InvDone
<1> QED
  BY <1>1, Invariant, PTL

============================================================================
