----------------------------- MODULE Log_proofs ----------------------------
(***************************************************************************)
(* Proofs about Log: the inductive invariant behind its safety properties, *)
(* the reservation argument of begin_op, and the refinement of TxnDisk.    *)
(***************************************************************************)
EXTENDS Log, FiniteSetTheorems, SequenceTheorems, TLAPS

\* The prover is Zenon unless a step asks for SMT.
USE Zenon

----------------------------------------------------------------------------
\* The inductive invariant

Ops == {p \in Procs : pc[p] = "op"}
CommitPhases == {"write_log", "write_head", "install", "erase", "done"}

\* log absorption: a header names a block once.
Distinct(h) == \A i, j \in 1..Len(h) : h[i] = h[j] => i = j

\* dlog holds what the buffers of the first n entries hold.
Copied(n) == \A i \in 1..n : dlog[i] = cache[lh[i]]
\* The first n entries of header h are installed.
Installed(h, n) == \A i \in 1..n : disk[h[i]] = dlog[i]
CleanOutside(h) == \A b \in Blocks : b \notin Logged(h) => cache[b] = disk[b]
Unpinned == \A b \in Blocks : pins[b] = 0

\* What each phase knows about the header, the log, the buffers and the pins.
Shape ==
    /\ Len(lh) <= LOGSIZE /\ Distinct(lh)
    /\ Len(dhead) <= LOGSIZE /\ Distinct(dhead)
    /\ phase \in {"none", "write_log", "write_head"} =>
           /\ dhead = <<>> /\ CleanOutside(lh)
           /\ \A b \in Blocks : pins[b] = IF b \in Logged(lh) THEN 1 ELSE 0
    /\ phase = "write_log" => tail <= Len(lh) /\ Copied(tail - 1)
    /\ phase = "write_head" => 0 < Len(lh) /\ Copied(Len(lh))
    /\ phase = "install" =>
           /\ dhead = lh /\ tail <= Len(lh) /\ CleanOutside(lh)
           /\ Copied(Len(lh)) /\ Installed(lh, tail - 1)
           /\ \A i \in 1..Len(lh) : pins[lh[i]] = IF i < tail THEN 0 ELSE 1
           /\ \A b \in Blocks : b \notin Logged(lh) => pins[b] = 0
    /\ phase \in {"erase", "done", "read_head", "recover", "clear"} =>
           Unpinned /\ cache = disk
    /\ phase \in {"erase", "done", "read_head", "clear"} => lh = <<>>
    /\ phase \in {"erase", "clear"} => Installed(dhead, Len(dhead))
    /\ phase = "done" => dhead = <<>>
    /\ phase = "recover" =>
           lh = dhead /\ tail <= Len(lh) /\ Installed(lh, tail - 1)

\* Who is inside the log, and when.
Control ==
    /\ committing <=> phase \in CommitPhases
    /\ outstanding = Cardinality(Ops)
    /\ phase # "none" => \A p \in Procs : pc[p] # "op"
    /\ Recovering => \A p \in Procs : pc[p] = "idle"
    /\ \A p \in Procs : pc[p] = "commit" => committing
    /\ \A p, q \in Procs : pc[p] = "commit" /\ pc[q] = "commit" => p = q
    /\ committing => \E p \in Procs : pc[p] = "commit"
    /\ phase = "none" /\ outstanding = 0 => lh = <<>>
    /\ \A p \in Procs : wrote[p] \subseteq Logged(lh)
    /\ \A p \in Procs : wrote[p] # {} => pc[p] = "op"
    /\ \A p \in Procs : Cardinality(wrote[p]) <= OpBlocks

\* The blocks that running calls have reserved and not used yet, as tokens.
Reserved == {x \in Procs \X (1..MAXOPBLOCKS) :
                 pc[x[1]] = "op" /\ x[2] > Cardinality(wrote[x[1]])}
Room == Len(lh) + Cardinality(Reserved) <= LOGSIZE

Inv == TypeOK /\ (panic = "none" => Shape /\ Control /\ Room)

----------------------------------------------------------------------------
\* Facts about headers

\* The entries of a header are blocks, and Logged collects them.
LEMMA HeaderFacts ==
    ASSUME NEW h \in Seq(Blocks)
    PROVE  /\ Len(h) \in Nat
           /\ \A i \in 1..Len(h) : h[i] \in Blocks /\ h[i] \in Logged(h)
           /\ Logged(h) \subseteq Blocks
           /\ \A b \in Logged(h) : \E i \in 1..Len(h) : h[i] = b
           /\ Len(h) = 0 <=> h = <<>>
           /\ h = <<>> => Logged(h) = {}
  BY LenProperties, ElementOfSeq, EmptySeq, SMT DEF Logged

\* log_write keeps the header free of duplicates and adds at most its block.
LEMMA AbsorbFacts ==
    ASSUME NEW h \in Seq(Blocks), NEW b \in Blocks, Distinct(h)
    PROVE  /\ Absorb(h, b) \in Seq(Blocks)
           /\ Distinct(Absorb(h, b))
           /\ Logged(Absorb(h, b)) = Logged(h) \cup {b}
           /\ Len(Absorb(h, b)) = IF b \in Logged(h) THEN Len(h) ELSE Len(h) + 1
<1>1. CASE b \in Logged(h)
  BY <1>1 DEF Absorb
<1>2. CASE b \notin Logged(h)
  <2> DEFINE g == Append(h, b)
  <2>1. /\ g \in Seq(Blocks) /\ Len(g) = Len(h) + 1
        /\ \A i \in 1..Len(h) : g[i] = h[i]
        /\ g[Len(h) + 1] = b
        /\ Len(h) \in Nat
    BY AppendProperties, LenProperties, SMT
  <2> HIDE DEF g
  <2>2. \A i \in 1..Len(h) : h[i] # b
    BY <1>2 DEF Logged
  <2>3. Distinct(g)
    BY <2>1, <2>2, SMT DEF Distinct
  <2>4. Logged(g) = Logged(h) \cup {b}
    <3>1. \A x \in Logged(g) : x \in Logged(h) \cup {b}
      BY <2>1, SMT DEF Logged
    <3>2. \A x \in Logged(h) : x \in Logged(g)
      BY <2>1, SMT DEF Logged
    <3>3. b \in Logged(g)
      BY <2>1, SMT DEF Logged
    <3> QED BY <3>1, <3>2, <3>3
  <2>5. Absorb(h, b) = g
    BY <1>2 DEF Absorb, g
  <2> QED BY <1>2, <2>1, <2>3, <2>4, <2>5
<1> QED BY <1>1, <1>2

----------------------------------------------------------------------------
\* Initial states

\* Boot of a fresh disk satisfies the invariant.
LEMMA InitInv == Init => Inv
<1> SUFFICES ASSUME Init PROVE Inv
  OBVIOUS
<1> USE LogAssumption DEF Init
<1>1. TypeOK
  <2>1. lh \in Seq(Blocks) /\ dhead \in Seq(Blocks)
    BY EmptySeq
  <2>2. wrote \in [Procs -> SUBSET Blocks]
    OBVIOUS
  <2>3. /\ disk \in [Blocks -> Vals] /\ cache \in [Blocks -> Vals]
        /\ dlog \in [Slots -> Vals] /\ pins \in [Blocks -> Nat]
    BY DEF Slots
  <2>4. pc \in [Procs -> {"idle", "begin", "sleep", "op", "commit"}]
    OBVIOUS
  <2>5. outstanding \in Nat /\ tail \in 1..(LOGSIZE + 1)
    BY SMT
  <2>6. committing \in BOOLEAN /\ phase \in Phases /\ panic = "none"
    BY DEF Phases
  <2> QED BY <2>1, <2>2, <2>3, <2>4, <2>5, <2>6 DEF TypeOK
<1>2. Shape
  BY EmptySeq, SMT DEF Shape, Distinct, CleanOutside, Unpinned
<1>3. Control
  <2>1. Ops = {} /\ Cardinality({}) = 0
    BY FS_EmptySet DEF Ops
  <2> QED BY <2>1, SMT DEF Control, Recovering, CommitPhases
<1>4. Room
  <2>1. Reserved = {}
    BY DEF Reserved
  <2> QED BY <2>1, FS_EmptySet, SMT DEF Room
<1> QED BY <1>1, <1>2, <1>3, <1>4 DEF Inv

----------------------------------------------------------------------------
\* Types

\* Every step keeps the types; the bound of tail rests on Shape.
LEMMA TypeStep == Inv /\ [Next]_vars => TypeOK'
<1> SUFFICES ASSUME Inv, [Next]_vars PROVE TypeOK'
  OBVIOUS
<1> USE LogAssumption DEF TypeOK, dvars, mvars, cvars
<1>0. TypeOK /\ Len(lh) \in Nat /\ \A i \in 1..Len(lh) : lh[i] \in Blocks
  BY HeaderFacts DEF Inv
<1>1. ASSUME NEW p \in Procs, SysCall(p) PROVE TypeOK'
  <2>1. CASE Call(p)
    BY <1>0, <2>1 DEF Call
  <2>2. CASE BeginOpWait(p)
    BY <1>0, <2>2 DEF BeginOpWait
  <2>3. CASE BeginOp(p)
    BY <1>0, <2>3, SMT DEF BeginOp
  <2>4. CASE EndOp(p)
    <3>1. outstanding' \in Nat
      <4>1. panic = "none" /\ Control
        BY <2>4 DEF Inv, EndOp
      <4>2. p \in Ops /\ Ops \subseteq Procs
        BY <2>4 DEF EndOp, Ops
      <4>3. Cardinality(Ops) # 0
        BY <4>2, FS_EmptySet, FS_Subset
      <4> QED BY <1>0, <2>4, <4>1, <4>3, SMT DEF Control, EndOp
    <3> QED BY <1>0, <2>4, <3>1 DEF EndOp, Awake
  <2>5. CASE EndOpLast(p)
    BY <1>0, <2>5, SMT DEF EndOpLast, Phases
  <2>6. CASE CommitDone(p)
    BY <1>0, <2>6 DEF CommitDone, Awake, Phases
  <2> QED BY <1>1, <2>1, <2>2, <2>3, <2>4, <2>5, <2>6 DEF SysCall
<1>2. ASSUME NEW p \in Procs, NEW b \in Blocks, NEW v \in Vals, LogWrite(p, b, v)
      PROVE  TypeOK'
  <2>1. Distinct(lh)
    BY <1>2 DEF Inv, LogWrite, Shape
  <2>2. Absorb(lh, b) \in Seq(Blocks)
    BY <1>0, <2>1, AbsorbFacts
  <2>3. lh' \in Seq(Blocks)
    <3>1. lh' = Absorb(lh, b) \/ lh' = lh
      BY <1>2 DEF LogWrite
    <3> QED BY <1>0, <2>2, <3>1
  <2>6. pins' \in [Blocks -> Nat]
    <3>1. \/ pins' = [pins EXCEPT ![b] = IF b \in Logged(lh) THEN @ ELSE @ + 1]
          \/ pins' = pins
      BY <1>2 DEF LogWrite
    <3>2. pins \in [Blocks -> Nat]
      BY <1>0
    <3> QED BY <3>1, <3>2, SMT
  <2>4. cache' \in [Blocks -> Vals] /\ panic' \in {"none", "too_big", "outside_trans"}
    BY <1>0, <1>2 DEF LogWrite
  <2>5. wrote' \in [Procs -> SUBSET Blocks]
    BY <1>0, <1>2 DEF LogWrite
  <2> QED BY <1>0, <1>2, <2>3, <2>4, <2>5, <2>6 DEF LogWrite
<1>3. ASSUME CommitStep PROVE TypeOK'
  <2>0. Shape
    BY <1>3 DEF Inv, CommitStep
  <2>1. CASE WriteLog
    <3>1. tail <= Len(lh) /\ Len(lh) <= LOGSIZE
      BY <2>0, <2>1 DEF Shape, WriteLog
    <3> QED BY <1>0, <2>1, <3>1, SMT DEF WriteLog, Phases, Slots
  <2>2. CASE WriteHead
    BY <1>0, <2>2, SMT DEF WriteHead, Phases
  <2>3. CASE Install
    <3>1. tail <= Len(lh) /\ Len(lh) <= LOGSIZE
      BY <2>0, <2>3 DEF Shape, Install
    <3>2. pins[lh[tail]] = 1
      BY <1>0, <2>0, <2>3, SMT DEF Shape, Install
    <3>3. lh[tail] \in Blocks /\ dlog[tail] \in Vals
      BY <1>0, <3>1, SMT DEF Slots
    <3>4. pins' \in [Blocks -> Nat]
      BY <1>0, <2>3, <3>2, <3>3, SMT DEF Install
    <3>5. lh' \in Seq(Blocks)
      BY <1>0, <2>3, EmptySeq DEF Install
    <3>6. /\ disk' \in [Blocks -> Vals] /\ cache' \in [Blocks -> Vals]
          /\ phase' \in Phases /\ tail' \in 1..(LOGSIZE + 1)
      BY <1>0, <2>3, <3>1, <3>3, SMT DEF Install, CopyHome, Phases
    <3> QED BY <1>0, <2>3, <3>4, <3>5, <3>6 DEF Install, CopyHome
  <2>4. CASE EraseHead
    BY <1>0, <2>4 DEF EraseHead, Phases
  <2> QED BY <1>3, <2>1, <2>2, <2>3, <2>4 DEF CommitStep
<1>4. ASSUME RecoverStep PROVE TypeOK'
  <2>0. Shape
    BY <1>4 DEF Inv, RecoverStep
  <2>1. CASE ReadHead
    BY <1>0, <2>1, SMT DEF ReadHead, Phases
  <2>2. CASE Recover
    <3>1. tail <= Len(lh) /\ Len(lh) <= LOGSIZE
      BY <2>0, <2>2 DEF Shape, Recover
    <3>2. lh[tail] \in Blocks /\ dlog[tail] \in Vals
      BY <1>0, <3>1, SMT DEF Slots
    <3>3. lh' \in Seq(Blocks)
      BY <1>0, <2>2, EmptySeq DEF Recover
    <3>4. /\ disk' \in [Blocks -> Vals] /\ cache' \in [Blocks -> Vals]
          /\ phase' \in Phases /\ tail' \in 1..(LOGSIZE + 1)
      BY <1>0, <2>2, <3>1, <3>2, SMT DEF Recover, CopyHome, Phases
    <3> QED BY <1>0, <2>2, <3>3, <3>4 DEF Recover, CopyHome
  <2>3. CASE ClearHead
    BY <1>0, <2>3 DEF ClearHead, Phases
  <2> QED BY <1>4, <2>1, <2>2, <2>3 DEF RecoverStep
<1>5. ASSUME NEW b \in Blocks, Recycle(b) PROVE TypeOK'
  BY <1>0, <1>5 DEF Recycle
<1>6. CASE Crash
  <2>1. lh' \in Seq(Blocks)
    BY <1>6, EmptySeq DEF Crash
  <2>2. wrote' \in [Procs -> SUBSET Blocks]
    BY <1>6 DEF Crash
  <2>3. /\ disk' \in [Blocks -> Vals] /\ cache' \in [Blocks -> Vals]
        /\ dlog' \in [Slots -> Vals] /\ pins' \in [Blocks -> Nat]
        /\ dhead' \in Seq(Blocks)
    BY <1>0, <1>6 DEF Crash
  <2>4. pc' \in [Procs -> {"idle", "begin", "sleep", "op", "commit"}]
    BY <1>6 DEF Crash
  <2>5. outstanding' \in Nat /\ tail' \in 1..(LOGSIZE + 1)
    BY <1>6, SMT DEF Crash
  <2>6. committing' \in BOOLEAN /\ phase' \in Phases /\ panic' = "none"
    BY <1>6 DEF Crash, Phases
  <2> QED BY <2>1, <2>2, <2>3, <2>4, <2>5, <2>6
<1>7. CASE UNCHANGED vars
  BY <1>0, <1>7 DEF vars
<1> QED BY <1>1, <1>2, <1>3, <1>4, <1>5, <1>6, <1>7 DEF Next

----------------------------------------------------------------------------
\* Shape

\* Shape reads the disk, the log in memory and the phase only.
LEMMA ShapeFrame == Shape /\ UNCHANGED <<dvars, mvars, cvars>> => Shape'
  BY SMT DEF Shape, Distinct, CleanOutside, Copied, Installed, Unpinned, Logged, dvars, mvars,
     cvars

\* log_write keeps Shape: the block is in the header and pinned once.
LEMMA ShapeLogWrite ==
    ASSUME Inv, NEW p \in Procs, NEW b \in Blocks, NEW v \in Vals,
           LogWrite(p, b, v), panic' = "none"
    PROVE  Shape'
<1>1. TypeOK /\ Shape /\ phase = "none"
  BY DEF Inv, LogWrite, Control
<1> DEFINE g == Absorb(lh, b)
<1>2. /\ lh' = g /\ phase' = "none" /\ Len(lh) < LOGSIZE
      /\ cache' = [cache EXCEPT ![b] = v] /\ disk' = disk /\ dhead' = dhead
      /\ pins' = [pins EXCEPT ![b] = IF b \in Logged(lh) THEN @ ELSE @ + 1]
  <2>1. ~(Len(lh) >= LOGSIZE)
    BY DEF LogWrite
  <2> QED BY <1>1, <2>1, LogAssumption, HeaderFacts, SMT DEF LogWrite, dvars, cvars, TypeOK
<1>3. /\ g \in Seq(Blocks) /\ Distinct(g) /\ Logged(g) = Logged(lh) \cup {b}
      /\ Len(g) <= LOGSIZE
  <2>1. lh \in Seq(Blocks) /\ Distinct(lh) /\ Len(lh) \in Nat
    BY <1>1, HeaderFacts DEF TypeOK, Shape
  <2>2. /\ g \in Seq(Blocks) /\ Distinct(g) /\ Logged(g) = Logged(lh) \cup {b}
        /\ Len(g) = IF b \in Logged(lh) THEN Len(lh) ELSE Len(lh) + 1
    BY <2>1, AbsorbFacts
  <2> QED BY <1>2, <2>1, <2>2, LogAssumption, SMT
<1> HIDE DEF g
<1>4. \A c \in Blocks : c \notin Logged(g) => cache'[c] = disk'[c]
  BY <1>1, <1>2, <1>3 DEF CleanOutside, Shape, TypeOK
<1>5. \A c \in Blocks : pins'[c] = IF c \in Logged(g) THEN 1 ELSE 0
  BY <1>1, <1>2, <1>3, SMT DEF Shape, TypeOK
<1>6. dhead = <<>> /\ Len(dhead) <= LOGSIZE /\ Distinct(dhead)
  BY <1>1 DEF Shape
<1>7. CleanOutside(lh)' /\ Distinct(lh') /\ Distinct(dhead')
  <2>1. Logged(lh') = Logged(g)
    BY <1>2
  <2> QED BY <1>2, <1>3, <1>4, <1>6, <2>1 DEF CleanOutside
<1> QED BY <1>2, <1>3, <1>5, <1>6, <1>7 DEF Shape

\* end_op starts commit() with the header of the group.
LEMMA ShapeEndOpLast ==
    ASSUME Inv, NEW p \in Procs, EndOpLast(p)
    PROVE  Shape'
<1>1. TypeOK /\ Shape /\ phase = "none"
  BY DEF Inv, EndOpLast, Control
<1>2. /\ UNCHANGED <<disk, dlog, dhead, lh, cache, pins>> /\ tail' = 1
      /\ phase' = IF Len(lh) > 0 THEN "write_log" ELSE "done"
  BY DEF EndOpLast, dvars, mvars
<1>3. /\ Len(lh) \in Nat /\ lh \in Seq(Blocks)
      /\ Len(lh) = 0 => lh = <<>> /\ Logged(lh) = {}
  BY <1>1, HeaderFacts DEF TypeOK
<1>4. /\ Len(lh) <= LOGSIZE /\ Distinct(lh) /\ Len(dhead) <= LOGSIZE /\ Distinct(dhead)
      /\ dhead = <<>> /\ CleanOutside(lh)
      /\ \A b \in Blocks : pins[b] = IF b \in Logged(lh) THEN 1 ELSE 0
  BY <1>1 DEF Shape
<1>5. /\ Distinct(lh') /\ Distinct(dhead') /\ CleanOutside(lh)'
      /\ (Logged(lh) = {} => Unpinned' /\ cache' = disk')
  <2>1. Distinct(lh') /\ Distinct(dhead') /\ CleanOutside(lh)'
    BY <1>2, <1>4, SMT DEF CleanOutside, Distinct, Logged
  <2>2. ASSUME Logged(lh) = {} PROVE Unpinned' /\ cache' = disk'
    BY <1>1, <1>2, <1>4, <2>2, SMT DEF CleanOutside, Unpinned, TypeOK
  <2> QED BY <2>1, <2>2
<1>6. CASE Len(lh) > 0
  <2>1. Copied(tail - 1)'
    BY <1>2, SMT DEF Copied
  <2> QED BY <1>2, <1>3, <1>4, <1>5, <1>6, <2>1, SMT DEF Shape, Logged
<1>7. CASE ~(Len(lh) > 0)
  BY <1>2, <1>3, <1>4, <1>5, <1>7, SMT DEF Shape
<1> QED BY <1>6, <1>7

\* One iteration of write_log copies one more buffer into the log.
LEMMA ShapeWriteLog ==
    ASSUME TypeOK, Shape, WriteLog
    PROVE  Shape'
<1>1. /\ phase = "write_log" /\ tail <= Len(lh) /\ Len(lh) <= LOGSIZE
      /\ Copied(tail - 1) /\ CleanOutside(lh) /\ Distinct(lh) /\ Distinct(dhead)
      /\ dhead = <<>> /\ Len(dhead) <= LOGSIZE
      /\ \A b \in Blocks : pins[b] = IF b \in Logged(lh) THEN 1 ELSE 0
  BY DEF Shape, WriteLog
<1>2. /\ Len(lh) \in Nat /\ tail \in Nat \ {0}
      /\ dlog \in [1..LOGSIZE -> Vals] /\ LOGSIZE \in Nat
  BY HeaderFacts, LogAssumption, SMT DEF TypeOK, Slots
<1>3. /\ UNCHANGED <<disk, dhead, lh, cache, pins>>
      /\ dlog' = [dlog EXCEPT ![tail] = cache[lh[tail]]]
      /\ tail' = tail + 1
      /\ phase' = IF tail = Len(lh) THEN "write_head" ELSE "write_log"
  BY <1>1 DEF WriteLog, mvars
<1>4. \A i \in 1..tail : dlog'[i] = cache[lh[i]]
  BY <1>1, <1>2, <1>3, SMT DEF Copied
<1>5. Copied(tail - 1)' /\ (tail = Len(lh) => Copied(Len(lh))')
  <2>1. tail' - 1 = tail
    BY <1>2, <1>3, SMT
  <2>2. \A i \in 1..tail : dlog'[i] = cache'[lh'[i]]
    BY <1>3, <1>4
  <2>3. Copied(tail - 1)'
    BY <2>1, <2>2 DEF Copied
  <2>4. tail = Len(lh) => Copied(Len(lh))'
    BY <1>3, <2>2 DEF Copied
  <2> QED
    BY <2>3, <2>4
<1>6. /\ CleanOutside(lh)' /\ Distinct(lh') /\ Distinct(dhead')
      /\ \A b \in Blocks : pins'[b] = IF b \in Logged(lh') THEN 1 ELSE 0
  BY <1>1, <1>3 DEF CleanOutside
<1>7. phase' = "write_log" => tail' <= Len(lh')
  BY <1>1, <1>2, <1>3, SMT
<1> QED BY <1>1, <1>2, <1>3, <1>5, <1>6, <1>7, SMT DEF Shape

\* The header reaches the disk after all of its blocks.
LEMMA ShapeWriteHead ==
    ASSUME TypeOK, Shape, WriteHead
    PROVE  Shape'
<1>1. /\ phase = "write_head" /\ 0 < Len(lh) /\ Len(lh) <= LOGSIZE
      /\ Copied(Len(lh)) /\ CleanOutside(lh) /\ Distinct(lh)
      /\ \A b \in Blocks : pins[b] = IF b \in Logged(lh) THEN 1 ELSE 0
  BY DEF Shape, WriteHead
<1>2. /\ Len(lh) \in Nat
      /\ \A i \in 1..Len(lh) : lh[i] \in Blocks /\ lh[i] \in Logged(lh)
  BY HeaderFacts DEF TypeOK
<1>3. /\ UNCHANGED <<disk, dlog, lh, cache, pins>>
      /\ dhead' = lh /\ tail' = 1 /\ phase' = "install"
  BY DEF WriteHead, mvars
<1>4. CleanOutside(lh)' /\ Copied(Len(lh))' /\ Installed(lh, tail - 1)'
  BY <1>1, <1>3, SMT DEF CleanOutside, Copied, Installed
<1>5. /\ \A i \in 1..Len(lh) : pins'[lh[i]] = 1
      /\ \A b \in Blocks : b \notin Logged(lh) => pins'[b] = 0
  BY <1>1, <1>2, <1>3
<1>6. /\ \A i \in 1..Len(lh') : pins'[lh'[i]] = IF i < tail' THEN 0 ELSE 1
      /\ \A b \in Blocks : b \notin Logged(lh') => pins'[b] = 0
      /\ Distinct(lh') /\ Distinct(dhead')
  BY <1>1, <1>2, <1>3, <1>5, SMT
<1> QED BY <1>1, <1>2, <1>3, <1>4, <1>6, SMT DEF Shape

\* One iteration of install_trans in commit(): write home and unpin.
LEMMA ShapeInstall ==
    ASSUME TypeOK, Shape, Install
    PROVE  Shape'
<1>1. /\ phase = "install" /\ dhead = lh /\ tail <= Len(lh) /\ Len(lh) <= LOGSIZE
      /\ Distinct(lh) /\ CleanOutside(lh) /\ Copied(Len(lh)) /\ Installed(lh, tail - 1)
      /\ \A i \in 1..Len(lh) : pins[lh[i]] = IF i < tail THEN 0 ELSE 1
      /\ \A b \in Blocks : b \notin Logged(lh) => pins[b] = 0
  BY DEF Shape, Install
<1>2. /\ Len(lh) \in Nat /\ tail \in Nat \ {0} /\ tail \in 1..Len(lh)
      /\ \A i \in 1..Len(lh) : lh[i] \in Blocks /\ lh[i] \in Logged(lh)
      /\ \A b \in Logged(lh) : \E i \in 1..Len(lh) : lh[i] = b
      /\ disk \in [Blocks -> Vals] /\ cache \in [Blocks -> Vals]
      /\ pins \in [Blocks -> Nat]
  BY <1>1, HeaderFacts, SMT DEF TypeOK
<1>3. /\ UNCHANGED <<dlog, dhead>>
      /\ disk' = [disk EXCEPT ![lh[tail]] = dlog[tail]]
      /\ cache' = [cache EXCEPT ![lh[tail]] = dlog[tail]]
      /\ pins' = [pins EXCEPT ![lh[tail]] = @ - 1]
      /\ tail' = tail + 1
  BY DEF Install, CopyHome
<1>4. \A i \in 1..Len(lh) : lh[i] = lh[tail] => i = tail
  BY <1>1, <1>2 DEF Distinct
<1>5. \A i \in 1..tail : disk'[lh[i]] = dlog[i]
  BY <1>1, <1>2, <1>3, <1>4, SMT DEF Installed
<1>6. cache' = cache
  <2>1. dlog[tail] = cache[lh[tail]]
    BY <1>1, <1>2 DEF Copied
  <2> QED BY <1>2, <1>3, <2>1
<1>7. \A i \in 1..Len(lh) : pins'[lh[i]] = IF i <= tail THEN 0 ELSE 1
  BY <1>1, <1>2, <1>3, <1>4, SMT
<1>8. \A b \in Blocks : b \notin Logged(lh) => pins'[b] = 0 /\ cache[b] = disk'[b]
  BY <1>1, <1>2, <1>3 DEF CleanOutside
<1>9. CASE tail # Len(lh)
  <2>1. lh' = lh /\ phase' = "install"
    BY <1>1, <1>9 DEF Install
  <2>2. /\ CleanOutside(lh)' /\ Copied(Len(lh))'
        /\ Distinct(lh') /\ Distinct(dhead') /\ dhead' = lh'
    BY <1>1, <1>3, <1>6, <1>8, <2>1, SMT DEF CleanOutside, Copied
  <2>3. Installed(lh, tail - 1)' /\ tail' <= Len(lh')
    BY <1>2, <1>3, <1>5, <1>9, <2>1, SMT DEF Installed
  <2>4. /\ \A i \in 1..Len(lh') : pins'[lh'[i]] = IF i < tail' THEN 0 ELSE 1
        /\ \A b \in Blocks : b \notin Logged(lh') => pins'[b] = 0
    BY <1>2, <1>3, <1>7, <1>8, <2>1, SMT
  <2> QED BY <1>1, <2>1, <2>2, <2>3, <2>4 DEF Shape
<1>10. CASE tail = Len(lh)
  <2>1. lh' = <<>> /\ phase' = "erase"
    BY <1>10 DEF Install
  <2>2. \A b \in Blocks : pins'[b] = 0 /\ cache'[b] = disk'[b]
    <3> SUFFICES ASSUME NEW b \in Blocks PROVE pins'[b] = 0 /\ cache'[b] = disk'[b]
      OBVIOUS
    <3>1. CASE b \in Logged(lh)
      <4>1. PICK i \in 1..Len(lh) : lh[i] = b
        BY <1>2, <3>1
      <4>2. dlog[i] = cache[lh[i]]
        BY <1>1 DEF Copied
      <4> QED BY <1>2, <1>5, <1>6, <1>7, <1>10, <4>1, <4>2, SMT
    <3> QED BY <1>6, <1>8, <3>1
  <2>3. Unpinned' /\ cache' = disk'
    <3>1. dlog[tail] \in Vals
      BY <1>1, <1>2, LogAssumption, SMT DEF TypeOK, Slots
    <3>2. disk' \in [Blocks -> Vals] /\ cache' \in [Blocks -> Vals]
      BY <1>2, <1>3, <3>1
    <3> QED BY <2>2, <3>2, SMT DEF Unpinned
  <2>4. Installed(dhead, Len(dhead))' /\ Distinct(dhead') /\ Len(dhead') <= LOGSIZE
    BY <1>1, <1>3, <1>5, <1>10 DEF Installed
  <2>5. Len(lh') <= LOGSIZE /\ Distinct(lh')
    BY <2>1, LogAssumption, SMT DEF Distinct
  <2> QED BY <2>1, <2>3, <2>4, <2>5 DEF Shape
<1> QED BY <1>9, <1>10

\* The transaction is erased only when all of it is home.
LEMMA ShapeEraseHead ==
    ASSUME TypeOK, Shape, EraseHead
    PROVE  Shape'
<1>1. /\ phase = "erase" /\ lh = <<>> /\ Unpinned /\ cache = disk
      /\ Len(lh) <= LOGSIZE /\ Distinct(lh)
  BY DEF Shape, EraseHead
<1>2. UNCHANGED <<disk, lh, cache, pins>> /\ dhead' = <<>> /\ phase' = "done"
  BY <1>1 DEF EraseHead, mvars
<1>3. Unpinned' /\ Distinct(lh') /\ Distinct(dhead')
  BY <1>1, <1>2 DEF Unpinned
<1> QED BY <1>1, <1>2, <1>3 DEF Shape

\* end_op leaves an empty log behind its commit.
LEMMA ShapeCommitDone ==
    ASSUME TypeOK, Shape, NEW p \in Procs, CommitDone(p)
    PROVE  Shape'
<1>1. /\ phase = "done" /\ lh = <<>> /\ dhead = <<>> /\ Unpinned /\ cache = disk
      /\ Len(lh) <= LOGSIZE /\ Distinct(lh)
  BY DEF Shape, CommitDone
<1>2. UNCHANGED <<disk, dhead, lh, cache, pins>> /\ phase' = "none"
  BY DEF CommitDone, dvars, mvars
<1>3. Logged(lh') = {} /\ Distinct(lh') /\ Distinct(dhead')
  BY <1>1, <1>2, HeaderFacts DEF TypeOK
<1>4. CleanOutside(lh)' /\ \A b \in Blocks : pins'[b] = 0
  BY <1>1, <1>2 DEF CleanOutside, Unpinned
<1> QED BY <1>1, <1>2, <1>3, <1>4 DEF Shape

\* recover_from_log starts from the header on disk.
LEMMA ShapeReadHead ==
    ASSUME TypeOK, Shape, ReadHead
    PROVE  Shape'
<1>1. /\ phase = "read_head" /\ lh = <<>> /\ Unpinned /\ cache = disk
      /\ Len(dhead) <= LOGSIZE /\ Distinct(dhead)
  BY DEF Shape, ReadHead
<1>2. /\ UNCHANGED <<disk, dlog, dhead, cache, pins>> /\ lh' = dhead /\ tail' = 1
      /\ phase' = IF Len(dhead) = 0 THEN "clear" ELSE "recover"
  BY DEF ReadHead, dvars
<1>3. Len(dhead) \in Nat /\ (Len(dhead) = 0 => dhead = <<>>)
  BY HeaderFacts DEF TypeOK
<1>4. Unpinned' /\ Distinct(lh') /\ Distinct(dhead') /\ Installed(lh, tail - 1)'
  BY <1>1, <1>2, SMT DEF Unpinned, Installed
<1>5. Len(dhead) = 0 => Installed(dhead, Len(dhead))'
  BY <1>2, SMT DEF Installed
<1> QED BY <1>1, <1>2, <1>3, <1>4, <1>5, SMT DEF Shape

\* One iteration of install_trans at boot.
LEMMA ShapeRecover ==
    ASSUME TypeOK, Shape, Recover
    PROVE  Shape'
<1>1. /\ phase = "recover" /\ lh = dhead /\ tail <= Len(lh) /\ Len(lh) <= LOGSIZE
      /\ Distinct(lh) /\ Installed(lh, tail - 1) /\ Unpinned /\ cache = disk
  BY DEF Shape, Recover
<1>2. /\ Len(lh) \in Nat /\ tail \in Nat \ {0} /\ tail \in 1..Len(lh)
      /\ \A i \in 1..Len(lh) : lh[i] \in Blocks
      /\ disk \in [Blocks -> Vals]
  BY <1>1, HeaderFacts, SMT DEF TypeOK
<1>3. /\ UNCHANGED <<dlog, dhead, pins>>
      /\ disk' = [disk EXCEPT ![lh[tail]] = dlog[tail]]
      /\ cache' = disk'
      /\ tail' = tail + 1
  BY <1>1 DEF Recover, CopyHome
<1>4. \A i \in 1..tail : disk'[lh[i]] = dlog[i]
  <2>1. \A i \in 1..Len(lh) : lh[i] = lh[tail] => i = tail
    BY <1>1, <1>2 DEF Distinct
  <2> QED BY <1>1, <1>2, <1>3, <2>1, SMT DEF Installed
<1>5. Unpinned' /\ Distinct(dhead') /\ Len(dhead') <= LOGSIZE
  BY <1>1, <1>3 DEF Unpinned
<1>6. CASE tail # Len(lh)
  <2>1. lh' = lh /\ phase' = "recover"
    BY <1>1, <1>6 DEF Recover
  <2>2. Installed(lh, tail - 1)' /\ tail' <= Len(lh') /\ Distinct(lh') /\ lh' = dhead'
    BY <1>1, <1>2, <1>3, <1>4, <1>6, <2>1, SMT DEF Installed
  <2> QED BY <1>1, <1>3, <1>5, <2>1, <2>2 DEF Shape
<1>7. CASE tail = Len(lh)
  <2>1. lh' = <<>> /\ phase' = "clear"
    BY <1>7 DEF Recover
  <2>2. Installed(dhead, Len(dhead))'
    BY <1>1, <1>3, <1>4, <1>7 DEF Installed
  <2>3. Len(lh') <= LOGSIZE /\ Distinct(lh')
    BY <2>1, LogAssumption, SMT DEF Distinct
  <2> QED BY <1>3, <1>5, <2>1, <2>2, <2>3 DEF Shape
<1> QED BY <1>6, <1>7

\* The end of recovery, and what boot finds after a power failure.
LEMMA ShapeClearHead ==
    ASSUME TypeOK, Shape, ClearHead
    PROVE  Shape'
<1>1. /\ phase = "clear" /\ lh = <<>> /\ Unpinned /\ cache = disk
      /\ Len(lh) <= LOGSIZE /\ Distinct(lh)
  BY DEF Shape, ClearHead
<1>2. UNCHANGED <<disk, lh, cache, pins>> /\ dhead' = <<>> /\ phase' = "none"
  BY <1>1 DEF ClearHead, mvars
<1>3. Logged(lh') = {} /\ Distinct(lh') /\ Distinct(dhead')
  BY <1>1, <1>2, HeaderFacts DEF TypeOK
<1>4. CleanOutside(lh)' /\ \A b \in Blocks : pins'[b] = 0
  BY <1>1, <1>2 DEF CleanOutside, Unpinned
<1> QED BY <1>1, <1>2, <1>3, <1>4 DEF Shape

\* A crash keeps the shape: nothing but the disk survives it.
LEMMA ShapeCrash ==
    ASSUME TypeOK, Shape, Crash
    PROVE  Shape'
<1>1. Len(dhead) <= LOGSIZE /\ Distinct(dhead)
  BY DEF Shape
<1>2. /\ UNCHANGED <<disk, dhead>> /\ cache' = disk' /\ phase' = "read_head"
      /\ lh' = <<>>
  BY DEF Crash, dvars
<1>3. Unpinned'
  BY DEF Crash, Unpinned
<1>4. Len(lh') <= LOGSIZE /\ Distinct(lh') /\ Distinct(dhead')
  BY <1>1, <1>2, LogAssumption, SMT DEF Distinct
<1> QED BY <1>1, <1>2, <1>3, <1>4 DEF Shape

\* Recycling an unpinned buffer changes nothing, because it is clean.
LEMMA RecycleIsStutter ==
    ASSUME TypeOK, Shape, NEW b \in Blocks, Recycle(b)
    PROVE  UNCHANGED vars
<1>1. cache[b] = disk[b]
  <2>1. CASE phase \in {"none", "write_log", "write_head"}
    BY <2>1, SMT DEF Recycle, Shape, CleanOutside
  <2>2. CASE phase = "install"
    <3>1. CASE b \notin Logged(lh)
      BY <2>2, <3>1 DEF Shape, CleanOutside
    <3>2. CASE b \in Logged(lh)
      <4>1. PICK i \in 1..Len(lh) : lh[i] = b
        BY <3>2, HeaderFacts DEF TypeOK
      <4>2. i < tail /\ Len(lh) \in Nat /\ tail \in Nat
        BY <2>2, <4>1, HeaderFacts, SMT DEF Recycle, Shape, TypeOK
      <4>3. dlog[i] = cache[lh[i]] /\ disk[lh[i]] = dlog[i]
        BY <2>2, <4>2, SMT DEF Shape, Copied, Installed
      <4> QED BY <4>1, <4>3
    <3> QED BY <3>1, <3>2
  <2>3. CASE phase \in {"erase", "done", "read_head", "recover", "clear"}
    BY <2>3 DEF Shape
  <2> QED BY <2>1, <2>2, <2>3 DEF TypeOK, Phases
<1> QED BY <1>1 DEF Recycle, TypeOK, vars, dvars, cvars

\* Every step keeps Shape, unless it ends in a panic.
LEMMA ShapeStep == Inv /\ [Next]_vars /\ panic' = "none" => Shape'
<1> SUFFICES ASSUME Inv, [Next]_vars, panic' = "none" PROVE Shape'
  OBVIOUS
<1>0. panic = "none" => TypeOK /\ Shape
  BY DEF Inv
<1>1. ASSUME NEW p \in Procs, SysCall(p) PROVE Shape'
  <2>1. CASE Call(p) \/ BeginOpWait(p) \/ BeginOp(p) \/ EndOp(p)
    BY <1>0, <2>1, ShapeFrame DEF Call, BeginOpWait, BeginOp, EndOp
  <2>2. CASE EndOpLast(p)
    BY <2>2, ShapeEndOpLast
  <2>3. CASE CommitDone(p)
    BY <1>0, <2>3, ShapeCommitDone DEF CommitDone
  <2> QED BY <1>1, <2>1, <2>2, <2>3 DEF SysCall
<1>2. ASSUME NEW p \in Procs, NEW b \in Blocks, NEW v \in Vals, LogWrite(p, b, v)
      PROVE  Shape'
  BY <1>2, ShapeLogWrite
<1>3. CASE CommitStep
  BY <1>0, <1>3, ShapeWriteLog, ShapeWriteHead, ShapeInstall, ShapeEraseHead DEF CommitStep
<1>4. CASE RecoverStep
  BY <1>0, <1>4, ShapeReadHead, ShapeRecover, ShapeClearHead DEF RecoverStep
<1>5. CASE UNCHANGED vars
  BY <1>0, <1>5, ShapeFrame DEF vars, dvars, mvars, cvars
<1>6. ASSUME NEW b \in Blocks, Recycle(b) PROVE Shape'
  <2>1. panic = "none"
    BY <1>6 DEF Recycle
  <2>2. UNCHANGED vars
    BY <1>0, <1>6, <2>1, RecycleIsStutter
  <2> QED BY <1>5, <2>2
<1>7. CASE Crash
  BY <1>0, <1>7, ShapeCrash DEF Crash
<1> QED BY <1>1, <1>2, <1>3, <1>4, <1>5, <1>6, <1>7 DEF Next

----------------------------------------------------------------------------
\* Control

\* The calls that hold a reservation are finitely many.
LEMMA OpsFinite == IsFiniteSet(Ops) /\ Cardinality(Ops) \in Nat
                   /\ (Cardinality(Ops) = 0 <=> Ops = {})
<1>1. Ops \in SUBSET Procs
  BY DEF Ops
<1> QED BY <1>1, LogAssumption, FS_Subset, FS_CardinalityType, FS_EmptySet

\* A call has blocks in the log only while it runs; afterwards wrote is empty.
LEMMA QuietWrote ==
    ASSUME Control, phase # "none"
    PROVE  \A p \in Procs : wrote[p] = {}
  BY DEF Control

\* Control reads only the phase, the processes and the header.
LEMMA ControlFrame ==
    ASSUME Control, TypeOK, phase # "none",
           UNCHANGED <<outstanding, committing, pc, wrote>>,
           phase' # "none" \/ (Recovering /\ lh' = <<>>),
           phase' \in CommitPhases <=> phase \in CommitPhases,
           Recovering' => Recovering
    PROVE  Control'
<1>1. /\ committing' <=> phase' \in CommitPhases
      /\ \A p \in Procs : pc'[p] = "commit" => committing'
      /\ committing' => \E p \in Procs : pc'[p] = "commit"
  BY DEF Control, TypeOK
<1>2. outstanding' = Cardinality(Ops')
  BY DEF Control, Ops
<1>3. \A p \in Procs : wrote'[p] = {} /\ pc'[p] # "op"
  BY QuietWrote DEF Control
<1>4. \A p, q \in Procs : pc'[p] = "commit" /\ pc'[q] = "commit" => p = q
  BY DEF Control
<1>5. Recovering' => \A p \in Procs : pc'[p] = "idle"
  BY DEF Control
<1>6. phase' = "none" => lh' = <<>>
  OBVIOUS
<1>7. \A p \in Procs : Cardinality(wrote'[p]) <= OpBlocks
  BY DEF Control
<1> QED BY <1>1, <1>2, <1>3, <1>4, <1>5, <1>6, <1>7 DEF Control

\* begin_op: one more call, while no commit runs.
LEMMA ControlBeginOp ==
    ASSUME Control, TypeOK, NEW p \in Procs, BeginOp(p)
    PROVE  Control'
<1>1. phase = "none" /\ ~committing
  BY DEF Control, BeginOp, MustWait, TypeOK, Phases, CommitPhases, Recovering
<1>2. UNCHANGED <<lh, phase, wrote, committing>> /\ pc' = [pc EXCEPT ![p] = "op"]
  BY DEF BeginOp, mvars, cvars
<1>3. Ops' = Ops \cup {p} /\ p \notin Ops
  BY <1>2 DEF Ops, TypeOK, BeginOp
<1>4. outstanding' = Cardinality(Ops') /\ outstanding' # 0
  <2>1. outstanding = Cardinality(Ops) /\ outstanding' = outstanding + 1
    BY SMT DEF Control, BeginOp
  <2> QED BY <1>3, <2>1, OpsFinite, FS_AddElement, SMT
<1>5. \A q \in Procs : pc'[q] # "commit"
  BY <1>1, <1>2 DEF Control, TypeOK
<1>6. /\ \A q \in Procs : wrote'[q] \subseteq Logged(lh')
      /\ \A q \in Procs : Cardinality(wrote'[q]) <= OpBlocks
      /\ \A q \in Procs : wrote'[q] # {} => pc'[q] = "op"
  BY <1>2 DEF Control, TypeOK
<1> QED BY <1>1, <1>2, <1>4, <1>5, <1>6 DEF Control, Recovering, CommitPhases

\* end_op of a call that is not the last: another call still runs.
LEMMA ControlEndOp ==
    ASSUME Control, TypeOK, NEW p \in Procs, EndOp(p)
    PROVE  Control'
<1>1. phase = "none" /\ ~committing
  BY DEF Control, EndOp, CommitPhases
<1>2. /\ UNCHANGED <<lh, phase, committing>> /\ outstanding' = outstanding - 1
      /\ pc' = Awake([pc EXCEPT ![p] = "idle"])
      /\ wrote' = [wrote EXCEPT ![p] = {}]
  BY DEF EndOp, mvars, cvars
<1>3. \A q \in Procs : /\ pc'[q] = "op" <=> pc[q] = "op" /\ q # p
                       /\ pc'[q] = "commit" <=> pc[q] = "commit" /\ q # p
  BY <1>2 DEF Awake, TypeOK
<1>4. Ops' = Ops \ {p} /\ p \in Ops
  BY <1>3 DEF Ops, EndOp
<1>5. outstanding' = Cardinality(Ops') /\ outstanding' # 0
  <2>1. outstanding = Cardinality(Ops) /\ outstanding # 1
    BY DEF Control, EndOp
  <2>2. Cardinality(Ops \ {p}) = Cardinality(Ops) - 1
    BY <1>4, OpsFinite, FS_RemoveElement
  <2> QED BY <1>2, <1>4, <2>1, <2>2, OpsFinite, SMT
<1>6. \A q \in Procs : pc'[q] # "commit"
  BY <1>1, <1>3 DEF Control
<1>7. \A q \in Procs : wrote'[q] = IF q = p THEN {} ELSE wrote[q]
  BY <1>2 DEF TypeOK
<1>8. Cardinality({}) = 0 /\ OpBlocks \in Nat
  BY FS_EmptySet, LogAssumption
<1>9. /\ \A q \in Procs : wrote'[q] \subseteq Logged(lh')
      /\ \A q \in Procs : Cardinality(wrote'[q]) <= OpBlocks
      /\ \A q \in Procs : wrote'[q] # {} => pc'[q] = "op"
  <2>1. /\ \A q \in Procs : wrote[q] \subseteq Logged(lh)
        /\ \A q \in Procs : Cardinality(wrote[q]) <= OpBlocks
        /\ \A q \in Procs : wrote[q] # {} => pc[q] = "op"
    BY DEF Control
  <2>2. ASSUME NEW q \in Procs, q = p
        PROVE  /\ wrote'[q] \subseteq Logged(lh') /\ Cardinality(wrote'[q]) <= OpBlocks
               /\ wrote'[q] = {}
    <3>1. wrote'[q] = {}
      BY <1>7, <2>2
    <3> QED BY <3>1, <1>8, SMT
  <2>3. ASSUME NEW q \in Procs, q # p
        PROVE  /\ wrote'[q] \subseteq Logged(lh') /\ Cardinality(wrote'[q]) <= OpBlocks
               /\ wrote'[q] # {} => pc'[q] = "op"
    <3>1. wrote'[q] = wrote[q] /\ lh' = lh
      BY <1>2, <1>7, <2>3
    <3> QED BY <1>3, <2>1, <2>3, <3>1
  <2> QED BY <2>2, <2>3
<1> QED BY <1>1, <1>2, <1>5, <1>6, <1>9 DEF Control, Recovering, CommitPhases

\* end_op of the last call: it alone goes on to commit().
LEMMA ControlEndOpLast ==
    ASSUME Control, TypeOK, NEW p \in Procs, EndOpLast(p)
    PROVE  Control'
<1>1. phase = "none" /\ ~committing
  BY DEF Control, EndOpLast, CommitPhases
<1>2. /\ lh' = lh /\ phase' \in {"write_log", "done"} /\ committing' = TRUE
      /\ outstanding' = 0 /\ pc' = [pc EXCEPT ![p] = "commit"]
      /\ wrote' = [wrote EXCEPT ![p] = {}]
  BY DEF EndOpLast, mvars
<1>3. p \in Ops /\ Cardinality(Ops) = 1
  BY DEF Control, EndOpLast, Ops
<1>4. Ops = {p}
  BY <1>3, OpsFinite, FS_Singleton, SMT
<1>4a. \A q \in Procs : q # p => pc[q] # "op" /\ pc[q] # "commit"
  BY <1>1, <1>4 DEF Control, Ops
<1>5. \A q \in Procs : pc'[q] # "op" /\ (pc'[q] = "commit" <=> q = p)
  BY <1>2, <1>4a DEF TypeOK
<1>6. Ops' = {}
  BY <1>5 DEF Ops
<1>7. \A q \in Procs : wrote'[q] = {}
  BY <1>2, <1>4 DEF Control, Ops, TypeOK
<1>8. Cardinality({}) = 0 /\ OpBlocks \in Nat
  BY FS_EmptySet, LogAssumption
<1> QED BY <1>2, <1>5, <1>6, <1>7, <1>8, SMT DEF Control, Recovering, CommitPhases

\* log_write: the block joins the header and the blocks of its call.
LEMMA ControlLogWrite ==
    ASSUME Control, Shape, TypeOK, NEW p \in Procs, NEW b \in Blocks, NEW v \in Vals,
           LogWrite(p, b, v), panic' = "none"
    PROVE  Control'
<1>1. phase = "none" /\ ~committing
  BY DEF Control, LogWrite, CommitPhases
<1>2. /\ UNCHANGED <<outstanding, committing, pc, phase>> /\ lh' = Absorb(lh, b)
      /\ wrote' = [wrote EXCEPT ![p] = @ \cup {b}]
      /\ pc[p] = "op" /\ Cardinality(wrote[p] \cup {b}) <= OpBlocks
  BY DEF LogWrite, cvars
<1>3. Ops' = Ops /\ p \in Ops
  BY <1>2 DEF Ops
<1>4. outstanding' = Cardinality(Ops') /\ outstanding' # 0
  BY <1>2, <1>3, OpsFinite DEF Control
<1>5. Logged(lh') = Logged(lh) \cup {b}
  BY <1>2, AbsorbFacts DEF Shape, TypeOK
<1>6. \A q \in Procs : wrote'[q] = IF q = p THEN wrote[p] \cup {b} ELSE wrote[q]
  BY <1>2 DEF TypeOK
<1>7. \A q \in Procs : /\ wrote[q] \subseteq Logged(lh)
                       /\ Cardinality(wrote[q]) <= OpBlocks
                       /\ wrote[q] # {} => pc[q] = "op"
  BY DEF Control
<1>8. \A q \in Procs : /\ wrote'[q] \subseteq Logged(lh')
                       /\ Cardinality(wrote'[q]) <= OpBlocks
                       /\ wrote'[q] # {} => pc'[q] = "op"
  <2> SUFFICES ASSUME NEW q \in Procs
               PROVE  /\ wrote'[q] \subseteq Logged(lh')
                      /\ Cardinality(wrote'[q]) <= OpBlocks
                      /\ wrote'[q] # {} => pc'[q] = "op"
    OBVIOUS
  <2>1. CASE q = p
    <3>1. wrote'[q] = wrote[p] \cup {b}
      BY <1>6, <2>1
    <3> QED BY <1>2, <1>5, <1>7, <2>1, <3>1
  <2>2. CASE q # p
    <3>1. wrote'[q] = wrote[q]
      BY <1>6, <2>2
    <3> QED BY <1>2, <1>5, <1>7, <3>1
  <2> QED BY <2>1, <2>2
<1> QED BY <1>1, <1>2, <1>4, <1>8 DEF Control, Recovering, CommitPhases

\* The committer leaves; nobody else was in commit().
LEMMA ControlCommitDone ==
    ASSUME Control, Shape, TypeOK, NEW p \in Procs, CommitDone(p)
    PROVE  Control'
<1>1. phase = "done" /\ lh = <<>> /\ pc[p] = "commit"
  BY DEF Shape, CommitDone
<1>2. /\ UNCHANGED <<lh, outstanding, wrote>> /\ phase' = "none" /\ committing' = FALSE
      /\ pc' = Awake([pc EXCEPT ![p] = "idle"])
  BY DEF CommitDone, mvars
<1>3. \A q \in Procs : pc[q] # "op" /\ (pc[q] = "commit" => q = p)
  BY <1>1 DEF Control
<1>4. \A q \in Procs : pc'[q] # "op" /\ pc'[q] # "commit"
  BY <1>2, <1>3 DEF Awake, TypeOK
<1>5. Ops' = Ops
  BY <1>3, <1>4 DEF Ops
<1>6. \A q \in Procs : wrote[q] = {} /\ Cardinality(wrote[q]) <= OpBlocks
  BY <1>1, QuietWrote DEF Control
<1>7. outstanding = Cardinality(Ops)
  BY DEF Control
<1> QED BY <1>1, <1>2, <1>4, <1>5, <1>6, <1>7 DEF Control, Recovering, CommitPhases

\* After a power failure no process is in the file system.
LEMMA ControlCrash ==
    ASSUME Crash
    PROVE  Control'
<1>1. /\ phase' = "read_head" /\ outstanding' = 0 /\ committing' = FALSE
      /\ \A p \in Procs : pc'[p] = "idle" /\ wrote'[p] = {}
  BY DEF Crash
<1>2. Ops' = {}
  BY <1>1 DEF Ops
<1>3. Cardinality({}) = 0 /\ OpBlocks \in Nat
  BY FS_EmptySet, LogAssumption
<1> QED BY <1>1, <1>2, <1>3, SMT DEF Control, CommitPhases

\* Every step keeps Control, unless it ends in a panic.
LEMMA ControlStep == Inv /\ [Next]_vars /\ panic' = "none" => Control'
<1> SUFFICES ASSUME Inv, [Next]_vars, panic' = "none" PROVE Control'
  OBVIOUS
<1>0. panic = "none" => TypeOK /\ Shape /\ Control
  BY DEF Inv
<1>1. ASSUME NEW p \in Procs, SysCall(p) PROVE Control'
  <2>1. CASE Call(p) \/ BeginOpWait(p)
    <3>1. /\ UNCHANGED <<lh, outstanding, committing, wrote, phase>> /\ ~Recovering
          /\ pc[p] \in {"idle", "begin"} /\ Control /\ TypeOK
          /\ \E x \in {"begin", "sleep"} : pc' = [pc EXCEPT ![p] = x]
      <4>1. TypeOK /\ Control
        BY <1>0, <2>1 DEF Call, BeginOpWait
      <4>2. ~Recovering
        BY <2>1, <4>1 DEF Call, BeginOpWait, Control
      <4> QED BY <2>1, <4>1, <4>2 DEF Call, BeginOpWait, mvars, cvars
    <3>2. \A q \in Procs : /\ pc'[q] = "op" <=> pc[q] = "op"
                           /\ pc'[q] = "commit" <=> pc[q] = "commit"
      BY <3>1 DEF TypeOK
    <3>3. Ops' = Ops
      BY <3>2 DEF Ops
    <3> QED BY <3>1, <3>2, <3>3 DEF Control, Recovering, CommitPhases
  <2>2. CASE BeginOp(p)
    BY <1>0, <2>2, ControlBeginOp DEF BeginOp
  <2>3. CASE EndOp(p)
    BY <1>0, <2>3, ControlEndOp DEF EndOp
  <2>4. CASE EndOpLast(p)
    BY <1>0, <2>4, ControlEndOpLast DEF EndOpLast
  <2>5. CASE CommitDone(p)
    BY <1>0, <2>5, ControlCommitDone DEF CommitDone
  <2> QED BY <1>1, <2>1, <2>2, <2>3, <2>4, <2>5 DEF SysCall
<1>2. ASSUME NEW p \in Procs, NEW b \in Blocks, NEW v \in Vals, LogWrite(p, b, v)
      PROVE  Control'
  BY <1>0, <1>2, ControlLogWrite DEF LogWrite
<1>3. CASE CommitStep
  <2>1. /\ phase \in CommitPhases /\ phase' \in CommitPhases
        /\ UNCHANGED <<outstanding, committing, pc, wrote>> /\ panic = "none"
    BY <1>3 DEF CommitStep, WriteLog, WriteHead, Install, CopyHome, EraseHead, CommitPhases
  <2> QED BY <1>0, <2>1, ControlFrame DEF CommitPhases, Recovering
<1>4. CASE RecoverStep
  <2>1. /\ Recovering /\ phase' \in {"none", "recover", "clear"}
        /\ UNCHANGED <<outstanding, committing, pc, wrote>> /\ panic = "none"
    BY <1>4 DEF RecoverStep, ReadHead, Recover, CopyHome, ClearHead, Recovering
  <2>2. phase' = "none" => lh' = <<>>
    BY <1>0, <1>4 DEF RecoverStep, ReadHead, Recover, CopyHome, ClearHead, Shape, mvars
  <2> QED BY <1>0, <2>1, <2>2, ControlFrame DEF CommitPhases, Recovering
<1>5. CASE UNCHANGED vars
  BY <1>0, <1>5, SMT DEF vars, Control, Ops, Recovering, Logged
<1>6. ASSUME NEW b \in Blocks, Recycle(b) PROVE Control'
  <2>1. panic = "none"
    BY <1>6 DEF Recycle
  <2> QED BY <1>0, <1>5, <1>6, <2>1, RecycleIsStutter
<1>7. CASE Crash
  BY <1>7, ControlCrash
<1> QED BY <1>1, <1>2, <1>3, <1>4, <1>5, <1>6, <1>7 DEF Next

----------------------------------------------------------------------------
\* Room: the reservation of begin_op

\* The tokens of a state form a finite set.
LEMMA ReservedFinite == IsFiniteSet(Reserved) /\ Cardinality(Reserved) \in Nat
<1>1. IsFiniteSet(Procs \X (1..MAXOPBLOCKS))
  <2>1. IsFiniteSet(1..MAXOPBLOCKS) /\ IsFiniteSet(Procs)
    BY LogAssumption, FS_Interval, SMT
  <2> QED BY <2>1, FS_Product
<1>2. Reserved \in SUBSET (Procs \X (1..MAXOPBLOCKS))
  BY DEF Reserved
<1> QED BY <1>1, <1>2, FS_Subset, FS_CardinalityType

\* A step that adds no entry and no reservation keeps Room.
LEMMA RoomShrink ==
    ASSUME TypeOK, Room, lh' = lh, Reserved' \subseteq Reserved
    PROVE  Room'
<1>1. Cardinality(Reserved') <= Cardinality(Reserved) /\ Cardinality(Reserved') \in Nat
  BY ReservedFinite, FS_Subset, FS_CardinalityType
<1>2. Len(lh) \in Nat /\ Len(lh') = Len(lh)
  BY HeaderFacts DEF TypeOK
<1> QED BY <1>1, <1>2, ReservedFinite, LogAssumption, SMT DEF Room

\* Without running calls nothing is reserved.
LEMMA RoomQuiet ==
    ASSUME Shape', TypeOK', \A p \in Procs : pc'[p] # "op"
    PROVE  Room'
<1>1. Reserved' = {}
  BY DEF Reserved
<1>2. Len(lh') \in Nat /\ Len(lh') <= LOGSIZE
  BY HeaderFacts DEF TypeOK, Shape
<1>3. Cardinality(Reserved') = 0
  BY <1>1, FS_EmptySet
<1> QED BY <1>2, <1>3, LogAssumption, SMT DEF Room

\* begin_op admits a call only if every running call could use all it may.
LEMMA RoomBeginOp ==
    ASSUME TypeOK, Control, NEW p \in Procs, BeginOp(p)
    PROVE  Room'
<1>1. /\ lh' = lh /\ wrote' = wrote /\ pc' = [pc EXCEPT ![p] = "op"]
      /\ Len(lh) + (outstanding + 1) * MAXOPBLOCKS <= LOGSIZE
  BY HeaderFacts, LogAssumption, SMT DEF BeginOp, MustWait, mvars, TypeOK
<1>2. Ops' = Ops \cup {p} /\ p \notin Ops
  BY <1>1 DEF Ops, TypeOK, BeginOp
<1>3. IsFiniteSet(Ops') /\ Cardinality(Ops') = outstanding + 1
  BY <1>2, OpsFinite, FS_AddElement DEF Control
<1>4. /\ IsFiniteSet(Ops' \X (1..MAXOPBLOCKS))
      /\ Cardinality(Ops' \X (1..MAXOPBLOCKS)) = (outstanding + 1) * MAXOPBLOCKS
  <2>1. IsFiniteSet(1..MAXOPBLOCKS) /\ Cardinality(1..MAXOPBLOCKS) = MAXOPBLOCKS
    BY LogAssumption, FS_Interval, SMT
  <2>2. /\ IsFiniteSet(Ops' \X (1..MAXOPBLOCKS))
        /\ Cardinality(Ops' \X (1..MAXOPBLOCKS)) = Cardinality(Ops') * Cardinality(1..MAXOPBLOCKS)
    BY <1>3, <2>1, FS_Product
  <2> QED BY <1>3, <2>1, <2>2
<1>5. Reserved' \in SUBSET (Ops' \X (1..MAXOPBLOCKS))
  BY DEF Reserved, Ops
<1>6. /\ Cardinality(Reserved') \in Nat
      /\ Cardinality(Reserved') <= (outstanding + 1) * MAXOPBLOCKS
  BY <1>4, <1>5, FS_Subset, FS_CardinalityType, SMT
<1>7. Len(lh) \in Nat /\ (outstanding + 1) * MAXOPBLOCKS \in Nat
  BY HeaderFacts, LogAssumption, SMT DEF TypeOK
<1> QED BY <1>1, <1>6, <1>7, LogAssumption, SMT DEF Room

\* The blocks of a call are finitely many.
LEMMA WroteFinite ==
    ASSUME TypeOK, NEW p \in Procs
    PROVE  IsFiniteSet(wrote[p]) /\ Cardinality(wrote[p]) \in Nat
<1>1. wrote[p] \in SUBSET Blocks
  BY DEF TypeOK
<1> QED BY <1>1, LogAssumption, FS_Subset, FS_CardinalityType

\* A new entry of the header uses up a token of its call.
LEMMA RoomLogWrite ==
    ASSUME TypeOK, Shape, Control, Room,
           NEW p \in Procs, NEW b \in Blocks, NEW v \in Vals,
           LogWrite(p, b, v), panic' = "none"
    PROVE  Room'
<1>1. /\ lh' = Absorb(lh, b) /\ pc' = pc /\ pc[p] = "op"
      /\ wrote' = [wrote EXCEPT ![p] = @ \cup {b}]
      /\ Cardinality(wrote[p] \cup {b}) <= OpBlocks
  BY DEF LogWrite
<1> DEFINE n == Cardinality(wrote[p])
<1>2. /\ n \in Nat
      /\ Cardinality(wrote[p] \cup {b}) = IF b \in wrote[p] THEN n ELSE n + 1
  BY WroteFinite, FS_AddElement
<1>3. \A q \in Procs : wrote'[q] = IF q = p THEN wrote[p] \cup {b} ELSE wrote[q]
  BY <1>1 DEF TypeOK
<1>4. \A q \in Procs : /\ Cardinality(wrote[q]) \in Nat
                       /\ Cardinality(wrote'[q]) \in Nat
                       /\ Cardinality(wrote'[q]) >= Cardinality(wrote[q])
                       /\ q = p => Cardinality(wrote'[q]) =
                                   IF b \in wrote[p] THEN n ELSE n + 1
  <2> SUFFICES ASSUME NEW q \in Procs
               PROVE  /\ Cardinality(wrote[q]) \in Nat
                      /\ Cardinality(wrote'[q]) \in Nat
                      /\ Cardinality(wrote'[q]) >= Cardinality(wrote[q])
                      /\ q = p => Cardinality(wrote'[q]) =
                                  IF b \in wrote[p] THEN n ELSE n + 1
    OBVIOUS
  <2>1. CASE q = p
    <3>1. wrote'[q] = wrote[p] \cup {b}
      BY <1>3, <2>1
    <3> QED BY <1>2, <2>1, <3>1, SMT
  <2>2. CASE q # p
    <3>1. wrote'[q] = wrote[q]
      BY <1>3, <2>2
    <3> QED BY <2>2, <3>1, WroteFinite, SMT
  <2> QED BY <2>1, <2>2
<1>5. Reserved' \subseteq Reserved
  <2> SUFFICES ASSUME NEW x \in Reserved' PROVE x \in Reserved
    OBVIOUS
  <2>1. /\ x \in Procs \X (1..MAXOPBLOCKS) /\ x[1] \in Procs /\ x[2] \in Nat
        /\ pc[x[1]] = "op" /\ x[2] > Cardinality(wrote'[x[1]])
    BY <1>1, LogAssumption, SMT DEF Reserved
  <2>2. x[2] > Cardinality(wrote[x[1]])
    BY <1>4, <2>1, SMT
  <2> QED BY <2>1, <2>2 DEF Reserved
<1>6. CASE b \in Logged(lh)
  <2>1. lh' = lh
    BY <1>1, <1>6 DEF Absorb
  <2> QED BY <1>5, <2>1, RoomShrink
<1>7. CASE b \notin Logged(lh)
  <2>1. b \notin wrote[p] /\ Len(lh') = Len(lh) + 1 /\ Len(lh) \in Nat
    BY <1>1, <1>7, AbsorbFacts, HeaderFacts DEF Control, Shape, TypeOK
  <2>2. <<p, n + 1>> \in Reserved
    BY <1>1, <1>2, <2>1, LogAssumption, SMT DEF Reserved
  <2>3. <<p, n + 1>> \notin Reserved'
    BY <1>2, <1>4, <2>1, SMT DEF Reserved
  <2>4. Reserved' \in SUBSET (Reserved \ {<<p, n + 1>>})
    BY <1>5, <2>3
  <2>5. /\ IsFiniteSet(Reserved \ {<<p, n + 1>>})
        /\ Cardinality(Reserved \ {<<p, n + 1>>}) = Cardinality(Reserved) - 1
    BY <2>2, ReservedFinite, FS_RemoveElement
  <2>6. /\ Cardinality(Reserved') <= Cardinality(Reserved) - 1
        /\ Cardinality(Reserved') \in Nat
    <3> DEFINE T == Reserved \ {<<p, n + 1>>}
    <3>1. IsFiniteSet(T) /\ Cardinality(T) = Cardinality(Reserved) - 1
      BY <2>5
    <3>2. Reserved' \in SUBSET T
      BY <2>4
    <3> HIDE DEF T
    <3>3. IsFiniteSet(Reserved') /\ Cardinality(Reserved') <= Cardinality(T)
      BY <3>1, <3>2, FS_Subset
    <3>4. Cardinality(Reserved') \in Nat
      BY <3>3, FS_CardinalityType
    <3> QED BY <3>1, <3>3, <3>4
  <2> QED BY <2>1, <2>6, ReservedFinite, LogAssumption, SMT DEF Room
<1> QED BY <1>6, <1>7

\* Every step keeps Room, unless it ends in a panic.
LEMMA RoomStep == Inv /\ [Next]_vars /\ panic' = "none" => Room'
<1> SUFFICES ASSUME Inv, [Next]_vars, panic' = "none" PROVE Room'
  OBVIOUS
<1>0. panic = "none" => TypeOK /\ Shape /\ Control /\ Room
  BY DEF Inv
<1>a. TypeOK' /\ Shape' /\ Control'
  BY TypeStep, ShapeStep, ControlStep
<1>b. phase' # "none" => Room'
  BY <1>a, RoomQuiet DEF Control
<1>1. ASSUME NEW p \in Procs, SysCall(p) PROVE Room'
  <2>1. CASE Call(p) \/ BeginOpWait(p)
    <3>1. /\ lh' = lh /\ wrote' = wrote /\ TypeOK /\ Room
          /\ \E x \in {"begin", "sleep"} : pc' = [pc EXCEPT ![p] = x]
      BY <1>0, <2>1 DEF Call, BeginOpWait, mvars
    <3>2. \A q \in Procs : pc'[q] = "op" => pc[q] = "op"
      BY <3>1 DEF TypeOK
    <3>3. Reserved' \subseteq Reserved
      BY <3>1, <3>2 DEF Reserved
    <3> QED BY <3>1, <3>3, RoomShrink
  <2>2. CASE BeginOp(p)
    BY <1>0, <2>2, RoomBeginOp DEF BeginOp
  <2>3. CASE EndOp(p)
    <3>1. /\ lh' = lh /\ TypeOK /\ Room
          /\ pc' = Awake([pc EXCEPT ![p] = "idle"])
          /\ wrote' = [wrote EXCEPT ![p] = {}]
      BY <1>0, <2>3 DEF EndOp, mvars
    <3>2. \A q \in Procs : pc'[q] = "op" => pc[q] = "op" /\ wrote'[q] = wrote[q]
      BY <3>1 DEF TypeOK, Awake
    <3>3. Reserved' \subseteq Reserved
      <4> SUFFICES ASSUME NEW x \in Reserved' PROVE x \in Reserved
        OBVIOUS
      <4>1. /\ x \in Procs \X (1..MAXOPBLOCKS) /\ x[1] \in Procs
            /\ pc'[x[1]] = "op" /\ x[2] > Cardinality(wrote'[x[1]])
        BY DEF Reserved
      <4>2. pc[x[1]] = "op" /\ wrote'[x[1]] = wrote[x[1]]
        BY <3>2, <4>1
      <4> QED BY <4>1, <4>2 DEF Reserved
    <3> QED BY <3>1, <3>3, RoomShrink
  <2>4. CASE EndOpLast(p)
    BY <1>b, <2>4 DEF EndOpLast
  <2>5. CASE CommitDone(p)
    <3>1. /\ pc' = Awake([pc EXCEPT ![p] = "idle"]) /\ phase = "done"
          /\ TypeOK /\ Control
      BY <1>0, <2>5 DEF CommitDone
    <3>2. \A q \in Procs : pc'[q] # "op"
      BY <3>1 DEF Control, Awake, TypeOK
    <3> QED BY <1>a, <3>2, RoomQuiet
  <2> QED BY <1>1, <2>1, <2>2, <2>3, <2>4, <2>5 DEF SysCall
<1>2. ASSUME NEW p \in Procs, NEW b \in Blocks, NEW v \in Vals, LogWrite(p, b, v)
      PROVE  Room'
  BY <1>0, <1>2, RoomLogWrite DEF LogWrite
<1>3. CASE CommitStep
  BY <1>b, <1>3 DEF CommitStep, WriteLog, WriteHead, Install, EraseHead
<1>4. CASE RecoverStep
  <2>1. Recovering /\ Control /\ pc' = pc
    BY <1>0, <1>4 DEF RecoverStep, ReadHead, Recover, CopyHome, ClearHead, Recovering
  <2> QED BY <1>a, <2>1, RoomQuiet DEF Control
<1>5. CASE UNCHANGED vars
  <2>1. lh' = lh /\ Reserved' = Reserved /\ panic = "none"
    BY <1>5 DEF vars, Reserved
  <2> QED BY <1>0, <2>1, RoomShrink
<1>6. ASSUME NEW b \in Blocks, Recycle(b) PROVE Room'
  <2>1. panic = "none"
    BY <1>6 DEF Recycle
  <2> QED BY <1>0, <1>5, <1>6, <2>1, RecycleIsStutter
<1>7. CASE Crash
  BY <1>b, <1>7 DEF Crash
<1> QED BY <1>1, <1>2, <1>3, <1>4, <1>5, <1>6, <1>7 DEF Next

----------------------------------------------------------------------------
\* Safety

\* Inv is inductive.
THEOREM Invariance == Spec => []Inv
<1>1. Inv /\ [Next]_vars => Inv'
  BY TypeStep, ShapeStep, ControlStep, RoomStep DEF Inv
<1> QED BY <1>1, InitInv, PTL DEF Spec

\* The variables of struct log, of the disk and of the buffers keep their types.
THEOREM TypeCorrect == Spec => []TypeOK
<1>1. Inv => TypeOK
  BY DEF Inv
<1> QED BY <1>1, Invariance, PTL

\* A buffer with unsaved contents is never evicted from the buffer cache:
\* log_write pins it, and install_trans unpins it after writing it home.
THEOREM PinnedWhileDirty == Spec => []DirtyIsPinned
<1>1. Inv => DirtyIsPinned
  <2> SUFFICES ASSUME Inv, panic = "none", NEW b \in Blocks, cache[b] # disk[b]
               PROVE  pins[b] > 0
    BY DEF DirtyIsPinned
  <2>1. Shape /\ TypeOK
    BY DEF Inv
  <2>2. pins[b] # 0
    <3>1. SUFFICES ASSUME pins[b] = 0 PROVE FALSE
      OBVIOUS
    <3>2. CASE phase \in {"none", "write_log", "write_head"}
      BY <2>1, <3>1, <3>2, SMT DEF Shape, CleanOutside
    <3>3. CASE phase = "install"
      <4>1. CASE b \notin Logged(lh)
        BY <2>1, <3>3, <4>1 DEF Shape, CleanOutside
      <4>2. CASE b \in Logged(lh)
        <5>1. PICK i \in 1..Len(lh) : lh[i] = b
          BY <2>1, <4>2, HeaderFacts DEF TypeOK
        <5>2. i < tail /\ Len(lh) \in Nat /\ tail \in Nat
          BY <2>1, <3>1, <3>3, <5>1, HeaderFacts, SMT DEF Shape, TypeOK
        <5>3. dlog[i] = cache[lh[i]] /\ disk[lh[i]] = dlog[i]
          BY <2>1, <3>3, <5>2, SMT DEF Shape, Copied, Installed
        <5> QED BY <5>1, <5>3
      <4> QED BY <4>1, <4>2
    <3>4. CASE phase \in {"erase", "done", "read_head", "recover", "clear"}
      BY <2>1, <3>4 DEF Shape
    <3> QED BY <2>1, <3>2, <3>3, <3>4 DEF TypeOK, Phases
  <2> QED BY <2>1, <2>2, SMT DEF TypeOK
<1> QED BY <1>1, Invariance, PTL

\* When no call and no commit is running, all that was written is on disk, the
\* log is empty and no buffer stays pinned.
THEOREM DurableAtRest == Spec => []QuiescentDurable
<1>1. Inv => QuiescentDurable
  <2> SUFFICES ASSUME Inv, phase = "none", outstanding = 0, panic = "none"
               PROVE  /\ dhead = <<>> /\ lh = <<>> /\ disk = cache
                      /\ \A b \in Blocks : pins[b] = 0
    BY DEF QuiescentDurable
  <2>1. Shape /\ TypeOK /\ lh = <<>> /\ dhead = <<>>
    BY DEF Inv, Control, Shape
  <2>2. Logged(lh) = {}
    BY <2>1, HeaderFacts DEF TypeOK
  <2>3. \A b \in Blocks : pins[b] = 0 /\ disk[b] = cache[b]
    BY <2>1, <2>2 DEF Shape, CleanOutside
  <2> QED BY <2>1, <2>3, SMT DEF TypeOK
<1> QED BY <1>1, Invariance, PTL

----------------------------------------------------------------------------
\* No panic

\* A call leaves one reserved block unused, and one more for each block the
\* log on disk is short of LOGSIZE entries.
RoomForAbsorption == /\ OpBlocks + 1 <= MAXOPBLOCKS
                     /\ OpBlocks + 1 + (LOGSIZE - (LogBlocks - 1)) <= MAXOPBLOCKS

\* A running call still holds the blocks it may never use.
LEMMA SlackReserved ==
    ASSUME TypeOK, Control, NEW p \in Procs, pc[p] = "op"
    PROVE  MAXOPBLOCKS - OpBlocks <= Cardinality(Reserved)
<1> DEFINE K == (OpBlocks + 1)..MAXOPBLOCKS
           T == {p} \X K
<1>1. IsFiniteSet(K) /\ Cardinality(K) = MAXOPBLOCKS - OpBlocks
  <2>1. OpBlocks + 1 \in Int /\ MAXOPBLOCKS \in Int /\ OpBlocks <= MAXOPBLOCKS
    BY LogAssumption, SMT
  <2>2. /\ IsFiniteSet(K)
        /\ Cardinality(K) = IF OpBlocks + 1 > MAXOPBLOCKS THEN 0
                            ELSE MAXOPBLOCKS - (OpBlocks + 1) + 1
    BY <2>1, FS_Interval
  <2> HIDE DEF K
  <2> QED BY <2>1, <2>2, LogAssumption, SMT
<1>2. IsFiniteSet({p}) /\ Cardinality({p}) = 1
  BY FS_Singleton
<1>3. Cardinality(T) = 1 * (MAXOPBLOCKS - OpBlocks)
  <2> HIDE DEF K
  <2> QED BY <1>1, <1>2, FS_Product, SMT
<1>4. Cardinality(wrote[p]) <= OpBlocks /\ Cardinality(wrote[p]) \in Nat
  BY WroteFinite DEF Control
<1>5. T \in SUBSET Reserved
  <2> SUFFICES ASSUME NEW k \in K PROVE <<p, k>> \in Reserved
    BY SMT
  <2> QED BY <1>4, LogAssumption, SMT DEF Reserved
<1>6. Cardinality(T) <= Cardinality(Reserved)
  BY <1>5, ReservedFinite, FS_Subset
<1> QED BY <1>3, <1>6, LogAssumption, SMT

\* begin_op's reservation is enough.  If every call leaves one block of its
\* reservation unused, neither log_write nor end_op ever panics, whatever the
\* calls write and however they are interleaved with commits and crashes.
THEOREM ReservationSuffices ==
    ASSUME RoomForAbsorption
    PROVE  Spec => []NoPanic
<1>1. Init => NoPanic
  BY DEF Init, NoPanic
<1>2. Inv /\ NoPanic /\ [Next]_vars => NoPanic'
  <2> SUFFICES ASSUME Inv, NoPanic, [Next]_vars PROVE panic' = "none"
    BY DEF NoPanic
  <2>0. panic = "none" /\ TypeOK /\ Shape /\ Control /\ Room
    BY DEF Inv, NoPanic
  <2>1. ASSUME NEW p \in Procs, SysCall(p) PROVE panic' = "none"
    <3>1. pc[p] = "op" => committing = FALSE
      BY <2>0 DEF Control, CommitPhases, TypeOK
    <3> QED BY <2>0, <2>1, <3>1 DEF SysCall, Call, BeginOpWait, BeginOp, EndOp, EndOpLast,
         CommitDone
  <2>2. ASSUME NEW p \in Procs, NEW b \in Blocks, NEW v \in Vals, LogWrite(p, b, v)
        PROVE  panic' = "none"
    <3>1. pc[p] = "op"
      BY <2>2 DEF LogWrite
    <3>2. outstanding >= 1
      <4>1. p \in Ops
        BY <3>1 DEF Ops
      <4> QED BY <2>0, <4>1, OpsFinite, SMT DEF Control
    <3>3. MAXOPBLOCKS - OpBlocks <= Cardinality(Reserved)
      BY <2>0, <3>1, SlackReserved
    <3>4. Len(lh) < LOGSIZE /\ Len(lh) < LogBlocks - 1
      <4>1. Len(lh) \in Nat /\ Len(lh) + Cardinality(Reserved) <= LOGSIZE
        BY <2>0, HeaderFacts DEF Room, TypeOK
      <4> QED BY <3>3, <4>1, ReservedFinite, RoomForAbsorption, LogAssumption, SMT DEF
           RoomForAbsorption
    <3>5. ~(Len(lh) >= LOGSIZE \/ Len(lh) >= LogBlocks - 1) /\ ~(outstanding < 1)
      BY <2>0, <3>2, <3>4, HeaderFacts, LogAssumption, SMT DEF TypeOK
    <3> QED BY <2>2, <3>5 DEF LogWrite
  <2>3. CASE CommitStep
    BY <2>0, <2>3 DEF CommitStep, WriteLog, WriteHead, Install, CopyHome, EraseHead
  <2>4. CASE RecoverStep
    BY <2>0, <2>4 DEF RecoverStep, ReadHead, Recover, CopyHome, ClearHead
  <2>5. ASSUME NEW b \in Blocks, Recycle(b) PROVE panic' = "none"
    BY <2>0, <2>5 DEF Recycle
  <2>6. CASE Crash
    BY <2>0, <2>6 DEF Crash
  <2>7. CASE UNCHANGED vars
    BY <2>0, <2>7 DEF vars
  <2> QED BY <2>1, <2>2, <2>3, <2>4, <2>5, <2>6, <2>7 DEF Next
<1> QED BY <1>1, <1>2, Invariance, PTL DEF Spec

\* A process asleep in begin_op always has another one that will call
\* wakeup(&log): a running call or the committer.
THEOREM WakerExists == Spec => []SleeperHasWaker
<1>1. Init => SleeperHasWaker
  BY DEF Init, SleeperHasWaker
<1>2. Inv /\ Inv' /\ SleeperHasWaker /\ [Next]_vars => SleeperHasWaker'
  <2> SUFFICES ASSUME Inv, SleeperHasWaker, [Next]_vars,
                      NEW s \in Procs, pc'[s] = "sleep"
               PROVE  \E q \in Procs : pc'[q] \in {"op", "commit"}
    BY DEF SleeperHasWaker
  <2>0. TypeOK /\ (panic = "none" => Shape /\ Control)
    BY DEF Inv
  <2>1. CASE pc' = pc
    BY <2>1 DEF SleeperHasWaker
  <2>2. ASSUME NEW p \in Procs, SysCall(p) PROVE \E q \in Procs : pc'[q] \in {"op", "commit"}
    <3>1. CASE Call(p)
      <4>1. pc[s] = "sleep" /\ pc[p] = "idle" /\ pc' = [pc EXCEPT ![p] = "begin"]
        BY <2>0, <3>1 DEF Call, TypeOK
      <4>2. PICK q \in Procs : pc[q] \in {"op", "commit"}
        BY <4>1 DEF SleeperHasWaker
      <4> QED BY <2>0, <4>1, <4>2 DEF TypeOK
    <3>2. CASE BeginOpWait(p)
      <4>1. /\ MustWait /\ Shape /\ Control /\ pc[p] = "begin"
            /\ pc' = [pc EXCEPT ![p] = "sleep"]
        BY <2>0, <3>2 DEF BeginOpWait
      <4>2. \E q \in Procs : pc[q] \in {"op", "commit"}
        <5>1. CASE committing
          BY <4>1, <5>1 DEF Control
        <5>2. CASE ~committing
          <6>1. phase = "none"
            BY <2>0, <4>1, <5>2 DEF Control, TypeOK, Phases, CommitPhases, Recovering
          <6>2. outstanding # 0
            <7>1. SUFFICES ASSUME outstanding = 0 PROVE FALSE
              OBVIOUS
            <7>2. Len(lh) = 0
              BY <2>0, <4>1, <6>1, <7>1, HeaderFacts DEF Control, TypeOK
            <7> QED BY <4>1, <5>2, <7>1, <7>2, LogAssumption, SMT DEF MustWait
          <6>3. Ops # {}
            BY <4>1, <6>2, OpsFinite DEF Control
          <6> QED BY <6>3 DEF Ops
        <5> QED BY <5>1, <5>2
      <4>3. PICK q \in Procs : pc[q] \in {"op", "commit"}
        BY <4>2
      <4> QED BY <2>0, <4>1, <4>3 DEF TypeOK
    <3>3. CASE BeginOp(p)
      BY <2>0, <3>3 DEF BeginOp, TypeOK
    <3>4. CASE EndOpLast(p)
      BY <2>0, <3>4 DEF EndOpLast, TypeOK
    <3>5. CASE EndOp(p) \/ CommitDone(p)
      BY <2>0, <3>5 DEF EndOp, CommitDone, Awake, TypeOK
    <3> QED BY <2>2, <3>1, <3>2, <3>3, <3>4, <3>5 DEF SysCall
  <2>3. CASE Crash
    BY <2>3 DEF Crash
  <2> QED
    <3>1. ASSUME NEW p \in Procs, NEW b \in Blocks, NEW v \in Vals, LogWrite(p, b, v)
          PROVE  pc' = pc
      BY <3>1 DEF LogWrite
    <3>2. ASSUME CommitStep \/ RecoverStep PROVE pc' = pc
      BY <3>2 DEF CommitStep, WriteLog, WriteHead, Install, CopyHome, EraseHead, RecoverStep,
         ReadHead, Recover, ClearHead
    <3>3. ASSUME NEW b \in Blocks, Recycle(b) PROVE pc' = pc
      BY <3>3 DEF Recycle
    <3>4. ASSUME UNCHANGED vars PROVE pc' = pc
      BY <3>4 DEF vars
    <3> QED BY <2>1, <2>2, <2>3, <3>1, <3>2, <3>3, <3>4 DEF Next
<1> QED BY <1>1, <1>2, Invariance, PTL DEF Spec

----------------------------------------------------------------------------
\* Log implements TxnDisk: a crash at any step leaves whole groups of file
\* system calls.


Image == IF Recovering THEN Restored ELSE cache

\* Without duplicates in the header, a logged block has one slot.
LEMMA SlotUnique ==
    ASSUME NEW h \in Seq(Blocks), Distinct(h), NEW i \in 1..Len(h)
    PROVE  SlotOf(h, h[i]) = i
  BY DEF SlotOf, Distinct

\* Recovery restores a logged block from its slot and keeps the others.
LEMMA RestoredValue ==
    ASSUME TypeOK, Distinct(dhead), NEW b \in Blocks
    PROVE  /\ b \notin Logged(dhead) => Restored[b] = disk[b]
           /\ \A i \in 1..Len(dhead) : dhead[i] = b => Restored[b] = dlog[i]
<1>1. CASE b \notin Logged(dhead)
  BY <1>1, HeaderFacts, SMT DEF Restored, TypeOK
<1>2. ASSUME NEW i \in 1..Len(dhead), dhead[i] = b PROVE Restored[b] = dlog[i]
  <2>1. b \in Logged(dhead) /\ SlotOf(dhead, b) = i
    BY <1>2, SlotUnique, HeaderFacts DEF TypeOK
  <2> QED BY <2>1 DEF Restored
<1> QED BY <1>1, <1>2 DEF Restored

\* An empty header on disk: the home locations are the durable state.
LEMMA RestoredEmpty ==
    ASSUME disk \in [Blocks -> Vals], dhead = <<>>
    PROVE  Restored = disk
<1>1. Logged(dhead) = {}
  BY SMT DEF Logged
<1> QED BY <1>1 DEF Restored

\* A fully installed header adds nothing to the home locations.
LEMMA RestoredInstalled ==
    ASSUME TypeOK, Distinct(dhead), Installed(dhead, Len(dhead))
    PROVE  Restored = disk
<1>1. \A b \in Blocks : Restored[b] = disk[b]
  <2> SUFFICES ASSUME NEW b \in Blocks PROVE Restored[b] = disk[b]
    OBVIOUS
  <2>1. CASE b \notin Logged(dhead)
    BY <2>1, RestoredValue
  <2>2. CASE b \in Logged(dhead)
    <3>1. PICK i \in 1..Len(dhead) : dhead[i] = b
      BY <2>2, HeaderFacts DEF TypeOK
    <3> QED BY <3>1, RestoredValue DEF Installed
  <2> QED BY <2>1, <2>2
<1> QED BY <1>1 DEF Restored, TypeOK

\* Restored depends on the disk only.
LEMMA RestoredFrame == UNCHANGED dvars => Restored' = Restored
  BY SMT DEF dvars, Restored, Logged, SlotOf

\* Writing a logged block home does not change what recovery restores.
LEMMA RestoredCopyHome ==
    ASSUME TypeOK, lh = dhead, tail \in 1..Len(lh), CopyHome
    PROVE  Restored' = Restored
<1>1. dlog' = dlog /\ dhead' = dhead /\ disk' = [disk EXCEPT ![lh[tail]] = dlog[tail]]
  BY DEF CopyHome
<1>2. lh[tail] \in Logged(dhead)
  BY HeaderFacts DEF TypeOK
<1>3. \A b \in Blocks : b \notin Logged(dhead) => disk'[b] = disk[b]
  BY <1>1, <1>2 DEF TypeOK
<1>4. Logged(dhead') = Logged(dhead) /\ \A b : SlotOf(dhead', b) = SlotOf(dhead, b)
  BY <1>1
<1> QED BY <1>1, <1>3, <1>4 DEF Restored

\* The commit point: what recovery would restore becomes what the calls wrote.
LEMMA RestoredWriteHead ==
    ASSUME TypeOK, Shape, WriteHead, TypeOK', Shape'
    PROVE  Restored' = cache
<1>1. /\ phase = "write_head" /\ Copied(Len(lh)) /\ CleanOutside(lh)
      /\ UNCHANGED <<disk, dlog, cache>> /\ dhead' = lh
  BY DEF Shape, WriteHead, mvars
<1>2. \A b \in Blocks : Restored'[b] = cache[b]
  <2> SUFFICES ASSUME NEW b \in Blocks PROVE Restored'[b] = cache[b]
    OBVIOUS
  <2>0. Distinct(dhead')
    BY DEF Shape
  <2>1. CASE b \notin Logged(lh)
    <3>1. Restored'[b] = disk'[b]
      BY <1>1, <2>1 DEF Restored
    <3> QED BY <1>1, <2>1, <3>1 DEF CleanOutside
  <2>2. CASE b \in Logged(lh)
    <3>1. PICK i \in 1..Len(lh) : lh[i] = b
      BY <2>2, HeaderFacts DEF TypeOK
    <3>2. SlotOf(lh, b) = i
      BY <1>1, <2>0, <3>1, SlotUnique DEF TypeOK
    <3>3. Restored'[b] = dlog'[i]
      BY <1>1, <2>2, <3>2 DEF Restored
    <3> QED BY <1>1, <3>1, <3>3 DEF Copied
  <2> QED BY <2>1, <2>2
<1> QED BY <1>2 DEF Restored, TypeOK

\* The abstract state when a step leaves disk, buffers and recovery alone.
LEMMA ImageFrame ==
    ASSUME Restored' = Restored, cache' = cache, Recovering' <=> Recovering
    PROVE  Image' = Image
  BY DEF Image

\* A step of commit() is the commit of the group, or not visible.
LEMMA CommitRefines ==
    ASSUME TypeOK, Shape, Control, CommitStep, TypeOK', Shape'
    PROVE  /\ Ops = {} /\ Ops' = Ops /\ Image' = Image
           /\ Restored' = Restored \/ Restored' = Image
<1>1. Ops = {} /\ Ops' = Ops
  <2>1. phase # "none" /\ pc' = pc
    BY DEF CommitStep, WriteLog, WriteHead, Install, CopyHome, EraseHead
  <2> QED BY <2>1 DEF Control, Ops
<1>2. ~Recovering /\ ~Recovering'
  BY DEF CommitStep, WriteLog, WriteHead, Install, EraseHead, Recovering
<1>3. CASE WriteLog
  <2>1. dhead = <<>> /\ dhead' = <<>> /\ disk' = disk /\ cache' = cache
    BY <1>3 DEF Shape, WriteLog, mvars
  <2>2. Restored = disk /\ Restored' = disk'
    <3>1. Restored = disk
      BY <2>1, RestoredEmpty DEF TypeOK
    <3>2. Logged(dhead') = {}
      BY <2>1, SMT DEF Logged
    <3>3. Restored' = disk'
      BY <3>2 DEF Restored, TypeOK
    <3> QED BY <3>1, <3>3
  <2> QED BY <1>1, <1>2, <2>1, <2>2 DEF Image
<1>4. CASE WriteHead
  <2>1. Restored' = cache /\ cache' = cache
    BY <1>4, RestoredWriteHead DEF WriteHead, mvars
  <2> QED BY <1>1, <1>2, <2>1 DEF Image
<1>5. CASE Install
  <2>1. /\ phase = "install" /\ dhead = lh /\ tail \in 1..Len(lh) /\ Copied(Len(lh))
        /\ CopyHome
    BY <1>5, HeaderFacts, SMT DEF Shape, Install, TypeOK
  <2>2. Restored' = Restored
    BY <2>1, RestoredCopyHome
  <2>3. cache' = cache
    <3>1. dlog[tail] = cache[lh[tail]] /\ lh[tail] \in Blocks
      BY <2>1, HeaderFacts DEF Copied, TypeOK
    <3> QED BY <2>1, <3>1 DEF CopyHome, TypeOK
  <2> QED BY <1>1, <1>2, <2>2, <2>3 DEF Image
<1>6. CASE EraseHead
  <2>1. /\ Distinct(dhead) /\ Installed(dhead, Len(dhead)) /\ lh = <<>>
        /\ disk' = disk /\ cache' = cache /\ dhead' = <<>>
    BY <1>6 DEF Shape, EraseHead, mvars
  <2>2. Restored = disk
    BY <2>1, RestoredInstalled
  <2>3. Restored' = disk'
    <3>1. Logged(dhead') = {}
      BY <2>1, SMT DEF Logged
    <3> QED BY <3>1 DEF Restored, TypeOK
  <2> QED BY <1>1, <1>2, <2>1, <2>2, <2>3 DEF Image
<1> QED BY <1>3, <1>4, <1>5, <1>6 DEF CommitStep

\* Recovery is not visible: it only makes the home locations agree with what
\* was already durable.
LEMMA RecoverRefines ==
    ASSUME TypeOK, Shape, RecoverStep, TypeOK', Shape'
    PROVE  Ops' = Ops /\ Image' = Image /\ Restored' = Restored
<1>1. Recovering /\ pc' = pc
  BY DEF RecoverStep, ReadHead, Recover, CopyHome, ClearHead, Recovering
<1>2. Ops' = Ops
  BY <1>1 DEF Ops
<1>3. CASE ReadHead
  <2>1. Restored' = Restored /\ Recovering'
    BY <1>3, RestoredFrame DEF ReadHead, Recovering
  <2> QED BY <1>1, <1>2, <2>1 DEF Image
<1>4. CASE Recover
  <2>1. dhead = lh /\ tail \in 1..Len(lh) /\ CopyHome /\ Recovering'
    BY <1>4, HeaderFacts, SMT DEF Shape, Recover, TypeOK, Recovering
  <2>2. Restored' = Restored
    BY <2>1, RestoredCopyHome
  <2> QED BY <1>1, <1>2, <2>1, <2>2 DEF Image
<1>5. CASE ClearHead
  <2>1. /\ Distinct(dhead) /\ Installed(dhead, Len(dhead)) /\ lh = <<>> /\ cache = disk
        /\ disk' = disk /\ cache' = cache /\ dhead' = <<>> /\ ~Recovering'
    BY <1>5 DEF Shape, ClearHead, mvars, Recovering
  <2>2. Restored = disk
    BY <2>1, RestoredInstalled
  <2>3. Restored' = disk'
    <3>1. Logged(dhead') = {}
      BY <2>1, SMT DEF Logged
    <3> QED BY <3>1 DEF Restored, TypeOK
  <2> QED BY <1>1, <1>2, <2>1, <2>2, <2>3 DEF Image
<1> QED BY <1>3, <1>4, <1>5 DEF RecoverStep

\* begin_op, log_write and end_op are the operations of the abstract disk.
LEMMA CallRefines ==
    ASSUME TypeOK, Shape, Control, NEW p \in Procs, SysCall(p)
    PROVE  /\ Restored' = Restored /\ Image' = Image
           /\ \/ Ops' = Ops
              \/ p \notin Ops /\ Ops' = Ops \cup {p}
              \/ p \in Ops /\ Ops' = Ops \ {p}
<1>1. UNCHANGED dvars /\ cache' = cache
  BY DEF SysCall, Call, BeginOpWait, BeginOp, EndOp, EndOpLast, CommitDone, mvars
<1>2. Recovering' <=> Recovering
  <2>1. CASE Call(p) \/ BeginOpWait(p) \/ BeginOp(p) \/ EndOp(p)
    BY <2>1 DEF Call, BeginOpWait, BeginOp, EndOp, cvars, Recovering
  <2>2. CASE EndOpLast(p)
    BY <2>2 DEF EndOpLast, Control, Recovering
  <2>3. CASE CommitDone(p)
    BY <2>3 DEF CommitDone, Recovering
  <2> QED BY <2>1, <2>2, <2>3 DEF SysCall
<1>3. Restored' = Restored /\ Image' = Image
  BY <1>1, <1>2, RestoredFrame, ImageFrame
<1>4. \/ Ops' = Ops
      \/ p \notin Ops /\ Ops' = Ops \cup {p}
      \/ p \in Ops /\ Ops' = Ops \ {p}
  <2>1. CASE Call(p)
    BY <2>1 DEF Call, Ops, TypeOK
  <2>2. CASE BeginOpWait(p)
    BY <2>2 DEF BeginOpWait, Ops, TypeOK
  <2>3. CASE BeginOp(p)
    BY <2>3 DEF BeginOp, Ops, TypeOK
  <2>4. CASE EndOp(p)
    BY <2>4 DEF EndOp, Ops, TypeOK, Awake
  <2>5. CASE EndOpLast(p)
    BY <2>5 DEF EndOpLast, Ops, TypeOK
  <2>6. CASE CommitDone(p)
    BY <2>6 DEF CommitDone, Ops, TypeOK, Awake
  <2> QED BY <2>1, <2>2, <2>3, <2>4, <2>5, <2>6 DEF SysCall
<1> QED BY <1>3, <1>4

\* The log turns block writes into atomic groups of system calls.  Whatever the
\* interleaving of calls, and wherever power fails (in commit() or in recovery
\* as well), the disk after recovery holds all the writes of a group or none.
THEOREM LogIsCrashAtomic == Spec => CrashAtomic
<1>1. Init => TD!TDInit
  <2> SUFFICES ASSUME Init PROVE TD!TDInit
    OBVIOUS
  <2>1. Recovering /\ Ops = {}
    BY DEF Init, Recovering, Ops
  <2>2. Restored = disk /\ disk = [b \in Blocks |-> InitVal]
    BY RestoredEmpty, LogAssumption DEF Init
  <2> QED BY <2>1, <2>2 DEF TD!TDInit, Ops
<1>2. Inv /\ Inv' /\ [Next]_vars => [TD!TDNext]_(TD!tdvars)
  <2> SUFFICES ASSUME Inv, Inv', [Next]_vars PROVE [TD!TDNext]_(TD!tdvars)
    OBVIOUS
  <2> USE DEF Ops, Image
  <2>0. /\ TypeOK /\ TypeOK'
        /\ panic = "none" => Shape /\ Control
        /\ panic' = "none" => Shape'
    BY DEF Inv
  <2>1. ASSUME NEW p \in Procs, SysCall(p) PROVE [TD!TDNext]_(TD!tdvars)
    <3>1. panic = "none"
      BY <2>1 DEF SysCall, Call, BeginOpWait, BeginOp, EndOp, EndOpLast, CommitDone
    <3>2. /\ Restored' = Restored /\ Image' = Image
          /\ \/ Ops' = Ops
             \/ p \notin Ops /\ Ops' = Ops \cup {p}
             \/ p \in Ops /\ Ops' = Ops \ {p}
      BY <2>0, <2>1, <3>1, CallRefines
    <3> QED BY <3>2 DEF TD!TDNext, TD!Begin, TD!End, TD!tdvars
  <2>2. ASSUME NEW p \in Procs, NEW b \in Blocks, NEW v \in Vals, LogWrite(p, b, v)
        PROVE  [TD!TDNext]_(TD!tdvars)
    <3>1. panic = "none" /\ p \in Ops /\ UNCHANGED dvars /\ Ops' = Ops
      BY <2>2 DEF LogWrite
    <3>2. ~Recovering /\ ~Recovering'
      BY <2>0, <2>2, <3>1 DEF Control, LogWrite, cvars, Recovering
    <3>3. Restored' = Restored /\ Image' = [Image EXCEPT ![b] = v]
      BY <2>2, <3>1, <3>2, RestoredFrame DEF LogWrite
    <3> QED BY <3>1, <3>3 DEF TD!TDNext, TD!Modify
  <2>3. CASE CommitStep
    <3>1. panic = "none" /\ panic' = "none"
      BY <2>3 DEF CommitStep, WriteLog, WriteHead, Install, CopyHome, EraseHead
    <3>2. /\ Ops = {} /\ Ops' = Ops /\ Image' = Image
          /\ Restored' = Restored \/ Restored' = Image
      BY <2>0, <2>3, <3>1, CommitRefines
    <3> QED BY <3>2 DEF TD!TDNext, TD!CommitGroup, TD!tdvars
  <2>4. CASE RecoverStep
    <3>1. panic = "none" /\ panic' = "none"
      BY <2>4 DEF RecoverStep, ReadHead, Recover, CopyHome, ClearHead
    <3>2. Ops' = Ops /\ Image' = Image /\ Restored' = Restored
      BY <2>0, <2>4, <3>1, RecoverRefines
    <3> QED BY <3>2 DEF TD!tdvars
  <2>5. CASE Crash
    <3>1. UNCHANGED dvars /\ Recovering' /\ Ops' = {}
      BY <2>5 DEF Crash, Recovering
    <3>2. Restored' = Restored /\ Image' = Restored
      BY <3>1, RestoredFrame
    <3> QED BY <3>1, <3>2 DEF TD!TDNext, TD!Fail
  <2>6. CASE UNCHANGED vars
    <3>1. Restored' = Restored /\ Image' = Image /\ Ops' = Ops
      BY <2>6, RestoredFrame, ImageFrame DEF vars, dvars, Recovering
    <3> QED BY <3>1 DEF TD!tdvars
  <2>7. ASSUME NEW b \in Blocks, Recycle(b) PROVE [TD!TDNext]_(TD!tdvars)
    <3>1. panic = "none"
      BY <2>7 DEF Recycle
    <3> QED BY <2>0, <2>6, <2>7, <3>1, RecycleIsStutter
  <2> QED BY <2>1, <2>2, <2>3, <2>4, <2>5, <2>6, <2>7 DEF Next
<1> QED BY <1>1, <1>2, Invariance, PTL DEF Spec, CrashAtomic, TD!TDSpec
============================================================================
