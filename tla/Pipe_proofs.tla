---------------------------- MODULE Pipe_proofs ----------------------------
(***************************************************************************)
(* Proofs about Pipe, for any number of readers and writers, any PIPESIZE  *)
(* and any range of the counters that is a multiple of it: nobody sleeps   *)
(* on a condition that has passed, the pipe is freed exactly when both     *)
(* ends are closed, and it is a FIFO queue of PIPESIZE bytes.              *)
(***************************************************************************)
EXTENDS Pipe, ModArith, TLAPS

----------------------------------------------------------------------------
\* The inductive invariant

InPipe == {"run", "copy", "doze"}

\* pi->lock is held by the process that is between acquire and release.
LockInv == \A p \in Procs : pc[p] \in InPipe <=> lk = p

\* Only readers copy out, and only a process with an open descriptor calls.
CallInv == /\ \A w \in Writers : pc[w] # "copy"
           /\ \A p \in Procs : pc[p] # "idle" => p \in holders

\* An end is open as long as somebody holds it.
EndInv == /\ writeopen <=> holders \cap Writers # {}
          /\ readopen <=> holders \cap Readers # {}
          /\ freed <=> ~writeopen /\ ~readopen

\* Who is about to sleep has reason to; who sleeps has reason to, or the holder
\* of pi->lock will wake it before it lets go.
SleepInv == /\ \A w \in Writers : pc[w] = "doze" => Full /\ readopen
            /\ \A r \in Readers : pc[r] = "doze" => Empty /\ writeopen
            /\ \A w \in Writers : pc[w] = "sleep" =>
                  (Full /\ readopen) \/ (lk \in Readers /\ pc[lk] = "copy")
            /\ killed \cap Writers = {} => \A r \in Readers : pc[r] = "sleep" =>
                  (Empty /\ writeopen) \/ (lk \in Writers /\ pc[lk] = "run")

Inv == TypeOK /\ LockInv /\ CallInv /\ EndInv /\ SleepInv

----------------------------------------------------------------------------
\* Types

\* wakeup changes places only, and only from sleep to the reacquire of pi->lock.
LEMMA AwakeType ==
    ASSUME NEW f \in [Procs -> Places], NEW S
    PROVE  /\ Awake(f, S) \in [Procs -> Places]
           /\ \A p \in Procs : Awake(f, S)[p] = IF p \in S /\ f[p] = "sleep" THEN "lock" ELSE f[p]
  BY DEF Awake, Places

\* PIPESIZE and the range of the counters are positive, and PIPESIZE divides it.
LEMMA Sizes ==
    /\ PIPESIZE \in Nat \ {0} /\ UintRange \in Nat \ {0}
    /\ PIPESIZE < UintRange
    /\ \E k \in Nat : UintRange = k * PIPESIZE
<1>1. PICK k \in 2..UintRange : UintRange = k * PIPESIZE
  BY PipeAssumption
<1>2. k * PIPESIZE > PIPESIZE
  BY PipeAssumption
<1> QED
  BY <1>1, <1>2, PipeAssumption

\* A counter stays in its range.
LEMMA IncRange ==
    ASSUME NEW n \in 0..(UintRange - 1)
    PROVE  Inc(n) \in 0..(UintRange - 1)
  BY Sizes, ModRange DEF Inc

\* The types hold at first.
LEMMA InitType == Init => TypeOK
<1> SUFFICES ASSUME Init PROVE TypeOK
  OBVIOUS
<1>1. nread \in 0..(UintRange - 1) /\ nwrite \in 0..(UintRange - 1)
  BY Sizes DEF Init
<1>2. pc \in [Procs -> Places] /\ left \in [Procs -> Nat]
  BY DEF Init, Places
<1>3. readopen \in BOOLEAN /\ writeopen \in BOOLEAN /\ freed \in BOOLEAN
  BY DEF Init
<1> QED
  BY <1>1, <1>2, <1>3 DEF Init, TypeOK

\* Every step keeps the types.
LEMMA NextType == TypeOK /\ [Next]_vars => TypeOK'
<1> SUFFICES ASSUME TypeOK, [Next]_vars PROVE TypeOK'
  OBVIOUS
<1> USE DEF TypeOK
<1>1. ASSUME NEW p \in Procs, Lock(p) PROVE TypeOK'
  BY <1>1 DEF Lock, pivars, Places
<1>2. ASSUME NEW p \in Procs, Doze(p) PROVE TypeOK'
  BY <1>2 DEF Doze, pivars, Places
<1>3. ASSUME NEW p \in Procs, Close(p) PROVE TypeOK'
  BY <1>3, AwakeType DEF Close
<1>4. ASSUME NEW p \in Procs, Kill(p) PROVE TypeOK'
  BY <1>4, AwakeType DEF Kill, pivars
<1>5. ASSUME NEW p \in Procs, NEW n \in 0..MaxN, Call(p, n) PROVE TypeOK'
  BY <1>5 DEF Call, pivars, Places
<1>6. ASSUME NEW p \in Procs, NEW S, Return(p, S) PROVE TypeOK'
  <2>1. [pc EXCEPT ![p] = "idle"] \in [Procs -> Places]
    BY DEF Places
  <2> QED
    BY <1>6, <2>1, AwakeType DEF Return, pivars
<1>7. ASSUME NEW w \in Writers, WriteStep(w) \/ WriteFault(w) PROVE TypeOK'
  <2>1. w \in Procs
    BY DEF Procs
  <2>2. CASE WriteAbort(w) \/ WriteDone(w)
    BY <1>6, <2>1, <2>2 DEF WriteAbort, WriteDone
  <2>3. CASE WriteFull(w)
    <3>1. [pc EXCEPT ![w] = "doze"] \in [Procs -> Places]
      BY DEF Places
    <3> QED
      BY <2>3, <3>1, AwakeType DEF WriteFull, pivars
  <2>4. ASSUME NEW b \in Bytes, WriteByte(w, b) PROVE TypeOK'
    <3>1. Inc(nwrite) \in 0..(UintRange - 1)
      BY IncRange
    <3>2. left' \in [Procs -> Nat]
      BY <2>1, <2>4 DEF WriteByte, Writing
    <3>3. data' \in [0..(PIPESIZE - 1) -> Bytes]
      BY <2>4 DEF WriteByte
    <3> QED
      BY <2>4, <3>1, <3>2, <3>3 DEF WriteByte
  <2>5. CASE WriteFault(w)
    BY <2>5 DEF WriteFault, pivars
  <2> QED
    BY <1>7, <2>2, <2>3, <2>4, <2>5 DEF WriteStep
<1>8. ASSUME NEW r \in Readers, ReadStep(r) \/ ReadByte(r, 0) PROVE TypeOK'
  <2>1. r \in Procs
    BY DEF Procs
  <2>2. CASE ReadKilled(r) \/ ReadDone(r)
    BY <1>6, <2>1, <2>2 DEF ReadKilled, ReadDone
  <2>3. CASE ReadWait(r) \/ ReadCopy(r)
    BY <2>3 DEF ReadWait, ReadCopy, pivars, Places
  <2>4. CASE ReadByte(r, left[r] - 1) \/ ReadByte(r, 0)
    <3>1. Inc(nread) \in 0..(UintRange - 1)
      BY IncRange
    <3>2. left' \in [Procs -> Nat]
      BY <2>1, <2>4 DEF ReadByte
    <3> QED
      BY <2>4, <3>1, <3>2 DEF ReadByte
  <2> QED
    BY <1>8, <2>2, <2>3, <2>4 DEF ReadStep
<1>9. CASE UNCHANGED vars
  BY <1>9 DEF vars
<1> QED
  BY <1>1, <1>2, <1>3, <1>4, <1>5, <1>7, <1>8, <1>9 DEF Next

----------------------------------------------------------------------------
\* The lock, the descriptors and the ends

\* Places and lock after a call returns.
LEMMA ReturnPlaces ==
    ASSUME TypeOK, NEW p \in Procs, NEW S, Return(p, S)
    PROVE  /\ lk' = None
           /\ pc'[p] = "idle"
           /\ \A q \in Procs \ {p} :
                 pc'[q] = IF q \in S /\ pc[q] = "sleep" THEN "lock" ELSE pc[q]
<1> DEFINE f == [pc EXCEPT ![p] = "idle"]
<1>1. f \in [Procs -> Places] /\ f[p] = "idle" /\ \A q \in Procs \ {p} : f[q] = pc[q]
  BY DEF TypeOK, Places
<1>2. lk' = None /\ pc' = Awake(f, S)
  BY DEF Return
<1> HIDE DEF f
<1>3. \A q \in Procs : pc'[q] = IF q \in S /\ f[q] = "sleep" THEN "lock" ELSE f[q]
  BY <1>1, <1>2, AwakeType
<1> QED
  BY <1>1, <1>2, <1>3

\* Every step keeps LockInv and CallInv.
LEMMA NextLock == TypeOK /\ LockInv /\ CallInv /\ [Next]_vars => LockInv' /\ CallInv'
<1> SUFFICES ASSUME TypeOK, LockInv, CallInv, [Next]_vars PROVE LockInv' /\ CallInv'
  OBVIOUS
<1> USE DEF LockInv, CallInv, InPipe
<1>0. None \notin Procs /\ pc \in [Procs -> Places] /\ Writers \cap Readers = {}
  BY PipeAssumption DEF Procs, TypeOK
<1>1. ASSUME NEW p \in Procs, Lock(p) PROVE LockInv' /\ CallInv'
  BY <1>0, <1>1 DEF Lock, Procs
<1>2. ASSUME NEW p \in Procs, Doze(p) PROVE LockInv' /\ CallInv'
  BY <1>0, <1>2 DEF Doze, Procs
<1>3. ASSUME NEW p \in Procs, Close(p) PROVE LockInv' /\ CallInv'
  BY <1>0, <1>3, AwakeType DEF Close, Procs
<1>4. ASSUME NEW p \in Procs, Kill(p) PROVE LockInv' /\ CallInv'
  BY <1>0, <1>4, AwakeType DEF Kill, Procs
<1>5. ASSUME NEW p \in Procs, NEW n \in 0..MaxN, Call(p, n) PROVE LockInv' /\ CallInv'
  BY <1>0, <1>5 DEF Call, Procs
<1>6. ASSUME NEW p \in Procs, NEW S, Return(p, S), lk = p PROVE LockInv' /\ CallInv'
  BY <1>0, <1>6, ReturnPlaces DEF Return, Procs
<1>7. ASSUME NEW w \in Writers, WriteStep(w) \/ WriteFault(w) PROVE LockInv' /\ CallInv'
  <2>1. w \in Procs
    BY DEF Procs
  <2>2. CASE WriteAbort(w) \/ WriteDone(w)
    BY <1>6, <2>1, <2>2 DEF WriteAbort, WriteDone
  <2>3. CASE WriteFull(w)
    <3>1. [pc EXCEPT ![w] = "doze"] \in [Procs -> Places]
      BY <1>0 DEF Places
    <3> QED
      BY <1>0, <2>1, <2>3, <3>1, AwakeType DEF WriteFull, Writing, Procs
  <2>4. ASSUME NEW b \in Bytes, WriteByte(w, b) PROVE LockInv' /\ CallInv'
    BY <2>4 DEF WriteByte
  <2>5. CASE WriteFault(w)
    BY <2>5 DEF WriteFault
  <2> QED
    BY <1>7, <2>2, <2>3, <2>4, <2>5 DEF WriteStep
<1>8. ASSUME NEW r \in Readers, ReadStep(r) \/ ReadByte(r, 0) PROVE LockInv' /\ CallInv'
  <2>1. r \in Procs
    BY DEF Procs
  <2>2. CASE ReadKilled(r) \/ ReadDone(r)
    BY <1>6, <2>1, <2>2 DEF ReadKilled, ReadDone
  <2>3. CASE ReadWait(r) \/ ReadCopy(r)
    BY <1>0, <2>1, <2>3 DEF ReadWait, ReadCopy, Procs
  <2>4. CASE ReadByte(r, left[r] - 1) \/ ReadByte(r, 0)
    BY <2>4 DEF ReadByte
  <2> QED
    BY <1>8, <2>2, <2>3, <2>4 DEF ReadStep
<1>9. CASE UNCHANGED vars
  BY <1>9 DEF vars
<1> QED
  BY <1>1, <1>2, <1>3, <1>4, <1>5, <1>7, <1>8, <1>9 DEF Next

\* Only Close changes who holds the ends.
LEMMA EndsUnchanged ==
    ASSUME [Next]_vars, \A p \in Procs : ~Close(p)
    PROVE  UNCHANGED <<holders, readopen, writeopen, freed>>
  BY DEF Next, vars, Lock, Doze, Kill, Call, WriteStep, WriteAbort, WriteFull, WriteDone, WriteByte,
         WriteFault, ReadStep, ReadKilled, ReadWait, ReadCopy, ReadDone, ReadByte, Return, pivars

\* Every step keeps EndInv.
LEMMA NextEnd == TypeOK /\ EndInv /\ [Next]_vars => EndInv'
<1> SUFFICES ASSUME TypeOK, EndInv, [Next]_vars PROVE EndInv'
  OBVIOUS
<1>1. CASE \A p \in Procs : ~Close(p)
  BY <1>1, EndsUnchanged DEF EndInv
<1>2. ASSUME NEW p \in Procs, Close(p) PROVE EndInv'
  <2>1. holders' = holders \ {p} /\ p \in holders /\ Writers \cap Readers = {}
    BY <1>2, PipeAssumption DEF Close
  <2>2. holders' \cap Writers = {} <=> holders \cap Writers = {} \/ Last(p, Writers)
    BY <2>1 DEF Last
  <2>3. holders' \cap Readers = {} <=> holders \cap Readers = {} \/ Last(p, Readers)
    BY <2>1 DEF Last
  <2>4. writeopen' <=> writeopen /\ ~Last(p, Writers)
    BY <1>2 DEF Close
  <2>5. readopen' <=> readopen /\ ~Last(p, Readers)
    BY <1>2 DEF Close
  <2>6. freed' <=> ~writeopen' /\ ~readopen'
    BY <1>2 DEF Close
  <2> QED
    BY <2>2, <2>3, <2>4, <2>5, <2>6 DEF EndInv
<1> QED
  BY <1>1, <1>2

----------------------------------------------------------------------------
\* Sleep and wakeup

\* With struct pipe unchanged the conditions slept on are unchanged.
LEMMA SamePipe ==
    ASSUME UNCHANGED pivars
    PROVE  (Full' <=> Full) /\ (Empty' <=> Empty) /\ (readopen' <=> readopen)
           /\ (writeopen' <=> writeopen)
  BY DEF pivars, Full, Empty

\* Every step keeps SleepInv.
LEMMA NextSleep == Inv /\ [Next]_vars => SleepInv'
<1> SUFFICES ASSUME Inv, [Next]_vars PROVE SleepInv'
  OBVIOUS
<1> USE DEF SleepInv
<1>0. /\ None \notin Procs /\ pc \in [Procs -> Places] /\ Writers \cap Readers = {}
      /\ Writers \subseteq Procs /\ Readers \subseteq Procs
      /\ \A p \in Procs : pc[p] \in InPipe <=> lk = p
      /\ SleepInv
  BY PipeAssumption DEF Procs, Inv, TypeOK, LockInv
<1>1. ASSUME NEW p \in Procs, Lock(p) PROVE SleepInv'
  BY <1>0, <1>1, SamePipe DEF Lock, InPipe
<1>2. ASSUME NEW p \in Procs, Doze(p) PROVE SleepInv'
  BY <1>0, <1>2, SamePipe DEF Doze, InPipe
<1>3. ASSUME NEW p \in Procs, Close(p) PROVE SleepInv'
  <2>1. /\ (Full' <=> Full) /\ (Empty' <=> Empty) /\ lk' = lk /\ killed' = killed
        /\ (writeopen' <=> writeopen /\ ~Last(p, Writers))
        /\ (readopen' <=> readopen /\ ~Last(p, Readers))
    BY <1>3 DEF Close, Full, Empty
  <2>2. \A q \in Procs : \/ pc'[q] = pc[q]
                         \/ pc[q] = "sleep" /\ pc'[q] = "lock"
    BY <1>0, <1>3, AwakeType DEF Close
  <2>3. CASE Last(p, Writers)
    <3>1. lk = None /\ ~Last(p, Readers)
      BY <1>0, <1>3, <2>3 DEF Close, Last
    <3>2. \A r \in Readers : pc'[r] # "sleep"
      BY <1>0, <1>3, <2>3, AwakeType DEF Close
    <3> QED
      BY <1>0, <2>1, <2>2, <3>1, <3>2 DEF InPipe
  <2>4. CASE Last(p, Readers)
    <3>1. lk = None /\ ~Last(p, Writers)
      BY <1>0, <1>3, <2>4 DEF Close, Last
    <3>2. \A w \in Writers : pc'[w] # "sleep"
      BY <1>0, <1>3, <2>4, <3>1, AwakeType DEF Close
    <3> QED
      BY <1>0, <2>1, <2>2, <3>1, <3>2 DEF InPipe
  <2>5. CASE ~Last(p, Writers) /\ ~Last(p, Readers)
    BY <1>0, <2>1, <2>2, <2>5 DEF InPipe
  <2> QED
    BY <2>3, <2>4, <2>5
<1>4. ASSUME NEW p \in Procs, Kill(p) PROVE SleepInv'
  BY <1>0, <1>4, SamePipe, AwakeType DEF Kill, InPipe
<1>5. ASSUME NEW p \in Procs, NEW n \in 0..MaxN, Call(p, n) PROVE SleepInv'
  BY <1>0, <1>5, SamePipe DEF Call, InPipe
<1>6. ASSUME NEW w \in Writers, WriteStep(w) \/ WriteFault(w) PROVE SleepInv'
  <2>1. w \in Procs /\ lk = w
    BY <1>0, <1>6 DEF WriteStep, WriteAbort, WriteFull, WriteDone, WriteByte, WriteFault, Writing, InPipe
  <2>2. CASE WriteAbort(w)
    <3>1. Return(w, {}) /\ (~readopen \/ w \in killed)
      BY <2>2 DEF WriteAbort
    <3>2. killed' = killed /\ UNCHANGED pivars
      BY <3>1 DEF Return
    <3>3. lk' = None /\ \A q \in Procs : pc'[q] = IF q = w THEN "idle" ELSE pc[q]
      BY <2>1, <3>1, ReturnPlaces DEF Inv
    <3>4. killed \cap Writers = {} => \A r \in Readers : pc[r] # "sleep"
      BY <1>0, <3>1 DEF Inv, CallInv, EndInv
    <3> QED
      BY <1>0, <2>1, <3>2, <3>3, <3>4, SamePipe DEF InPipe
  <2>3. CASE WriteDone(w)
    <3>1. Return(w, Readers)
      BY <2>3 DEF WriteDone
    <3>2. killed' = killed /\ UNCHANGED pivars
      BY <3>1 DEF Return
    <3>3. /\ lk' = None /\ pc'[w] = "idle"
          /\ \A q \in Procs \ {w} :
                pc'[q] = IF q \in Readers /\ pc[q] = "sleep" THEN "lock" ELSE pc[q]
      BY <2>1, <3>1, ReturnPlaces DEF Inv
    <3> QED
      BY <1>0, <2>1, <3>2, <3>3, SamePipe DEF InPipe
  <2>4. CASE WriteFull(w)
    <3> DEFINE f == [pc EXCEPT ![w] = "doze"]
    <3>1. f \in [Procs -> Places] /\ f[w] = "doze" /\ \A q \in Procs \ {w} : f[q] = pc[q]
      BY <1>0, <2>1 DEF Places
    <3>2. /\ UNCHANGED pivars /\ lk' = lk /\ killed' = killed /\ pc' = Awake(f, Readers)
          /\ Full /\ readopen
      BY <2>4 DEF WriteFull, Writing
    <3> HIDE DEF f
    <3>3. \A q \in Procs : pc'[q] = IF q \in Readers /\ f[q] = "sleep" THEN "lock" ELSE f[q]
      BY <3>1, <3>2, AwakeType
    <3> QED
      BY <1>0, <2>1, <3>1, <3>2, <3>3, SamePipe DEF InPipe
  <2>5. ASSUME NEW b \in Bytes, WriteByte(w, b) PROVE SleepInv'
    BY <1>0, <2>1, <2>5 DEF WriteByte, Writing, InPipe
  <2>6. CASE WriteFault(w)
    BY <1>0, <2>1, <2>6, SamePipe DEF WriteFault
  <2> QED
    BY <1>6, <2>2, <2>3, <2>4, <2>5, <2>6 DEF WriteStep
<1>7. ASSUME NEW r \in Readers, ReadStep(r) \/ ReadByte(r, 0) PROVE SleepInv'
  <2>1. r \in Procs /\ lk = r
    BY <1>0, <1>7 DEF ReadStep, ReadKilled, ReadWait, ReadCopy, ReadDone, ReadByte, InPipe
  <2>2. CASE ReadKilled(r)
    BY <1>0, <2>1, <2>2, SamePipe, ReturnPlaces DEF ReadKilled, Return, InPipe, Inv
  <2>3. CASE ReadWait(r) \/ ReadCopy(r)
    BY <1>0, <2>1, <2>3, SamePipe DEF ReadWait, ReadCopy, InPipe
  <2>4. CASE ReadDone(r)
    <3>1. Return(r, Writers)
      BY <2>4 DEF ReadDone
    <3>2. killed' = killed /\ UNCHANGED pivars
      BY <3>1 DEF Return
    <3>3. /\ lk' = None /\ pc'[r] = "idle"
          /\ \A q \in Procs \ {r} :
                pc'[q] = IF q \in Writers /\ pc[q] = "sleep" THEN "lock" ELSE pc[q]
      BY <2>1, <3>1, ReturnPlaces DEF Inv
    <3> QED
      BY <1>0, <2>1, <3>2, <3>3, SamePipe DEF InPipe
  <2>5. CASE ReadByte(r, left[r] - 1) \/ ReadByte(r, 0)
    BY <1>0, <2>1, <2>5 DEF ReadByte, InPipe
  <2> QED
    BY <1>7, <2>2, <2>3, <2>4, <2>5 DEF ReadStep
<1>8. CASE UNCHANGED vars
  BY <1>0, <1>8, SamePipe DEF vars, pivars
<1> QED
  BY <1>1, <1>2, <1>3, <1>4, <1>5, <1>6, <1>7, <1>8 DEF Next

----------------------------------------------------------------------------
\* The ring

FillInv == Fill <= PIPESIZE

\* The remainder of a sum of two counters.
LEMMA ModSum ==
    ASSUME NEW n \in Nat \ {0}, NEW x \in 0..(n + n - 1)
    PROVE  x % n = IF x < n THEN x ELSE x - n
<1>1. CASE x < n
  BY <1>1
<1>2. CASE x >= n
  <2>1. PICK r \in 0..(n - 1) : r = x - n
    BY <1>2
  <2>2. (n * 1 + r) % n = r
    BY ModUnique
  <2>3. n * 1 + r = x
    BY <2>1
  <2> QED
    BY <1>2, <2>1, <2>2, <2>3
<1> QED
  BY <1>1, <1>2

\* The counters without remainders.
LEMMA Counters ==
    ASSUME TypeOK
    PROVE  /\ Fill = IF nwrite >= nread THEN nwrite - nread ELSE nwrite - nread + UintRange
           /\ Fill \in 0..(UintRange - 1)
           /\ Full <=> Fill = PIPESIZE
           /\ Empty <=> Fill = 0
           /\ Inc(nread) = IF nread + 1 = UintRange THEN 0 ELSE nread + 1
           /\ Inc(nwrite) = IF nwrite + 1 = UintRange THEN 0 ELSE nwrite + 1
<1>0. nread \in 0..(UintRange - 1) /\ nwrite \in 0..(UintRange - 1)
  BY DEF TypeOK
<1>1. PICK x \in (1 - UintRange)..(UintRange - 1) : x = nwrite - nread
  BY <1>0, Sizes
<1>2. x % UintRange = IF x >= 0 THEN x ELSE x + UintRange
  BY Sizes, ModDiff
<1>3. Fill = IF nwrite >= nread THEN nwrite - nread ELSE nwrite - nread + UintRange
  BY <1>0, <1>1, <1>2, Sizes DEF Fill
<1>4. PICK y \in 0..(UintRange + UintRange - 1) : y = nread + PIPESIZE
  BY <1>0, Sizes
<1>5. y % UintRange = IF y < UintRange THEN y ELSE y - UintRange
  BY Sizes, ModSum
<1>6. Full <=> Fill = PIPESIZE
  BY <1>0, <1>3, <1>4, <1>5, Sizes DEF Full
<1>7. Empty <=> Fill = 0
  BY <1>0, <1>3, Sizes DEF Empty
<1>8. ASSUME NEW n \in 0..(UintRange - 1)
      PROVE  Inc(n) = IF n + 1 = UintRange THEN 0 ELSE n + 1
  <2>1. PICK z \in 0..(UintRange + UintRange - 1) : z = n + 1
    BY Sizes
  <2>2. z % UintRange = IF z < UintRange THEN z ELSE z - UintRange
    BY Sizes, ModSum
  <2> QED
    BY <2>1, <2>2, Sizes DEF Inc
<1>9. Fill \in 0..(UintRange - 1)
  BY <1>0, <1>3, Sizes
<1> QED
  BY <1>0, <1>3, <1>6, <1>7, <1>8, <1>9

\* Slots of the ring, counted from nread: the one nwrite points to, and the ones
\* that hold the contents are others.
LEMMA Slots ==
    ASSUME TypeOK, Fill < PIPESIZE
    PROVE  /\ nwrite % PIPESIZE = (nread + Fill) % PIPESIZE
           /\ \A i \in 1..Fill : (nread + i - 1) % PIPESIZE # nwrite % PIPESIZE
<1>0. /\ nread \in 0..(UintRange - 1) /\ nwrite \in 0..(UintRange - 1)
      /\ Fill \in 0..(UintRange - 1) /\ PIPESIZE \in Nat \ {0} /\ UintRange \in Nat \ {0}
  BY Counters, Sizes DEF TypeOK
<1>1. PICK k \in Int : UintRange = k * PIPESIZE
  BY Sizes
<1>2. nwrite = nread + Fill \/ nread + Fill = nwrite + UintRange
  BY <1>0, Counters
<1>3. (nwrite + k * PIPESIZE) % PIPESIZE = nwrite % PIPESIZE
  <2>1. nwrite \in Int
    BY <1>0
  <2> QED
    BY <1>0, <2>1, ModShift, Zenon
<1>4. nwrite % PIPESIZE = (nread + Fill) % PIPESIZE
  <2>1. CASE nwrite = nread + Fill
    BY <2>1
  <2>2. CASE nread + Fill = nwrite + UintRange
    <3>1. nread + Fill = nwrite + k * PIPESIZE
      BY <1>1, <2>2
    <3> QED
      BY <1>3, <3>1
  <2> QED
    BY <1>2, <2>1, <2>2
<1>5. ASSUME NEW i \in 1..Fill
      PROVE  (nread + i - 1) % PIPESIZE # nwrite % PIPESIZE
  <2>1. PICK x \in Int : x = nread + i - 1
    BY <1>0
  <2>2. PICK d \in 1..(PIPESIZE - 1) : d = Fill - i + 1
    BY <1>0
  <2>3. x + d = nread + Fill
    BY <1>0, <2>1, <2>2
  <2>4. (x + d) % PIPESIZE # x % PIPESIZE
    BY <1>0, ModApart
  <2> QED
    BY <1>4, <2>1, <2>3, <2>4
<1> QED
  BY <1>4, <1>5

\* The slot after nread, when nread wraps around.
LEMMA NextSlot ==
    ASSUME TypeOK, NEW i \in Nat \ {0}
    PROVE  (Inc(nread) + i - 1) % PIPESIZE = (nread + i) % PIPESIZE
<1>0. nread \in 0..(UintRange - 1) /\ PIPESIZE \in Nat \ {0} /\ UintRange \in Nat \ {0}
  BY Sizes DEF TypeOK
<1>1. CASE nread + 1 = UintRange
  <2>1. PICK k \in Int : UintRange = k * PIPESIZE
    BY Sizes
  <2>2. PICK x \in Int : x = i - 1
    OBVIOUS
  <2>3. (x + k * PIPESIZE) % PIPESIZE = x % PIPESIZE
    BY <1>0, ModShift, Zenon
  <2>4. Inc(nread) + i - 1 = x
    BY <1>0, <1>1, <2>2, Counters
  <2>5. nread + i = x + UintRange
    BY <1>0, <1>1, <2>2
  <2>6. nread + i = x + k * PIPESIZE
    BY <2>1, <2>5
  <2> QED
    BY <2>3, <2>4, <2>6
<1>2. CASE nread + 1 # UintRange
  <2>1. Inc(nread) + i - 1 = nread + i
    BY <1>0, <1>2, Counters
  <2> QED
    BY <2>1
<1> QED
  BY <1>1, <1>2

\* The contents are a sequence of Fill bytes.
LEMMA ContentsType ==
    ASSUME TypeOK
    PROVE  /\ Contents \in Seq(Bytes) /\ Len(Contents) = Fill
           /\ \A i \in 1..Fill : Contents[i] = data[(nread + i - 1) % PIPESIZE]
<1>1. Fill \in Nat
  BY Counters, Sizes
<1>2. ASSUME NEW i \in 1..Fill PROVE data[(nread + i - 1) % PIPESIZE] \in Bytes
  <2>1. PICK x \in Int : x = nread + i - 1
    BY <1>1, Sizes DEF TypeOK
  <2>2. x % PIPESIZE \in 0..(PIPESIZE - 1)
    BY Sizes, ModRange
  <2> QED
    BY <2>1, <2>2 DEF TypeOK
<1>3. Contents \in [1..Fill -> Bytes]
  BY <1>2 DEF Contents
<1> QED
  BY <1>1, <1>3 DEF Contents

\* Two sequences with the same elements.
LEMMA SeqEqual ==
    ASSUME NEW S, NEW s \in Seq(S), NEW t \in Seq(S), Len(s) = Len(t),
           \A i \in 1..Len(s) : s[i] = t[i]
    PROVE  s = t
  OBVIOUS

\* What the counters and the contents are, in one state and in the next.
FillValue == Fill = IF nwrite >= nread THEN nwrite - nread ELSE nwrite - nread + UintRange
RingValue == /\ Contents \in Seq(Bytes) /\ Len(Contents) = Fill
             /\ \A i \in 1..Fill : Contents[i] = data[(nread + i - 1) % PIPESIZE]

\* The two lemmas above as predicates that can be primed.
LEMMA Values == TypeOK => FillValue /\ RingValue
  BY Counters, ContentsType DEF FillValue, RingValue

\* A byte written is put at the end, and there was room.
LEMMA WritePuts ==
    ASSUME TypeOK, TypeOK', FillInv, NEW w \in Writers, NEW b \in Bytes, WriteByte(w, b)
    PROVE  Len(Contents) < PIPESIZE /\ Contents' = Append(Contents, b) /\ FillInv'
<1>0. /\ nread \in 0..(UintRange - 1) /\ nwrite \in 0..(UintRange - 1)
      /\ Fill \in 0..(UintRange - 1) /\ PIPESIZE \in Nat \ {0} /\ UintRange \in Nat \ {0}
      /\ PIPESIZE < UintRange
  BY Counters, Sizes DEF TypeOK
<1>1. nread' = nread /\ nwrite' = Inc(nwrite) /\ data' = [data EXCEPT ![nwrite % PIPESIZE] = b]
      /\ ~Full
  BY DEF WriteByte
<1>2. Fill < PIPESIZE
  BY <1>0, <1>1, Counters DEF FillInv
<1>3. /\ nwrite' = IF nwrite + 1 = UintRange THEN 0 ELSE nwrite + 1
      /\ Fill = IF nwrite >= nread THEN nwrite - nread ELSE nwrite - nread + UintRange
  BY <1>1, Counters
<1>p. FillValue' /\ RingValue'
  BY Values, PTL
<1>4. Fill' = IF nwrite' >= nread' THEN nwrite' - nread' ELSE nwrite' - nread' + UintRange
  BY <1>p DEF FillValue
<1>5. Fill' = Fill + 1
  BY <1>0, <1>1, <1>2, <1>3, <1>4
<1>6. Contents \in Seq(Bytes) /\ Len(Contents) = Fill
  BY ContentsType
<1>7. Contents' \in Seq(Bytes) /\ Len(Contents') = Fill'
      /\ \A i \in 1..Fill' : Contents'[i] = data'[(nread' + i - 1) % PIPESIZE]
  BY <1>p DEF RingValue
<1>8. Append(Contents, b) \in Seq(Bytes) /\ Len(Append(Contents, b)) = Fill'
  BY <1>5, <1>6
<1>9. ASSUME NEW i \in 1..Fill' PROVE Contents'[i] = Append(Contents, b)[i]
  <2>1. Contents'[i] = data'[(nread + i - 1) % PIPESIZE]
    BY <1>1, <1>7
  <2>2. CASE i \in 1..Fill
    <3>1. Append(Contents, b)[i] = Contents[i]
      BY <1>0, <1>6, <2>2
    <3>2. Contents[i] = data[(nread + i - 1) % PIPESIZE]
      BY <2>2, ContentsType
    <3>3. (nread + i - 1) % PIPESIZE # nwrite % PIPESIZE
      BY <1>2, <2>2, Slots
    <3>4. PICK x \in Int : x = nread + i - 1
      BY <1>0, <2>2
    <3>5. x % PIPESIZE \in 0..(PIPESIZE - 1)
      BY <1>0, ModRange
    <3>6. data'[x % PIPESIZE] = data[x % PIPESIZE]
      BY <1>1, <3>3, <3>4, <3>5 DEF TypeOK
    <3> QED
      BY <2>1, <3>1, <3>2, <3>4, <3>6
  <2>3. CASE i = Fill + 1
    <3>1. Append(Contents, b)[i] = b
      BY <1>0, <1>6, <2>3
    <3>2. nread + i - 1 = nread + Fill
      BY <1>0, <2>3
    <3>3. (nread + i - 1) % PIPESIZE = nwrite % PIPESIZE
      BY <1>2, <3>2, Slots
    <3>4. nwrite % PIPESIZE \in 0..(PIPESIZE - 1)
      BY <1>0, ModRange
    <3>5. data'[nwrite % PIPESIZE] = b
      BY <1>1, <3>4 DEF TypeOK
    <3> QED
      BY <2>1, <3>1, <3>3, <3>5
  <2>4. i \in 1..Fill \/ i = Fill + 1
    BY <1>0, <1>5
  <2> QED
    BY <2>2, <2>3, <2>4
<1>10. Contents' = Append(Contents, b)
  BY <1>7, <1>8, <1>9, SeqEqual
<1> QED
  BY <1>0, <1>2, <1>5, <1>6, <1>10 DEF FillInv

\* A byte read is taken from the front.
LEMMA ReadGets ==
    ASSUME TypeOK, TypeOK', FillInv, NEW r \in Readers, NEW n, ReadByte(r, n)
    PROVE  Contents # <<>> /\ Contents' = Tail(Contents) /\ FillInv'
<1>0. /\ nread \in 0..(UintRange - 1) /\ nwrite \in 0..(UintRange - 1)
      /\ Fill \in 0..(UintRange - 1) /\ PIPESIZE \in Nat \ {0} /\ UintRange \in Nat \ {0}
  BY Counters, Sizes DEF TypeOK
<1>1. nread' = Inc(nread) /\ nwrite' = nwrite /\ data' = data /\ ~Empty
  BY DEF ReadByte
<1>2. Fill > 0
  BY <1>0, <1>1, Counters
<1>3. /\ nread' = IF nread + 1 = UintRange THEN 0 ELSE nread + 1
      /\ Fill = IF nwrite >= nread THEN nwrite - nread ELSE nwrite - nread + UintRange
  BY <1>1, Counters
<1>p. FillValue' /\ RingValue'
  BY Values, PTL
<1>4. Fill' = IF nwrite' >= nread' THEN nwrite' - nread' ELSE nwrite' - nread' + UintRange
  BY <1>p DEF FillValue
<1>5. Fill' = Fill - 1
  BY <1>0, <1>1, <1>2, <1>3, <1>4
<1>6. Contents \in Seq(Bytes) /\ Len(Contents) = Fill
      /\ \A i \in 1..Fill : Contents[i] = data[(nread + i - 1) % PIPESIZE]
  BY ContentsType
<1>7. Contents' \in Seq(Bytes) /\ Len(Contents') = Fill'
      /\ \A i \in 1..Fill' : Contents'[i] = data'[(nread' + i - 1) % PIPESIZE]
  BY <1>p DEF RingValue
<1>8. Contents # <<>>
  BY <1>2, <1>6
<1>9. Tail(Contents) \in Seq(Bytes) /\ Len(Tail(Contents)) = Fill'
  BY <1>5, <1>6, <1>8
<1>10. ASSUME NEW i \in 1..Fill' PROVE Contents'[i] = Tail(Contents)[i]
  <2>1. i + 1 \in 1..Fill /\ i \in Nat \ {0}
    BY <1>0, <1>5
  <2>2. Tail(Contents)[i] = Contents[i + 1]
    BY <1>6, <1>8, <1>9
  <2>3. Contents[i + 1] = data[(nread + (i + 1) - 1) % PIPESIZE]
    BY <1>6, <2>1
  <2>4. nread + (i + 1) - 1 = nread + i
    BY <1>0, <2>1
  <2>5. Contents'[i] = data[(Inc(nread) + i - 1) % PIPESIZE]
    BY <1>1, <1>7
  <2>6. (Inc(nread) + i - 1) % PIPESIZE = (nread + i) % PIPESIZE
    BY <2>1, NextSlot
  <2> QED
    BY <2>2, <2>3, <2>4, <2>5, <2>6
<1>11. Contents' = Tail(Contents)
  BY <1>7, <1>9, <1>10, SeqEqual
<1> QED
  BY <1>0, <1>5, <1>8, <1>11 DEF FillInv

----------------------------------------------------------------------------
\* The invariant

\* A new pipe is empty, open at both ends and unlocked.
LEMMA InitInv == Init => Inv /\ FillInv /\ Contents = <<>>
<1> SUFFICES ASSUME Init PROVE Inv /\ FillInv /\ Contents = <<>>
  OBVIOUS
<1>1. TypeOK
  BY InitType
<1>2. LockInv /\ CallInv /\ SleepInv
  BY PipeAssumption DEF Init, LockInv, CallInv, SleepInv, InPipe, Procs
<1>3. EndInv
  BY PipeAssumption DEF Init, EndInv, Procs
<1>4. Empty
  BY DEF Init, Empty
<1>5. Fill = 0
  BY <1>1, <1>4, Counters
<1>6. Contents \in Seq(Bytes) /\ Len(Contents) = 0
  BY <1>1, <1>5, ContentsType
<1>7. Contents = <<>>
  BY <1>6
<1> QED
  BY <1>1, <1>2, <1>3, <1>5, <1>7, Sizes DEF Inv, FillInv

\* A step that leaves the ring alone leaves its contents alone.
LEMMA SameContents ==
    ASSUME FillInv, UNCHANGED <<data, nread, nwrite>>
    PROVE  Contents' = Contents /\ FillInv'
  BY DEF Contents, Fill, FillInv

\* Every step puts one byte, gets one byte, or leaves the contents alone.
LEMMA NextFifo ==
    ASSUME TypeOK, TypeOK', FillInv, [Next]_vars
    PROVE  FillInv' /\ [Q!FNext]_Contents
<1>1. ASSUME NEW w \in Writers, NEW b \in Bytes, WriteByte(w, b)
      PROVE  FillInv' /\ Q!FNext
  BY <1>1, WritePuts DEF Q!FNext, Q!Put
<1>2. ASSUME NEW r \in Readers, NEW n, ReadByte(r, n)
      PROVE  FillInv' /\ Q!FNext
  BY <1>2, ReadGets DEF Q!FNext, Q!Get
<1>3. CASE UNCHANGED <<data, nread, nwrite>>
  BY <1>3, SameContents
<1>4. ASSUME NEW p \in Procs, Lock(p) \/ Doze(p) \/ Close(p) \/ Kill(p)
      PROVE  UNCHANGED <<data, nread, nwrite>>
  BY <1>4 DEF Lock, Doze, Close, Kill, pivars
<1>5. ASSUME NEW p \in Procs, NEW n \in 0..MaxN, Call(p, n)
      PROVE  UNCHANGED <<data, nread, nwrite>>
  BY <1>5 DEF Call, pivars
<1>6. ASSUME NEW w \in Writers,
             WriteAbort(w) \/ WriteFull(w) \/ WriteDone(w) \/ WriteFault(w)
      PROVE  UNCHANGED <<data, nread, nwrite>>
  BY <1>6 DEF WriteAbort, WriteFull, WriteDone, WriteFault, Return, pivars
<1>7. ASSUME NEW r \in Readers,
             ReadKilled(r) \/ ReadWait(r) \/ ReadCopy(r) \/ ReadDone(r)
      PROVE  UNCHANGED <<data, nread, nwrite>>
  BY <1>7 DEF ReadKilled, ReadWait, ReadCopy, ReadDone, Return, pivars
<1>8. CASE UNCHANGED vars
  BY <1>3, <1>8 DEF vars
<1> QED
  BY <1>1, <1>2, <1>3, <1>4, <1>5, <1>6, <1>7, <1>8 DEF Next, WriteStep, ReadStep

\* Inv and FillInv hold in every reachable state.
THEOREM PipeInvariant == Spec => [](Inv /\ FillInv)
<1>1. Init => Inv /\ FillInv
  BY InitInv
<1>2. Inv /\ FillInv /\ [Next]_vars => (Inv /\ FillInv)'
  <2> SUFFICES ASSUME Inv, FillInv, [Next]_vars PROVE Inv' /\ FillInv'
    OBVIOUS
  <2>1. TypeOK'
    BY NextType DEF Inv
  <2>2. LockInv' /\ CallInv'
    BY NextLock DEF Inv
  <2>3. EndInv'
    BY NextEnd DEF Inv
  <2>4. SleepInv'
    BY NextSleep
  <2>5. FillInv'
    BY <2>1, NextFifo DEF Inv
  <2> QED
    BY <2>1, <2>2, <2>3, <2>4, <2>5 DEF Inv
<1> QED
  BY <1>1, <1>2, PTL DEF Spec

\* No wakeup is lost: whoever sleeps in pipewrite or piperead while pi->lock is
\* free has a reason to, with any number of readers and writers.
THEOREM PipeNoLostWakeup == Spec => []NoLostWakeup
<1>1. Inv => NoLostWakeup
  <2> SUFFICES ASSUME Inv, lk = None
               PROVE  /\ (\E w \in Writers : pc[w] = "sleep") => Full /\ readopen
                      /\ killed \cap Writers = {} /\ (\E r \in Readers : pc[r] = "sleep")
                            => Empty /\ writeopen
    BY DEF NoLostWakeup
  <2>1. lk \notin Writers /\ lk \notin Readers
    BY PipeAssumption
  <2> QED
    BY <2>1 DEF Inv, SleepInv
<1> QED
  BY <1>1, PipeInvariant, PTL

\* pipeclose frees the page when the last descriptor of either end is closed, not
\* before and not later.
THEOREM PipeFreedUnused == Spec => []FreedUnused
<1>1. Inv => FreedUnused
  BY DEF Inv, TypeOK, EndInv, FreedUnused, Procs
<1> QED
  BY <1>1, PipeInvariant, PTL

\* The ring of pipewrite and piperead is a FIFO queue of PIPESIZE bytes, also when
\* the unsigned counters wrap around.
THEOREM PipeIsFifo == Spec => IsFifo
<1>1. Init => Q!FInit
  BY InitInv DEF Q!FInit
<1>2. Inv /\ FillInv /\ (Inv /\ FillInv)' /\ [Next]_vars => [Q!FNext]_Contents
  <2> SUFFICES ASSUME Inv, FillInv, Inv', [Next]_vars PROVE [Q!FNext]_Contents
    OBVIOUS
  <2>1. TypeOK /\ TypeOK'
    BY DEF Inv
  <2> QED
    BY <2>1, NextFifo
<1> QED
  BY <1>1, <1>2, PipeInvariant, PTL DEF Spec, IsFifo, Q!FSpec
============================================================================
