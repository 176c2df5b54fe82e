---------------------------- MODULE Bcache_proofs --------------------------
(***************************************************************************)
(* Proofs about Bcache, for any number of processes, blocks and buffers:   *)
(* its invariants, and that it implements BlockStore.                      *)
(***************************************************************************)
EXTENDS Bcache, FunctionTheorems, FiniteSetTheorems, TLAPS

\* The prover is Zenon unless a step asks for SMT.
USE Zenon

\* A process between bget and brelse has the buffer of the block it asked for.
UserOK == \A p \in Procs : pc[p] # "idle" =>
            buf[p] \in Bufs /\ want[p] \in Blocks /\ blockno[buf[p]] = want[p]

\* A process past acquiresleep holds the sleep-lock, and nobody else does.
HolderOK == \A p \in Procs : pc[p] \in {"locked", "use"} => locked[buf[p]] = p
LockedOK == \A k \in Bufs : locked[k] # None =>
              pc[locked[k]] \in {"locked", "use"} /\ buf[locked[k]] = k

\* Valid buffers have contents, and a buffer in use is valid.
ValidOK == /\ \A k \in Bufs : valid[k] => blockno[k] \in Blocks /\ data[k] \in Vals
           /\ \A p \in Procs : pc[p] = "use" => valid[buf[p]]

\* A buffer that differs from the disk is pinned, or its holder still has to
\* write or log it.
CleanOK == \A k \in Bufs : valid[k] /\ blockno[k] \notin pinned =>
             \/ data[k] = disk[blockno[k]]
             \/ locked[k] # None /\ pc[locked[k]] = "use" /\ state[locked[k]] = "dirty"

\* What bwrite has written is still what the buffer holds.
WrittenOK == \A p \in Procs : /\ pc[p] = "use" /\ state[p] = "written" =>
                                   data[buf[p]] = disk[want[p]]
                              /\ pc[p] # "use" => state[p] = "clean"

\* The counts are right, and the buffer of a pinned block is in the cache.
PinnedCached == \A b \in pinned : \E k \in Bufs : blockno[k] = b
RefOK == RefsCounted /\ PinnedCached

\* The log pins no more than it may.
PinBound == IsFiniteSet(pinned) /\ Cardinality(pinned) <= MaxPins

IInv == /\ TypeOK /\ OneBufferPerBlock /\ RefOK /\ UserOK /\ HolderOK /\ LockedOK
        /\ ValidOK /\ CleanOK /\ WrittenOK /\ SleeperHasHolder
        /\ PinBound /\ NoPanic

----------------------------------------------------------------------------
\* Reference counts

\* The users of a buffer are finitely many.
LEMMA UsersFinite == \A k : IsFiniteSet(Users(k)) /\ Cardinality(Users(k)) \in Nat
<1>1. \A k : Users(k) \subseteq Procs
  BY DEF Users
<1>2. QED
  BY <1>1, BcacheAssumption, FS_Subset, FS_CardinalityType

\* A user keeps the count of its buffer above zero, and above one beside a pin.
LEMMA UserReferences ==
    ASSUME TypeOK, RefsCounted, UserOK, NEW p \in Procs, pc[p] # "idle"
    PROVE  /\ refcnt[buf[p]] >= 1
           /\ blockno[buf[p]] \in pinned => refcnt[buf[p]] >= 2
<1> DEFINE k == buf[p]
<1>1. k \in Bufs
  BY DEF UserOK
<1>2. p \in Users(k)
  BY DEF Users
<1>3. Cardinality(Users(k)) # 0
  BY <1>2, UsersFinite, FS_EmptySet
<1>4. refcnt[k] = Cardinality(Users(k)) + (IF blockno[k] \in pinned THEN 1 ELSE 0)
  BY <1>1 DEF RefsCounted
<1>5. Cardinality(Users(k)) >= 1
  BY <1>3, UsersFinite, SMT
<1> HIDE DEF k
<1>6. refcnt[k] >= 1 /\ (blockno[k] \in pinned => refcnt[k] >= 2)
  BY <1>4, <1>5, UsersFinite, SMT
<1>7. QED
  BY <1>6 DEF k

----------------------------------------------------------------------------
\* Types

\* None is neither a process, nor a block, nor a value.
LEMMA NoneFresh == None \notin Procs /\ None \notin Blocks /\ None \notin Vals
  BY BcacheAssumption

\* Every step of the cache and its callers keeps the types.
LEMMA TypeStep == ASSUME IInv, NEW p \in Procs, Step(p) PROVE TypeOK'
<1>0. TypeOK /\ UserOK
  BY DEF IInv, RefOK
<1>1. ASSUME NEW b \in Blocks, NEW i \in Bufs, BgetHit(p, b, i) PROVE TypeOK'
  BY <1>0, <1>1, SMT DEF BgetHit, Enter, TypeOK, UserOK, cache
<1>2. ASSUME NEW b \in Blocks, BgetMiss(p, b) PROVE TypeOK'
  <2>1. CASE \E k \in Bufs : refcnt[k] = 0
    <3>1. PICK i \in Bufs : Recycle(b, order[i]) /\ Enter(p, b, order[i]) /\ panic' = panic
      BY <1>2, <2>1 DEF BgetMiss
    <3>2. order[i] \in Bufs
      BY <1>0 DEF TypeOK
    <3>3. QED
      BY <1>0, <1>2, <3>1, <3>2 DEF BgetMiss, Recycle, Enter, TypeOK
  <2>2. CASE ~ \E k \in Bufs : refcnt[k] = 0
    BY <1>0, <1>2, <2>2 DEF BgetMiss, TypeOK
  <2>3. QED
    BY <2>1, <2>2
<1>3. ASSUME AcquireSleep(p) PROVE TypeOK'
  BY <1>0, <1>3 DEF AcquireSleep, TypeOK, UserOK, cache
<1>4. ASSUME SleepOnLock(p) PROVE TypeOK'
  BY <1>0, <1>4 DEF SleepOnLock, TypeOK, UserOK, cache
<1>5. ASSUME KillWakes(p) PROVE TypeOK'
  BY <1>0, <1>5 DEF KillWakes, TypeOK, UserOK, cache
<1>6. ASSUME BreadHit(p) PROVE TypeOK'
  BY <1>0, <1>6 DEF BreadHit, TypeOK, UserOK, cache
<1>7. ASSUME BreadDisk(p) PROVE TypeOK'
  BY <1>0, <1>7 DEF BreadDisk, TypeOK, UserOK, cache
<1>8. ASSUME NEW v \in Vals, Modify(p, v) PROVE TypeOK'
  BY <1>0, <1>8 DEF Modify, TypeOK, UserOK, cache
<1>9. ASSUME bwrite(p) PROVE TypeOK'
  BY <1>0, <1>9 DEF IInv, ValidOK, TypeOK, UserOK, bwrite, cache
<1>10. ASSUME LogWrite(p) PROVE TypeOK'
  BY <1>0, <1>10, SMT DEF LogWrite, TypeOK, UserOK, cache
<1>11. ASSUME bunpin(p) PROVE TypeOK'
  BY <1>0, <1>11, UserReferences, BcacheAssumption, SMT DEF IInv, RefOK, TypeOK, UserOK, bunpin
<1>12. ASSUME ReleaseSleep(p) PROVE TypeOK'
  BY <1>0, <1>12 DEF ReleaseSleep, TypeOK, UserOK, cache
<1>13. ASSUME Unref(p) PROVE TypeOK'
  <2>1. refcnt' \in [Bufs -> Nat]
    BY <1>0, <1>13, UserReferences, SMT DEF IInv, RefOK, TypeOK, UserOK, Unref
  <2>2. \A i \in Bufs : ToFront(i) \in [Bufs -> Bufs]
    <3>1. TAKE i \in Bufs
    <3>2. \A j \in Bufs : j # 1 => j - 1 \in Bufs
      BY BcacheAssumption, SMT DEF Bufs
    <3>3. \A j \in Bufs : order[j] \in Bufs
      BY <1>0 DEF TypeOK
    <3>4. QED
      BY <3>2, <3>3 DEF ToFront
  <2>3. order' \in [Bufs -> Bufs]
    BY <1>0, <1>13, <2>2, SMT DEF TypeOK, Unref
  <2>4. QED
    BY <1>0, <1>13, <2>1, <2>3 DEF TypeOK, Unref
<1>14. QED
  BY <1>1, <1>2, <1>3, <1>4, <1>5, <1>6, <1>7, <1>8, <1>9, <1>10, <1>11, <1>12, <1>13 DEF Step

----------------------------------------------------------------------------
\* Blocks, locks and sleepers

\* Recycling never makes a second buffer for a block.
LEMMA OneBufferStep == ASSUME IInv, NEW p \in Procs, Step(p) PROVE OneBufferPerBlock'
<1>0. TypeOK /\ OneBufferPerBlock
  BY DEF IInv, RefOK
<1>1. ASSUME NEW b \in Blocks, NEW i \in Bufs, BgetHit(p, b, i) PROVE OneBufferPerBlock'
  BY <1>0, <1>1 DEF BgetHit, Enter, TypeOK, OneBufferPerBlock, cache
<1>2. ASSUME NEW b \in Blocks, BgetMiss(p, b) PROVE OneBufferPerBlock'
  BY <1>0, <1>2, SMT DEF BgetMiss, Enter, Recycle, Cached, TypeOK, OneBufferPerBlock, cache
<1>3. ASSUME AcquireSleep(p) PROVE OneBufferPerBlock'
  BY <1>0, <1>3 DEF AcquireSleep, TypeOK, OneBufferPerBlock, cache
<1>4. ASSUME SleepOnLock(p) PROVE OneBufferPerBlock'
  BY <1>0, <1>4 DEF SleepOnLock, TypeOK, OneBufferPerBlock, cache
<1>5. ASSUME KillWakes(p) PROVE OneBufferPerBlock'
  BY <1>0, <1>5 DEF KillWakes, TypeOK, OneBufferPerBlock, cache
<1>6. ASSUME BreadHit(p) PROVE OneBufferPerBlock'
  BY <1>0, <1>6 DEF BreadHit, TypeOK, OneBufferPerBlock, cache
<1>7. ASSUME BreadDisk(p) PROVE OneBufferPerBlock'
  BY <1>0, <1>7 DEF BreadDisk, TypeOK, OneBufferPerBlock, cache
<1>8. ASSUME NEW v \in Vals, Modify(p, v) PROVE OneBufferPerBlock'
  BY <1>0, <1>8 DEF Modify, TypeOK, OneBufferPerBlock, cache
<1>9. ASSUME bwrite(p) PROVE OneBufferPerBlock'
  BY <1>0, <1>9 DEF bwrite, TypeOK, OneBufferPerBlock, cache
<1>10. ASSUME LogWrite(p) PROVE OneBufferPerBlock'
  BY <1>0, <1>10 DEF LogWrite, TypeOK, OneBufferPerBlock, cache
<1>11. ASSUME bunpin(p) PROVE OneBufferPerBlock'
  BY <1>0, <1>11 DEF bunpin, TypeOK, OneBufferPerBlock, cache
<1>12. ASSUME ReleaseSleep(p) PROVE OneBufferPerBlock'
  BY <1>0, <1>12 DEF ReleaseSleep, TypeOK, OneBufferPerBlock, cache
<1>13. ASSUME Unref(p) PROVE OneBufferPerBlock'
  BY <1>0, <1>13 DEF Unref, ToFront, TypeOK, OneBufferPerBlock, cache
<1>14. QED
  BY <1>1, <1>2, <1>3, <1>4, <1>5, <1>6, <1>7, <1>8, <1>9, <1>10, <1>11, <1>12, <1>13 DEF Step

\* No step takes the buffer of a user away: only a buffer without references
\* is recycled.
LEMMA UserStep == ASSUME IInv, NEW p \in Procs, Step(p) PROVE UserOK'
<1>0. TypeOK /\ UserOK
  BY DEF IInv, RefOK
<1>1. ASSUME NEW b \in Blocks, NEW i \in Bufs, BgetHit(p, b, i) PROVE UserOK'
  BY <1>0, <1>1 DEF BgetHit, Enter, TypeOK, UserOK, cache
<1>2. ASSUME NEW b \in Blocks, BgetMiss(p, b) PROVE UserOK'
  BY <1>0, <1>2, UserReferences, SMT DEF IInv, RefOK, TypeOK, UserOK, BgetMiss, Enter, Recycle,
     Cached
<1>3. ASSUME AcquireSleep(p) PROVE UserOK'
  BY <1>0, <1>3 DEF AcquireSleep, TypeOK, UserOK, cache
<1>4. ASSUME SleepOnLock(p) PROVE UserOK'
  BY <1>0, <1>4 DEF SleepOnLock, TypeOK, UserOK, cache
<1>5. ASSUME KillWakes(p) PROVE UserOK'
  BY <1>0, <1>5 DEF KillWakes, TypeOK, UserOK, cache
<1>6. ASSUME BreadHit(p) PROVE UserOK'
  BY <1>0, <1>6 DEF BreadHit, TypeOK, UserOK, cache
<1>7. ASSUME BreadDisk(p) PROVE UserOK'
  BY <1>0, <1>7 DEF BreadDisk, TypeOK, UserOK, cache
<1>8. ASSUME NEW v \in Vals, Modify(p, v) PROVE UserOK'
  BY <1>0, <1>8 DEF Modify, TypeOK, UserOK, cache
<1>9. ASSUME bwrite(p) PROVE UserOK'
  BY <1>0, <1>9 DEF bwrite, TypeOK, UserOK, cache
<1>10. ASSUME LogWrite(p) PROVE UserOK'
  BY <1>0, <1>10 DEF LogWrite, TypeOK, UserOK, cache
<1>11. ASSUME bunpin(p) PROVE UserOK'
  BY <1>0, <1>11 DEF bunpin, TypeOK, UserOK, cache
<1>12. ASSUME ReleaseSleep(p) PROVE UserOK'
  BY <1>0, <1>12 DEF ReleaseSleep, TypeOK, UserOK, cache
<1>13. ASSUME Unref(p) PROVE UserOK'
  BY <1>0, <1>13 DEF Unref, ToFront, TypeOK, UserOK, cache
<1>14. QED
  BY <1>1, <1>2, <1>3, <1>4, <1>5, <1>6, <1>7, <1>8, <1>9, <1>10, <1>11, <1>12, <1>13 DEF Step

\* Who is past acquiresleep keeps the sleep-lock.
LEMMA HolderStep == ASSUME IInv, NEW p \in Procs, Step(p) PROVE HolderOK'
<1>0. TypeOK /\ UserOK /\ HolderOK /\ LockedOK
  BY DEF IInv, RefOK
<1>1. ASSUME NEW b \in Blocks, NEW i \in Bufs, BgetHit(p, b, i) PROVE HolderOK'
  BY <1>0, <1>1, NoneFresh, SMT DEF BgetHit, Enter, TypeOK, UserOK, HolderOK, LockedOK, cache
<1>2. ASSUME NEW b \in Blocks, BgetMiss(p, b) PROVE HolderOK'
  BY <1>0, <1>2, NoneFresh, SMT DEF BgetMiss, Enter, Recycle, Cached, TypeOK, UserOK, HolderOK,
     LockedOK, cache
<1>3. ASSUME AcquireSleep(p) PROVE HolderOK'
  BY <1>0, <1>3, NoneFresh, SMT DEF AcquireSleep, TypeOK, UserOK, HolderOK, LockedOK, cache
<1>4. ASSUME SleepOnLock(p) PROVE HolderOK'
  BY <1>0, <1>4, NoneFresh, SMT DEF SleepOnLock, TypeOK, UserOK, HolderOK, LockedOK, cache
<1>5. ASSUME KillWakes(p) PROVE HolderOK'
  BY <1>0, <1>5, NoneFresh, SMT DEF KillWakes, TypeOK, UserOK, HolderOK, LockedOK, cache
<1>6. ASSUME BreadHit(p) PROVE HolderOK'
  BY <1>0, <1>6, NoneFresh, SMT DEF BreadHit, TypeOK, UserOK, HolderOK, LockedOK, cache
<1>7. ASSUME BreadDisk(p) PROVE HolderOK'
  BY <1>0, <1>7, NoneFresh, SMT DEF BreadDisk, TypeOK, UserOK, HolderOK, LockedOK, cache
<1>8. ASSUME NEW v \in Vals, Modify(p, v) PROVE HolderOK'
  BY <1>0, <1>8, NoneFresh DEF Modify, TypeOK, UserOK, HolderOK, LockedOK, cache
<1>9. ASSUME bwrite(p) PROVE HolderOK'
  BY <1>0, <1>9, NoneFresh DEF bwrite, TypeOK, UserOK, HolderOK, LockedOK, cache
<1>10. ASSUME LogWrite(p) PROVE HolderOK'
  BY <1>0, <1>10, NoneFresh DEF LogWrite, TypeOK, UserOK, HolderOK, LockedOK, cache
<1>11. ASSUME bunpin(p) PROVE HolderOK'
  BY <1>0, <1>11, NoneFresh DEF bunpin, TypeOK, UserOK, HolderOK, LockedOK, cache
<1>12. ASSUME ReleaseSleep(p) PROVE HolderOK'
  BY <1>0, <1>12, NoneFresh, SMT DEF ReleaseSleep, TypeOK, UserOK, HolderOK, LockedOK, cache
<1>13. ASSUME Unref(p) PROVE HolderOK'
  BY <1>0, <1>13, NoneFresh, SMT DEF Unref, ToFront, TypeOK, UserOK, HolderOK, LockedOK, cache
<1>14. QED
  BY <1>1, <1>2, <1>3, <1>4, <1>5, <1>6, <1>7, <1>8, <1>9, <1>10, <1>11, <1>12, <1>13 DEF Step

\* A sleep-lock that is held has its holder inside.
LEMMA LockedStep == ASSUME IInv, NEW p \in Procs, Step(p) PROVE LockedOK'
<1>0. TypeOK /\ UserOK /\ HolderOK /\ LockedOK
  BY DEF IInv, RefOK
<1>1. ASSUME NEW b \in Blocks, NEW i \in Bufs, BgetHit(p, b, i) PROVE LockedOK'
  BY <1>0, <1>1, NoneFresh, SMT DEF BgetHit, Enter, TypeOK, UserOK, HolderOK, LockedOK, cache
<1>2. ASSUME NEW b \in Blocks, BgetMiss(p, b) PROVE LockedOK'
  BY <1>0, <1>2, NoneFresh, SMT DEF BgetMiss, Enter, Recycle, Cached, TypeOK, UserOK, HolderOK,
     LockedOK, cache
<1>3. ASSUME AcquireSleep(p) PROVE LockedOK'
  BY <1>0, <1>3, NoneFresh, SMT DEF AcquireSleep, TypeOK, UserOK, HolderOK, LockedOK, cache
<1>4. ASSUME SleepOnLock(p) PROVE LockedOK'
  BY <1>0, <1>4, NoneFresh, SMT DEF SleepOnLock, TypeOK, UserOK, HolderOK, LockedOK, cache
<1>5. ASSUME KillWakes(p) PROVE LockedOK'
  BY <1>0, <1>5, NoneFresh, SMT DEF KillWakes, TypeOK, UserOK, HolderOK, LockedOK, cache
<1>6. ASSUME BreadHit(p) PROVE LockedOK'
  BY <1>0, <1>6, NoneFresh, SMT DEF BreadHit, TypeOK, UserOK, HolderOK, LockedOK, cache
<1>7. ASSUME BreadDisk(p) PROVE LockedOK'
  BY <1>0, <1>7, NoneFresh, SMT DEF BreadDisk, TypeOK, UserOK, HolderOK, LockedOK, cache
<1>8. ASSUME NEW v \in Vals, Modify(p, v) PROVE LockedOK'
  BY <1>0, <1>8, NoneFresh DEF Modify, TypeOK, UserOK, HolderOK, LockedOK, cache
<1>9. ASSUME bwrite(p) PROVE LockedOK'
  BY <1>0, <1>9, NoneFresh DEF bwrite, TypeOK, UserOK, HolderOK, LockedOK, cache
<1>10. ASSUME LogWrite(p) PROVE LockedOK'
  BY <1>0, <1>10, NoneFresh DEF LogWrite, TypeOK, UserOK, HolderOK, LockedOK, cache
<1>11. ASSUME bunpin(p) PROVE LockedOK'
  BY <1>0, <1>11, NoneFresh DEF bunpin, TypeOK, UserOK, HolderOK, LockedOK, cache
<1>12. ASSUME ReleaseSleep(p) PROVE LockedOK'
  BY <1>0, <1>12, NoneFresh, SMT DEF ReleaseSleep, TypeOK, UserOK, HolderOK, LockedOK, cache
<1>13. ASSUME Unref(p) PROVE LockedOK'
  BY <1>0, <1>13, NoneFresh, SMT DEF Unref, ToFront, TypeOK, UserOK, HolderOK, LockedOK, cache
<1>14. QED
  BY <1>1, <1>2, <1>3, <1>4, <1>5, <1>6, <1>7, <1>8, <1>9, <1>10, <1>11, <1>12, <1>13 DEF Step

\* Steps leave nobody asleep on a free sleep-lock.
LEMMA SleepStep == ASSUME IInv, NEW p \in Procs, Step(p) PROVE SleeperHasHolder'
<1>0. TypeOK /\ UserOK /\ LockedOK /\ SleeperHasHolder
  BY DEF IInv, RefOK
<1>1. ASSUME NEW b \in Blocks, NEW i \in Bufs, BgetHit(p, b, i) PROVE SleeperHasHolder'
  BY <1>0, <1>1, NoneFresh, SMT DEF BgetHit, Enter, TypeOK, UserOK, LockedOK, SleeperHasHolder,
     cache
<1>2. ASSUME NEW b \in Blocks, BgetMiss(p, b) PROVE SleeperHasHolder'
  BY <1>0, <1>2, NoneFresh, SMT DEF BgetMiss, Enter, Recycle, Cached, TypeOK, UserOK, LockedOK,
     SleeperHasHolder, cache
<1>3. ASSUME AcquireSleep(p) PROVE SleeperHasHolder'
  BY <1>0, <1>3, NoneFresh, SMT DEF AcquireSleep, TypeOK, UserOK, LockedOK, SleeperHasHolder,
     cache
<1>4. ASSUME SleepOnLock(p) PROVE SleeperHasHolder'
  BY <1>0, <1>4, NoneFresh DEF SleepOnLock, TypeOK, UserOK, LockedOK, SleeperHasHolder, cache
<1>5. ASSUME KillWakes(p) PROVE SleeperHasHolder'
  BY <1>0, <1>5, NoneFresh, SMT DEF KillWakes, TypeOK, UserOK, LockedOK, SleeperHasHolder, cache
<1>6. ASSUME BreadHit(p) PROVE SleeperHasHolder'
  BY <1>0, <1>6, NoneFresh, SMT DEF BreadHit, TypeOK, UserOK, LockedOK, SleeperHasHolder, cache
<1>7. ASSUME BreadDisk(p) PROVE SleeperHasHolder'
  BY <1>0, <1>7, NoneFresh, SMT DEF BreadDisk, TypeOK, UserOK, LockedOK, SleeperHasHolder, cache
<1>8. ASSUME NEW v \in Vals, Modify(p, v) PROVE SleeperHasHolder'
  BY <1>0, <1>8, NoneFresh DEF Modify, TypeOK, UserOK, LockedOK, SleeperHasHolder, cache
<1>9. ASSUME bwrite(p) PROVE SleeperHasHolder'
  BY <1>0, <1>9, NoneFresh DEF bwrite, TypeOK, UserOK, LockedOK, SleeperHasHolder, cache
<1>10. ASSUME LogWrite(p) PROVE SleeperHasHolder'
  BY <1>0, <1>10, NoneFresh DEF LogWrite, TypeOK, UserOK, LockedOK, SleeperHasHolder, cache
<1>11. ASSUME bunpin(p) PROVE SleeperHasHolder'
  BY <1>0, <1>11, NoneFresh DEF bunpin, TypeOK, UserOK, LockedOK, SleeperHasHolder, cache
<1>12. ASSUME ReleaseSleep(p) PROVE SleeperHasHolder'
  BY <1>0, <1>12, NoneFresh DEF ReleaseSleep, TypeOK, UserOK, LockedOK, SleeperHasHolder, cache
<1>13. ASSUME Unref(p) PROVE SleeperHasHolder'
  BY <1>0, <1>13, NoneFresh, SMT DEF Unref, ToFront, TypeOK, UserOK, LockedOK,
     SleeperHasHolder, cache
<1>14. QED
  BY <1>1, <1>2, <1>3, <1>4, <1>5, <1>6, <1>7, <1>8, <1>9, <1>10, <1>11, <1>12, <1>13 DEF Step

----------------------------------------------------------------------------
\* Contents

\* A buffer in use stays valid.
LEMMA ValidStep == ASSUME IInv, NEW p \in Procs, Step(p) PROVE ValidOK'
<1>0. TypeOK /\ UserOK /\ ValidOK /\ LockedOK /\ HolderOK
  BY DEF IInv, RefOK
<1>1. ASSUME NEW b \in Blocks, NEW i \in Bufs, BgetHit(p, b, i) PROVE ValidOK'
  BY <1>0, <1>1, NoneFresh, SMT DEF BgetHit, Enter, TypeOK, UserOK, ValidOK, LockedOK,
     HolderOK, cache
<1>2. ASSUME NEW b \in Blocks, BgetMiss(p, b) PROVE ValidOK'
  BY <1>0, <1>2, UserReferences, SMT DEF IInv, RefOK, TypeOK, UserOK, ValidOK, BgetMiss, Enter,
     Recycle, Cached
<1>3. ASSUME AcquireSleep(p) PROVE ValidOK'
  BY <1>0, <1>3, NoneFresh, SMT DEF AcquireSleep, TypeOK, UserOK, ValidOK, LockedOK, HolderOK,
     cache
<1>4. ASSUME SleepOnLock(p) PROVE ValidOK'
  BY <1>0, <1>4, NoneFresh, SMT DEF SleepOnLock, TypeOK, UserOK, ValidOK, LockedOK, HolderOK,
     cache
<1>5. ASSUME KillWakes(p) PROVE ValidOK'
  BY <1>0, <1>5, NoneFresh, SMT DEF KillWakes, TypeOK, UserOK, ValidOK, LockedOK, HolderOK,
     cache
<1>6. ASSUME BreadHit(p) PROVE ValidOK'
  BY <1>0, <1>6, NoneFresh, SMT DEF BreadHit, TypeOK, UserOK, ValidOK, LockedOK, HolderOK, cache
<1>7. ASSUME BreadDisk(p) PROVE ValidOK'
  BY <1>0, <1>7, NoneFresh, SMT DEF BreadDisk, TypeOK, UserOK, ValidOK, LockedOK, HolderOK,
     cache
<1>8. ASSUME NEW v \in Vals, Modify(p, v) PROVE ValidOK'
  BY <1>0, <1>8, NoneFresh, SMT DEF Modify, TypeOK, UserOK, ValidOK, LockedOK, HolderOK, cache
<1>9. ASSUME bwrite(p) PROVE ValidOK'
  BY <1>0, <1>9, NoneFresh DEF bwrite, TypeOK, UserOK, ValidOK, LockedOK, HolderOK, cache
<1>10. ASSUME LogWrite(p) PROVE ValidOK'
  BY <1>0, <1>10, NoneFresh DEF LogWrite, TypeOK, UserOK, ValidOK, LockedOK, HolderOK, cache
<1>11. ASSUME bunpin(p) PROVE ValidOK'
  BY <1>0, <1>11, NoneFresh DEF bunpin, TypeOK, UserOK, ValidOK, LockedOK, HolderOK, cache
<1>12. ASSUME ReleaseSleep(p) PROVE ValidOK'
  BY <1>0, <1>12, NoneFresh DEF ReleaseSleep, TypeOK, UserOK, ValidOK, LockedOK, HolderOK, cache
<1>13. ASSUME Unref(p) PROVE ValidOK'
  BY <1>0, <1>13, NoneFresh, SMT DEF Unref, ToFront, TypeOK, UserOK, ValidOK, LockedOK,
     HolderOK, cache
<1>14. QED
  BY <1>1, <1>2, <1>3, <1>4, <1>5, <1>6, <1>7, <1>8, <1>9, <1>10, <1>11, <1>12, <1>13 DEF Step

\* What bwrite has written stays on disk while the buffer is held.
LEMMA WrittenStep == ASSUME IInv, NEW p \in Procs, Step(p) PROVE WrittenOK'
<1>0. TypeOK /\ UserOK /\ HolderOK /\ WrittenOK /\ OneBufferPerBlock
  BY DEF IInv, RefOK
<1>1. ASSUME NEW b \in Blocks, NEW i \in Bufs, BgetHit(p, b, i) PROVE WrittenOK'
  BY <1>0, <1>1, NoneFresh, SMT DEF BgetHit, Enter, TypeOK, UserOK, HolderOK, WrittenOK,
     OneBufferPerBlock, cache
<1>2. ASSUME NEW b \in Blocks, BgetMiss(p, b) PROVE WrittenOK'
  BY <1>0, <1>2, NoneFresh, SMT DEF BgetMiss, Enter, Recycle, Cached, TypeOK, UserOK, HolderOK,
     WrittenOK, OneBufferPerBlock, cache
<1>3. ASSUME AcquireSleep(p) PROVE WrittenOK'
  BY <1>0, <1>3, NoneFresh, SMT DEF AcquireSleep, TypeOK, UserOK, HolderOK, WrittenOK,
     OneBufferPerBlock, cache
<1>4. ASSUME SleepOnLock(p) PROVE WrittenOK'
  BY <1>0, <1>4, NoneFresh, SMT DEF SleepOnLock, TypeOK, UserOK, HolderOK, WrittenOK,
     OneBufferPerBlock, cache
<1>5. ASSUME KillWakes(p) PROVE WrittenOK'
  BY <1>0, <1>5, NoneFresh, SMT DEF KillWakes, TypeOK, UserOK, HolderOK, WrittenOK,
     OneBufferPerBlock, cache
<1>6. ASSUME BreadHit(p) PROVE WrittenOK'
  BY <1>0, <1>6, NoneFresh, SMT DEF BreadHit, TypeOK, UserOK, HolderOK, WrittenOK,
     OneBufferPerBlock, cache
<1>7. ASSUME BreadDisk(p) PROVE WrittenOK'
  BY <1>0, <1>7, NoneFresh, SMT DEF BreadDisk, TypeOK, UserOK, HolderOK, WrittenOK,
     OneBufferPerBlock, cache
<1>8. ASSUME NEW v \in Vals, Modify(p, v) PROVE WrittenOK'
  BY <1>0, <1>8, NoneFresh, SMT DEF Modify, TypeOK, UserOK, HolderOK, WrittenOK,
     OneBufferPerBlock, cache
<1>9. ASSUME bwrite(p) PROVE WrittenOK'
  BY <1>0, <1>9, NoneFresh, SMT DEF bwrite, TypeOK, UserOK, HolderOK, WrittenOK,
     OneBufferPerBlock, cache
<1>10. ASSUME LogWrite(p) PROVE WrittenOK'
  BY <1>0, <1>10, NoneFresh, SMT DEF LogWrite, TypeOK, UserOK, HolderOK, WrittenOK,
     OneBufferPerBlock, cache
<1>11. ASSUME bunpin(p) PROVE WrittenOK'
  BY <1>0, <1>11, NoneFresh DEF bunpin, TypeOK, UserOK, HolderOK, WrittenOK, OneBufferPerBlock,
     cache
<1>12. ASSUME ReleaseSleep(p) PROVE WrittenOK'
  BY <1>0, <1>12, NoneFresh, SMT DEF ReleaseSleep, TypeOK, UserOK, HolderOK, WrittenOK,
     OneBufferPerBlock, cache
<1>13. ASSUME Unref(p) PROVE WrittenOK'
  BY <1>0, <1>13, NoneFresh, SMT DEF Unref, ToFront, TypeOK, UserOK, HolderOK, WrittenOK,
     OneBufferPerBlock, cache
<1>14. QED
  BY <1>1, <1>2, <1>3, <1>4, <1>5, <1>6, <1>7, <1>8, <1>9, <1>10, <1>11, <1>12, <1>13 DEF Step

\* A change of a buffer is never without its pin or its holder.
LEMMA CleanStep == ASSUME IInv, NEW p \in Procs, Step(p) PROVE CleanOK'
<1>0. TypeOK /\ UserOK /\ ValidOK /\ HolderOK /\ LockedOK /\ CleanOK /\ WrittenOK /\ OneBufferPerBlock
  BY DEF IInv, RefOK
<1>1. ASSUME NEW b \in Blocks, NEW i \in Bufs, BgetHit(p, b, i) PROVE CleanOK'
  BY <1>0, <1>1, NoneFresh, SMT DEF BgetHit, Enter, TypeOK, UserOK, ValidOK, HolderOK,
     LockedOK, CleanOK, WrittenOK, OneBufferPerBlock, cache
<1>2. ASSUME NEW b \in Blocks, BgetMiss(p, b) PROVE CleanOK'
  BY <1>0, <1>2, NoneFresh, SMT DEF BgetMiss, Enter, Recycle, Cached, TypeOK, UserOK, ValidOK,
     HolderOK, LockedOK, CleanOK, WrittenOK, OneBufferPerBlock, cache
<1>3. ASSUME AcquireSleep(p) PROVE CleanOK'
  BY <1>0, <1>3, NoneFresh, SMT DEF AcquireSleep, TypeOK, UserOK, ValidOK, HolderOK, LockedOK,
     CleanOK, WrittenOK, OneBufferPerBlock, cache
<1>4. ASSUME SleepOnLock(p) PROVE CleanOK'
  BY <1>0, <1>4, NoneFresh, SMT DEF SleepOnLock, TypeOK, UserOK, ValidOK, HolderOK, LockedOK,
     CleanOK, WrittenOK, OneBufferPerBlock, cache
<1>5. ASSUME KillWakes(p) PROVE CleanOK'
  BY <1>0, <1>5, NoneFresh, SMT DEF KillWakes, TypeOK, UserOK, ValidOK, HolderOK, LockedOK,
     CleanOK, WrittenOK, OneBufferPerBlock, cache
<1>6. ASSUME BreadHit(p) PROVE CleanOK'
  BY <1>0, <1>6, NoneFresh, SMT DEF BreadHit, TypeOK, UserOK, ValidOK, HolderOK, LockedOK,
     CleanOK, WrittenOK, OneBufferPerBlock, cache
<1>7. ASSUME BreadDisk(p) PROVE CleanOK'
  BY <1>0, <1>7, NoneFresh, SMT DEF BreadDisk, TypeOK, UserOK, ValidOK, HolderOK, LockedOK,
     CleanOK, WrittenOK, OneBufferPerBlock, cache
<1>8. ASSUME NEW v \in Vals, Modify(p, v) PROVE CleanOK'
  BY <1>0, <1>8, NoneFresh, SMT DEF Modify, TypeOK, UserOK, ValidOK, HolderOK, LockedOK,
     CleanOK, WrittenOK, OneBufferPerBlock, cache
<1>9. ASSUME bwrite(p) PROVE CleanOK'
  BY <1>0, <1>9, NoneFresh, SMT DEF bwrite, TypeOK, UserOK, ValidOK, HolderOK, LockedOK,
     CleanOK, WrittenOK, OneBufferPerBlock, cache
<1>10. ASSUME LogWrite(p) PROVE CleanOK'
  BY <1>0, <1>10, NoneFresh, SMT DEF LogWrite, TypeOK, UserOK, ValidOK, HolderOK, LockedOK,
     CleanOK, WrittenOK, OneBufferPerBlock, cache
<1>11. ASSUME bunpin(p) PROVE CleanOK'
  BY <1>0, <1>11, NoneFresh, SMT DEF bunpin, TypeOK, UserOK, ValidOK, HolderOK, LockedOK,
     CleanOK, WrittenOK, OneBufferPerBlock, cache
<1>12. ASSUME ReleaseSleep(p) PROVE CleanOK'
  BY <1>0, <1>12, NoneFresh, SMT DEF ReleaseSleep, TypeOK, UserOK, ValidOK, HolderOK, LockedOK,
     CleanOK, WrittenOK, OneBufferPerBlock, cache
<1>13. ASSUME Unref(p) PROVE CleanOK'
  BY <1>0, <1>13, NoneFresh, SMT DEF Unref, ToFront, TypeOK, UserOK, ValidOK, HolderOK,
     LockedOK, CleanOK, WrittenOK, OneBufferPerBlock, cache
<1>14. QED
  BY <1>1, <1>2, <1>3, <1>4, <1>5, <1>6, <1>7, <1>8, <1>9, <1>10, <1>11, <1>12, <1>13 DEF Step

----------------------------------------------------------------------------
\* References and pins

\* The users of a buffer change only when a process enters or leaves.
LEMMA UsersSame ==
    ASSUME buf' = buf, \A q \in Procs : pc'[q] = "idle" <=> pc[q] = "idle"
    PROVE  \A k : Users(k)' = Users(k)
  BY DEF Users

\* A buffer without references has no users and no pin.
LEMMA Unreferenced ==
    ASSUME IInv, NEW k \in Bufs, refcnt[k] = 0
    PROVE  Users(k) = {} /\ blockno[k] \notin pinned
<1>1. refcnt[k] = Cardinality(Users(k)) + (IF blockno[k] \in pinned THEN 1 ELSE 0)
  BY DEF IInv, RefOK, RefsCounted
<1>2. Cardinality(Users(k)) = 0 /\ blockno[k] \notin pinned
  BY <1>1, UsersFinite, SMT
<1>3. QED
  BY <1>2, UsersFinite, FS_EmptySet

\* bget of a process that was outside makes it one more user of buffer k.
LEMMA UserEnters ==
    ASSUME TypeOK, NEW p \in Procs, NEW b \in Blocks, NEW k \in Bufs,
           pc[p] = "idle", Enter(p, b, k)
    PROVE  /\ Cardinality(Users(k)') = Cardinality(Users(k)) + 1
           /\ \A j \in Bufs \ {k} : Users(j)' = Users(j)
<1>1. Users(k)' = Users(k) \cup {p}
  BY DEF Enter, Users, TypeOK
<1>2. p \notin Users(k)
  BY DEF Users
<1>3. Cardinality(Users(k) \cup {p}) = Cardinality(Users(k)) + 1
  BY <1>2, UsersFinite, FS_AddElement
<1>4. \A j \in Bufs \ {k} : Users(j)' = Users(j)
  BY DEF Enter, Users, TypeOK
<1>5. QED
  BY <1>1, <1>3, <1>4

\* The end of brelse makes it one user less.
LEMMA UserLeaves ==
    ASSUME TypeOK, NEW p \in Procs, NEW k \in Bufs, buf[p] = k, Unref(p)
    PROVE  /\ Cardinality(Users(k)') = Cardinality(Users(k)) - 1
           /\ \A j \in Bufs \ {k} : Users(j)' = Users(j)
<1>1. Users(k)' = Users(k) \ {p}
  BY DEF Unref, Users, TypeOK
<1>2. p \in Users(k)
  BY DEF Unref, Users
<1>3. Cardinality(Users(k) \ {p}) = Cardinality(Users(k)) - 1
  BY <1>2, UsersFinite, FS_RemoveElement
<1>4. \A j \in Bufs \ {k} : Users(j)' = Users(j)
  BY DEF Unref, Users, TypeOK
<1>5. QED
  BY <1>1, <1>3, <1>4

\* A pinned block stays in the cache: its buffer is not recycled.
LEMMA PinnedStep == ASSUME IInv, NEW p \in Procs, Step(p) PROVE PinnedCached'
<1>0. TypeOK /\ UserOK /\ PinnedCached
  BY DEF IInv, RefOK
<1>1. ASSUME NEW b \in Blocks, NEW i \in Bufs, BgetHit(p, b, i) PROVE PinnedCached'
  BY <1>0, <1>1 DEF BgetHit, Enter, TypeOK, UserOK, PinnedCached, cache
<1>2. ASSUME NEW b \in Blocks, BgetMiss(p, b) PROVE PinnedCached'
  <2>1. CASE \E k \in Bufs : refcnt[k] = 0
    <3>1. PICK i \in Bufs : refcnt[order[i]] = 0 /\ Recycle(b, order[i])
      BY <1>2, <2>1 DEF BgetMiss
    <3>2. order[i] \in Bufs
      BY <1>0 DEF TypeOK
    <3>3. blockno[order[i]] \notin pinned
      BY <3>1, <3>2, Unreferenced
    <3>4. QED
      BY <1>0, <1>2, <3>1, <3>2, <3>3, SMT DEF BgetMiss, Recycle, TypeOK, PinnedCached
  <2>2. CASE ~ \E k \in Bufs : refcnt[k] = 0
    BY <1>0, <1>2, <2>2 DEF BgetMiss, PinnedCached
  <2>3. QED
    BY <2>1, <2>2
<1>3. ASSUME AcquireSleep(p) PROVE PinnedCached'
  BY <1>0, <1>3 DEF AcquireSleep, TypeOK, UserOK, PinnedCached, cache
<1>4. ASSUME SleepOnLock(p) PROVE PinnedCached'
  BY <1>0, <1>4 DEF SleepOnLock, TypeOK, UserOK, PinnedCached, cache
<1>5. ASSUME KillWakes(p) PROVE PinnedCached'
  BY <1>0, <1>5 DEF KillWakes, TypeOK, UserOK, PinnedCached, cache
<1>6. ASSUME BreadHit(p) PROVE PinnedCached'
  BY <1>0, <1>6 DEF BreadHit, TypeOK, UserOK, PinnedCached, cache
<1>7. ASSUME BreadDisk(p) PROVE PinnedCached'
  BY <1>0, <1>7 DEF BreadDisk, TypeOK, UserOK, PinnedCached, cache
<1>8. ASSUME NEW v \in Vals, Modify(p, v) PROVE PinnedCached'
  BY <1>0, <1>8 DEF Modify, TypeOK, UserOK, PinnedCached, cache
<1>9. ASSUME bwrite(p) PROVE PinnedCached'
  BY <1>0, <1>9 DEF bwrite, TypeOK, UserOK, PinnedCached, cache
<1>10. ASSUME LogWrite(p) PROVE PinnedCached'
  BY <1>0, <1>10, SMT DEF LogWrite, TypeOK, UserOK, PinnedCached, cache
<1>11. ASSUME bunpin(p) PROVE PinnedCached'
  BY <1>0, <1>11 DEF bunpin, TypeOK, UserOK, PinnedCached, cache
<1>12. ASSUME ReleaseSleep(p) PROVE PinnedCached'
  BY <1>0, <1>12 DEF ReleaseSleep, TypeOK, UserOK, PinnedCached, cache
<1>13. ASSUME Unref(p) PROVE PinnedCached'
  BY <1>0, <1>13 DEF Unref, ToFront, TypeOK, UserOK, PinnedCached, cache
<1>14. QED
  BY <1>1, <1>2, <1>3, <1>4, <1>5, <1>6, <1>7, <1>8, <1>9, <1>10, <1>11, <1>12, <1>13 DEF Step

\* Every step keeps the counts exact.
LEMMA RefsStep == ASSUME IInv, NEW p \in Procs, Step(p) PROVE RefsCounted'
<1>0. TypeOK /\ UserOK /\ RefsCounted /\ OneBufferPerBlock /\ PinnedCached
  BY DEF IInv, RefOK
<1>1. ASSUME NEW b \in Blocks, NEW i \in Bufs, BgetHit(p, b, i) PROVE RefsCounted'
  <2>1. order[i] \in Bufs
    BY <1>0 DEF TypeOK
  <2>2. PICK k \in Bufs : k = order[i]
    BY <2>1
  <2>3. /\ Cardinality(Users(k)') = Cardinality(Users(k)) + 1
        /\ \A j \in Bufs \ {k} : Users(j)' = Users(j)
    BY <1>0, <1>1, <2>2, UserEnters DEF BgetHit
  <2>4. QED
    BY <1>0, <1>1, <2>2, <2>3, UsersFinite, SMT DEF BgetHit, RefsCounted, TypeOK
<1>2. ASSUME NEW b \in Blocks, BgetMiss(p, b) PROVE RefsCounted'
  <2>1. CASE \E k \in Bufs : refcnt[k] = 0
    <3>1. PICK i \in Bufs : /\ refcnt[order[i]] = 0
                            /\ Recycle(b, order[i]) /\ Enter(p, b, order[i])
      BY <1>2, <2>1 DEF BgetMiss
    <3>2. PICK k \in Bufs : k = order[i]
      BY <1>0 DEF TypeOK
    <3>3. /\ Cardinality(Users(k)') = Cardinality(Users(k)) + 1
          /\ \A j \in Bufs \ {k} : Users(j)' = Users(j)
      BY <1>0, <1>2, <3>1, <3>2, UserEnters DEF BgetMiss
    <3>4. Cardinality(Users(k)) = 0
      BY <3>1, <3>2, Unreferenced, FS_EmptySet
    <3>5. b \notin pinned
      BY <1>0, <1>2 DEF BgetMiss, Cached, PinnedCached
    <3>6. QED
      BY <1>0, <1>2, <3>1, <3>2, <3>3, <3>4, <3>5, SMT DEF BgetMiss, Recycle, RefsCounted,
         TypeOK
  <2>2. CASE ~ \E k \in Bufs : refcnt[k] = 0
    BY <1>0, <1>2, <2>2, UsersSame DEF BgetMiss, RefsCounted
  <2>3. QED
    BY <2>1, <2>2
<1>3. ASSUME AcquireSleep(p) PROVE RefsCounted'
  BY <1>0, <1>3, UsersSame, SMT DEF RefsCounted, TypeOK, AcquireSleep, cache
<1>4. ASSUME SleepOnLock(p) PROVE RefsCounted'
  BY <1>0, <1>4, UsersSame DEF RefsCounted, TypeOK, SleepOnLock, cache
<1>5. ASSUME KillWakes(p) PROVE RefsCounted'
  BY <1>0, <1>5, UsersSame DEF RefsCounted, TypeOK, KillWakes, cache
<1>6. ASSUME BreadHit(p) PROVE RefsCounted'
  BY <1>0, <1>6, UsersSame DEF RefsCounted, TypeOK, BreadHit, cache
<1>7. ASSUME BreadDisk(p) PROVE RefsCounted'
  BY <1>0, <1>7, UsersSame DEF RefsCounted, TypeOK, BreadDisk, cache
<1>8. ASSUME NEW v \in Vals, Modify(p, v) PROVE RefsCounted'
  BY <1>0, <1>8, UsersSame DEF RefsCounted, TypeOK, Modify, cache
<1>9. ASSUME bwrite(p) PROVE RefsCounted'
  BY <1>0, <1>9, UsersSame DEF RefsCounted, TypeOK, bwrite, cache
<1>10. ASSUME LogWrite(p) PROVE RefsCounted'
  <2>1. \A k \in Bufs : Users(k)' = Users(k)
    BY <1>10, UsersSame DEF LogWrite
  <2>2. \A k \in Bufs : blockno[k] = want[p] <=> k = buf[p]
    BY <1>0, <1>10, NoneFresh DEF LogWrite, UserOK, OneBufferPerBlock
  <2>3. QED
    BY <1>0, <1>10, <2>1, <2>2, UsersFinite, SMT DEF LogWrite, RefsCounted, TypeOK
<1>11. ASSUME bunpin(p) PROVE RefsCounted'
  <2>1. \A k \in Bufs : Users(k)' = Users(k)
    BY <1>11, UsersSame DEF bunpin
  <2>2. \A k \in Bufs : blockno[k] = want[p] <=> k = buf[p]
    BY <1>0, <1>11, NoneFresh DEF bunpin, UserOK, OneBufferPerBlock
  <2>3. QED
    BY <1>0, <1>11, <2>1, <2>2, UsersFinite, SMT DEF bunpin, RefsCounted, TypeOK
<1>12. ASSUME ReleaseSleep(p) PROVE RefsCounted'
  BY <1>0, <1>12, UsersSame DEF RefsCounted, TypeOK, ReleaseSleep, cache
<1>13. ASSUME Unref(p) PROVE RefsCounted'
  <2>1. PICK k \in Bufs : k = buf[p]
    BY <1>0, <1>13 DEF Unref, UserOK
  <2>2. /\ Cardinality(Users(k)') = Cardinality(Users(k)) - 1
        /\ \A j \in Bufs \ {k} : Users(j)' = Users(j)
    BY <1>0, <1>13, <2>1, UserLeaves
  <2>3. QED
    BY <1>0, <1>13, <2>1, <2>2, UsersFinite, SMT DEF Unref, RefsCounted, TypeOK
<1>14. QED
  BY <1>1, <1>2, <1>3, <1>4, <1>5, <1>6, <1>7, <1>8, <1>9, <1>10, <1>11, <1>12, <1>13 DEF Step

----------------------------------------------------------------------------
\* A spare buffer

\* The image of a finite set under a function is no larger than the set.
LEMMA ImageBound ==
    ASSUME NEW D, IsFiniteSet(D), NEW f
    PROVE  /\ IsFiniteSet({f[x] : x \in D})
           /\ Cardinality({f[x] : x \in D}) <= Cardinality(D)
<1> DEFINE T == {f[x] : x \in D}
           g == [x \in D |-> f[x]]
<1>1. g \in Surjection(D, T)
  BY DEF Surjection
<1>2. QED
  BY <1>1, FS_Surjection

\* While a process is outside, some buffer is unreferenced: the others need
\* one buffer each, and the log one for each pin.
LEMMA SpareBuffer ==
    ASSUME IInv, NEW p \in Procs, pc[p] = "idle"
    PROVE  \E k \in Bufs : refcnt[k] = 0
<1> SUFFICES ASSUME \A k \in Bufs : refcnt[k] # 0
             PROVE  FALSE
  OBVIOUS
<1> DEFINE A == {buf[q] : q \in Procs \ {p}}
           where == [b \in pinned |-> CHOOSE k \in Bufs : blockno[k] = b]
           B == {where[b] : b \in pinned}
<1>0. /\ TypeOK /\ RefsCounted /\ OneBufferPerBlock /\ PinBound
      /\ PinnedCached
  BY DEF IInv, RefOK
<1>1. IsFiniteSet(A) /\ Cardinality(A) <= Cardinality(Procs) - 1
  <2>1. IsFiniteSet(Procs \ {p}) /\ Cardinality(Procs \ {p}) = Cardinality(Procs) - 1
    BY BcacheAssumption, FS_RemoveElement
  <2>2. QED
    BY <2>1, ImageBound
<1>2. IsFiniteSet(B) /\ Cardinality(B) <= Cardinality(pinned)
  BY <1>0, ImageBound DEF PinBound
<1>3. Bufs \subseteq A \cup B
  <2>1. SUFFICES ASSUME NEW k \in Bufs PROVE k \in A \cup B
    OBVIOUS
  <2>2. CASE Users(k) # {}
    <3>1. PICK q \in Procs : pc[q] # "idle" /\ buf[q] = k
      BY <2>2 DEF Users
    <3>2. QED
      BY <3>1
  <2>3. CASE Users(k) = {}
    <3>1. blockno[k] \in pinned
      BY <1>0, <2>3, FS_EmptySet, SMT DEF RefsCounted
    <3>2. blockno[k] # None
      BY <1>0, <3>1, NoneFresh DEF TypeOK
    <3>3. where[blockno[k]] = CHOOSE j \in Bufs : blockno[j] = blockno[k]
      BY <3>1
    <3>4. where[blockno[k]] \in Bufs /\ blockno[where[blockno[k]]] = blockno[k]
      BY <3>3
    <3> HIDE DEF where
    <3>5. where[blockno[k]] = k
      BY <1>0, <3>2, <3>4 DEF OneBufferPerBlock
    <3>6. QED
      BY <3>1, <3>5
  <2>4. QED
    BY <2>2, <2>3
<1>4. IsFiniteSet(A \cup B) /\ Cardinality(A \cup B) <= Cardinality(A) + Cardinality(B)
  <2>1. /\ IsFiniteSet(A \cup B) /\ Cardinality(A) \in Nat /\ Cardinality(B) \in Nat
        /\ Cardinality(A \cap B) \in Nat
        /\ Cardinality(A \cup B) = Cardinality(A) + Cardinality(B) - Cardinality(A \cap B)
    BY <1>1, <1>2, FS_Union, FS_Intersection, FS_CardinalityType
  <2> HIDE DEF A, B
  <2>2. QED
    BY <2>1, SMT
<1>5. Cardinality(Bufs) = NBUF
  BY BcacheAssumption, FS_Interval, SMT DEF Bufs
<1>6. Cardinality(Bufs) <= Cardinality(A \cup B)
  BY <1>3, <1>4, FS_Subset
<1>7. /\ Cardinality(A) \in Nat /\ Cardinality(B) \in Nat /\ Cardinality(A \cup B) \in Nat
      /\ Cardinality(Procs) \in Nat /\ Cardinality(pinned) \in Nat
  BY <1>0, <1>1, <1>2, <1>4, BcacheAssumption, FS_CardinalityType DEF PinBound
<1> HIDE DEF A, B
<1>8. QED
  BY <1>0, <1>1, <1>2, <1>4, <1>5, <1>6, <1>7, BcacheAssumption, SMT DEF PinBound

\* log_write keeps to the bound on pins.
LEMMA BoundStep == ASSUME IInv, NEW p \in Procs, Step(p) PROVE PinBound'
<1>0. TypeOK /\ PinBound
  BY DEF IInv, RefOK
<1>1. ASSUME NEW b \in Blocks, NEW i \in Bufs, BgetHit(p, b, i) PROVE PinBound'
  BY <1>0, <1>1 DEF BgetHit, Enter, TypeOK, PinBound, cache
<1>2. ASSUME NEW b \in Blocks, BgetMiss(p, b) PROVE PinBound'
  BY <1>0, <1>2 DEF BgetMiss, Enter, Recycle, Cached, TypeOK, PinBound, cache
<1>3. ASSUME AcquireSleep(p) PROVE PinBound'
  BY <1>0, <1>3 DEF AcquireSleep, TypeOK, PinBound, cache
<1>4. ASSUME SleepOnLock(p) PROVE PinBound'
  BY <1>0, <1>4 DEF SleepOnLock, TypeOK, PinBound, cache
<1>5. ASSUME KillWakes(p) PROVE PinBound'
  BY <1>0, <1>5 DEF KillWakes, TypeOK, PinBound, cache
<1>6. ASSUME BreadHit(p) PROVE PinBound'
  BY <1>0, <1>6 DEF BreadHit, TypeOK, PinBound, cache
<1>7. ASSUME BreadDisk(p) PROVE PinBound'
  BY <1>0, <1>7 DEF BreadDisk, TypeOK, PinBound, cache
<1>8. ASSUME NEW v \in Vals, Modify(p, v) PROVE PinBound'
  BY <1>0, <1>8 DEF Modify, TypeOK, PinBound, cache
<1>9. ASSUME bwrite(p) PROVE PinBound'
  BY <1>0, <1>9 DEF bwrite, TypeOK, PinBound, cache
<1>10. ASSUME LogWrite(p) PROVE PinBound'
  <2>1. /\ IsFiniteSet(pinned \cup {want[p]}) /\ Cardinality(pinned) \in Nat
        /\ Cardinality(pinned \cup {want[p]}) =
             IF want[p] \in pinned THEN Cardinality(pinned) ELSE Cardinality(pinned) + 1
    BY <1>0, FS_AddElement, FS_CardinalityType DEF PinBound
  <2>2. CASE want[p] \in pinned
    BY <1>0, <1>10, <2>2 DEF LogWrite, PinBound
  <2>3. CASE want[p] \notin pinned
    <3>1. Cardinality(pinned) < MaxPins /\ pinned' = pinned \cup {want[p]}
      BY <1>10, <2>3 DEF LogWrite
    <3>2. Cardinality(pinned) + 1 <= MaxPins
      BY <2>1, <3>1, BcacheAssumption, SMT
    <3>3. QED
      BY <2>1, <2>3, <3>1, <3>2 DEF PinBound
  <2>4. QED
    BY <2>2, <2>3
<1>11. ASSUME bunpin(p) PROVE PinBound'
  <2>1. /\ IsFiniteSet(pinned \ {want[p]}) /\ Cardinality(pinned) \in Nat
        /\ Cardinality(pinned \ {want[p]}) =
             IF want[p] \in pinned THEN Cardinality(pinned) - 1 ELSE Cardinality(pinned)
    BY <1>0, FS_RemoveElement, FS_CardinalityType DEF PinBound
  <2>2. QED
    BY <1>0, <1>11, <2>1, BcacheAssumption, SMT DEF bunpin, PinBound
<1>12. ASSUME ReleaseSleep(p) PROVE PinBound'
  BY <1>0, <1>12 DEF ReleaseSleep, TypeOK, PinBound, cache
<1>13. ASSUME Unref(p) PROVE PinBound'
  BY <1>0, <1>13 DEF Unref, ToFront, TypeOK, PinBound, cache
<1>14. QED
  BY <1>1, <1>2, <1>3, <1>4, <1>5, <1>6, <1>7, <1>8, <1>9, <1>10, <1>11, <1>12, <1>13 DEF Step

\* bget finds a buffer.
LEMMA PanicStep == ASSUME IInv, NEW p \in Procs, Step(p) PROVE NoPanic'
<1>0. NoPanic
  BY DEF IInv, RefOK
<1>1. ASSUME NEW b \in Blocks, NEW i \in Bufs, BgetHit(p, b, i) PROVE NoPanic'
  BY <1>0, <1>1 DEF BgetHit, Enter, NoPanic, cache
<1>2. ASSUME NEW b \in Blocks, BgetMiss(p, b) PROVE NoPanic'
  BY <1>0, <1>2, SpareBuffer DEF NoPanic, BgetMiss
<1>3. ASSUME AcquireSleep(p) PROVE NoPanic'
  BY <1>0, <1>3 DEF AcquireSleep, NoPanic, cache
<1>4. ASSUME SleepOnLock(p) PROVE NoPanic'
  BY <1>0, <1>4 DEF SleepOnLock, NoPanic, cache
<1>5. ASSUME KillWakes(p) PROVE NoPanic'
  BY <1>0, <1>5 DEF KillWakes, NoPanic, cache
<1>6. ASSUME BreadHit(p) PROVE NoPanic'
  BY <1>0, <1>6 DEF BreadHit, NoPanic, cache
<1>7. ASSUME BreadDisk(p) PROVE NoPanic'
  BY <1>0, <1>7 DEF BreadDisk, NoPanic, cache
<1>8. ASSUME NEW v \in Vals, Modify(p, v) PROVE NoPanic'
  BY <1>0, <1>8 DEF Modify, NoPanic, cache
<1>9. ASSUME bwrite(p) PROVE NoPanic'
  BY <1>0, <1>9 DEF bwrite, NoPanic, cache
<1>10. ASSUME LogWrite(p) PROVE NoPanic'
  BY <1>0, <1>10 DEF LogWrite, NoPanic, cache
<1>11. ASSUME bunpin(p) PROVE NoPanic'
  BY <1>0, <1>11 DEF bunpin, NoPanic, cache
<1>12. ASSUME ReleaseSleep(p) PROVE NoPanic'
  BY <1>0, <1>12 DEF ReleaseSleep, NoPanic, cache
<1>13. ASSUME Unref(p) PROVE NoPanic'
  BY <1>0, <1>13 DEF Unref, ToFront, NoPanic, cache
<1>14. QED
  BY <1>1, <1>2, <1>3, <1>4, <1>5, <1>6, <1>7, <1>8, <1>9, <1>10, <1>11, <1>12, <1>13 DEF Step

----------------------------------------------------------------------------
\* The inductive invariant

\* binit establishes the invariant.
LEMMA InitInv == Init => IInv
<1> SUFFICES ASSUME Init PROVE IInv
  OBVIOUS
<1>1. TypeOK
  <2>1. order \in [Bufs -> Bufs]
    BY BcacheAssumption, SMT DEF Init, Bufs
  <2>2. QED
    BY <2>1 DEF Init, TypeOK
<1>2. RefOK
  <2>1. \A k : Users(k) = {}
    BY DEF Init, Users
  <2>2. QED
    BY <2>1, FS_EmptySet, SMT DEF Init, RefOK, RefsCounted, PinnedCached
<1>3. PinBound
  BY BcacheAssumption, FS_EmptySet, SMT DEF Init, PinBound
<1>4. /\ OneBufferPerBlock /\ UserOK /\ HolderOK /\ LockedOK /\ ValidOK /\ CleanOK
      /\ WrittenOK /\ SleeperHasHolder /\ NoPanic
  BY DEF Init, OneBufferPerBlock, UserOK, HolderOK, LockedOK, ValidOK, CleanOK, WrittenOK,
     SleeperHasHolder, NoPanic
<1>5. QED
  BY <1>1, <1>2, <1>3, <1>4 DEF IInv

\* Steps that change nothing keep the invariant.
LEMMA StutterInv == IInv /\ UNCHANGED vars => IInv'
<1> SUFFICES ASSUME IInv, UNCHANGED vars PROVE IInv'
  OBVIOUS
<1> USE DEF vars, cache
<1>1. RefOK'
  BY UsersSame DEF IInv, RefOK, RefsCounted, PinnedCached
<1>2. /\ TypeOK' /\ OneBufferPerBlock' /\ UserOK' /\ HolderOK' /\ LockedOK' /\ ValidOK'
      /\ CleanOK' /\ WrittenOK' /\ SleeperHasHolder' /\ PinBound' /\ NoPanic'
  BY DEF IInv, TypeOK, OneBufferPerBlock, UserOK, HolderOK, LockedOK, ValidOK, CleanOK,
     WrittenOK, SleeperHasHolder, PinBound, NoPanic
<1>3. QED
  BY <1>1, <1>2 DEF IInv

\* The invariant holds in every reachable state.
THEOREM Invariance == Spec => []IInv
<1>1. IInv /\ [Next]_vars => IInv'
  <2>1. ASSUME IInv, NEW p \in Procs, Step(p) PROVE IInv'
    BY <2>1, TypeStep, OneBufferStep, UserStep, HolderStep, LockedStep, SleepStep, ValidStep,
       WrittenStep, CleanStep, PinnedStep, RefsStep, BoundStep, PanicStep DEF IInv, RefOK
  <2>2. QED
    BY <2>1, StutterInv DEF Next
<1>2. QED
  BY <1>1, InitInv, PTL DEF Spec

\* The variables of the cache keep their types; in particular no bunpin and no
\* brelse takes a reference count below zero.
THEOREM TypeCorrect == Spec => []TypeOK
<1>1. IInv => TypeOK
  BY DEF IInv
<1>2. QED
  BY <1>1, Invariance, PTL

\* bget never has two buffers for one block.
THEOREM NoDuplicateBuffer == Spec => []OneBufferPerBlock
<1>1. IInv => OneBufferPerBlock
  BY DEF IInv
<1>2. QED
  BY <1>1, Invariance, PTL

\* refcnt counts the users and the pin of each buffer exactly.
THEOREM ReferencesExact == Spec => []RefsCounted
<1>1. IInv => RefsCounted
  BY DEF IInv, RefOK
<1>2. QED
  BY <1>1, Invariance, PTL

\* bget does not panic: NBUF buffers are enough for one buffer in the hands of
\* each process and MaxPins pinned ones.
THEOREM BuffersSuffice == Spec => []NoPanic
<1>1. IInv => NoPanic
  BY DEF IInv
<1>2. QED
  BY <1>1, Invariance, PTL

\* releasesleep leaves nobody asleep on a free lock.
THEOREM NoLostSleeper == Spec => []SleeperHasHolder
<1>1. IInv => SleeperHasHolder
  BY DEF IInv
<1>2. QED
  BY <1>1, Invariance, PTL

----------------------------------------------------------------------------
\* The buffer cache implements BlockStore


\* What the refinement mapping computes, without its CHOOSE.
ContentOK == /\ \A k \in Bufs : valid[k] => Content(blockno[k]) = data[k]
             /\ \A b \in Blocks : (\A k \in Bufs : valid[k] => blockno[k] # b) =>
                  Content(b) = disk[b]
HasOwner == /\ \A p \in Procs : pc[p] = "use" => Holder(want[p]) = p
            /\ \A b \in Blocks : (\A p \in Procs : pc[p] = "use" => want[p] # b) =>
                 Holder(b) = None

\* The mapping picks the one valid buffer and the one user of a block.
LEMMA Mapping == IInv => ContentOK /\ HasOwner
<1> SUFFICES ASSUME IInv PROVE ContentOK /\ HasOwner
  OBVIOUS
<1>0. TypeOK /\ OneBufferPerBlock /\ UserOK /\ HolderOK /\ ValidOK
  BY DEF IInv
<1>1. ASSUME NEW k \in Bufs, valid[k] PROVE Content(blockno[k]) = data[k]
  <2> DEFINE j == CHOOSE j \in Bufs : blockno[j] = blockno[k] /\ valid[j]
  <2>1. j \in Bufs /\ blockno[j] = blockno[k]
    BY <1>1
  <2>2. Content(blockno[k]) = data[j]
    BY <1>1 DEF Content
  <2> HIDE DEF j
  <2>3. j = k
    BY <1>0, <1>1, <2>1, NoneFresh DEF OneBufferPerBlock, ValidOK
  <2>4. QED
    BY <2>2, <2>3
<1>2. ASSUME NEW b \in Blocks, \A k \in Bufs : valid[k] => blockno[k] # b
      PROVE  Content(b) = disk[b]
  BY <1>2 DEF Content
<1>3. ASSUME NEW p \in Procs, pc[p] = "use" PROVE Holder(want[p]) = p
  <2> DEFINE q == CHOOSE q \in Procs : pc[q] = "use" /\ want[q] = want[p]
  <2>1. q \in Procs /\ pc[q] = "use" /\ want[q] = want[p]
    BY <1>3
  <2>2. Holder(want[p]) = q
    BY <1>3 DEF Holder
  <2> HIDE DEF q
  <2>3. buf[q] = buf[p]
    BY <1>0, <1>3, <2>1, NoneFresh DEF UserOK, OneBufferPerBlock
  <2>4. q = p
    BY <1>0, <1>3, <2>1, <2>3 DEF HolderOK
  <2>5. QED
    BY <2>2, <2>4
<1>4. ASSUME NEW b \in Blocks, \A p \in Procs : pc[p] = "use" => want[p] # b
      PROVE  Holder(b) = None
  BY <1>4 DEF Holder
<1>5. QED
  BY <1>1, <1>2, <1>3, <1>4 DEF ContentOK, HasOwner

\* Contents stay when buffers and disk do.
LEMMA StoreFrame == ASSUME UNCHANGED <<blockno, valid, data, disk>> PROVE Store' = Store
  BY DEF Store, Content

\* Owners stay when the processes that use a buffer do.
LEMMA OwnerFrame ==
    ASSUME \A q \in Procs : /\ pc'[q] = "use" <=> pc[q] = "use"
                            /\ pc[q] = "use" => want'[q] = want[q],
           HasOwner, HasOwner'
    PROVE  Owner' = Owner
<1>1. ASSUME NEW b \in Blocks PROVE Holder(b)' = Holder(b)
  BY SMT DEF HasOwner
<1>2. QED
  BY <1>1 DEF Owner

----------------------------------------------------------------------------
\* Steps

\* Recycling a buffer loses nothing: it has no user and no pin, so the disk
\* has its contents.
LEMMA MissKeepsStore ==
    ASSUME IInv, IInv', NEW p \in Procs, NEW b \in Blocks, BgetMiss(p, b)
    PROVE  Store' = Store
<1>0. /\ TypeOK /\ ValidOK /\ CleanOK /\ LockedOK /\ OneBufferPerBlock /\ TypeOK'
      /\ ContentOK /\ ContentOK'
  BY Mapping, PTL DEF IInv
<1>1. PICK k \in Bufs : refcnt[k] = 0 /\ Recycle(b, k)
  BY <1>0, SpareBuffer DEF BgetMiss, TypeOK
<1>2. /\ data' = data /\ disk' = disk
      /\ \A j \in Bufs : blockno[j] # b
      /\ ~valid'[k] /\ \A j \in Bufs \ {k} : blockno'[j] = blockno[j] /\ valid'[j] = valid[j]
  BY <1>0, <1>1, SMT DEF BgetMiss, Recycle, Cached, TypeOK
<1>3. valid[k] => data[k] = disk[blockno[k]]
  <2>1. Users(k) = {} /\ blockno[k] \notin pinned
    BY <1>1, Unreferenced
  <2>2. locked[k] = None
    BY <1>0, <2>1, SMT DEF Users, LockedOK, TypeOK
  <2>3. QED
    BY <1>0, <2>1, <2>2 DEF CleanOK
<1>4. ASSUME NEW c \in Blocks PROVE Content(c)' = Content(c)
  <2>1. CASE \E j \in Bufs \ {k} : valid[j] /\ blockno[j] = c
    BY <1>0, <1>2, <2>1, SMT DEF ContentOK
  <2>2. CASE ~ \E j \in Bufs \ {k} : valid[j] /\ blockno[j] = c
    <3>1. Content(c)' = disk[c]
      BY <1>0, <1>2, <2>2, SMT DEF ContentOK
    <3>2. Content(c) = disk[c]
      BY <1>0, <1>2, <1>3, <2>2, SMT DEF ContentOK
    <3>3. QED
      BY <3>1, <3>2
  <2>3. QED
    BY <2>1, <2>2
<1>5. QED
  BY <1>4 DEF Store

\* The end of bread: the process becomes the owner, and a disk read brings in
\* what the block already contained.
LEMMA BreadTakes ==
    ASSUME IInv, IInv', NEW p \in Procs, BreadHit(p) \/ BreadDisk(p)
    PROVE  S!Take(p, want[p]) /\ want[p] \in Blocks
<1>0. /\ TypeOK /\ UserOK /\ HolderOK /\ OneBufferPerBlock
      /\ ContentOK /\ ContentOK' /\ HasOwner /\ HasOwner'
  BY Mapping, PTL DEF IInv
<1>1. /\ pc[p] = "locked" /\ pc' = [pc EXCEPT ![p] = "use"]
      /\ UNCHANGED <<want, buf, blockno, disk>>
      /\ want[p] \in Blocks /\ buf[p] \in Bufs /\ blockno[buf[p]] = want[p]
  BY <1>0 DEF BreadHit, BreadDisk, UserOK, cache
<1>2. \A q \in Procs : pc[q] = "use" => want[q] # want[p]
  BY <1>0, <1>1, NoneFresh, SMT DEF UserOK, HolderOK, OneBufferPerBlock
<1>3. Holder(want[p]) = None
  BY <1>0, <1>1, <1>2 DEF HasOwner
<1>4. ASSUME NEW b \in Blocks PROVE Holder(b)' = IF b = want[p] THEN p ELSE Holder(b)
  BY <1>0, <1>1, <1>2, SMT DEF HasOwner, TypeOK
<1>5. Owner' = [Owner EXCEPT ![want[p]] = p]
  BY <1>1, <1>4 DEF Owner
<1>6. Store' = Store
  <2>1. CASE BreadHit(p)
    BY <2>1, StoreFrame DEF BreadHit, cache
  <2>2. CASE BreadDisk(p)
    <3>1. \A j \in Bufs : blockno[j] = want[p] => j = buf[p]
      BY <1>0, <1>1, NoneFresh DEF OneBufferPerBlock
    <3>2. ~valid[buf[p]] /\ valid' = [valid EXCEPT ![buf[p]] = TRUE]
          /\ data' = [data EXCEPT ![buf[p]] = disk[want[p]]]
      BY <1>1, <2>2 DEF BreadDisk
    <3>3. ASSUME NEW b \in Blocks PROVE Content(b)' = Content(b)
      <4>1. CASE b = want[p]
        <5>1. Content(b) = disk[b]
          BY <1>0, <3>1, <3>2, <4>1 DEF ContentOK
        <5>2. Content(b)' = disk[b]
          BY <1>0, <1>1, <3>2, <4>1, SMT DEF ContentOK, TypeOK
        <5>3. QED
          BY <5>1, <5>2
      <4>2. CASE b # want[p]
        BY <1>0, <1>1, <3>2, <4>2, SMT DEF ContentOK, TypeOK
      <4>3. QED
        BY <4>1, <4>2
    <3>4. QED
      BY <3>3 DEF Store
  <2>3. QED
    BY <2>1, <2>2
<1>7. QED
  BY <1>1, <1>3, <1>5, <1>6 DEF S!Take, Owner

\* A caller that writes into its buffer changes its own block only.
LEMMA ModifyChanges ==
    ASSUME IInv, IInv', NEW p \in Procs, NEW v \in Vals, Modify(p, v)
    PROVE  S!Change(p, want[p], v) /\ want[p] \in Blocks
<1>0. /\ TypeOK /\ UserOK /\ ValidOK /\ OneBufferPerBlock
      /\ ContentOK /\ ContentOK' /\ HasOwner /\ HasOwner'
  BY Mapping, PTL DEF IInv
<1>1. /\ pc[p] = "use" /\ UNCHANGED <<pc, want, blockno, valid, disk>>
      /\ data' = [data EXCEPT ![buf[p]] = v]
      /\ want[p] \in Blocks /\ buf[p] \in Bufs /\ blockno[buf[p]] = want[p] /\ valid[buf[p]]
  BY <1>0 DEF Modify, UserOK, ValidOK, cache
<1>2. Owner' = Owner
  BY <1>0, <1>1, OwnerFrame
<1>3. \A j \in Bufs : blockno[j] = want[p] => j = buf[p]
  BY <1>0, <1>1, NoneFresh DEF OneBufferPerBlock
<1>4. ASSUME NEW b \in Blocks PROVE Content(b)' = IF b = want[p] THEN v ELSE Content(b)
  BY <1>0, <1>1, <1>3, SMT DEF ContentOK, TypeOK
<1>5. Store' = [Store EXCEPT ![want[p]] = v]
  BY <1>1, <1>4 DEF Store
<1>6. QED
  BY <1>0, <1>1, <1>2, <1>5 DEF S!Change, Owner, HasOwner

\* bwrite changes the disk under a valid buffer, which nobody can see.
LEMMA WriteKeepsStore ==
    ASSUME IInv, IInv', NEW p \in Procs, bwrite(p)
    PROVE  Store' = Store
<1>0. TypeOK /\ UserOK /\ ValidOK /\ ContentOK /\ ContentOK'
  BY Mapping, PTL DEF IInv
<1>1. /\ UNCHANGED <<blockno, valid, data>>
      /\ buf[p] \in Bufs /\ blockno[buf[p]] = want[p] /\ valid[buf[p]]
      /\ disk' = [disk EXCEPT ![want[p]] = data[buf[p]]]
  BY <1>0 DEF bwrite, UserOK, ValidOK, cache
<1>2. ASSUME NEW b \in Blocks PROVE Content(b)' = Content(b)
  <2>1. CASE \E k \in Bufs : valid[k] /\ blockno[k] = b
    BY <1>0, <1>1, <2>1, SMT DEF ContentOK
  <2>2. CASE ~ \E k \in Bufs : valid[k] /\ blockno[k] = b
    BY <1>0, <1>1, <2>2, SMT DEF ContentOK, TypeOK
  <2>3. QED
    BY <2>1, <2>2
<1>3. QED
  BY <1>2 DEF Store

\* brelse gives the block up when it releases the sleep-lock.
LEMMA ReleaseGives ==
    ASSUME IInv, IInv', NEW p \in Procs, ReleaseSleep(p)
    PROVE  S!Give(p, want[p]) /\ want[p] \in Blocks
<1>0. TypeOK /\ UserOK /\ HolderOK /\ OneBufferPerBlock /\ HasOwner /\ HasOwner'
  BY Mapping, PTL DEF IInv
<1>1. /\ pc[p] = "use" /\ UNCHANGED <<want, blockno, valid, data, disk>>
      /\ \A q \in Procs : pc'[q] = "use" <=> pc[q] = "use" /\ q # p
      /\ want[p] \in Blocks
  BY <1>0 DEF ReleaseSleep, UserOK, cache
<1>2. \A q \in Procs : pc[q] = "use" /\ want[q] = want[p] => q = p
  BY <1>0, <1>1 DEF HasOwner
<1>3. ASSUME NEW b \in Blocks PROVE Holder(b)' = IF b = want[p] THEN None ELSE Holder(b)
  <2>1. CASE b = want[p]
    BY <1>0, <1>1, <1>2, <2>1 DEF HasOwner
  <2>2. CASE b # want[p]
    BY <1>0, <1>1, <2>2, SMT DEF HasOwner
  <2>3. QED
    BY <2>1, <2>2
<1>4. Owner' = [Owner EXCEPT ![want[p]] = None]
  BY <1>1, <1>3 DEF Owner
<1>5. Store' = Store
  BY <1>1, StoreFrame
<1>6. QED
  BY <1>0, <1>1, <1>4, <1>5 DEF S!Give, Owner, HasOwner

\* The other steps are invisible.
LEMMA OtherSteps ==
    ASSUME IInv, IInv', NEW p \in Procs,
           \/ \E b \in Blocks, i \in Bufs : BgetHit(p, b, i)
           \/ AcquireSleep(p) \/ SleepOnLock(p) \/ KillWakes(p)
           \/ LogWrite(p) \/ bunpin(p) \/ Unref(p)
    PROVE  Store' = Store /\ Owner' = Owner
<1>0. TypeOK /\ HasOwner /\ HasOwner'
  BY Mapping, PTL DEF IInv
<1>1. UNCHANGED <<blockno, valid, data, disk>>
  BY DEF BgetHit, AcquireSleep, SleepOnLock, KillWakes, LogWrite, bunpin, Unref, cache
<1>2. \A q \in Procs : /\ pc'[q] = "use" <=> pc[q] = "use"
                       /\ pc[q] = "use" => want'[q] = want[q]
  BY <1>0, SMT DEF TypeOK, BgetHit, Enter, AcquireSleep, SleepOnLock, KillWakes, LogWrite,
     bunpin, Unref
<1>3. QED
  BY <1>0, <1>1, <1>2, StoreFrame, OwnerFrame

----------------------------------------------------------------------------
\* bread, bwrite and brelse implement a store of locked blocks: a process that
\* has a block sees the latest contents and is alone in changing them, for any
\* number of processes and buffers, whatever is evicted and read again.
THEOREM CacheIsBlockStore == Spec => IsBlockStore
<1>1. Init => S!BInit
  <2> SUFFICES ASSUME Init PROVE S!BInit
    OBVIOUS
  <2>1. ContentOK /\ HasOwner
    BY InitInv, Mapping
  <2>2. \A b \in Blocks : Content(b) = disk[b] /\ Holder(b) = None
    BY <2>1 DEF Init, ContentOK, HasOwner
  <2>3. QED
    BY <2>2 DEF Init, S!BInit, Store, Owner
<1>2. IInv /\ IInv' /\ [Next]_vars => [S!BNext]_(S!bvars)
  <2> SUFFICES ASSUME IInv, IInv', [Next]_vars PROVE [S!BNext]_(S!bvars)
    OBVIOUS
  <2>0. HasOwner /\ HasOwner' /\ TypeOK
    BY Mapping, PTL DEF IInv
  <2>1. ASSUME NEW p \in Procs, Step(p) PROVE [S!BNext]_(S!bvars)
    <3>1. ASSUME NEW b \in Blocks, BgetMiss(p, b) PROVE Store' = Store /\ Owner' = Owner
      <4>1. \A q \in Procs : /\ pc'[q] = "use" <=> pc[q] = "use"
                             /\ pc[q] = "use" => want'[q] = want[q]
        BY <2>0, <3>1 DEF TypeOK, BgetMiss, Enter
      <4>2. QED
        BY <2>0, <3>1, <4>1, MissKeepsStore, OwnerFrame
    <3>2. CASE BreadHit(p) \/ BreadDisk(p)
      BY <3>2, BreadTakes DEF S!BNext
    <3>3. ASSUME NEW v \in Vals, Modify(p, v) PROVE S!BNext
      BY <3>3, ModifyChanges DEF S!BNext
    <3>4. CASE bwrite(p)
      <4>1. UNCHANGED <<pc, want>>
        BY <3>4 DEF bwrite
      <4>2. QED
        BY <2>0, <3>4, <4>1, WriteKeepsStore, OwnerFrame DEF S!bvars
    <3>5. CASE ReleaseSleep(p)
      BY <3>5, ReleaseGives DEF S!BNext
    <3>6. QED
      BY <2>1, <3>1, <3>2, <3>3, <3>4, <3>5, OtherSteps DEF Step, S!bvars
  <2>2. CASE UNCHANGED vars
    <3>1. UNCHANGED <<pc, want, blockno, valid, data, disk>>
      BY <2>2 DEF vars, cache
    <3>2. QED
      BY <2>0, <3>1, StoreFrame, OwnerFrame DEF S!bvars
  <2>3. QED
    BY <2>1, <2>2 DEF Next
<1>3. QED
  BY <1>1, <1>2, Invariance, PTL DEF Spec, IsBlockStore, S!BSpec
============================================================================
