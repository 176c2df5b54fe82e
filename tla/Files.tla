------------------------------- MODULE Files -------------------------------
(***************************************************************************)
(* Open files and the blocks of their data: kernel/file.c, the calls of    *)
(* kernel/sysfile.c on descriptors, and the block layer of kernel/fs.c     *)
(* (balloc, bfree, bmap, itrunc, readi, writei).                           *)
(*                                                                         *)
(* A step is one critical section of ftable.lock, or what one block of a   *)
(* transfer needs: processes compete for blocks between the blocks of a    *)
(* transfer, and for an inode's lock between the chunks of filewrite.      *)
(* Names and the inode table are Fs's: here a file is found by its inode   *)
(* while it is linked.  Data in pipes is Pipe's.                           *)
(***************************************************************************)
EXTENDS Integers, Sequences, FiniteSetsExt, TLC

CONSTANTS Procs, first,       \* first is the process there is at the start
          NFILE, NOFILE,
          Inums,
          NDIRECT, NINDIRECT,
          BSIZE,              \* bytes, or block numbers, in a block
          NBlocks,            \* data blocks of the disk
          MaxChunk,           \* filewrite's max
          Sizes,              \* lengths of reads and writes; a process writes bytes of its own
          Workloads,          \* what programs there are: the calls of each process
          None

ASSUME FilesAssumption ==
    /\ NFILE \in Nat \ {0} /\ NOFILE \in Nat \ {0} /\ NDIRECT \in Nat \ {0}
    /\ BSIZE \in Nat \ {0} /\ NINDIRECT \in 1..BSIZE /\ NBlocks \in Nat
    /\ MaxChunk \in Nat \ {0} /\ first \in Procs /\ None \notin Procs \cup Inums

FileSlots == 1..NFILE
Fds == 0..NOFILE - 1
Blocks == 1..NBlocks
MAXFILE == NDIRECT + NINDIRECT

VARIABLES ofile,   \* of each process: its descriptors (0: free)
          file,    \* struct file: ref, type, ip, off
          ino,     \* struct inode: whether linked, in use; ref, size, addrs, lock
          used,    \* the bitmap: blocks in use
          blk,     \* contents of the blocks
          pr,      \* of each process: its calls, its place in one, and that one's locals
          panic

vars == <<ofile, file, ino, used, blk, pr, panic>>

NoFile == [ref |-> 0, type |-> "none", ip |-> None, off |-> 0]
FreeIno == [inuse |-> FALSE, nlink |-> 0, ref |-> 0, size |-> 0,
            addrs |-> [k \in 0..NDIRECT |-> 0], lock |-> None]
Zeroes == [k \in 0..BSIZE - 1 |-> 0]
Idle == [pc |-> "idle", f |-> 0, ip |-> None, trunc |-> FALSE, left |-> 0,
         todo |-> 0, woff |-> 0, wf |-> 0, exiting |-> FALSE]

Init == /\ ofile = [p \in Procs |-> [d \in Fds |-> 0]]
        /\ file = [f \in FileSlots |-> NoFile]
        /\ ino = [i \in Inums |-> FreeIno]
        /\ used = {}
        /\ blk = [b \in Blocks |-> Zeroes]
        /\ \E w \in Workloads :
              pr = [p \in Procs |-> [Idle EXCEPT !.pc = IF p = first THEN @ ELSE "unused"]
                                    @@ [ops |-> w[p]]]
        /\ panic = FALSE

Running(p, l) == ~panic /\ pr[p].pc = l
Calls(p, op) == Running(p, "idle") /\ op \in pr[p].ops
Set(p, g) == pr' = [pr EXCEPT ![p] = g @@ @]
\* Back to the program, or to the loop of exit.
After(p) == IF pr[p].exiting THEN [Idle EXCEPT !.pc = "exit", !.exiting = TRUE] ELSE Idle
Done(p) == Set(p, After(p))
Data == <<used, blk>>

----------------------------------------------------------------------------
(* Descriptors and the file table *)

FreeFiles == {f \in FileSlots : file[f].ref = 0}
FreeFds(p) == {d \in Fds : ofile[p][d] = 0}

\* Mutant: a freed entry keeps its type.
FileCloseKept(p, f, l) ==
    /\ file' = [file EXCEPT ![f].ref = @ - 1]
    /\ IF file[f].ref = 1 /\ file[f].type = "inode"
       THEN Set(p, [pc |-> "iput", ip |-> file[f].ip])
       ELSE Set(p, l)
    /\ UNCHANGED panic

\* fileclose: the last reference takes the entry, and the copy ff made of it
\* says what is put after ftable.lock.  Without that the process goes on as l.
FileClose(p, f, l) ==
    IF file[f].ref < 1
    THEN panic' = TRUE /\ UNCHANGED <<file, pr>>
    ELSE /\ file' = [file EXCEPT ![f] = IF @.ref > 1 THEN [@ EXCEPT !.ref = @ - 1]
                                        ELSE [@ EXCEPT !.ref = 0, !.type = "none"]]
         /\ IF file[f].ref = 1 /\ file[f].type = "inode"
            THEN Set(p, [pc |-> "iput", ip |-> file[f].ip])
            ELSE Set(p, l)
         /\ UNCHANGED panic

CloseFd(p, d) == /\ ofile' = [ofile EXCEPT ![p][d] = 0]
                 /\ FileClose(p, ofile[p][d], After(p))
                 /\ UNCHANGED <<ino, Data>>

Close(p) == Calls(p, "close") /\ \E d \in Fds \ FreeFds(p) : CloseFd(p, d)

Dup(p) ==
    \E d \in Fds \ FreeFds(p) :
        LET f == ofile[p][d] IN
        /\ Calls(p, "dup") /\ FreeFds(p) # {}
        /\ ofile' = [ofile EXCEPT ![p][Min(FreeFds(p))] = f]
        /\ IF file[f].ref < 1 THEN panic' = TRUE /\ UNCHANGED file
           ELSE file' = [file EXCEPT ![f].ref = @ + 1] /\ UNCHANGED panic
        /\ UNCHANGED <<ino, Data, pr>>

\* fork gives the child every open file of the parent, filedup for filedup.
Fork(p, q) ==
    /\ Calls(p, "fork") /\ pr[q].pc = "unused"
    /\ ofile' = [ofile EXCEPT ![q] = ofile[p]]
    /\ file' = [f \in FileSlots |->
                   [file[f] EXCEPT !.ref = @ + Cardinality({d \in Fds : ofile[p][d] = f})]]
    /\ Set(q, Idle)
    /\ UNCHANGED <<ino, Data, panic>>

ExitStart(p) ==
    /\ Calls(p, "exit") /\ p # first
    /\ Set(p, [pc |-> "exit", exiting |-> TRUE])
    /\ UNCHANGED <<ofile, file, ino, Data, panic>>

ExitClose(p) == /\ Running(p, "exit") /\ FreeFds(p) # Fds
                /\ CloseFd(p, Min(Fds \ FreeFds(p)))

ExitEnd(p) == /\ Running(p, "exit") /\ FreeFds(p) = Fds
              /\ Set(p, [Idle EXCEPT !.pc = "unused"])
              /\ UNCHANGED <<ofile, file, ino, Data, panic>>

\* pipe: two entries, then two descriptors; what fails is given back.
PipeFirst(p) ==
    /\ Calls(p, "pipe") /\ FreeFiles # {}
    /\ file' = [file EXCEPT ![Min(FreeFiles)].ref = 1]
    /\ Set(p, [pc |-> "pipe", f |-> Min(FreeFiles)])
    /\ UNCHANGED <<ofile, ino, Data, panic>>

PipeNoSecond(p) ==
    /\ Running(p, "pipe") /\ FreeFiles = {}
    /\ FileClose(p, pr[p].f, Idle)
    /\ UNCHANGED <<ofile, ino, Data>>

\* kalloc fails: the two entries, still FD_NONE, are closed.
PipeNoMemory(p) ==
    LET wf == Min(FreeFiles) IN
    /\ Running(p, "pipe") /\ FreeFiles # {}
    /\ file' = [file EXCEPT ![wf].ref = 1]
    /\ Set(p, [pc |-> "piperf", wf |-> wf])
    /\ UNCHANGED <<ofile, ino, Data, panic>>

\* fdalloc or copyout may fail.
PipeSecond(p) ==
    LET rf == pr[p].f
        wf == Min(FreeFiles)
        fd0 == Min(FreeFds(p))
        fd1 == Min(FreeFds(p) \ {fd0})
    IN  /\ Running(p, "pipe") /\ FreeFiles # {}
        /\ file' = [file EXCEPT ![rf].type = "pipe", ![wf].type = "pipe", ![wf].ref = 1]
        /\ \/ /\ Cardinality(FreeFds(p)) >= 2
              /\ ofile' = [ofile EXCEPT ![p][fd0] = rf, ![p][fd1] = wf]
              /\ Done(p)
           \/ Set(p, [pc |-> "piperf", wf |-> wf]) /\ UNCHANGED ofile
        /\ UNCHANGED <<ino, Data, panic>>

PipeCloseRf(p) == /\ Running(p, "piperf")
                  /\ FileClose(p, pr[p].f, [pc |-> "pipewf"])
                  /\ UNCHANGED <<ofile, ino, Data>>

PipeCloseWf(p) == /\ Running(p, "pipewf")
                  /\ FileClose(p, pr[p].wf, Idle)
                  /\ UNCHANGED <<ofile, ino, Data>>

----------------------------------------------------------------------------
(* open, and the end of an inode *)

CanLock(i) == ino[i].lock = None
Lock(i, p) == ino' = [ino EXCEPT ![i].lock = p]
Unlock(i) == ino' = [ino EXCEPT ![i].lock = None]

\* namei or create: the inode of a linked file, or of a new one
Open(p) ==
    \E i \in Inums, t \in BOOLEAN :
        /\ Calls(p, "open")
        /\ ino[i].inuse => ino[i].nlink > 0
        /\ ino' = [ino EXCEPT ![i].inuse = TRUE, ![i].nlink = 1, ![i].ref = @ + 1]
        /\ Set(p, [pc |-> "open", ip |-> i, trunc |-> t])
        /\ UNCHANGED <<ofile, file, Data, panic>>

\* ilock, filealloc and fdalloc; without an entry, iunlockput
OpenFile(p) ==
    LET i == pr[p].ip
        f == Min(FreeFiles)
    IN  /\ Running(p, "open") /\ CanLock(i)
        /\ IF FreeFiles = {}
           THEN Set(p, [pc |-> "iput"]) /\ UNCHANGED <<ofile, file, ino>>
           ELSE IF FreeFds(p) = {}
           THEN /\ file' = [file EXCEPT ![f].ref = 1]
                /\ Set(p, [pc |-> "nofd", f |-> f])
                /\ Lock(i, p)
                /\ UNCHANGED ofile
           ELSE /\ file' = [file EXCEPT ![f] = [ref |-> 1, type |-> "inode", ip |-> i, off |-> 0]]
                /\ ofile' = [ofile EXCEPT ![p][Min(FreeFds(p))] = f]
                /\ IF pr[p].trunc THEN Set(p, [pc |-> "itrunc"]) /\ Lock(i, p)
                                  ELSE Done(p) /\ UNCHANGED ino
        /\ UNCHANGED <<Data, panic>>

\* No descriptor: fileclose(f), whose type is still FD_NONE, and iunlockput
OpenNoFd(p) ==
    /\ Running(p, "nofd")
    /\ FileClose(p, pr[p].f, [pc |-> "iput"])
    /\ Unlock(pr[p].ip)
    /\ UNCHANGED <<ofile, Data>>

\* unlink of a file, up to iunlockput(ip)
Unlink(p) ==
    \E i \in Inums :
        /\ Calls(p, "unlink") /\ ino[i].nlink > 0 /\ CanLock(i)
        /\ ino' = [ino EXCEPT ![i].nlink = 0, ![i].ref = @ + 1]
        /\ Set(p, [pc |-> "iput", ip |-> i])
        /\ UNCHANGED <<ofile, file, Data, panic>>

Iput(p) ==
    LET i == pr[p].ip IN
    /\ Running(p, "iput")
    /\ IF ino[i].ref = 1 /\ ino[i].nlink = 0
       THEN Lock(i, p) /\ Set(p, [pc |-> "itrunc", trunc |-> FALSE])
       ELSE ino' = [ino EXCEPT ![i].ref = @ - 1] /\ Done(p)
    /\ UNCHANGED <<ofile, file, Data, panic>>

----------------------------------------------------------------------------
(* Blocks *)

Indirect(i) == ino[i].addrs[NDIRECT]
FreeBlocks == Blocks \ used

\* bfree
Bfree(b) == /\ used' = used \ {b}
            /\ panic' = (b \notin used)

\* itrunc frees the direct blocks, those in the indirect block, and that block.
ItruncDirect(p) ==
    LET i == pr[p].ip
        K == {k \in 0..NDIRECT - 1 : ino[i].addrs[k] # 0}
    IN  /\ Running(p, "itrunc") /\ K # {}
        /\ Bfree(ino[i].addrs[Min(K)])
        /\ ino' = [ino EXCEPT ![i].addrs[Min(K)] = 0]
        /\ UNCHANGED <<ofile, file, blk, pr>>

DirectFreed(i) == \A k \in 0..NDIRECT - 1 : ino[i].addrs[k] = 0

ItruncEntry(p) ==
    LET i == pr[p].ip
        b == blk[Indirect(i)][pr[p].todo]
    IN  /\ Running(p, "itrunc") /\ DirectFreed(i)
        /\ Indirect(i) # 0 /\ pr[p].todo < NINDIRECT
        /\ IF b # 0 THEN Bfree(b) ELSE UNCHANGED <<used, panic>>
        /\ Set(p, [todo |-> pr[p].todo + 1])
        /\ UNCHANGED <<ofile, file, ino, blk>>

\* size = 0, and the end of open with O_TRUNC, or of iput
Truncated(p) ==
    LET i == pr[p].ip IN
    /\ ino' = [ino EXCEPT ![i].size = 0, ![i].lock = None, ![i].addrs[NDIRECT] = 0,
                          ![i].inuse = pr[p].trunc,
                          ![i].ref = IF pr[p].trunc THEN @ ELSE @ - 1]
    /\ Done(p)
    /\ UNCHANGED <<ofile, file, blk>>

ItruncIndirect(p) ==
    /\ Running(p, "itrunc") /\ DirectFreed(pr[p].ip)
    /\ Indirect(pr[p].ip) # 0 /\ pr[p].todo = NINDIRECT
    /\ Bfree(Indirect(pr[p].ip))
    /\ Truncated(p)

ItruncDone(p) ==
    /\ Running(p, "itrunc") /\ DirectFreed(pr[p].ip) /\ Indirect(pr[p].ip) = 0
    /\ Truncated(p)
    /\ UNCHANGED <<used, panic>>

\* filewrite: a chunk of it begins, with writei's checks.
WriteChunk(p, f, n) ==
    LET i == file[f].ip
        n1 == IF n > MaxChunk THEN MaxChunk ELSE n
    IN  /\ CanLock(i)
        /\ IF file[f].off > ino[i].size \/ file[f].off + n1 > MAXFILE * BSIZE
           THEN Done(p) /\ UNCHANGED ino
           ELSE /\ Lock(i, p)
                /\ Set(p, [pc |-> "writei", f |-> f, ip |-> i, todo |-> n1,
                           woff |-> file[f].off, left |-> n - n1])
        /\ UNCHANGED <<ofile, file, Data, panic>>

Write(p) == /\ Calls(p, "write")
            /\ \E d \in Fds \ FreeFds(p), n \in Sizes :
                  /\ file[ofile[p][d]].type = "inode"
                  /\ WriteChunk(p, ofile[p][d], n)

WriteMore(p) == /\ Running(p, "write")
                /\ WriteChunk(p, pr[p].f, pr[p].left)

Bn(p) == pr[p].woff \div BSIZE
\* bmap without allocation
Address(i, bn) == IF bn < NDIRECT THEN ino[i].addrs[bn]
                  ELSE IF Indirect(i) = 0 THEN 0 ELSE blk[Indirect(i)][bn - NDIRECT]
NeedsIndirect(p) == Bn(p) >= NDIRECT /\ Indirect(pr[p].ip) = 0

\* Mutant: balloc without bzero.
NotZeroed(b) == blk

\* balloc marks the first free block and zeroes it.
Balloc(b) == used' = used \cup {b}
Zeroed(b) == [blk EXCEPT ![b] = Zeroes]

\* bmap allocates the indirect block.
BmapIndirect(p) ==
    LET b == Min(FreeBlocks) IN
    /\ Running(p, "writei") /\ NeedsIndirect(p) /\ FreeBlocks # {}
    /\ Balloc(b)
    /\ blk' = Zeroed(b)
    /\ ino' = [ino EXCEPT ![pr[p].ip].addrs[NDIRECT] = b]
    /\ UNCHANGED <<ofile, file, pr, panic>>

\* Mutant: size becomes the end of the last write.
WriteEndShrinks(p, tbl, o, t) ==
    /\ ino' = [tbl EXCEPT ![pr[p].ip].size = o, ![pr[p].ip].lock = None]
    /\ file' = [file EXCEPT ![pr[p].f].off = o]
    /\ IF t > 0 \/ pr[p].left = 0
       THEN Done(p)
       ELSE Set(p, [pc |-> "write", ip |-> None, woff |-> 0, todo |-> 0])

\* The end of writei at offset o with t bytes to go: size, f->off, iunlock; and
\* filewrite goes on if all of the chunk was written.
WriteEnd(p, tbl, o, t) ==
    /\ ino' = [tbl EXCEPT ![pr[p].ip].size = Max({@, o}), ![pr[p].ip].lock = None]
    /\ file' = [file EXCEPT ![pr[p].f].off = o]
    /\ IF t > 0 \/ pr[p].left = 0
       THEN Done(p)
       ELSE Set(p, [pc |-> "write", ip |-> None, woff |-> 0, todo |-> 0])

\* bmap, which allocates the block if there is none: its number, and what tbl
\* and the blocks are then
Bmap(p) ==
    LET i == pr[p].ip
        bn == Bn(p)
        new == Address(i, bn) = 0
        b == IF new THEN Min(FreeBlocks) ELSE Address(i, bn)
        zeroed == IF new THEN Zeroed(b) ELSE blk
    IN  [b |-> b, new |-> new,
         tbl |-> IF bn < NDIRECT THEN [ino EXCEPT ![i].addrs[bn] = b] ELSE ino,
         blk |-> IF bn < NDIRECT THEN zeroed
                 ELSE [zeroed EXCEPT ![Indirect(i)][bn - NDIRECT] = b]]

\* One turn of writei's loop up to the copy, of which k bytes succeed
CopyBlock(p, at, k) ==
    LET o == pr[p].woff % BSIZE IN
    /\ Running(p, "writei") /\ ~NeedsIndirect(p)
    /\ Address(pr[p].ip, Bn(p)) = 0 => FreeBlocks # {}
    /\ IF at.new THEN Balloc(at.b) ELSE UNCHANGED used
    /\ blk' = [at.blk EXCEPT ![at.b] = [j \in 0..BSIZE - 1 |-> IF j \in o..o + k - 1
                                                               THEN p ELSE @[j]]]
    /\ UNCHANGED <<ofile, panic>>

BlockPart(p) == Min({pr[p].todo, BSIZE - (pr[p].woff % BSIZE)})

WriteBlock(p) ==
    LET m == BlockPart(p)
        at == Bmap(p)
    IN  /\ CopyBlock(p, at, m)
        /\ IF m = pr[p].todo
           THEN WriteEnd(p, at.tbl, pr[p].woff + m, 0)
           ELSE /\ ino' = at.tbl
                /\ Set(p, [todo |-> pr[p].todo - m, woff |-> pr[p].woff + m])
                /\ UNCHANGED file

\* either_copyin fails, maybe after some bytes, if the program is one that passes
\* a buffer it does not have: no log_write, and the loop ends.
WriteFault(p) ==
    \E k \in 0..BlockPart(p) - 1 :
        LET at == Bmap(p) IN
        /\ "fault" \in pr[p].ops /\ CopyBlock(p, at, k)
        /\ WriteEnd(p, at.tbl, pr[p].woff, pr[p].todo)

\* bmap returns 0: there is no block.
WriteNoBlock(p) ==
    /\ Running(p, "writei") /\ FreeBlocks = {}
    /\ Address(pr[p].ip, Bn(p)) = 0
    /\ WriteEnd(p, ino, pr[p].woff, pr[p].todo)
    /\ UNCHANGED <<ofile, Data, panic>>

\* How many of n bytes at off readi copies; a block below size is always there.
readi(i, off, n) == IF off > ino[i].size THEN 0 ELSE Min({n, ino[i].size - off})

\* fileread of an inode.
Read(p) ==
    \E d \in Fds \ FreeFds(p), n \in Sizes :
        LET f == ofile[p][d]
            i == file[f].ip
        IN  /\ Calls(p, "read") /\ file[f].type = "inode" /\ CanLock(i)
            /\ file' = [file EXCEPT ![f].off = @ + readi(i, @, n)]
            /\ UNCHANGED <<ofile, ino, Data, pr, panic>>

Step(p) == \/ Close(p) \/ Dup(p) \/ (\E q \in Procs : Fork(p, q))
           \/ ExitStart(p) \/ ExitClose(p) \/ ExitEnd(p)
           \/ PipeFirst(p) \/ PipeNoSecond(p) \/ PipeNoMemory(p) \/ PipeSecond(p)
           \/ PipeCloseRf(p) \/ PipeCloseWf(p)
           \/ Open(p) \/ OpenFile(p) \/ OpenNoFd(p) \/ Unlink(p) \/ Iput(p)
           \/ ItruncDirect(p) \/ ItruncEntry(p) \/ ItruncIndirect(p) \/ ItruncDone(p)
           \/ Write(p) \/ WriteMore(p) \/ BmapIndirect(p) \/ WriteBlock(p) \/ WriteFault(p)
           \/ WriteNoBlock(p) \/ Read(p)

Next == \E p \in Procs : Step(p)

Spec == Init /\ [][Next]_vars

----------------------------------------------------------------------------
(* Properties *)

\* How often p's descriptors and its call in progress refer to file f.
Holds(p, f) == Cardinality({d \in Fds : ofile[p][d] = f})
               + (IF pr[p].pc \in {"nofd", "pipe", "piperf"} /\ pr[p].f = f THEN 1 ELSE 0)
               + (IF pr[p].pc \in {"piperf", "pipewf"} /\ pr[p].wf = f THEN 1 ELSE 0)

\* ref of a file structure is the number of descriptors (and calls that are
\* about to give it one) that have it, and ref of an inode the number of open
\* files and of calls that have it: filedup, fileclose, fork, exit and the
\* error paths of open and pipe lose none, and panic is not reached.
FilesCounted ==
    /\ ~panic
    /\ \A f \in FileSlots : file[f].ref = MapThenSumSet(LAMBDA p : Holds(p, f), Procs)
    /\ \A i \in Inums :
          ino[i].ref = Cardinality({f \in FileSlots : /\ file[f].ref > 0 /\ file[f].ip = i
                                                       /\ file[f].type = "inode"})
                       + Cardinality({p \in Procs :
                             /\ pr[p].ip = i
                             /\ \/ pr[p].pc \in {"open", "nofd", "iput"}
                                \/ pr[p].pc = "itrunc" /\ ~pr[p].trunc})

\* The blocks of an inode, while no itrunc of it is at work
Owned(i) == LET direct == {ino[i].addrs[k] : k \in 0..NDIRECT} \ {0}
            IN  direct \cup (IF Indirect(i) = 0 THEN {}
                             ELSE {blk[Indirect(i)][k] : k \in 0..NINDIRECT - 1} \ {0})
Truncating(i) == \E p \in Procs : pr[p].pc = "itrunc" /\ pr[p].ip = i

\* A block is marked in the bitmap exactly when one inode has it, also after
\* writes that ran out of blocks half-way (balloc, bfree, bmap, itrunc): none
\* leaks and none belongs to two files.
BlocksConserved ==
    /\ \A i, j \in Inums : i # j /\ ~Truncating(i) /\ ~Truncating(j) =>
          Owned(i) \cap Owned(j) = {}
    /\ (\A i \in Inums : ~Truncating(i)) => used = UNION {Owned(i) : i \in Inums}

\* The contents of a file as readi sees them, up to what a writei in progress
\* has reached
Writer(i) == {p \in Procs : pr[p].pc = "writei" /\ pr[p].ip = i}
Length(i) == Max({ino[i].size} \cup {pr[p].woff : p \in Writer(i)})
Content(i) == IF Truncating(i) THEN <<>>
              ELSE [k \in 1..Length(i) |-> blk[Address(i, (k - 1) \div BSIZE)][(k - 1) % BSIZE]]
Offset(f) == LET W == {p \in Procs : pr[p].pc = "writei" /\ pr[p].f = f}
             IN  IF W = {} THEN file[f].off ELSE pr[CHOOSE p \in W : TRUE].woff

Abstract == INSTANCE ByteFile WITH
    Files <- FileSlots, Bytes <- Procs, MaxRun <- BSIZE,
    content <- [i \in Inums |-> Content(i)],
    ip <- [f \in FileSlots |-> file[f].ip],
    off <- [f \in FileSlots |-> Offset(f)]

\* Blocks, bitmap and offsets implement files as sequences of bytes: what is
\* written through an open file is there and nowhere else, and a shared offset
\* moves with it, whoever shares it (filewrite, fileread, writei, bmap).
IsByteFile == Abstract!Spec
============================================================================
