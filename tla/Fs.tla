-------------------------------- MODULE Fs ---------------------------------
(***************************************************************************)
(* Inodes, directories and path names: the upper half of kernel/fs.c and   *)
(* the calls of kernel/sysfile.c and kernel/exec.c that use names.         *)
(*                                                                         *)
(* A step is what a process does under one inode's sleep-lock, or one      *)
(* critical section of itable.lock.  The log makes the calls of a group    *)
(* durable together, so a crash leaves what was there between calls.       *)
(* A table entry is named by the number of the inode it holds, because     *)
(* iget never gives two referenced entries the same number.  Directory     *)
(* data is a function from names; the data of files is left to Files.      *)
(***************************************************************************)
EXTENDS Integers, Sequences, FiniteSetsExt, TLC, Relation

CONSTANTS Procs,
          Names,    \* names of files, without "." and ".."
          NInodes,  \* ialloc uses inodes 1 .. NInodes (sb.ninodes - 1)
          NINODE,   \* size of the inode table
          MaxLink,  \* bound: link leaves a file that has so many links alone
          Calls,    \* of each process: the system calls it makes
          None

Inodes == 1..NInodes
ROOTINO == 1

ASSUME FsAssumption == /\ NInodes \in Nat \ {0} /\ NINODE \in Nat \ {0}
                       /\ MaxLink \in Nat
                       /\ None \notin Procs \cup Inodes

VARIABLES
    disk,   \* of each inode: type, nlink, and entries (0 where there is none)
    ino,    \* of each inode's table entry: ref, valid, type, nlink, lock holder
    cwd,    \* of each process: working directory
    file,   \* of each process: the inode of its open file
    pr,     \* of each process: place in its call, and the call's locals
    lost,   \* inodes without links whose last reference went without iput's test
    stale,  \* an inode was freed while ".." of another directory named it
    panic

vars == <<disk, ino, cwd, file, pr, lost, stale, panic>>

NoEntries == [n \in Names \cup {".", ".."} |-> 0]
FreeInode == [type |-> "none", nlink |-> 0, ents |-> NoEntries]
RootInode == [type |-> "dir", nlink |-> 1,
              ents |-> [NoEntries EXCEPT !["."] = ROOTINO, ![".."] = ROOTINO]]
NoEntry == [ref |-> 0, valid |-> FALSE, type |-> "none", nlink |-> 0, lock |-> None]

\* A path is a sequence of elements, with "/" first if it is absolute.
NoCall == [op |-> "none", path |-> <<>>, new |-> <<>>]
Idle == [pc |-> "idle", call |-> NoCall, at |-> None, rest |-> <<>>, ip |-> None,
         dp |-> None, put |-> None, after |-> "idle"]

\* The processes start in the root directory; nothing else is on the disk.
Init == /\ disk = [i \in Inodes |-> IF i = ROOTINO THEN RootInode ELSE FreeInode]
        /\ ino = [i \in Inodes |-> IF i = ROOTINO
                                   THEN [NoEntry EXCEPT !.ref = Cardinality(Procs)]
                                   ELSE NoEntry]
        /\ cwd = [p \in Procs |-> ROOTINO]
        /\ file = [p \in Procs |-> None]
        /\ pr = [p \in Procs |-> Idle]
        /\ lost = {}
        /\ stale = FALSE
        /\ panic = "no"

----------------------------------------------------------------------------
(* The inode table *)

Running(p, l) == panic = "no" /\ pr[p].pc = l
Set(p, f) == pr' = [pr EXCEPT ![p] = f @@ @]

\* iunlockput(i) and iput(i): the put is steps of its own, and then comes l.
Put(i, l) == [pc |-> "iput", at |-> None, put |-> i, after |-> l]
Return(p, l) == pr' = [pr EXCEPT ![p] = IF l = "idle" THEN Idle
                                        ELSE [@ EXCEPT !.pc = l, !.put = None]]

Got(tbl, i) == [tbl EXCEPT ![i].ref = @ + 1]
Dropped(e) == IF e.ref = 1 THEN NoEntry ELSE [e EXCEPT !.ref = @ - 1]
TableFull(i) == /\ ino[i].ref = 0
                /\ Cardinality({j \in Inodes : ino[j].ref > 0}) >= NINODE

\* iget: the table with one more reference to i, or a panic.
Iget(tbl, i) == IF TableFull(i) THEN panic' = "iget: no inodes" /\ ino' = ino
                                ELSE ino' = Got(tbl, i) /\ UNCHANGED panic

\* ilock waits for the lock, and reads the inode from disk if it is not valid.
CanLock(i) == ino[i].lock = None /\ (ino[i].valid \/ disk[i].type # "none")
Loaded(i) == IF ino[i].valid THEN ino[i]
             ELSE [ino[i] EXCEPT !.valid = TRUE, !.type = disk[i].type,
                                 !.nlink = disk[i].nlink]
Read(i) == [ino EXCEPT ![i] = Loaded(i)]
Locked(tbl, i, p) == [tbl EXCEPT ![i] = [Loaded(i) EXCEPT !.lock = p]]
Unlocked(tbl, i) == [tbl EXCEPT ![i].lock = None]

IputAny(p) ==      \* mutant: no test of nlink
    LET i == pr[p].put IN
    /\ Running(p, "iput")
    /\ IF ino[i].ref = 1 /\ ino[i].valid
       THEN ino' = [ino EXCEPT ![i].lock = p] /\ Set(p, [pc |-> "ifree"])
       ELSE ino' = [ino EXCEPT ![i] = Dropped(@)] /\ Return(p, pr[p].after)
    /\ UNCHANGED <<disk, cwd, file, lost, stale, panic>>

IputLate(p) ==     \* mutant: the test comes as if ref were decremented before it
    LET i == pr[p].put IN
    /\ Running(p, "iput")
    /\ IF ino[i].ref = 0 /\ ino[i].valid /\ ino[i].nlink = 0
       THEN ino' = [ino EXCEPT ![i].lock = p] /\ Set(p, [pc |-> "ifree"])
       ELSE ino' = [ino EXCEPT ![i] = Dropped(@)] /\ Return(p, pr[p].after)
    /\ UNCHANGED <<disk, cwd, file, lost, stale, panic>>

Iput(p) ==
    LET i == pr[p].put IN
    /\ Running(p, "iput")
    /\ IF ino[i].ref = 1 /\ ino[i].valid /\ ino[i].nlink = 0
       THEN IF ino[i].lock # None
            THEN panic' = "sched locks" /\ UNCHANGED <<ino, pr>>
            ELSE /\ ino' = [ino EXCEPT ![i].lock = p]
                 /\ Set(p, [pc |-> "ifree"])
                 /\ UNCHANGED panic
       ELSE /\ ino' = [ino EXCEPT ![i] = Dropped(@)]
            /\ Return(p, pr[p].after)
            /\ UNCHANGED panic
    /\ UNCHANGED <<disk, cwd, file, lost, stale>>

\* itrunc, type = 0, iupdate, valid = 0, releasesleep
IputFree(p) ==
    LET i == pr[p].put IN
    /\ Running(p, "ifree")
    /\ disk' = [disk EXCEPT ![i] = FreeInode]
    /\ ino' = [ino EXCEPT ![i].valid = FALSE, ![i].type = "none", ![i].lock = None]
    /\ stale' = (stale \/ \E d \in Inodes \ {i} : disk[d].ents[".."] = i)
    /\ Set(p, [pc |-> "idrop"])
    /\ UNCHANGED <<cwd, file, lost, panic>>

\* ref-- without another look: between the two critical sections create may
\* have taken the inode, and unlink removed it again with this reference left.
IputDrop(p) ==
    LET i == pr[p].put IN
    /\ Running(p, "idrop")
    /\ ino' = [ino EXCEPT ![i] = Dropped(@)]
    /\ lost' = IF ino[i].ref = 1 /\ disk[i].type # "none" /\ disk[i].nlink = 0
               THEN lost \cup {i} ELSE lost
    /\ Return(p, pr[p].after)
    /\ UNCHANGED <<disk, cwd, file, stale, panic>>

----------------------------------------------------------------------------
(* Directories and path names *)

\* dirlookup, without its iget: the inode n names in d, or 0
Dirlookup(d, n) == disk[d].ents[n]
\* dirlink, and unlink's write of an empty entry: n in d names i.
Dirlink(tbl, d, n, i) == [tbl EXCEPT ![d].ents[n] = i]

ByParent == {"create", "mkdir", "mknod", "unlink"}
\* Is the walk one of nameiparent?  link walks twice, the second time so.
WantsParent(p) == pr[p].call.op \in ByParent \/ pr[p].ip # None
\* Where a call goes on when namex returns 0.
NotFound(p) == IF pr[p].ip # None THEN "undo" ELSE "idle"

WalkFrom(p, path) == IF path[1] = "/" THEN ROOTINO ELSE cwd[p]
WalkRest(path) == IF path[1] = "/" THEN Tail(path) ELSE path

\* Calls that follow a stale ".." reach a free inode or another file: none is
\* made after one is there, and those in progress go on.
Begin(p) ==
    /\ Running(p, "idle") /\ ~stale
    /\ \E c \in Calls[p] :
          /\ Set(p, [pc |-> "walk", call |-> c, at |-> WalkFrom(p, c.path),
                     rest |-> WalkRest(c.path)])
          /\ Iget(ino, WalkFrom(p, c.path))
    /\ UNCHANGED <<disk, cwd, file, lost, stale>>

\* One turn of namex's loop that does not end it.
Walk(p) ==
    LET i == pr[p].at
        next == Dirlookup(i, Head(pr[p].rest))
    IN  /\ Running(p, "walk")
        /\ Len(pr[p].rest) > IF WantsParent(p) THEN 1 ELSE 0
        /\ CanLock(i)
        /\ IF Loaded(i).type # "dir" \/ next = 0
           THEN /\ ino' = Read(i)
                /\ Set(p, Put(i, NotFound(p)))
                /\ UNCHANGED panic
           ELSE /\ Iget(Read(i), next)
                /\ Set(p, [at |-> next, rest |-> Tail(pr[p].rest)] @@ Put(i, "walk"))
        /\ UNCHANGED <<disk, cwd, file, lost, stale>>

\* nameiparent of a path without elements
WalkNoParent(p) ==
    /\ Running(p, "walk") /\ WantsParent(p) /\ pr[p].rest = <<>>
    /\ Set(p, Put(pr[p].at, NotFound(p)))
    /\ UNCHANGED <<disk, ino, cwd, file, lost, stale, panic>>

\* namei has returned, and the call locks the inode.
Found(p, ops) == /\ Running(p, "walk") /\ ~WantsParent(p) /\ pr[p].rest = <<>>
                 /\ pr[p].call.op \in ops /\ CanLock(pr[p].at)

\* nameiparent has one element left: it locks the directory, checks its type
\* and unlocks it, and the call locks it again.  The two are one step, since
\* the type cannot change while the process has a reference.
FoundParent(p, ops) == /\ Running(p, "walk") /\ WantsParent(p)
                       /\ Len(pr[p].rest) = 1
                       /\ pr[p].call.op \in ops /\ CanLock(pr[p].at)

\* The parent is not a directory: nameiparent gives up.
NotDir(p) ==
    LET i == pr[p].at IN
    /\ FoundParent(p, ByParent \cup {"link"})
    /\ Loaded(i).type # "dir"
    /\ ino' = Read(i)
    /\ Set(p, Put(i, NotFound(p)))
    /\ UNCHANGED <<disk, cwd, file, lost, stale, panic>>

\* The inode a process is about to lock, if any.
Wants(p) == CASE pr[p].pc = "walk" -> pr[p].at
              [] pr[p].pc \in {"exist", "enter", "entry", "undo"} -> pr[p].ip
              [] OTHER -> None

\* ilock: no type
IlockPanic(p) ==
    LET i == Wants(p) IN
    /\ panic = "no" /\ i # None
    /\ ~(pr[p].pc = "walk" /\ WantsParent(p) /\ pr[p].rest = <<>>)
    /\ ino[i].lock = None /\ ~ino[i].valid /\ disk[i].type = "none"
    /\ panic' = "ilock: no type"
    /\ UNCHANGED <<disk, ino, cwd, file, pr, lost, stale>>

----------------------------------------------------------------------------
(* The system calls *)

Keep == UNCHANGED <<cwd, file, lost, stale, panic>>
Empty(i) == \A n \in Names : disk[i].ents[n] = 0
\* A link count changes: in the table, and by iupdate on disk.
Iupdate(tbl, i, k) == [tbl EXCEPT ![i].nlink = k]

\* create: ilock(dp), dirlookup; the name exists, or ialloc is next.
CreateLook(p) ==
    LET d == pr[p].at
        next == Dirlookup(d, Head(pr[p].rest))
        free == {i \in Inodes : disk[i].type = "none"}
        new == CHOOSE i \in free : \A j \in free : i <= j
    IN  /\ FoundParent(p, {"create", "mkdir", "mknod"})
        /\ Loaded(d).type = "dir"
        /\ \/ /\ next # 0
              /\ Iget(Read(d), next)
              /\ Set(p, [ip |-> next] @@ Put(d, "exist"))
              /\ UNCHANGED disk
           \/ /\ next = 0 /\ free = {}
              /\ ino' = Read(d)
              /\ Set(p, Put(d, "idle"))
              /\ UNCHANGED <<disk, panic>>
           \/ /\ next = 0 /\ free # {}
              /\ disk' = [disk EXCEPT ![new].type = CASE pr[p].call.op = "create" -> "file"
                                                      [] pr[p].call.op = "mkdir" -> "dir"
                                                      [] OTHER -> "dev"]
              /\ ino' = Locked(ino, d, p)
              /\ Set(p, [pc |-> "ialloc", dp |-> d, at |-> None, ip |-> new])
              /\ UNCHANGED panic
        /\ UNCHANGED <<cwd, file, lost, stale>>

\* The name exists: only O_CREATE of a file or device goes on, with it locked.
CreateExists(p) ==
    LET i == pr[p].ip IN
    /\ Running(p, "exist") /\ CanLock(i)
    /\ IF pr[p].call.op = "create" /\ Loaded(i).type \in {"file", "dev"}
       THEN ino' = Locked(ino, i, p) /\ Set(p, [pc |-> "opened"])
       ELSE ino' = Read(i) /\ Set(p, Put(i, "idle") @@ [ip |-> None])
    /\ UNCHANGED disk /\ Keep

\* ialloc's iget
CreateGet(p) ==
    /\ Running(p, "ialloc")
    /\ Iget(ino, pr[p].ip)
    /\ Set(p, [pc |-> "enter"])
    /\ UNCHANGED <<disk, cwd, file, lost, stale>>

\* create from ilock(ip): nlink, the entries, dp->nlink; then iunlockput(dp).
CreateEnter(p) ==
    LET i == pr[p].ip
        d == pr[p].dp
        n == Head(pr[p].rest)
        isdir == pr[p].call.op = "mkdir"
        up == ino[d].nlink + IF isdir THEN 1 ELSE 0
    IN  /\ Running(p, "enter") /\ CanLock(i)
        /\ disk' = LET dots == IF isdir THEN Dirlink(Dirlink(disk, i, ".", i), i, "..", d)
                                        ELSE disk
                   IN  Iupdate(Iupdate(Dirlink(dots, d, n, i), i, 1), d, up)
        /\ ino' = Unlocked(Iupdate(Iupdate(Locked(ino, i, p), i, 1), d, up), d)
        /\ Set(p, [dp |-> None] @@ Put(d, "opened"))
        /\ Keep

\* create when dirlink fails for want of disk blocks: the inode is given up.
CreateFail(p) ==
    LET i == pr[p].ip IN
    /\ Running(p, "enter") /\ CanLock(i)
    /\ disk' = Iupdate(disk, i, 0)
    /\ ino' = Iupdate(Read(i), i, 0)
    /\ Set(p, [ip |-> None] @@ Put(i, "unlockdp"))
    /\ Keep

\* iunlockput(dp) at the end of a call that failed with dp locked
UnlockDp(p) ==
    LET d == pr[p].dp IN
    /\ Running(p, "unlockdp")
    /\ ino' = Unlocked(ino, d)
    /\ Set(p, [dp |-> None] @@ Put(d, NotFound(p)))
    /\ UNCHANGED disk /\ Keep

\* open without O_CREATE, up to the allocation of a descriptor
OpenLock(p) ==
    LET i == pr[p].at IN
    /\ Found(p, {"open", "openw"})
    /\ IF Loaded(i).type = "dir" /\ pr[p].call.op = "openw"
       THEN ino' = Read(i) /\ Set(p, Put(i, "idle"))
       ELSE ino' = Locked(ino, i, p) /\ Set(p, [pc |-> "opened", ip |-> i, at |-> None])
    /\ UNCHANGED disk /\ Keep

\* The end of open (with one descriptor per process: none is free if it is
\* in use), and of mkdir and mknod, which put the inode create gave them.
Opened(p) ==
    LET i == pr[p].ip IN
    /\ Running(p, "opened")
    /\ ino' = Unlocked(ino, i)
    /\ IF file[p] = None /\ pr[p].call.op \in {"create", "open", "openw"}
       THEN file' = [file EXCEPT ![p] = i] /\ Return(p, "idle")
       ELSE Set(p, [ip |-> None] @@ Put(i, "idle")) /\ UNCHANGED file
    /\ UNCHANGED <<disk, cwd, lost, stale, panic>>

\* fileclose of the last reference
Close(p) ==
    /\ Running(p, "idle") /\ file[p] # None
    /\ file' = [file EXCEPT ![p] = None]
    /\ Set(p, Put(file[p], "idle"))
    /\ UNCHANGED <<disk, ino, cwd, lost, stale, panic>>

\* exec reads the file under its lock and puts it.
Exec(p) ==
    LET i == pr[p].at IN
    /\ Found(p, {"exec"})
    /\ ino' = Read(i)
    /\ Set(p, Put(i, "idle"))
    /\ UNCHANGED disk /\ Keep

ChdirNoPut(p) ==   \* mutant: the old directory is not put
    LET i == pr[p].at IN
    /\ Found(p, {"chdir"})
    /\ ino' = Read(i)
    /\ IF Loaded(i).type # "dir"
       THEN Set(p, Put(i, "idle"))
       ELSE Set(p, [ip |-> i, at |-> None, pc |-> "chdir"])
    /\ UNCHANGED disk /\ Keep

ChdirLock(p) ==
    LET i == pr[p].at IN
    /\ Found(p, {"chdir"})
    /\ ino' = Read(i)
    /\ IF Loaded(i).type # "dir"
       THEN Set(p, Put(i, "idle"))
       ELSE Set(p, [ip |-> i] @@ Put(cwd[p], "chdir"))
    /\ UNCHANGED disk /\ Keep

Chdir(p) ==
    /\ Running(p, "chdir")
    /\ cwd' = [cwd EXCEPT ![p] = pr[p].ip]
    /\ Return(p, "idle")
    /\ UNCHANGED <<disk, ino, file, lost, stale, panic>>

UnlinkDots(p) ==   \* mutant: "." and ".." are not refused
    LET d == pr[p].at
        n == Head(pr[p].rest)
    IN  /\ FoundParent(p, {"unlink"})
        /\ Loaded(d).type = "dir"
        /\ IF Dirlookup(d, n) = 0
           THEN /\ ino' = Read(d)
                /\ Set(p, Put(d, "idle"))
                /\ UNCHANGED panic
           ELSE /\ Iget(Locked(ino, d, p), Dirlookup(d, n))
                /\ Set(p, [pc |-> "entry", dp |-> d, at |-> None, ip |-> Dirlookup(d, n)])
        /\ UNCHANGED <<disk, cwd, file, lost, stale>>

\* unlink: ilock(dp), the checks of the name, dirlookup
UnlinkLook(p) ==
    LET d == pr[p].at
        n == Head(pr[p].rest)
    IN  /\ FoundParent(p, {"unlink"})
        /\ Loaded(d).type = "dir"
        /\ IF n \in {".", ".."} \/ Dirlookup(d, n) = 0
           THEN /\ ino' = Read(d)
                /\ Set(p, Put(d, "idle"))
                /\ UNCHANGED panic
           ELSE /\ Iget(Locked(ino, d, p), Dirlookup(d, n))
                /\ Set(p, [pc |-> "entry", dp |-> d, at |-> None, ip |-> Dirlookup(d, n)])
        /\ UNCHANGED <<disk, cwd, file, lost, stale>>

\* unlink from ilock(ip): a directory in use stays; or the entry goes, dp loses
\* the link of "..", and iunlockput(dp) comes while ip is still locked.
UnlinkEntry(p) ==
    LET i == pr[p].ip
        d == pr[p].dp
        isdir == Loaded(i).type = "dir"
        down == ino[d].nlink - IF isdir THEN 1 ELSE 0
    IN  /\ Running(p, "entry") /\ CanLock(i)
        /\ IF Loaded(i).nlink < 1
           THEN panic' = "unlink: nlink < 1" /\ UNCHANGED <<disk, ino, pr>>
           ELSE IF isdir /\ ~Empty(i)
           THEN /\ ino' = Read(i)
                /\ Set(p, [ip |-> None] @@ Put(i, "unlockdp"))
                /\ UNCHANGED <<disk, panic>>
           ELSE /\ disk' = Iupdate(Dirlink(disk, d, Head(pr[p].rest), 0), d, down)
                /\ ino' = Unlocked(Iupdate(Locked(ino, i, p), d, down), d)
                /\ Set(p, [dp |-> None] @@ Put(d, "drop"))
                /\ UNCHANGED panic
        /\ UNCHANGED <<cwd, file, lost, stale>>

\* ip->nlink-- under the lock, and iunlockput(ip)
Unlinked(tbl, i) == Unlocked([tbl EXCEPT ![i].nlink = @ - 1], i)

UnlinkDrop(p) ==
    LET i == pr[p].ip IN
    /\ Running(p, "drop")
    /\ disk' = Iupdate(disk, i, disk[i].nlink - 1)
    /\ ino' = Unlinked(ino, i)
    /\ Set(p, [ip |-> None] @@ Put(i, "idle"))
    /\ Keep

LinkNoInc(p) ==    \* mutant: the count stays
    LET i == pr[p].at IN
    /\ Found(p, {"link"})
    /\ ino' = Read(i)
    /\ IF Loaded(i).type = "dir" THEN Set(p, Put(i, "idle"))
                                ELSE Set(p, [pc |-> "new", ip |-> i, at |-> None])
    /\ UNCHANGED disk /\ Keep

\* link: the count goes up before there is an entry.
LinkInc(p) ==
    LET i == pr[p].at IN
    /\ Found(p, {"link"})
    /\ Loaded(i).type # "dir" => Loaded(i).nlink < MaxLink
    /\ IF Loaded(i).type = "dir"
       THEN ino' = Read(i) /\ Set(p, Put(i, "idle")) /\ UNCHANGED disk
       ELSE /\ disk' = Iupdate(disk, i, disk[i].nlink + 1)
            /\ ino' = Iupdate(Read(i), i, Loaded(i).nlink + 1)
            /\ Set(p, [pc |-> "new", ip |-> i, at |-> None])
    /\ Keep

LinkWalk(p) ==
    LET new == pr[p].call.new IN
    /\ Running(p, "new")
    /\ Set(p, [pc |-> "walk", at |-> WalkFrom(p, new), rest |-> WalkRest(new)])
    /\ Iget(ino, WalkFrom(p, new))
    /\ UNCHANGED <<disk, cwd, file, lost, stale>>

\* ilock(dp), dirlink: the name exists (dirlink puts what it found while dp is
\* locked), or there is no disk block for it, or it is entered.
LinkEnter(p) ==
    LET d == pr[p].at
        n == Head(pr[p].rest)
        there == Dirlookup(d, n)
    IN  /\ FoundParent(p, {"link"})
        /\ Loaded(d).type = "dir"
        /\ \/ /\ there # 0
              /\ Iget(Locked(ino, d, p), there)
              /\ Set(p, [dp |-> d] @@ Put(there, "unlockdp"))
              /\ UNCHANGED disk
           \/ /\ there = 0
              /\ ino' = Read(d)
              /\ Set(p, Put(d, "undo"))
              /\ UNCHANGED <<disk, panic>>
           \/ /\ there = 0
              /\ disk' = Dirlink(disk, d, n, pr[p].ip)
              /\ ino' = Read(d)
              /\ Set(p, Put(d, "linked"))
              /\ UNCHANGED panic
        /\ UNCHANGED <<cwd, file, lost, stale>>

\* iput(ip) at the end of link
Linked(p) ==
    /\ Running(p, "linked")
    /\ Set(p, [ip |-> None] @@ Put(pr[p].ip, "idle"))
    /\ UNCHANGED <<disk, ino>> /\ Keep

\* bad: the count goes down again.
LinkUndo(p) ==
    LET i == pr[p].ip IN
    /\ Running(p, "undo") /\ CanLock(i)
    /\ disk' = Iupdate(disk, i, disk[i].nlink - 1)
    /\ ino' = Unlinked(Read(i), i)
    /\ Set(p, [ip |-> None] @@ Put(i, "idle"))
    /\ Keep

\* A crash and the next boot: the disk is what the last group of calls left.
Crash ==
    /\ panic = "no" /\ \A p \in Procs : pr[p].pc = "idle"
    /\ lost' = {i \in Inodes : disk[i].type # "none" /\ disk[i].nlink = 0}
    /\ ino' = [i \in Inodes |-> IF i = ROOTINO
                                THEN [NoEntry EXCEPT !.ref = Cardinality(Procs)]
                                ELSE NoEntry]
    /\ cwd' = [p \in Procs |-> ROOTINO]
    /\ file' = [p \in Procs |-> None]
    /\ UNCHANGED <<disk, pr, stale, panic>>

\* After a panic nothing runs.
Halted == panic # "no" /\ UNCHANGED vars

Step(p) == \/ Iput(p) \/ IputFree(p) \/ IputDrop(p)
           \/ Begin(p) \/ Walk(p) \/ WalkNoParent(p) \/ NotDir(p) \/ IlockPanic(p)
           \/ CreateLook(p) \/ CreateExists(p) \/ CreateGet(p) \/ CreateEnter(p)
           \/ CreateFail(p) \/ UnlockDp(p) \/ OpenLock(p) \/ Opened(p) \/ Close(p)
           \/ Exec(p) \/ ChdirLock(p) \/ Chdir(p)
           \/ UnlinkLook(p) \/ UnlinkEntry(p) \/ UnlinkDrop(p)
           \/ LinkInc(p) \/ LinkWalk(p) \/ LinkEnter(p) \/ Linked(p) \/ LinkUndo(p)

Next == (\E p \in Procs : Step(p)) \/ Crash \/ Halted

Spec == Init /\ [][Next]_vars

----------------------------------------------------------------------------
(* Properties *)

\* The references of process p to inode i: its pointers that iget or idup made.
\* A new inode is not one until ialloc's iget, and neither is p->cwd between
\* the iput of the old directory and the assignment of the new one.
Refs(p, i) == Cardinality({x \in {"at", "ip", "dp", "put"} :
                              /\ pr[p][x] = i
                              /\ ~(x = "ip" /\ pr[p].pc = "ialloc")})
              + (IF file[p] = i THEN 1 ELSE 0)
              + (IF cwd[p] = i /\ pr[p].after # "chdir" THEN 1 ELSE 0)

\* ref of every table entry (iget, idup and iput in fs.c) is the number of
\* pointers to it that the calls in progress, the open files and the working
\* directories hold: none is dropped twice, and none is forgotten on the error
\* paths of create, open, link, unlink, chdir and exec.
RefsCounted == panic = "no" => \A i \in Inodes : 
    ino[i].ref = MapThenSumSet(LAMBDA p : Refs(p, i), Procs)

\* The directories that a path from the root reaches.
Reached == LET step(S) == S \cup {i \in Inodes : /\ disk[i].type = "dir"
                                                 /\ \E d \in S, n \in Names :
                                                       disk[d].ents[n] = i}
               reach[k \in 0..NInodes] == IF k = 0 THEN {ROOTINO} ELSE step(reach[k - 1])
           IN  reach[NInodes]

\* What a name reaches is allocated, and its link count is at least the number
\* of names it has ("." apart): unlink and iput free an inode only when the
\* last name is gone, whatever link, create and a crash do meanwhile.
NamesAlive ==
    ~stale => \A i \in Inodes :
        LET names == {x \in Reached \X (Names \cup {".."}) : disk[x[1]].ents[x[2]] = i}
        IN  names # {} => /\ disk[i].type # "none"
                          /\ disk[i].nlink >= Cardinality(names)

\* An allocated inode that has no links is in use, or is being made by create,
\* or lost its last reference in a crash, or in the second critical section of
\* an iput that had freed the inode's former content (fs.c, iput).
FreedWhenUnused ==
    panic = "no" =>
    \A i \in Inodes : disk[i].type # "none" /\ disk[i].nlink = 0 =>
        \/ ino[i].ref > 0
        \/ \E p \in Procs : pr[p].pc = "ialloc" /\ pr[p].ip = i
        \/ i \in lost

\* No processes wait for each other's inode locks in a circle: unlink locks
\* the parent before the child and excludes "." and "..", create locks only an
\* inode that no name reaches, and the walk holds one lock at a time.
NoDeadlock ==
    LET waits == [x \in Procs \X Procs |->
                    /\ panic = "no" /\ Wants(x[1]) # None
                    /\ ino[Wants(x[1])].lock = x[2]]
    IN  IsIrreflexive(TransitiveClosure(waits, Procs), Procs)

\* The only panic the calls meet is iget's, for want of a free entry: an entry
\* never points to an inode without type or links, and iput never finds the
\* inode it frees locked (ilock, iput in fs.c, sys_unlink in sysfile.c).
KnownPanics == ~stale => panic \in {"no", "iget: no inodes"}
============================================================================
