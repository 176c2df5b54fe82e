-------------------------------- MODULE Sh ---------------------------------
(***************************************************************************)
(* The shell and init (user/sh.c, user/init.c) on the console: lines are   *)
(* read with gets (user/ulib.c), parsed, and run by a tree of processes    *)
(* with their pipes.                                                       *)
(*                                                                         *)
(* A step is one system call that another process can notice.  fork, exit, *)
(* wait, pipe and close are taken at their word (Proc, Pipe, Files); what  *)
(* a program does is external: it reads its standard input to the end if   *)
(* that is a pipe, or if it is the console and the program is named c.     *)
(***************************************************************************)
EXTENDS Console, ShParser, TLC

CONSTANTS init, sh,           \* processes there are at the start
          NBUF,               \* the shell's buffer for a line
          NPIPE,              \* pipes there can be
          Lines, MaxKeys      \* lines already read, or how many keys are typed

ASSUME ShAssumption == init \in Procs /\ sh \in Procs \ {init}

Fds == 0..4
Console012 == [d \in Fds |-> IF d <= 2 THEN <<"cons">> ELSE <<>>]
Free == [pc |-> "unused", cmd |-> <<>>, fds |-> [d \in Fds |-> <<>>], parent |-> init,
         line |-> <<>>, p |-> <<>>]
Started == [Free EXCEPT !.fds = Console012]

VARIABLES pr,       \* of each process: its place, command, descriptors, parent, line
          child,    \* init's pid: the shell it waits for
          nofork    \* a fork has failed

vars == <<cvars, pr, child, nofork>>

Init == /\ \/ /\ ConsoleInit(MaxKeys)
              /\ pr = [p \in Procs |-> CASE p = init -> [Started EXCEPT !.pc = "init"]
                                         [] p = sh -> [Started EXCEPT !.pc = "prompt"]
                                         [] OTHER -> Free]
           \/ /\ ConsoleInit(0)
              /\ \E L \in Lines :
                    pr = [p \in Procs |-> CASE p = init -> [Started EXCEPT !.pc = "init"]
                                            [] p = sh -> [Started EXCEPT !.pc = "got", !.line = L]
                                            [] OTHER -> Free]
        /\ child = sh
        /\ nofork = FALSE

At(p, l) == pr[p].pc = l
Step(p, f) == pr' = [pr EXCEPT ![p] = f @@ @]
Quiet == UNCHANGED <<cvars, child, nofork>>

\* A call on the console has returned.
Returned(p) == io[p].op = "done"

\* fork1 with f of the child and g of the parent; it may find no free process.
Slots == {q \in Procs : At(q, "unused")}
Fork1(p, f, g) ==
    /\ IF Slots = {}
       THEN Step(p, [pc |-> "exit"]) /\ nofork' = TRUE
       ELSE /\ pr' = [pr EXCEPT ![Min(Slots)] = f @@ [pr[p] EXCEPT !.parent = p],
                                ![p] = g @@ @]
            /\ UNCHANGED nofork
    /\ UNCHANGED <<cvars, child>>

\* exit(p) with what else it leaves of io: children go to init.
Exited(p) == [q \in Procs |-> IF q = p THEN [Free EXCEPT !.pc = "zombie", !.parent = pr[p].parent]
                              ELSE IF pr[q].parent = p THEN [pr[q] EXCEPT !.parent = init]
                              ELSE pr[q]]
Exit(p) == At(p, "exit") /\ pr' = Exited(p) /\ Quiet

\* wait, after which p is as f says
Wait(p, l, f) ==
    \E q \in Procs : /\ At(p, l) /\ At(q, "zombie") /\ pr[q].parent = p
                     /\ pr' = [pr EXCEPT ![q] = Free, ![p] = f @@ @]
                     /\ Quiet

----------------------------------------------------------------------------
(* init, and the shell's loop *)

\* wait; a shell that has exited is started again.
InitWait ==
    \E q \in Procs : /\ At(init, "init") /\ At(q, "zombie") /\ pr[q].parent = init
                     /\ pr' = [pr EXCEPT ![q] = Free,
                                         ![init].pc = IF q = child THEN "start" ELSE @]
                     /\ Quiet

\* Without a process for it init exits, and the kernel panics.
InitStart ==
    /\ At(init, "start")
    /\ IF Slots = {} THEN Step(init, [pc |-> "zombie"]) /\ nofork' = TRUE /\ UNCHANGED child
       ELSE /\ child' = Min(Slots)
            /\ pr' = [pr EXCEPT ![init].pc = "init",
                                ![Min(Slots)] = [Started EXCEPT !.pc = "prompt"]]
            /\ UNCHANGED nofork
    /\ UNCHANGED cvars

Calling(p, l) == Step(p, [pc |-> l]) /\ UNCHANGED <<cons, tx, uart, intr, keys, child, nofork>>

\* getcmd
Getcmd(p) == /\ At(p, "prompt")
             /\ CallWrite(p, 2)
             /\ Calling(p, "prompting")

Gets(p) == /\ At(p, "prompting") /\ Returned(p)
           /\ CallRead(p, 1)
           /\ Step(p, [pc |-> "gets", line |-> <<>>])
           /\ UNCHANGED <<cons, tx, uart, intr, keys, child, nofork>>

GetsMore(p) ==
    LET l == pr[p].line \o io[p].got
        more == io[p].got \notin {<<>>, <<"\n">>} /\ Len(l) + 1 < NBUF
    IN  /\ At(p, "gets") /\ Returned(p)
        /\ Step(p, [line |-> l, pc |-> IF more THEN "gets" ELSE "got"])
        /\ IF more THEN CallRead(p, 1) ELSE io' = [io EXCEPT ![p] = NoCall]
        /\ UNCHANGED <<cons, tx, uart, intr, keys, child, nofork>>

\* The shell is killed while it waits for input.
Killed(p) == /\ At(p, "gets") /\ io[p].op = "rsleep" /\ keys > 0
             /\ pr' = Exited(p)
             /\ io' = [io EXCEPT ![p] = NoCall]
             /\ keys' = keys - 1
             /\ UNCHANGED <<cons, tx, uart, intr, child, nofork>>

\* main: the end of the input, cd, or a child for the command
IsCd(l) == Len(l) >= 3 /\ SubSeq(l, 1, 3) = <<"c", "d", " ">>
Main(p) ==
    /\ At(p, "got")
    /\ IF pr[p].line = <<>> THEN Step(p, [pc |-> "exit"]) /\ Quiet
       ELSE IF IsCd(pr[p].line) THEN Step(p, [pc |-> "prompt"]) /\ Quiet
       ELSE Fork1(p, [pc |-> "parse"], [pc |-> "waiting"])
MainWait(p) == Wait(p, "waiting", [pc |-> "prompt"])

\* parsecmd as a table of the lines that there can be (TLC works it out once,
\* for the sake of @@)
Typed == {Stored(c) : c \in Keys} \ {"^D", "^H", "^U", "^P"}
Commands == [L \in Lines \cup UNION {[1..n -> Typed] : n \in 1..MaxKeys} |-> parsecmd(L)]
            @@ <<>>

Parse(p) ==
    LET c == Commands[pr[p].line] IN
    /\ At(p, "parse")
    /\ Step(p, IF c.ok THEN [pc |-> "run", cmd |-> c.cmd] ELSE [pc |-> "exit"])
    /\ Quiet

----------------------------------------------------------------------------
(* runcmd *)

Runs(p, type) == At(p, "run") /\ pr[p].cmd[1] = type
FreeFds(fds) == {d \in Fds : fds[d] = <<>>}
Closed(fds, D) == [d \in Fds |-> IF d \in D THEN <<>> ELSE fds[d]]
\* open or dup: the object gets the lowest free descriptor
Opened(fds, obj) == [fds EXCEPT ![Min(FreeFds(fds))] = obj]

RunExec(p) ==
    /\ Runs(p, "exec")
    /\ \/ pr[p].cmd[2] # <<>> /\ Step(p, [pc |-> "program"])
       \/ Step(p, [pc |-> "exit"])     \* nothing to execute, or exec failed
    /\ Quiet

RunRedir(p) ==
    LET cmd == pr[p].cmd
        fd == IF cmd[3] = "<" THEN 0 ELSE 1
        fds == Closed(pr[p].fds, {fd})
    IN  /\ Runs(p, "redir")
        /\ \/ Step(p, [fds |-> Opened(fds, <<"file", cmd[3], cmd[4]>>), cmd |-> cmd[2]])
           \/ Step(p, [pc |-> "exit"])   \* open failed
        /\ Quiet

\* Mutant: no wait.
RunListNoWait(p) == /\ Runs(p, "list")
                    /\ Fork1(p, [cmd |-> pr[p].cmd[2]], [cmd |-> pr[p].cmd[3]])

RunList(p) == /\ Runs(p, "list")
              /\ Fork1(p, [cmd |-> pr[p].cmd[2]], [pc |-> "list"])
ListWait(p) == Wait(p, "list", [pc |-> "run", cmd |-> pr[p].cmd[3]])

RunBack(p) == /\ Runs(p, "back")
              /\ Fork1(p, [cmd |-> pr[p].cmd[2]], [pc |-> "exit"])

\* pipe(p): two descriptors of a new pipe
PipeEnds(k) == {<<"r", k>>, <<"w", k>>}
FreePipes == {k \in 1..NPIPE : \A q \in Procs, d \in Fds : pr[q].fds[d] \notin PipeEnds(k)}
RunPipe(p) ==
    LET k == Min(FreePipes)
        fd0 == Min(FreeFds(pr[p].fds))
        fd1 == Min(FreeFds(pr[p].fds) \ {fd0})
    IN  /\ Runs(p, "pipe")
        /\ IF FreePipes = {} THEN Step(p, [pc |-> "exit"])
           ELSE Step(p, [pc |-> "forkleft", p |-> <<fd0, fd1>>,
                         fds |-> [pr[p].fds EXCEPT ![fd0] = <<"r", k>>, ![fd1] = <<"w", k>>]])
        /\ Quiet
ForkLeft(p) == At(p, "forkleft") /\ Fork1(p, [pc |-> "left"], [pc |-> "forkright"])
ForkRight(p) == At(p, "forkright") /\ Fork1(p, [pc |-> "right"], [pc |-> "closing"])

\* Mutant: p[0] stays open.
PlumbedOpen(p, fd, end) ==
    LET fds == Opened(Closed(pr[p].fds, {fd}), pr[p].fds[pr[p].p[end]])
    IN  Closed(fds, {pr[p].p[2]})

\* close(fd); dup(p[end]); close(p[0]); close(p[1])
Plumbed(p, fd, end) ==
    LET fds == Opened(Closed(pr[p].fds, {fd}), pr[p].fds[pr[p].p[end]])
    IN  Closed(fds, {pr[p].p[1], pr[p].p[2]})
Left(p) == /\ At(p, "left")
           /\ Step(p, [pc |-> "run", cmd |-> pr[p].cmd[2], fds |-> Plumbed(p, 1, 2)])
           /\ Quiet
Right(p) == /\ At(p, "right")
            /\ Step(p, [pc |-> "run", cmd |-> pr[p].cmd[3], fds |-> Plumbed(p, 0, 1)])
            /\ Quiet

\* Mutant: p[1] stays open.
PipeHalfClose(p) == /\ At(p, "closing")
                    /\ Step(p, [pc |-> "wait2", fds |-> Closed(pr[p].fds, {pr[p].p[1]})])
                    /\ Quiet

PipeClose(p) == /\ At(p, "closing")
                /\ Step(p, [pc |-> "wait2", fds |-> Closed(pr[p].fds, {pr[p].p[1], pr[p].p[2]})])
                /\ Quiet
PipeWait(p) == \/ Wait(p, "wait2", [pc |-> "wait1"])
               \/ Wait(p, "wait1", [pc |-> "exit"])

\* A program: at the end of its input it exits.
HasWriter(k) == \E q \in Procs, d \in Fds : pr[q].fds[d] = <<"w", k>>
ReadsConsole(p) == pr[p].fds[0] = <<"cons">> /\ Char(pr[p].line, pr[p].cmd[2][1][1]) = "c"
Program(p) ==
    /\ At(p, "program") /\ ~ReadsConsole(p)
    /\ pr[p].fds[0][1] = "r" => ~HasWriter(pr[p].fds[0][2])
    /\ Step(p, [pc |-> "exit"])
    /\ Quiet
ProgramRead(p) == /\ At(p, "program") /\ ReadsConsole(p)
                  /\ CallRead(p, 2)
                  /\ Calling(p, "reading")
ProgramGot(p) == /\ At(p, "reading") /\ Returned(p)
                 /\ io' = [io EXCEPT ![p] = NoCall]
                 /\ Calling(p, IF io[p].got = <<>> THEN "exit" ELSE "program")

Process(p) == \/ Exit(p) \/ Getcmd(p) \/ Gets(p) \/ GetsMore(p) \/ Killed(p) \/ Main(p)
              \/ MainWait(p) \/ Parse(p) \/ RunExec(p) \/ RunRedir(p) \/ RunList(p)
              \/ ListWait(p) \/ RunBack(p) \/ RunPipe(p) \/ ForkLeft(p) \/ ForkRight(p)
              \/ Left(p) \/ Right(p) \/ PipeClose(p) \/ PipeWait(p)
              \/ Program(p) \/ ProgramRead(p) \/ ProgramGot(p)

Others == UNCHANGED <<pr, child, nofork>>

Next == \/ (Type /\ Others) \/ (Sent /\ Others)
        \/ (IntrChar /\ Others) \/ (Echo /\ Others) \/ (IntrTx /\ Others)
        \/ \E p \in Procs : (Uartputc(p) /\ Others) \/ (Consoleread(p) /\ Others)
        \/ InitWait \/ InitStart
        \/ \E p \in Procs : Process(p)

Spec == Init /\ [][Next]_vars /\ WF_vars(Next)

----------------------------------------------------------------------------
(* Properties *)

\* The words of a command
RECURSIVE Words(_)
Words(cmd) ==
    CASE cmd[1] = "exec" -> {cmd[2][i] : i \in 1..Len(cmd[2])}
      [] cmd[1] = "redir" -> Words(cmd[2]) \cup {cmd[4]}
      [] cmd[1] = "back" -> Words(cmd[2])
      [] OTHER -> Words(cmd[2]) \cup Words(cmd[3])

\* The recursive descent of parsecmd finds the one command that the grammar
\* gives the line, panics if there is none, and nulterminate leaves every word
\* as it was typed.
ParsesGrammar ==
    \A p \in Procs : At(p, "parse") =>
        LET L == pr[p].line
            c == parsecmd(L)
        IN  /\ LineOf(Tokens(L, 1)) = IF c.ok THEN {c.cmd} ELSE {}
            /\ c.ok => \A x \in Words(c.cmd) :
                          StringAt(L, c.cmd, x[1]) = SubSeq(L, x[1], x[2] - 1)

\* A program starts with descriptors 0, 1 and 2 and no other, whatever pipes
\* and redirections are around it: 0 to read from, 1 to write to, 2 the console
\* (runcmd's closes and dups).
ExecFds ==
    \A p \in Procs : At(p, "program") =>
        LET fds == pr[p].fds IN
        /\ FreeFds(fds) = Fds \ {0, 1, 2}
        /\ fds[0][1] \in {"cons", "r"} \/ SubSeq(fds[0], 1, 2) = <<"file", "<">>
        /\ fds[1][1] \in {"cons", "w"} \/ SubSeq(fds[1], 1, 2) \in {<<"file", ">">>, <<"file", "+">>}
        /\ fds[2] = <<"cons">>

\* The programs of a command, by the place of their names, without those in the
\* background; all of them; and which must have ended before which starts
RECURSIVE Foreground(_), Programs(_), Before(_)
Foreground(cmd) ==
    CASE cmd[1] = "exec" -> IF cmd[2] = <<>> THEN {} ELSE {cmd[2][1]}
      [] cmd[1] = "redir" -> Foreground(cmd[2])
      [] cmd[1] = "back" -> {}
      [] OTHER -> Foreground(cmd[2]) \cup Foreground(cmd[3])
Programs(cmd) ==
    CASE cmd[1] = "exec" -> Foreground(cmd)
      [] cmd[1] \in {"redir", "back"} -> Programs(cmd[2])
      [] OTHER -> Programs(cmd[2]) \cup Programs(cmd[3])
Before(cmd) ==
    CASE cmd[1] = "exec" -> {}
      [] cmd[1] \in {"redir", "back"} -> Before(cmd[2])
      [] cmd[1] = "pipe" -> Before(cmd[2]) \cup Before(cmd[3])
      [] OTHER -> Before(cmd[2]) \cup Before(cmd[3])
                  \cup (Foreground(cmd[2]) \X Programs(cmd[3]))

\* c1 ; c2 runs nothing of c2 while a program of c1 runs, unless in the
\* background, or unless a fork failed: runcmd then exits without waiting.
Sequenced ==
    ~nofork =>
        \A p, q \in Procs :
            p # q /\ At(p, "program") /\ At(q, "program") /\ pr[p].line = pr[q].line =>
                <<pr[p].cmd[2][1], pr[q].cmd[2][1]>> \notin Before(Commands[pr[p].line].cmd)

\* Again and again, whatever is run, someone waits for input with nothing left
\* to read and all output sent: no pipeline hangs for want of an end of file, no
\* wait waits for nobody, and no wakeup of a reader or a writer is missed.
ReturnsToInput ==
    []<>(/\ tx = 0 /\ uart.thr = 0 /\ uart.rx = "none" /\ cons.r = cons.w
         /\ \E p \in Procs : io[p].op = "rsleep")
============================================================================
