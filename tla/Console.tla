------------------------------ MODULE Console ------------------------------
(***************************************************************************)
(* The console: kernel/console.c and kernel/uart.c.                        *)
(*                                                                         *)
(* A step is one critical section of cons.lock or of uart_tx_lock, but the *)
(* input handler holds cons.lock while it waits for the device to take an  *)
(* echo, and readers are kept out for as long.  What is output is counted, *)
(* not named.  The UART and the keyboard are external.                     *)
(***************************************************************************)
EXTENDS Integers, Sequences, FiniteSetsExt

CONSTANTS Procs,
          INPUT_BUF_SIZE, UART_TX_BUF_SIZE,
          UintRange,          \* the range of cons.r, cons.w and cons.e
          Keys                \* what is typed

ASSUME ConsoleAssumption ==
    /\ INPUT_BUF_SIZE \in Nat \ {0} /\ UART_TX_BUF_SIZE \in Nat \ {0}
    /\ UintRange \in Nat /\ UintRange > INPUT_BUF_SIZE /\ UintRange % INPUT_BUF_SIZE = 0

VARIABLES cons,     \* buf, r, w, e
          tx,       \* bytes in uart_tx_buf
          uart,     \* the device: rx, a key or none; thr, bytes to send; irq of an empty thr
          intr,     \* uartintr: whether it runs, and echoes it has still to send
          io,       \* of each process: its call of consoleread or consolewrite
          keys      \* how many more keys are typed

cvars == <<cons, tx, uart, intr, io, keys>>

NoCall == [op |-> "none", n |-> 0, got |-> <<>>]
\* Calls of p, for n bytes
CallWrite(p, n) == io' = [io EXCEPT ![p] = [op |-> "write", n |-> n, got |-> <<>>]]
CallRead(p, n) == io' = [io EXCEPT ![p] = [op |-> "read", n |-> n, got |-> <<>>]]

ConsoleInit(k) ==
    /\ cons = [buf |-> [i \in 0..INPUT_BUF_SIZE - 1 |-> "0"], r |-> 0, w |-> 0, e |-> 0]
    /\ tx = 0
    /\ uart = [rx |-> "none", thr |-> 0, irq |-> FALSE]
    /\ intr = [on |-> FALSE, echo |-> 0]
    /\ io = [p \in Procs |-> NoCall]
    /\ keys = k

Up(i, k) == (i + k) % UintRange
Dist(i, j) == (j - i + UintRange) % UintRange
BufAt(i) == cons.buf[i % INPUT_BUF_SIZE]
ConsFree == intr.echo = 0

\* wakeup of everyone whose call sleeps as op
Woken(f, op, to) == [p \in Procs |-> IF f[p].op = op THEN [f[p] EXCEPT !.op = to] ELSE f[p]]

----------------------------------------------------------------------------
(* The UART *)

Type == \E c \in Keys :
    /\ keys > 0 /\ uart.rx = "none"
    /\ uart' = [uart EXCEPT !.rx = c]
    /\ keys' = keys - 1
    /\ UNCHANGED <<cons, tx, intr, io>>

Sent == /\ uart.thr > 0
        /\ uart' = [uart EXCEPT !.thr = @ - 1, !.irq = @ \/ uart.thr = 1]
        /\ UNCHANGED <<cons, tx, intr, io, keys>>

TxIdle == uart.thr = 0
WriteTHR == [uart EXCEPT !.thr = @ + 1, !.irq = FALSE]

\* uartstart with n bytes in the buffer, and the calls as in f
Uartstart(n, f) ==
    IF n > 0 /\ TxIdle
    THEN tx' = n - 1 /\ uart' = WriteTHR /\ io' = Woken(f, "wsleep", "write")
    ELSE /\ tx' = n /\ io' = f
         /\ uart' = IF n = 0 /\ uart.rx = "none" THEN [uart EXCEPT !.irq = FALSE] ELSE uart

\* consolewrite: uartputc of the next byte
Uartputc(p) ==
    /\ io[p].op = "write"
    /\ IF tx = UART_TX_BUF_SIZE
       THEN io' = [io EXCEPT ![p].op = "wsleep"] /\ UNCHANGED <<tx, uart>>
       ELSE Uartstart(tx + 1, [io EXCEPT ![p].n = @ - 1,
                                         ![p].op = IF io[p].n = 1 THEN "done" ELSE @])
    /\ UNCHANGED <<cons, intr, keys>>

----------------------------------------------------------------------------
(* Input *)

Ends == {"\n", "^D"}
Stored(c) == IF c = "\r" THEN "\n" ELSE c

\* Mutant: ^U takes back what was committed, too.
KillCommitted == Dist(cons.r, cons.e)

\* How many characters ^U takes back
KillLength == Min({k \in 0..Dist(cons.w, cons.e) :
                      \/ k = Dist(cons.w, cons.e)
                      \/ BufAt(Up(cons.e, UintRange - k - 1)) = "\n"})

\* consoleintr: c goes to the line, or edits it; n characters are echoed.
Edit(k) == /\ cons' = [cons EXCEPT !.e = Up(@, UintRange - k)]
           /\ intr' = [on |-> TRUE, echo |-> k]
           /\ UNCHANGED io

Store(c) ==
    LET e == Up(cons.e, 1)
        commit == c \in Ends \/ Dist(cons.r, e) = INPUT_BUF_SIZE
    IN  /\ Dist(cons.r, cons.e) < INPUT_BUF_SIZE
        /\ cons' = [cons EXCEPT !.buf[cons.e % INPUT_BUF_SIZE] = c, !.e = e,
                                !.w = IF commit THEN e ELSE @]
        /\ intr' = [on |-> TRUE, echo |-> 1]
        /\ io' = IF commit THEN Woken(io, "rsleep", "read") ELSE io

Ignored(c) == IF c = "^P" THEN TRUE
              ELSE c \notin {"^U", "^H"} /\ Dist(cons.r, cons.e) >= INPUT_BUF_SIZE

Consoleintr(c) ==
    \/ c = "^U" /\ Edit(KillLength)
    \/ c = "^H" /\ Edit(Min({1, Dist(cons.w, cons.e)}))
    \/ c \notin {"^U", "^H", "^P"} /\ Store(Stored(c))
    \/ Ignored(c) /\ Edit(0)

\* uartintr: characters first, ...
IntrChar == /\ uart.rx # "none" /\ ConsFree
            /\ Consoleintr(uart.rx)
            /\ uart' = [uart EXCEPT !.rx = "none"]
            /\ UNCHANGED <<tx, keys>>

\* uartputc_sync: the echo waits for the device.
Echo == /\ intr.echo > 0 /\ TxIdle
        /\ uart' = WriteTHR
        /\ intr' = [intr EXCEPT !.echo = @ - 1]
        /\ UNCHANGED <<cons, tx, io, keys>>

\* ... then output.
IntrTx == /\ intr.on \/ uart.irq
          /\ uart.rx = "none" /\ ConsFree
          /\ Uartstart(tx, io)
          /\ intr' = [intr EXCEPT !.on = FALSE]
          /\ UNCHANGED <<cons, keys>>

Ready == [k \in 1..Dist(cons.r, cons.w) |-> BufAt(Up(cons.r, k - 1))]

\* consoleread goes on, up to a line, an end of file or n bytes.  The end of
\* file is left for the next call, unless it is the first byte of this one.
Consoleread(p) ==
    LET stops == {k \in 1..Len(Ready) : Ready[k] \in Ends}
        m == Min(stops \cup {io[p].n, Len(Ready)})
        eof == m > 0 /\ Ready[m] = "^D"
        got == io[p].got \o SubSeq(Ready, 1, IF eof THEN m - 1 ELSE m)
        taken == IF eof /\ got # <<>> THEN m - 1 ELSE m
        left == io[p].n - (Len(got) - Len(io[p].got))
        op == IF m \in stops \/ left = 0 THEN "done" ELSE "rsleep"
    IN  /\ io[p].op = "read" /\ ConsFree
        /\ cons' = [cons EXCEPT !.r = Up(@, taken)]
        /\ io' = [io EXCEPT ![p] = [op |-> op, n |-> left, got |-> got]]
        /\ UNCHANGED <<tx, uart, intr, keys>>

----------------------------------------------------------------------------
(* Properties *)

Line == [k \in 1..Dist(cons.w, cons.e) |-> BufAt(Up(cons.w, k - 1))]

Input == INSTANCE LineInput WITH
    Chars <- {Stored(c) : c \in Keys}, Size <- INPUT_BUF_SIZE, ready <- Ready, line <- Line

\* The ring with its three indices, which wrap, implements a line that is edited
\* and a queue of committed characters: consoleintr and consoleread lose and
\* repeat none, and no committed character can be taken back (^H, ^U).
IsLineInput == Input!Spec
============================================================================
