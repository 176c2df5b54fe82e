----------------------------- MODULE ShParser ------------------------------
(***************************************************************************)
(* The parser of user/sh.c, and the grammar it is compared with.           *)
(*                                                                         *)
(* A line is a sequence of characters; a word is the pair of the places    *)
(* where it starts and ends, q and eq.  A command is a tuple that starts   *)
(* with its type.                                                          *)
(***************************************************************************)
EXTENDS Integers, Sequences, FiniteSetsExt

CONSTANT MAXARGS

whitespace == {" ", "\n"}
symbols == {"<", "|", ">", "&", ";", "(", ")"}

EXEC(argv) == <<"exec", argv>>
REDIR(cmd, tok, file) == <<"redir", cmd, tok, file>>
PIPE(left, right) == <<"pipe", left, right>>
LIST(left, right) == <<"list", left, right>>
BACK(cmd) == <<"back", cmd>>

Char(L, s) == IF s <= Len(L) THEN L[s] ELSE "0"

\* From s on, the first place that is not whitespace; and the end of a word
Skip(L, s) == Min({k \in s..Len(L) + 1 : Char(L, k) \notin whitespace})
WordEnd(L, s) == Min({k \in s..Len(L) + 1 : Char(L, k) \in whitespace \cup symbols \cup {"0"}})

gettoken(L, s) ==
    LET q == Skip(L, s)
        c == Char(L, q)
        append == c = ">" /\ Char(L, q + 1) = ">"
        eq == IF c = "0" THEN q
              ELSE IF append THEN q + 2
              ELSE IF c \in symbols THEN q + 1
              ELSE WordEnd(L, q)
        tok == IF append THEN "+" ELSE IF c \in symbols \cup {"0"} THEN c ELSE "a"
    IN  [tok |-> tok, word |-> <<q, eq>>, s |-> Skip(L, eq)]

peek(L, s, toks) == Char(L, Skip(L, s)) \in toks

\* What a parse function returns: the command and where it ends, or a panic
Parsed(s, cmd) == [ok |-> TRUE, s |-> s, cmd |-> cmd]
Panic == [ok |-> FALSE]

----------------------------------------------------------------------------
(* The parser *)

RECURSIVE parseline(_, _), parsepipe(_, _), parseredirs(_, _), parseargs(_, _, _), backs(_, _)

\* A node of two commands, unless one of them panics
Both(l, r, Node(_, _)) == IF l.ok /\ r.ok THEN Parsed(r.s, Node(l.cmd, r.cmd)) ELSE Panic

\* parseredirs goes on from what was parsed so far, c.
Redirect(L, c, t, f) == IF f.tok = "a" THEN Parsed(f.s, REDIR(c.cmd, t.tok, f.word)) ELSE Panic
parseredirs(L, c) ==
    IF c.ok /\ peek(L, c.s, {"<", ">"})
    THEN parseredirs(L, Redirect(L, c, gettoken(L, c.s), gettoken(L, gettoken(L, c.s).s)))
    ELSE c

BlockEnd(L, c) == IF c.ok /\ peek(L, c.s, {")"})
                  THEN parseredirs(L, Parsed(gettoken(L, c.s).s, c.cmd))
                  ELSE Panic
parseblock(L, s) == BlockEnd(L, parseline(L, gettoken(L, s).s))

\* cmd with argv as the arguments of its innermost command, which parseexec
\* fills in while redirections are put around it
RECURSIVE WithArgs(_, _)
WithArgs(cmd, argv) == IF cmd[1] = "exec" THEN EXEC(argv)
                       ELSE [cmd EXCEPT ![2] = WithArgs(@, argv)]

\* The loop of parseexec
Argument(L, c, argv, t) ==
    IF t.tok = "a" /\ Len(argv) + 1 < MAXARGS
    THEN parseargs(L, parseredirs(L, Parsed(t.s, c.cmd)), Append(argv, t.word))
    ELSE Panic
parseargs(L, c, argv) ==
    IF ~c.ok THEN Panic
    ELSE IF peek(L, c.s, {"|", ")", "&", ";", "0"}) THEN Parsed(c.s, WithArgs(c.cmd, argv))
    ELSE Argument(L, c, argv, gettoken(L, c.s))

parseexec(L, s) == IF peek(L, s, {"("}) THEN parseblock(L, s)
                   ELSE parseargs(L, parseredirs(L, Parsed(s, EXEC(<<>>))), <<>>)

PipeTail(L, c) == IF c.ok /\ peek(L, c.s, {"|"})
                  THEN Both(c, parsepipe(L, gettoken(L, c.s).s), PIPE)
                  ELSE c
parsepipe(L, s) == PipeTail(L, parseexec(L, s))

\* Mutant: if for while.
BackOnce(L, c) == IF c.ok /\ peek(L, c.s, {"&"})
                  THEN Parsed(gettoken(L, c.s).s, BACK(c.cmd))
                  ELSE c

\* The loop of parseline
backs(L, c) == IF c.ok /\ peek(L, c.s, {"&"})
               THEN backs(L, Parsed(gettoken(L, c.s).s, BACK(c.cmd)))
               ELSE c
LineTail(L, c) == IF c.ok /\ peek(L, c.s, {";"})
                  THEN Both(c, parseline(L, gettoken(L, c.s).s), LIST)
                  ELSE c
parseline(L, s) == LineTail(L, backs(L, parsepipe(L, s)))

Whole(L, c) == IF c.ok /\ peek(L, c.s, {"0"}) THEN c ELSE Panic
parsecmd(L) == Whole(L, parseline(L, 1))

\* The places that nulterminate overwrites, and the string at a place after it
RECURSIVE nulterminate(_)
nulterminate(cmd) ==
    CASE cmd[1] = "exec" -> {cmd[2][i][2] : i \in 1..Len(cmd[2])}
      [] cmd[1] = "redir" -> nulterminate(cmd[2]) \cup {cmd[4][2]}
      [] cmd[1] = "back" -> nulterminate(cmd[2])
      [] OTHER -> nulterminate(cmd[2]) \cup nulterminate(cmd[3])
StringAt(L, cmd, q) ==
    SubSeq(L, q, Min({k \in nulterminate(cmd) \cup {Len(L) + 1} : k >= q}) - 1)

----------------------------------------------------------------------------
(* The grammar: the commands that a sequence of tokens can stand for *)

RECURSIVE Tokens(_, _)
Tokens(L, s) == LET t == gettoken(L, s) IN
                IF t.tok = "0" THEN <<>> ELSE <<t>> \o Tokens(L, t.s)

Is(T, k, toks) == k \in 1..Len(T) /\ T[k].tok \in toks
From(T, k) == SubSeq(T, k, Len(T))
UpTo(T, k) == SubSeq(T, 1, k)

RECURSIVE Backs(_, _), Redirs(_, _), LineOf(_), PipeOf(_)
Backs(cmd, n) == IF n = 0 THEN cmd ELSE BACK(Backs(cmd, n - 1))

\* cmd with the redirections F, pairs of tokens, from left to right
Redirs(cmd, F) == IF F = <<>> THEN cmd
                  ELSE Redirs(REDIR(cmd, Head(F)[1].tok, Head(F)[2].word), Tail(F))

\* A simple command: words, and redirections in any order among them
SimpleOf(T) ==
    LET ops == {k \in 1..Len(T) : T[k].tok \in {"<", ">", "+"}}
        files == {k + 1 : k \in ops}
        args == SelectSeq([k \in 1..Len(T) |-> [k |-> k, word |-> T[k].word]],
                          LAMBDA x : x.k \notin ops \cup files)
        redirs == SelectSeq([k \in 1..Len(T) |-> <<T[k], IF k < Len(T) THEN T[k + 1] ELSE T[k]>>],
                            LAMBDA x : x[1].tok \in {"<", ">", "+"})
    IN  IF /\ \A k \in 1..Len(T) \ ops : T[k].tok = "a"
           /\ \A k \in files : Is(T, k, {"a"})
           /\ Len(args) < MAXARGS
        THEN {Redirs(EXEC([i \in 1..Len(args) |-> args[i].word]), redirs)}
        ELSE {}

\* A block: a line in parentheses, and redirections
BlockOf(T) ==
    UNION {{Redirs(c, [i \in 1..(Len(T) - k) \div 2 |-> <<T[k + 2 * i - 1], T[k + 2 * i]>>]) :
               c \in LineOf(SubSeq(T, 2, k - 1))} :
           k \in {k \in 2..Len(T) :
                    /\ Is(T, 1, {"("}) /\ Is(T, k, {")"}) /\ (Len(T) - k) % 2 = 0
                    /\ \A j \in k + 1..Len(T) :
                          T[j].tok \in IF (j - k) % 2 = 1 THEN {"<", ">", "+"} ELSE {"a"}}}

ExecOf(T) == SimpleOf(T) \cup BlockOf(T)

PipeOf(T) == ExecOf(T) \cup
    UNION {{PIPE(l, r) : l \in ExecOf(UpTo(T, k - 1)), r \in PipeOf(From(T, k + 1))} :
           k \in {k \in 1..Len(T) : Is(T, k, {"|"})}}

BackOf(T) == UNION {{Backs(c, Len(T) - k) : c \in PipeOf(UpTo(T, k))} :
                    k \in {k \in 0..Len(T) : \A j \in k + 1..Len(T) : Is(T, j, {"&"})}}

LineOf(T) == BackOf(T) \cup
    UNION {{LIST(l, r) : l \in BackOf(UpTo(T, k - 1)), r \in LineOf(From(T, k + 1))} :
           k \in {k \in 1..Len(T) : Is(T, k, {";"})}}
============================================================================
