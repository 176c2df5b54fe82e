------------------------------ MODULE ByteFile -----------------------------
(***************************************************************************)
(* What kernel/file.c promises of open files: a file is a sequence of      *)
(* bytes, an open file has an offset into one file, and a read or a write  *)
(* moves the offset over exactly the bytes it read or wrote; only a write   *)
(* whose buffer is not all there may change bytes it does not report.       *)
(***************************************************************************)
EXTENDS Integers, Sequences

CONSTANTS Files,   \* open file structures
          Inums,   \* files
          Bytes,
          MaxRun,  \* bytes that one step can write
          None

VARIABLES content, \* of each file: its bytes
          ip, off  \* of each open file: the file, and the offset

fvars == <<content, ip, off>>

Init == /\ content = [i \in Inums |-> <<>>]
        /\ ip = [f \in Files |-> None]
        /\ off = [f \in Files |-> 0]

\* s with the bytes of t at offset o, which is at most the length of s
Overlay(s, o, t) == SubSeq(s, 1, o) \o t \o SubSeq(s, o + Len(t) + 1, Len(s))

\* An open, which may truncate the file
Open(f) == \E i \in Inums : \E s \in {content[i], <<>>} :
              /\ ip' = [ip EXCEPT ![f] = i]
              /\ off' = [off EXCEPT ![f] = 0]
              /\ content' = [content EXCEPT ![i] = s]

Write(f) ==
    /\ ip[f] # None /\ off[f] <= Len(content[ip[f]])
    /\ \E n \in 1..MaxRun, b \in Bytes :
          /\ content' = [content EXCEPT ![ip[f]] = Overlay(@, off[f], [k \in 1..n |-> b])]
          /\ off' = [off EXCEPT ![f] = @ + n]
    /\ UNCHANGED ip

\* A write that fails in the copy may spoil bytes after the offset.
Spoil(f) ==
    /\ ip[f] # None
    /\ \E n \in 1..MaxRun, b \in Bytes :
          /\ off[f] + n <= Len(content[ip[f]])
          /\ content' = [content EXCEPT ![ip[f]] = Overlay(@, off[f], [k \in 1..n |-> b])]
    /\ UNCHANGED <<ip, off>>

Read(f) == /\ ip[f] # None
           /\ \E n \in 1..Len(content[ip[f]]) :
                 /\ off[f] + n <= Len(content[ip[f]])
                 /\ off' = [off EXCEPT ![f] = @ + n]
           /\ UNCHANGED <<content, ip>>

Truncate(i) == content' = [content EXCEPT ![i] = <<>>] /\ UNCHANGED <<ip, off>>

Next == \/ \E f \in Files : Open(f) \/ Write(f) \/ Spoil(f) \/ Read(f)
        \/ \E i \in Inums : Truncate(i)

Spec == Init /\ [][Next]_fvars
============================================================================
