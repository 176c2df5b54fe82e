------------------------------ MODULE MCFiles ------------------------------
(* An instance of Files.  The view leaves out what nothing reads: the fields *)
(* of free file structures and the contents of free blocks.                 *)
EXTENDS Files

CONSTANTS p1, p2

MCWork(a, b) == (p1 :> a) @@ (p2 :> b)
MCWorkloads == {MCWork({"open", "dup", "close", "fork"}, {"open", "close", "exit", "pipe", "unlink"}),
                MCWork({"open", "write", "fork"}, {"write", "fault", "read"}),
                MCWork({"open", "write", "fork"}, {"write", "unlink", "close"}),
                MCWork({"fork", "unlink"}, {"open", "write", "close"}),
                MCWork({"fork", "unlink"}, {"open", "write", "fault"})}
MCSym == Permutations(Inums)
MCView == <<ofile, [f \in FileSlots |-> IF file[f].type = "none" THEN file[f].ref
                                                               ELSE file[f]],
            ino, used, [b \in used |-> blk[b]], pr, panic>>
============================================================================
