------------------------------ MODULE TxnDisk ------------------------------
(***************************************************************************)
(* What the logging layer of the file system promises to its callers: a    *)
(* disk whose durable image changes only by whole groups of system calls.  *)
(* A crash throws away the volatile image and every running call.          *)
(***************************************************************************)
CONSTANTS Procs, Blocks, Vals, InitVal

VARIABLES durable,  \* what the file system holds after a crash now
          image,    \* what running system calls read and write
          active    \* processes inside a file system call

tdvars == <<durable, image, active>>

TDInit == /\ durable = [b \in Blocks |-> InitVal]
          /\ image = durable
          /\ active = {}

Begin(p) == /\ p \notin active
            /\ active' = active \cup {p}
            /\ UNCHANGED <<durable, image>>

Modify(p, b, v) == /\ p \in active
                   /\ image' = [image EXCEPT ![b] = v]
                   /\ UNCHANGED <<durable, active>>

End(p) == /\ p \in active
          /\ active' = active \ {p}
          /\ UNCHANGED <<durable, image>>

\* The whole group becomes durable at once, and only when no call is running.
CommitGroup == /\ active = {}
               /\ durable' = image
               /\ UNCHANGED <<image, active>>

Fail == /\ image' = durable
        /\ active' = {}
        /\ UNCHANGED durable

TDNext == \/ \E p \in Procs : Begin(p) \/ End(p)
          \/ \E p \in Procs, b \in Blocks, v \in Vals : Modify(p, b, v)
          \/ CommitGroup
          \/ Fail

TDSpec == TDInit /\ [][TDNext]_tdvars
============================================================================
