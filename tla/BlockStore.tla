----------------------------- MODULE BlockStore ----------------------------
(***************************************************************************)
(* What the buffer cache promises its callers: between bread and brelse a  *)
(* block belongs to one process, which sees the latest contents and is the *)
(* only one that can change them.                                          *)
(***************************************************************************)
CONSTANTS Procs, Blocks, Vals, None

VARIABLES store,  \* contents of every block
          owner   \* process that has the block, or None

bvars == <<store, owner>>

BInit == /\ store \in [Blocks -> Vals]
         /\ owner = [b \in Blocks |-> None]

Take(p, b) == /\ owner[b] = None
              /\ owner' = [owner EXCEPT ![b] = p]
              /\ UNCHANGED store

Change(p, b, v) == /\ owner[b] = p
                   /\ store' = [store EXCEPT ![b] = v]
                   /\ UNCHANGED owner

Give(p, b) == /\ owner[b] = p
              /\ owner' = [owner EXCEPT ![b] = None]
              /\ UNCHANGED store

BNext == \E p \in Procs, b \in Blocks :
            Take(p, b) \/ Give(p, b) \/ \E v \in Vals : Change(p, b, v)

BSpec == BInit /\ [][BNext]_bvars
============================================================================
