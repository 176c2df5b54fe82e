---------------------------- MODULE MCVirtioDisk ---------------------------
(* An instance of VirtioDisk for TLC. *)
EXTENDS VirtioDisk, TLC

CONSTANTS b1, b2, b3

\* One buffer is read and written, the others one or the other.
MCDirs == (b1 :> BOOLEAN) @@ (b2 :> {TRUE}) @@ (b3 :> {FALSE})

\* Ring entries and command headers that nothing reads again are left out.
Live(ring, from, to) == [i \in 0..(Gap(from, to) - 1) |-> ring[(from + i) % NUM]]
View == <<free, desc, {<<d, ops[d]>> : d \in Desc \ free}, infob, status,
          Live(avail, seen, availidx), Live(used, used_idx, usedidx),
          availidx, seen, usedidx, used_idx, bdisk, moved, write, head, pc, inintr,
          taken, irq, panic>>
============================================================================
