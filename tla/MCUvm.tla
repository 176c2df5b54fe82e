-------------------------------- MODULE MCUvm ------------------------------
(* An instance of Uvm for TLC. *)
EXTENDS Uvm

\* One segment of one page, then two pages for guard and stack.
MCImages == {<<1, 3>>}

\* Pages are interchangeable.  As long as each has one owner, a state is known up
\* to a permutation of Frames by how many pages are where and which of the pages
\* a process had at its call it has still; a state where that or the other
\* invariant fails is told apart.  The last component is always
\* TRUE; it only has TLC evaluate the tables and th before it stores a state.
Shape(k) == <<root[k] # NULL, Len(hi[k]), Len(lo[k]), tramp[k], Vas(user[k])>>
Kept(p) == <<Vas(th[p].was[1]), th[p].was[2], Vas(th[p].was[1] \cap user[Cur(p)])>>
Thread(p) == IF th[p] = Idle THEN Idle
             ELSE <<[th[p] EXCEPT !.mem = (@ # NULL), !.was = NULL], Kept(p)>>
View == <<state, parent, sz, [p \in Procs |-> trapframe[p] # NULL],
          [k \in Tables |-> Shape(k)], [p \in Procs |-> Thread(p)], panic,
          PagesConserved, AllOrNothing, <<tables, th>> = <<tables, th>>>>
============================================================================
