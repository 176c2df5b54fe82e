------------------------------ MODULE LruList ------------------------------
(***************************************************************************)
(* The list of user pages of kernel/vm.c as a value: lru_head, lru_tail,   *)
(* num_lru_pages and the fields of struct page, with lru_add and lru_remove*)
(* as functions from one such value to the next.                           *)
(***************************************************************************)
EXTENDS Integers, FiniteSets

CONSTANTS Frames,  \* physical pages, each with its entry of pages[]
          NULL

EmptyList == [head |-> NULL, tail |-> NULL, num |-> 0,
              next |-> [f \in Frames |-> NULL], prev |-> [f \in Frames |-> NULL],
              in_lru |-> [f \in Frames |-> FALSE],
              vaddr |-> [f \in Frames |-> 0], pagetable |-> [f \in Frames |-> NULL]]

\* f->next = g and f->prev = g; a test of f guards every use of a null f.
SetNext(L, f, g) == IF f = NULL THEN L ELSE [L EXCEPT !.next[f] = g]
SetPrev(L, f, g) == IF f = NULL THEN L ELSE [L EXCEPT !.prev[f] = g]

\* The first half of lru_add: take out a page that is already in the list.
Unlink(L, f) ==
    LET M == SetPrev(SetNext(L, L.prev[f], L.next[f]), L.next[f], L.prev[f])
    IN  [M EXCEPT !.head = IF M.head = f THEN M.next[f] ELSE @,
                  !.tail = IF M.tail = f THEN M.prev[f] ELSE @,
                  !.next[f] = NULL, !.prev[f] = NULL,
                  !.in_lru[f] = FALSE, !.num = @ - 1]

\* lru_add(f, p, va, use_lock), without its locks.
lru_add(L, f, p, va) ==
    LET was == L.in_lru[f]
        alone == L.head = f /\ L.next[f] = NULL /\ L.prev[f] = NULL
        K == [L EXCEPT !.pagetable[f] = p, !.vaddr[f] = va]
        M == IF was /\ ~alone THEN Unlink(K, f) ELSE K
    IN  IF M.head = NULL
        THEN [M EXCEPT !.head = f, !.tail = f, !.next[f] = f, !.prev[f] = f,
                       !.in_lru[f] = TRUE, !.num = 1]
        ELSE LET N == [M EXCEPT !.next[f] = M.head, !.prev[f] = M.tail]
             IN  [SetNext(SetPrev(N, N.head, f), N.tail, f) EXCEPT
                     !.tail = f, !.in_lru[f] = TRUE,
                     !.num = IF was THEN @ ELSE @ + 1]

\* lru_remove(f, use_lock), without its locks: head and tail are mended, the
\* neighbours of a page between them are not.
lru_remove(L, f) ==
    LET last == L.head = f /\ L.head = L.tail
        h == IF last THEN NULL ELSE IF L.head = f THEN L.next[f] ELSE L.head
        t == IF last THEN NULL ELSE IF L.tail = f THEN L.prev[f] ELSE L.tail
        M == [L EXCEPT !.head = h, !.tail = t]
        N == IF last THEN M ELSE SetNext(SetPrev(M, h, t), t, h)
    IN  IF ~L.in_lru[f] THEN L
        ELSE [N EXCEPT !.next[f] = NULL, !.prev[f] = NULL, !.in_lru[f] = FALSE,
                       !.vaddr[f] = 0, !.num = @ - 1]
============================================================================
