---------------------------- MODULE SparsePages ----------------------------
(***************************************************************************)
(* What vkQueueBindSparse promises of a sparse buffer: a page table.  A    *)
(* page holds what it was bound to last, and nothing once that memory is   *)
(* unbound or freed.                                                       *)
(***************************************************************************)
EXTENDS Integers

CONSTANTS Memories, Pages, MemoryPages

VARIABLE pages

Unbound == <<"none", 0>>

Init == pages = [p \in 0 .. Pages - 1 |-> Unbound]

Bind(from, size, m, at) ==
  pages' = [p \in 0 .. Pages - 1 |->
    IF p \in from .. from + size - 1 THEN <<m, at + p - from>> ELSE pages[p]]

Unbind(from, size) ==
  pages' = [p \in 0 .. Pages - 1 |->
    IF p \in from .. from + size - 1 THEN Unbound ELSE pages[p]]

Free(m) ==
  pages' = [p \in 0 .. Pages - 1 |-> IF pages[p][1] = m THEN Unbound ELSE pages[p]]

Next ==
  \/ \E from \in 0 .. Pages - 1, size \in 1 .. Pages :
       \/ Unbind(from, size)
       \/ \E m \in Memories, at \in 0 .. MemoryPages - 1 : Bind(from, size, m, at)
  \/ \E m \in Memories : Free(m)

Spec == Init /\ [][Next]_pages

=============================================================================
