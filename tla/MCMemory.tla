------------------------------ MODULE MCMemory ------------------------------
(* Memory with arguments and programs chosen for the edges: sizes off a    *)
(* page boundary, a segment that is not aligned, one below the end of the  *)
(* one before it, sbrk() below zero and above the limit.                   *)
EXTENDS Memory

SomeSbrkArgs == {-3, 0, 3}
Seg(vaddr, filesz, memsz) == [vaddr |-> vaddr, filesz |-> filesz, memsz |-> memsz]
SomePrograms == {<<Seg(0, 1, 2)>>, <<Seg(0, 1, 1), Seg(1, 1, 2)>>, <<Seg(0, 1, 3), Seg(0, 1, 1)>>}

(* A view of the state without the numbers of the pages: nothing but which *)
(* page is which depends on them, and kalloc() may return any free page.   *)
(* It tells states that break an invariant from those that do not.         *)
View ==
  <<m.panic, BagCardinality(m.free), PagesExact, SizeMatchesTable,
    [p \in Slots |-> <<proc[p].sz, Image(p),
                       IF p \in Live THEN Cardinality(Tables(m, proc[p].pagetable)) ELSE 0>>]>>
=============================================================================
