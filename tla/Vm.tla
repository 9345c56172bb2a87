--------------------------------- MODULE Vm ---------------------------------
(***************************************************************************)
(* Physical pages and page tables: kernel/kalloc.c and kernel/vm.c.  The   *)
(* functions take the memory m and return what they leave of it, with      *)
(* every error path.  m.free is kmem.freelist; which of its pages kalloc() *)
(* returns is immaterial, but kfree() links a page again that is already   *)
(* free, so it is a bag.  m.left is the number of calls of kalloc() that   *)
(* will still succeed: other harts allocate in between, so the caller      *)
(* chooses it freely and an operation can fail anywhere.                   *)
(* Addresses are in pages where the code has rounded them, sizes in bytes. *)
(***************************************************************************)
EXTENDS Integers, Sequences, FiniteSetsExt, SequencesExt, Bags, BagsExt

CONSTANTS
  NPAGES,  \* pages between end and PHYSTOP
  NPTE,    \* entries of a page-table page: 512 in the code
  PGSIZE   \* bytes of a page

ASSUME VmConstants == NPAGES \in Nat /\ NPTE \in Nat \ {0, 1} /\ PGSIZE \in Nat \ {0}

Pages == 1 .. NPAGES
MAXVA == NPTE ^ 3
TRAMPOLINE == MAXVA - 1
TRAPFRAME == MAXVA - 2
trampoline == NPAGES + 1      \* its physical page: kernel text, never allocated
PX(level, va) == (va \div NPTE ^ level) % NPTE
PGROUNDUP(sz) == ((sz + PGSIZE - 1) \div PGSIZE) * PGSIZE
NPages(sz) == PGROUNDUP(sz) \div PGSIZE

(* A page-table entry: "table" for PTE_V alone, "user" with PTE_U, "guard" *)
(* after uvmclear(), "kernel" for the mappings of the trap code.           *)
NoPte == [pa |-> 0, perm |-> "none"]
EmptyTable == [i \in 0 .. NPTE - 1 |-> NoPte]

(* kinit(): freerange() has freed every page. *)
kinit == [free |-> SetToBag(Pages), left |-> 0, panic |-> FALSE,
          tab |-> [pg \in Pages |-> EmptyTable], data |-> [pg \in Pages |-> "junk"]]

kalloc(m) == Min(BagToSet(m.free))
(* kalloc() returned a page; the caller clears it and puts its data there. *)
Taken(m, content) ==
  [m EXCEPT !.free = BagRemove(@, kalloc(m)), !.left = @ - 1, !.data[kalloc(m)] = content]

(* kfree(): the page is filled with junk and linked into the list, also if *)
(* it is there already.                                                    *)
kfree(m, pa) ==
  IF pa \notin Pages THEN [m EXCEPT !.panic = TRUE]
  ELSE [m EXCEPT !.free = BagAdd(@, pa), !.tab[pa] = EmptyTable, !.data[pa] = "junk"]
-----------------------------------------------------------------------------
(* walk(): the last-level table for va, with the tables on the way to it.  *)
walk(m, pagetable, va, alloc) ==
  LET down(w, level) ==
        LET pte == w.m.tab[w.pg][PX(level, va)] IN
        CASE ~w.ok -> w
          [] w.ok /\ pte.perm # "none" -> [w EXCEPT !.pg = pte.pa]
          [] w.ok /\ pte.perm = "none" /\ (~alloc \/ w.m.left = 0) -> [w EXCEPT !.ok = FALSE]
          [] OTHER -> LET pg == kalloc(w.m) IN
               [w EXCEPT !.pg = pg,
                         !.m = [Taken(w.m, "table") EXCEPT
                                  !.tab[w.pg][PX(level, va)] = [pa |-> pg, perm |-> "table"]]]
  IN down(down([m |-> [m EXCEPT !.panic = @ \/ va >= MAXVA], pg |-> pagetable, ok |-> TRUE], 2), 1)

Pte(w, va) == w.m.tab[w.pg][PX(0, va)]
SetPte(w, va, pte) == [w.m EXCEPT !.tab[w.pg][PX(0, va)] = pte]
Panics(m, test) == [m EXCEPT !.panic = @ \/ test]

(* walkaddr(): the page of a user address, or 0. *)
walkaddr(m, pagetable, va) ==
  IF va >= MAXVA THEN 0
  ELSE LET found(w) == IF w.ok /\ Pte(w, va).perm = "user" THEN Pte(w, va).pa ELSE 0
       IN found(walk(m, pagetable, va, FALSE))

(* mappages() of one page, the size every user mapping has. *)
mappages(m, pagetable, va, pa, perm) ==
  LET set(w) ==
        IF w.ok
        THEN [ok |-> TRUE, m |-> Panics(SetPte(w, va, [pa |-> pa, perm |-> perm]), Pte(w, va).perm # "none")]
        ELSE [ok |-> FALSE, m |-> w.m]
  IN set(walk(m, pagetable, va, TRUE))

uvmunmap(m, pagetable, va, npages, do_free) ==
  LET clear(n, w, a) ==
        IF ~w.ok \/ Pte(w, a).perm \in {"none", "table"} THEN Panics(n, TRUE)
        ELSE IF do_free THEN kfree(SetPte(w, a, NoPte), Pte(w, a).pa)
        ELSE SetPte(w, a, NoPte)
      unmap(n, a) == clear(n, walk(n, pagetable, a, FALSE), a)
  IN FoldLeft(unmap, m, [i \in 1 .. npages |-> va + i - 1])

uvmdealloc(m, pagetable, oldsz, newsz) ==
  IF newsz >= oldsz THEN [m |-> m, sz |-> oldsz]
  ELSE [m |-> uvmunmap(m, pagetable, NPages(newsz), NPages(oldsz) - NPages(newsz), TRUE), sz |-> newsz]

(* Mutant: the page just allocated is lost when mappages() fails. *)
NewPageLeaks(m, pagetable, va, content, perm) ==
  IF m.left = 0 THEN [ok |-> FALSE, m |-> m]
  ELSE mappages(Taken(m, content), pagetable, va, kalloc(m), perm)

(* kalloc() a page and map it at va; if the map fails, free it again. *)
NewPage(m, pagetable, va, content, perm) ==
  IF m.left = 0 THEN [ok |-> FALSE, m |-> m]
  ELSE LET keep(r) == IF r.ok THEN r ELSE [ok |-> FALSE, m |-> kfree(r.m, kalloc(m))]
       IN keep(mappages(Taken(m, content), pagetable, va, kalloc(m), perm))

(* uvmalloc(): its result is 0 if it ran out of memory. *)
uvmalloc(m, pagetable, oldsz, newsz) ==
  LET base == PGROUNDUP(oldsz)
      keep(r, a) ==
        IF r.ok THEN r ELSE [ok |-> FALSE, m |-> uvmdealloc(r.m, pagetable, a * PGSIZE, base).m]
      grow(u, a) == IF ~u.ok THEN u ELSE keep(NewPage(u.m, pagetable, a, "zero", "user"), a)
      result(u) == [m |-> u.m, sz |-> IF u.ok THEN newsz ELSE 0]
  IN IF newsz < oldsz THEN [m |-> m, sz |-> oldsz]
     ELSE result(FoldLeft(grow, [ok |-> TRUE, m |-> m],
                          [i \in 1 .. NPages(newsz) - NPages(oldsz) |-> NPages(oldsz) + i - 1]))
-----------------------------------------------------------------------------
(* The entries of the tables S that lead to lower tables, and the pages of *)
(* a page table.                                                           *)
Down(m, S) == {<<t, i>> \in S \X (0 .. NPTE - 1) : m.tab[t][i].perm = "table"}
Tables(m, pagetable) ==
  LET below(S) == {m.tab[e[1]][e[2]].pa : e \in Down(m, S)}
      mid == below({pagetable})
  IN {pagetable} \cup mid \cup below(mid)

(* freewalk(): every entry that leads to a table frees it, the root comes  *)
(* last; panics at a leaf that is still mapped.                            *)
freewalk(m, pagetable) ==
  LET leaf(tables) == \E t \in tables, i \in 0 .. NPTE - 1 : m.tab[t][i].perm \notin {"none", "table"}
      child(e, n) == kfree(n, m.tab[e[1]][e[2]].pa)
      free(tables) == kfree(FoldSet(child, Panics(m, leaf(tables)), Down(m, tables)), pagetable)
  IN free(Tables(m, pagetable))

uvmfree(m, pagetable, sz) == freewalk(uvmunmap(m, pagetable, 0, NPages(sz), TRUE), pagetable)

(* Mutant: every page of the copy is open to the user, the guard page too. *)
uvmcopyOpen(m, old, new, sz) ==
  LET copy(u, a) ==
        LET r == NewPage(u.m, new, a, u.m.data[Pte(walk(u.m, old, a, FALSE), a).pa], "user") IN
        IF ~u.ok \/ r.ok THEN r ELSE [ok |-> FALSE, m |-> uvmunmap(r.m, new, 0, a, TRUE)]
  IN FoldLeft(copy, [ok |-> TRUE, m |-> m], [i \in 1 .. NPages(sz) |-> i - 1])

(* uvmcopy(): contents and permissions of every page. *)
uvmcopy(m, old, new, sz) ==
  LET keep(r, a) == IF r.ok THEN r ELSE [ok |-> FALSE, m |-> uvmunmap(r.m, new, 0, a, TRUE)]
      page(u, w, a) ==
        IF ~w.ok \/ Pte(w, a).perm = "none" THEN [ok |-> TRUE, m |-> Panics(u.m, TRUE)]
        ELSE keep(NewPage(u.m, new, a, u.m.data[Pte(w, a).pa], Pte(w, a).perm), a)
      copy(u, a) == IF ~u.ok THEN u ELSE page(u, walk(u.m, old, a, FALSE), a)
  IN FoldLeft(copy, [ok |-> TRUE, m |-> m], [i \in 1 .. NPages(sz) |-> i - 1])

(* uvmclear(): PTE_U is taken away. *)
uvmclear(m, pagetable, va) ==
  LET clear(w) == Panics(SetPte(w, va, [Pte(w, va) EXCEPT !.perm = "guard"]), ~w.ok)
  IN clear(walk(m, pagetable, va, FALSE))

(* copyout() to the pages va, va+1, ...: it stops at the first page that   *)
(* is not the user's, and what it copied before stays.                     *)
copyout(m, pagetable, va, npages, content) ==
  LET put(u, pa0) == IF ~u.ok \/ pa0 = 0 THEN [u EXCEPT !.ok = FALSE] ELSE [u EXCEPT !.m.data[pa0] = content]
      copy(u, a) == put(u, walkaddr(u.m, pagetable, a))
  IN FoldLeft(copy, [ok |-> TRUE, m |-> m], [i \in 1 .. npages |-> va + i - 1])

(* copyin() and copyinstr(): do all the pages belong to the user? *)
copyin(m, pagetable, va, npages) == \A a \in va .. va + npages - 1 : walkaddr(m, pagetable, a) # 0
=============================================================================
