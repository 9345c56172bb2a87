------------------------------- MODULE Memory -------------------------------
(***************************************************************************)
(* The memory of processes over the page tables of module Vm: what fork(), *)
(* exec(), sbrk(), exit() with wait(), and copies to user memory do to     *)
(* pages.  A page table is used by one hart at a time (its process, or the *)
(* parent that builds or frees it), so a call is one step; other harts     *)
(* interfere through kmem alone, which is what left stands for.            *)
(***************************************************************************)
EXTENDS Vm, FiniteSets

CONSTANTS
  NPROC,      \* size of the process table
  MaxMem,     \* p->max_mem: allocproc() gives every process the same
  UintRange,  \* 2^32 in the code
  SbrkArgs,   \* arguments of sbrk()
  Programs    \* what exec() can load: sequences of [vaddr, filesz, memsz]

ASSUME MemoryConstants == NPROC \in Nat \ {0} /\ MaxMem \in Nat /\ SbrkArgs \subseteq Int

VARIABLES
  m,      \* the pages, see Vm
  proc    \* trapframe, pagetable and sz of every slot

vars == <<m, proc>>
Slots == 1 .. NPROC
initproc == 1
UNUSED == [trapframe |-> 0, pagetable |-> 0, sz |-> 0]
Live == {p \in Slots : proc[p].pagetable # 0}

(* proc_pagetable(): uvmcreate() and the two trap pages. *)
proc_pagetable(mm, trapframe) ==
  LET root == kalloc(mm)
      second(r) ==
        IF r.ok THEN [pagetable |-> root, m |-> r.m]
        ELSE [pagetable |-> 0, m |-> uvmfree(uvmunmap(r.m, root, TRAMPOLINE, 1, FALSE), root, 0)]
      first(r) ==
        IF r.ok THEN second(mappages(r.m, root, TRAPFRAME, trapframe, "kernel"))
        ELSE [pagetable |-> 0, m |-> uvmfree(r.m, root, 0)]
  IN IF mm.left = 0 THEN [pagetable |-> 0, m |-> mm]
     ELSE first(mappages(Taken(mm, "table"), root, TRAMPOLINE, trampoline, "kernel"))

proc_freepagetable(mm, pagetable, sz) ==
  LET m1 == uvmunmap(mm, pagetable, TRAMPOLINE, 1, FALSE)
      m2 == uvmunmap(m1, pagetable, TRAPFRAME, 1, FALSE)
  IN uvmfree(m2, pagetable, sz)

freeproc(mm, p) ==
  LET m1 == IF p.trapframe # 0 THEN kfree(mm, p.trapframe) ELSE mm
  IN IF p.pagetable # 0 THEN proc_freepagetable(m1, p.pagetable, p.sz) ELSE m1

(* Mutant: allocproc() frees the trapframe, which freeproc() frees again. *)
allocprocFreesTwice(mm) ==
  LET p(pagetable) == [trapframe |-> kalloc(mm), pagetable |-> pagetable, sz |-> 0]
      got(r) == IF r.pagetable = 0 THEN [m |-> freeproc(kfree(r.m, kalloc(mm)), p(0)), proc |-> UNUSED]
                ELSE [m |-> r.m, proc |-> p(r.pagetable)]
  IN IF mm.left = 0 THEN [m |-> mm, proc |-> UNUSED]
     ELSE got(proc_pagetable(Taken(mm, "trapframe"), kalloc(mm)))

(* allocproc(): the slot's memory, or UNUSED and all of it given back. *)
allocproc(mm) ==
  LET p(pagetable) == [trapframe |-> kalloc(mm), pagetable |-> pagetable, sz |-> 0]
      got(r) == IF r.pagetable = 0 THEN [m |-> freeproc(r.m, p(0)), proc |-> UNUSED]
                ELSE [m |-> r.m, proc |-> p(r.pagetable)]
  IN IF mm.left = 0 THEN [m |-> mm, proc |-> UNUSED]
     ELSE got(proc_pagetable(Taken(mm, "trapframe"), kalloc(mm)))

Budget == 0 .. BagCardinality(m.free)
With(left) == [m EXCEPT !.left = left]
Done(mm) == m' = [mm EXCEPT !.left = 0]
SetProc(p, new) == proc' = [proc EXCEPT ![p] = new]

(* userinit(): the first process, one page of initcode. *)
Init ==
  \E a \in {allocproc([kinit EXCEPT !.left = NPAGES])} :
    /\ m = [NewPage(a.m, a.proc.pagetable, 0, "text", "user").m EXCEPT !.left = 0]
    /\ proc = [p \in Slots |-> IF p = initproc THEN [a.proc EXCEPT !.sz = PGSIZE] ELSE UNUSED]

(* fork(): allocproc() in the free slot q, then uvmcopy(). *)
Fork(p, q) ==
  /\ ~m.panic /\ p \in Live /\ q \notin Live
  /\ \E left \in Budget : \E a \in {allocproc(With(left))} :
       IF a.proc = UNUSED THEN Done(a.m) /\ UNCHANGED proc
       ELSE \E c \in {uvmcopy(a.m, proc[p].pagetable, a.proc.pagetable, proc[p].sz)} :
              IF c.ok THEN Done(c.m) /\ SetProc(q, [a.proc EXCEPT !.sz = proc[p].sz])
              ELSE Done(freeproc(c.m, a.proc)) /\ UNCHANGED proc

(* exit(), and freeproc() in the parent's wait(). *)
Exit(p) ==
  /\ ~m.panic /\ p \in Live \ {initproc}
  /\ Done(freeproc(m, proc[p]))
  /\ SetProc(p, UNUSED)

(* Mutant: growproc() keeps the size it asked for when memory ran out. *)
growprocKeepsSize(mm, p, n) ==
  LET new_sz == (p.sz + n) % UintRange
      same == [m |-> mm, sz |-> p.sz]
      grown(up) == [m |-> up.m, sz |-> new_sz]
  IN CASE n > 0 -> IF new_sz > MaxMem THEN same ELSE grown(uvmalloc(mm, p.pagetable, p.sz, new_sz))
       [] n < 0 -> uvmdealloc(mm, p.pagetable, p.sz, new_sz)
       [] n = 0 -> same

(* growproc(): sz + n is computed in an unsigned int. *)
growproc(mm, p, n) ==
  LET new_sz == (p.sz + n) % UintRange
      same == [m |-> mm, sz |-> p.sz]
      grown(up) == [m |-> up.m, sz |-> IF up.sz = 0 THEN p.sz ELSE up.sz]
  IN CASE n > 0 -> IF new_sz > MaxMem THEN same ELSE grown(uvmalloc(mm, p.pagetable, p.sz, new_sz))
       [] n < 0 -> uvmdealloc(mm, p.pagetable, p.sz, new_sz)
       [] n = 0 -> same

Sbrk(p, n) ==
  /\ ~m.panic /\ p \in Live
  /\ \E left \in Budget : \E g \in {growproc(With(left), proc[p], n)} :
       Done(g.m) /\ SetProc(p, [proc[p] EXCEPT !.sz = g.sz])

(* copyout() on behalf of the process. *)
Store(p, va, npages) ==
  /\ ~m.panic /\ p \in Live
  /\ Done(copyout(m, proc[p].pagetable, va, npages, "user").m)
  /\ UNCHANGED proc
-----------------------------------------------------------------------------
(* loadseg(): the file's bytes into pages that must be mapped. *)
loadseg(mm, pagetable, va, sz) ==
  LET put(n, pa) == IF pa = 0 THEN Panics(n, TRUE) ELSE [n EXCEPT !.data[pa] = "text"]
      load(n, a) == put(n, walkaddr(n, pagetable, a))
  IN FoldLeft(load, mm, [i \in 1 .. NPages(sz) |-> va \div PGSIZE + i - 1])

(* The loop of exec() over the program headers.  fault is "none" or what   *)
(* goes wrong with the last segment: its header is refused ("header"), or  *)
(* its bytes cannot be read ("short").                                     *)
LoadSegments(mm, root, segs, fault) ==
  LET At(kind, i) == fault = kind /\ i = Len(segs)
      read(g, i) ==
        IF segs[i].vaddr % PGSIZE # 0 \/ At("short", i) THEN [ok |-> FALSE, m |-> g.m, sz |-> g.sz]
        ELSE [ok |-> TRUE, m |-> loadseg(g.m, root, segs[i].vaddr, segs[i].filesz), sz |-> g.sz]
      grown(u, g, i) == IF g.sz = 0 THEN [u EXCEPT !.ok = FALSE, !.m = g.m] ELSE read(g, i)
      load(u, i) ==
        IF ~u.ok \/ At("header", i) THEN [u EXCEPT !.ok = FALSE]
        ELSE grown(u, uvmalloc(u.m, root, u.sz, segs[i].vaddr + segs[i].memsz), i)
  IN FoldLeft(load, [ok |-> TRUE, m |-> mm, sz |-> 0], [i \in DOMAIN segs |-> i])

(* exec(): the new image is built beside the old one: the segments, a      *)
(* guard page and the stack with the arguments, which do not fit if fault  *)
(* is "args".  On any error the new image is freed and the old one kept.   *)
exec(mm, p, segs, fault) ==
  LET bad(n, root, sz) == [m |-> proc_freepagetable(n, root, sz), proc |-> p]
      commit(n, root, sz) == [m |-> proc_freepagetable(n, p.pagetable, p.sz),
                              proc |-> [p EXCEPT !.pagetable = root, !.sz = sz]]
      args(guarded, root, sz) ==
        IF fault = "args" THEN bad(guarded, root, sz)
        ELSE commit(copyout(guarded, root, NPages(sz) - 1, 1, "args").m, root, sz)
      stack(g, root, base) ==
        IF g.sz = 0 THEN bad(g.m, root, base)
        ELSE args(uvmclear(g.m, root, NPages(g.sz) - 2), root, g.sz)
      loaded(u, root) ==
        IF ~u.ok THEN bad(u.m, root, u.sz)
        ELSE stack(uvmalloc(u.m, root, PGROUNDUP(u.sz), PGROUNDUP(u.sz) + 2 * PGSIZE), root, PGROUNDUP(u.sz))
      start(pt) ==
        IF pt.pagetable = 0 THEN [m |-> pt.m, proc |-> p]
        ELSE loaded(LoadSegments(pt.m, pt.pagetable, segs, fault), pt.pagetable)
  IN start(proc_pagetable(mm, p.trapframe))

(* The page that sys_exec() allocates for the argument string at page va,  *)
(* if there is one: [ok, m, pg].                                           *)
fetchstr(mm, pagetable, va) ==
  LET pg == kalloc(mm) IN
  IF mm.left = 0 THEN [ok |-> FALSE, m |-> mm, argv |-> {}]
  ELSE [ok |-> copyin(mm, pagetable, va, 1), m |-> Taken(mm, "argv"), argv |-> {pg}]

(* sys_exec(): the argument is copied in first, its page is freed on every *)
(* path.                                                                   *)
SysExec(p, segs) ==
  /\ ~m.panic /\ p \in Live
  /\ \E left \in Budget, va \in {0, TRAPFRAME - 1}, fault \in {"none", "header", "short", "args"} :
     \E a \in {fetchstr(With(left), proc[p].pagetable, va)} :
     \E e \in {IF a.ok THEN exec(a.m, proc[p], segs, fault) ELSE [m |-> a.m, proc |-> proc[p]]} :
       Done(FoldSet(LAMBDA pg, n : kfree(n, pg), e.m, a.argv)) /\ SetProc(p, e.proc)

Next ==
  \E p \in Slots :
    \/ \E q \in Slots : Fork(p, q)
    \/ Exit(p)
    \/ \E n \in SbrkArgs : Sbrk(p, n)
    \/ \E va \in {0, 1, TRAPFRAME - 1} : Store(p, va, 2)
    \/ \E segs \in Programs : SysExec(p, segs)

Spec == Init /\ [][Next]_vars
-----------------------------------------------------------------------------
(* The leaf entry of p for va, NoPte if a table is missing on the way. *)
Leaf(p, va) ==
  LET top == m.tab[proc[p].pagetable][PX(2, va)]
      mid == IF top.pa = 0 THEN NoPte ELSE m.tab[top.pa][PX(1, va)]
  IN IF mid.pa = 0 THEN NoPte ELSE m.tab[mid.pa][PX(0, va)]

(* What p uses pages for: [pg, by]. *)
Uses(p) ==
  {[pg |-> proc[p].trapframe, by |-> <<p, "trapframe">>], [pg |-> proc[p].pagetable, by |-> <<p, "root">>]}
    \cup {[pg |-> m.tab[e[1]][e[2]].pa, by |-> <<p, "table", e>>] : e \in Down(m, Tables(m, proc[p].pagetable))}
    \cup {[pg |-> Leaf(p, va).pa, by |-> <<p, "user", va>>] : va \in 0 .. TRAPFRAME - 1}

(* Whatever call fails half way, no page is lost, none is used twice and   *)
(* none is freed twice: each is on the free list, once, or is the          *)
(* trapframe, a page-table page or a user page of one process, in one      *)
(* place.  And none of the panics of vm.c and kalloc.c (remap, not mapped, *)
(* leaf...) is reached.                                                    *)
PagesExact ==
  LET exact(uses) == \A pg \in Pages : CopiesIn(pg, m.free) + Cardinality({u \in uses : u.pg = pg}) = 1
  IN ~m.panic /\ exact(UNION {Uses(p) : p \in Live})

(* p->sz and the page table agree: exactly the pages below sz are mapped,  *)
(* and the trap pages lead to the trampoline and the process's own         *)
(* trapframe.  uvmcopy(), uvmfree() and copyin() rely on it.               *)
SizeMatchesTable ==
  \A p \in Live :
    /\ {va \in 0 .. TRAPFRAME - 1 : Leaf(p, va) # NoPte} = 0 .. NPages(proc[p].sz) - 1
    /\ Leaf(p, TRAMPOLINE) = [pa |-> trampoline, perm |-> "kernel"]
    /\ Leaf(p, TRAPFRAME) = [pa |-> proc[p].trapframe, perm |-> "kernel"]

(* Seen through the page tables, the processes have the separate address   *)
(* spaces of module AddressSpaces: fork() copies all of it, new pages are  *)
(* zero, a failed call changes nothing, no store reaches another process.  *)
Image(p) ==
  IF p \notin Live THEN <<>>
  ELSE [i \in 1 .. NPages(proc[p].sz) |->
          LET pte == Leaf(p, i - 1) IN IF pte.perm = "user" THEN m.data[pte.pa] ELSE pte.perm]
Abstract == INSTANCE AddressSpaces WITH
  Contents <- {"zero", "text", "args", "user", "guard"},
  live <- Live, image <- [p \in Slots |-> Image(p)]
ImplementsAddressSpaces == Abstract!Spec
=============================================================================
