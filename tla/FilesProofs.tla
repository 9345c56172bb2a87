---------------------------- MODULE FilesProofs -----------------------------
(***************************************************************************)
(* Proofs about the file table, the descriptors and the pipe (modules      *)
(* Files and Pipe), for any number of processes, files and descriptors, a  *)
(* pipe of any size and counters that wrap at any multiple of it.          *)
(***************************************************************************)
EXTENDS Files, CardFacts, TLAPS

Labels == {"user", "dead", "used", "fork", "exit", "alloc", "kalloc", "dup", "close", "pipeclose",
           "read", "rsleep", "write", "whold", "wsleep"}
Types == {"none", "r", "w"}

(* What is passed to fileclose(): no file twice. *)
Todos ==
  {<<>>} \cup {<<f>> : f \in FileSlots}
    \cup {<<fg[1], fg[2]>> : fg \in {h \in FileSlots \X FileSlots : h[1] # h[2]}}

ProcTypes ==
  /\ pc \in [Procs -> Labels] /\ ofile \in [Procs -> [Fds -> 0 .. NFILE]]
  /\ rf \in [Procs -> 0 .. NFILE] /\ wf \in [Procs -> 0 .. NFILE]
  /\ todo \in [Procs -> Todos] /\ after \in [Procs -> {"user", "exit"}]
  /\ np \in [Procs -> Procs \cup {NULL}]
TableTypes == ref \in [FileSlots -> Int] /\ ftype \in [FileSlots -> Types] /\ ff \in [Procs -> Types]
PipeTypes ==
  /\ inuse \in BOOLEAN /\ readopen \in BOOLEAN /\ writeopen \in BOOLEAN
  /\ data \in [0 .. PIPESIZE - 1 -> 0 .. UintRange - 1]
  /\ nread \in 0 .. UintRange - 1 /\ nwrite \in 0 .. UintRange - 1
  /\ plock \in Procs \cup {NULL}

(* Where a process is says which files it has besides its descriptors.     *)
(* sys_dup() has two descriptors for its file.                             *)
LocalsOf(p) ==
  /\ pc[p] \in {"alloc", "kalloc", "dup"} <=> rf[p] # 0
  /\ pc[p] = "kalloc" <=> wf[p] # 0
  /\ pc[p] = "kalloc" => rf[p] # wf[p]
  /\ pc[p] = "dup" => \E a, b \in Fds : a # b /\ ofile[p][a] = rf[p] /\ ofile[p][b] = rf[p]
  /\ todo[p] # <<>> => pc[p] \in {"close", "pipeclose"}
Locals == \A p \in Procs : LocalsOf(p)

(* fork() has a child of its own, which does not run. *)
Children ==
  /\ \A p \in Procs : pc[p] = "fork" => np[p] \in Procs /\ pc[np[p]] = "used"
  /\ \A p, q \in Procs : pc[p] = "fork" /\ pc[q] = "fork" /\ np[p] = np[q] => p = q

(* The references to file f: descriptors, files to close, files of a       *)
(* pipe() in progress, and descriptors of dup() without a reference yet.   *)
Places(o, f) == {d \in Procs \X Fds : o[d[1]][d[2]] = f}
Descriptors(f) == Places(ofile, f)
Closes(p, f) == f \in Range(todo[p])
Makes(p, f) == pc[p] \in {"alloc", "kalloc"} /\ f \in {rf[p], wf[p]}
Dups(p, f) == pc[p] = "dup" /\ rf[p] = f
Closers(f) == {p \in Procs : Closes(p, f)}
Makers(f) == {p \in Procs : Makes(p, f)}
Dupers(f) == {p \in Procs : Dups(p, f)}
Others(f) == Cardinality(Closers(f)) + Cardinality(Makers(f)) - Cardinality(Dupers(f))
RefsCounted == \A f \in FileSlots : ref[f] = Cardinality(Descriptors(f)) + Others(f)

(* An end of the pipe has one file, or one fileclose() about to close it. *)
Ends == {"r", "w"}
OneHolder ==
  \A e \in Ends :
    /\ \A f, g \in FileSlots : ftype[f] = e /\ ftype[g] = e => f = g
    /\ \A p, q \in Procs : ff[p] = e /\ ff[q] = e => p = q
    /\ \A f \in FileSlots, p \in Procs : ~(ftype[f] = e /\ ff[p] = e)
Held(e) == (\E f \in FileSlots : ftype[f] = e) \/ (\E p \in Procs : ff[p] = e)
OpenEnds ==
  /\ readopen <=> Held("r")
  /\ writeopen <=> Held("w")
  /\ inuse <=> readopen \/ writeopen
Closing == \A p \in Procs : ff[p] # "none" <=> pc[p] = "pipeclose"

(* A descriptor refers to an end of the pipe; who reads or writes has one  *)
(* for that end.                                                           *)
Typed == \A p \in Procs, fd \in Fds : ofile[p][fd] # 0 => ftype[ofile[p][fd]] \in Ends
Has(p, e) == \E fd \in Fds : ofile[p][fd] # 0 /\ ftype[ofile[p][fd]] = e
Reading == {"read", "rsleep"}
Writing == {"write", "whold", "wsleep"}
Uses(p) == (pc[p] \in Reading => Has(p, "r")) /\ (pc[p] \in Writing => Has(p, "w"))
Using == \A p \in Procs : Uses(p)

(* pi->lock between two bytes of pipewrite(), the ring, and who sleeps. *)
Locked == \A p \in Procs : plock = p <=> pc[p] = "whold"
RingFits == Count <= PIPESIZE
Readers ==
  \A p \in Procs : pc[p] = "rsleep" => writeopen /\ (plock = NULL => nread = nwrite \/ unwoken)
Writers == \A p \in Procs : pc[p] = "wsleep" => readopen /\ Full

TableInv == ProcTypes /\ TableTypes /\ Locals /\ Children
EndsInv == OneHolder /\ OpenEnds /\ Closing /\ Typed /\ Using
PipeInv == PipeTypes /\ Locked /\ RingFits /\ Readers /\ Writers
IInv == TableInv /\ RefsCounted /\ ~panicked /\ EndsInv /\ PipeInv
-----------------------------------------------------------------------------
(* Remainders, for the counters that wrap and the slots of the ring. *)
LEMMA ModDiv ==
  ASSUME NEW a \in Int, NEW m \in Nat, m > 0
  PROVE  a \div m \in Int /\ a % m \in 0 .. m - 1 /\ a % m = a - m * (a \div m)
BY SMT

LEMMA ModUnique ==
  ASSUME NEW m \in Nat, m > 0, NEW q \in Int, NEW r \in 0 .. m - 1
  PROVE  (q * m + r) % m = r
BY SMT

LEMMA ModShift ==
  ASSUME NEW m \in Nat, m > 0, NEW x \in Int, NEW q \in Int
  PROVE  (x + q * m) % m = x % m
<1> DEFINE d == x \div m
           r == x % m
<1>1. d \in Int /\ r \in 0 .. m - 1 /\ r = x - m * d
  BY Zenon, ModDiv
<1> HIDE DEF d, r
<1>2. d + q \in Int /\ x + q * m = (d + q) * m + r
  BY SMT, <1>1
<1>3. ((d + q) * m + r) % m = r
  BY Zenon, <1>1, <1>2, ModUnique
<1> QED
  BY Zenon, <1>2, <1>3 DEF r

LEMMA ModDistinct ==
  ASSUME NEW m \in Nat, m > 0, NEW x \in Int, NEW y \in Int, x < y, y < x + m
  PROVE  x % m # y % m
<1> DEFINE d == x \div m
           r == x % m
           e == y \div m
           s == y % m
<1>1. d \in Int /\ r \in 0 .. m - 1 /\ r = x - m * d /\ e \in Int /\ s \in 0 .. m - 1 /\ s = y - m * e
  BY Zenon, ModDiv
<1> HIDE DEF d, r, e, s
<1>2. SUFFICES ASSUME r = s PROVE FALSE
  BY Zenon DEF r, s
<1>3. y - x = m * (e - d)
  BY SMT, <1>1, <1>2
<1>4. e - d >= 1 \/ e - d <= 0
  BY SMT, <1>1
<1>5. CASE e - d >= 1
  BY SMT, <1>1, <1>3, <1>5
<1>6. CASE e - d <= 0
  BY SMT, <1>1, <1>3, <1>6
<1> QED
  BY Zenon, <1>4, <1>5, <1>6

(* Values that are at most one turn away. *)
LEMMA ModNear ==
  ASSUME NEW m \in Nat, m > 0
  PROVE  /\ \A a \in 0 .. m - 1 : a % m = a
         /\ \A a \in m .. 2 * m - 1 : a % m = a - m
         /\ \A a \in -m .. -1 : a % m = a + m
BY SMT

(* The files that are still to be passed to fileclose(). *)
LEMMA Lists ==
  /\ Range(<<>>) = {} /\ <<>> \in Todos
  /\ \A f \in FileSlots : <<f>> \in Todos /\ Range(<<f>>) = {f}
  /\ \A f, g \in FileSlots : f # g => <<f, g>> \in Todos /\ Range(<<f, g>>) = {f, g}
<1>1. Range(<<>>) = {} /\ <<>> \in Todos
  <2>1. DOMAIN <<>> = {}
    BY SMT
  <2> QED
    BY Zenon, <2>1 DEF Range, Todos
<1>2. ASSUME NEW f \in FileSlots PROVE <<f>> \in Todos /\ Range(<<f>>) = {f}
  BY SMT DEF Range, Todos
<1>3. ASSUME NEW f \in FileSlots, NEW g \in FileSlots, f # g
      PROVE  <<f, g>> \in Todos /\ Range(<<f, g>>) = {f, g}
  <2> DEFINE h == <<f, g>>
  <2>1. h \in FileSlots \X FileSlots /\ h[1] = f /\ h[2] = g /\ h = <<h[1], h[2]>>
    BY Zenon
  <2>2. DOMAIN h = {1, 2}
    BY SMT
  <2> HIDE DEF h
  <2>3. h \in Todos
    BY Zenon, <1>3, <2>1 DEF Todos
  <2>4. Range(h) = {f, g}
    BY Zenon, <2>1, <2>2 DEF Range
  <2> QED
    BY Zenon, <2>3, <2>4 DEF h
<1> QED
  BY Zenon, <1>1, <1>2, <1>3

LEMMA HeadTail ==
  ASSUME NEW s \in Todos, s # <<>>
  PROVE  /\ Head(s) \in FileSlots /\ Head(s) \in Range(s)
         /\ Tail(s) \in Todos /\ Range(Tail(s)) = Range(s) \ {Head(s)}
<1>1. CASE \E f \in FileSlots : s = <<f>>
  <2>1. PICK f \in FileSlots : s = <<f>>
    BY Zenon, <1>1
  <2>2. Head(s) = f /\ Tail(s) = <<>>
    BY SMT, <2>1
  <2> QED
    BY Zenon, <2>1, <2>2, Lists
<1>2. CASE \E f, g \in FileSlots : f # g /\ s = <<f, g>>
  <2>1. PICK f \in FileSlots, g \in FileSlots : f # g /\ s = <<f, g>>
    BY Zenon, <1>2
  <2>2. Head(s) = f /\ Tail(s) = <<g>>
    BY SMT, <2>1
  <2>3. Range(s) = {f, g} /\ Range(Tail(s)) = {g} /\ Tail(s) \in Todos
    BY Zenon, <2>1, <2>2, Lists
  <2> QED
    BY Zenon, <2>1, <2>2, <2>3
<1> QED
  BY Zenon, <1>1, <1>2 DEF Todos
-----------------------------------------------------------------------------
(* Counting references. *)
LEMMA FiniteRefs ==
  ASSUME CardFacts, NEW f
  PROVE  /\ IsFiniteSet(Descriptors(f)) /\ Cardinality(Descriptors(f)) \in Nat
         /\ IsFiniteSet(Closers(f)) /\ Cardinality(Closers(f)) \in Nat
         /\ IsFiniteSet(Makers(f)) /\ Cardinality(Makers(f)) \in Nat
         /\ IsFiniteSet(Dupers(f)) /\ Cardinality(Dupers(f)) \in Nat
<1>1. IsFiniteSet(Procs) /\ IsFiniteSet(Procs \X Fds)
  <2>1. 0 \in Int /\ NOFILE - 1 \in Int
    BY SMT, FilesConstants
  <2>2. IsFiniteSet(Fds)
    BY Zenon, <2>1 DEF CardFacts, CardInterval, Fds
  <2> QED
    BY Zenon, <2>2, FilesConstants DEF CardFacts, CardProduct
<1>2. \A T \in SUBSET Procs : IsFiniteSet(T) /\ Cardinality(T) \in Nat
  BY Zenon, <1>1 DEF CardFacts, CardSubset, CardType
<1>3. \A T \in SUBSET (Procs \X Fds) : IsFiniteSet(T) /\ Cardinality(T) \in Nat
  BY Zenon, <1>1 DEF CardFacts, CardSubset, CardType
<1>4. Closers(f) \in SUBSET Procs /\ Makers(f) \in SUBSET Procs /\ Dupers(f) \in SUBSET Procs
  BY Zenon DEF Closers, Makers, Dupers
<1>5. Descriptors(f) \in SUBSET (Procs \X Fds)
  BY Zenon DEF Descriptors, Places
<1> QED
  BY Zenon, <1>2, <1>3, <1>4, <1>5

(* The references that dup() still owes are fewer than the descriptors. *)
LEMMA DupersFewer ==
  ASSUME CardFacts, TableInv, NEW f \in FileSlots
  PROVE  /\ Cardinality(Dupers(f)) <= Cardinality(Descriptors(f))
         /\ Descriptors(f) # {} => Cardinality(Dupers(f)) < Cardinality(Descriptors(f))
<1>1. ASSUME NEW p \in Dupers(f), NEW d0 PROVE \E d \in Descriptors(f) \ {d0} : d[1] = p
  <2>1. p \in Procs /\ pc[p] = "dup" /\ rf[p] = f
    BY Zenon DEF Dupers, Dups
  <2>2. PICK a \in Fds, b \in Fds : a # b /\ ofile[p][a] = f /\ ofile[p][b] = f
    BY Zenon, <2>1 DEF TableInv, Locals, LocalsOf
  <2>3. <<p, a>> \in Descriptors(f) /\ <<p, b>> \in Descriptors(f) /\ <<p, a>> # <<p, b>>
        /\ <<p, a>>[1] = p /\ <<p, b>>[1] = p
    BY Zenon, <2>1, <2>2 DEF Descriptors, Places
  <2> QED
    BY Zenon, <2>3
<1>2. CASE Descriptors(f) = {}
  <2>1. Dupers(f) = {}
    BY Zenon, <1>1, <1>2
  <2>2. Cardinality({}) = 0
    BY Zenon DEF CardFacts, CardEmpty
  <2> QED
    BY SMT, <1>2, <2>1, <2>2
<1>3. ASSUME NEW d0 \in Descriptors(f) PROVE Cardinality(Dupers(f)) < Cardinality(Descriptors(f))
  <2> DEFINE T == Descriptors(f) \ {d0}
             g == [p \in Dupers(f) |-> CHOOSE d \in T : d[1] = p]
  <2>1. \A p \in Dupers(f) : g[p] \in T /\ g[p][1] = p
    BY Zenon, <1>1
  <2>2. g \in [Dupers(f) -> T] /\ OneToOne(g, Dupers(f))
    BY Zenon, <2>1 DEF OneToOne
  <2>3. IsFiniteSet(T) /\ Cardinality(T) = Cardinality(Descriptors(f)) - 1
    BY Zenon, <1>3, FiniteRefs DEF CardFacts, CardRemove
  <2> HIDE DEF T, g
  <2>4. Cardinality(Dupers(f)) <= Cardinality(T)
    BY Zenon, <2>2, <2>3 DEF CardFacts, CardInjection
  <2>5. Cardinality(Dupers(f)) \in Nat /\ Cardinality(Descriptors(f)) \in Nat
    BY Zenon, FiniteRefs
  <2> QED
    BY SMT, <2>3, <2>4, <2>5
<1>4. CASE Descriptors(f) # {}
  <2>1. Cardinality(Dupers(f)) < Cardinality(Descriptors(f))
    BY Zenon, <1>3, <1>4
  <2>2. Cardinality(Dupers(f)) \in Nat /\ Cardinality(Descriptors(f)) \in Nat
    BY Zenon, FiniteRefs
  <2> QED
    BY SMT, <2>1, <2>2
<1> QED
  BY Zenon, <1>2, <1>4

(* What the counts say: a file that somebody has is not free, and the last *)
(* reference is not closed while there is a descriptor.                    *)
LEMMA Counts ==
  ASSUME CardFacts, TableInv, RefsCounted, NEW f \in FileSlots
  PROVE  /\ Descriptors(f) # {} => ref[f] >= 1
         /\ Closers(f) # {} => ref[f] >= 1 /\ (ref[f] = 1 => Descriptors(f) = {})
         /\ Makers(f) # {} => ref[f] >= 1
<1> DEFINE a == Cardinality(Descriptors(f))
           b == Cardinality(Closers(f))
           c == Cardinality(Makers(f))
           d == Cardinality(Dupers(f))
<1>1. a \in Nat /\ b \in Nat /\ c \in Nat /\ d \in Nat
  BY Zenon, FiniteRefs
<1>2. (b = 0 <=> Closers(f) = {}) /\ (c = 0 <=> Makers(f) = {})
  BY Zenon, FiniteRefs DEF CardFacts, CardEmpty
<1>3. d <= a /\ (Descriptors(f) # {} => d < a)
  BY Zenon, DupersFewer
<1>4. ref[f] = a + (b + c - d)
  BY Zenon DEF RefsCounted, Others
<1> HIDE DEF a, b, c, d
<1>5. CASE Descriptors(f) # {}
  BY SMT, <1>1, <1>2, <1>3, <1>4, <1>5
<1>6. CASE Descriptors(f) = {}
  BY SMT, <1>1, <1>2, <1>3, <1>4, <1>6
<1> QED
  BY Zenon, <1>5, <1>6

(* How the counts change: by one process, and by one descriptor. *)
Bit(b) == IF b THEN 1 ELSE 0
Weight(l, s, r, w, f) ==
  Bit(f \in Range(s)) + Bit(l \in {"alloc", "kalloc"} /\ f \in {r, w}) - Bit(l = "dup" /\ r = f)
Mine(p, f) == Weight(pc[p], todo[p], rf[p], wf[p], f)

LEMMA WeightList ==
  ASSUME NEW f \in FileSlots, NEW l, NEW s, NEW r, NEW w, l \notin {"alloc", "kalloc", "dup"}
  PROVE  Weight(l, s, r, w, f) = Bit(f \in Range(s))
BY SMT DEF Weight, Bit

LEMMA WeightIdle ==
  ASSUME NEW f \in FileSlots, NEW l, NEW r, NEW w, l \notin {"alloc", "kalloc", "dup"}
  PROVE  Weight(l, <<>>, r, w, f) = 0
<1>1. f \notin Range(<<>>)
  BY Zenon, Lists
<1> QED
  BY SMT, <1>1 DEF Weight, Bit

LEMMA WeightBusy ==
  ASSUME NEW f \in FileSlots, NEW r, NEW w
  PROVE  /\ Weight("alloc", <<>>, r, 0, f) = Bit(f = r)
         /\ Weight("kalloc", <<>>, r, w, f) = Bit(f \in {r, w})
         /\ Weight("dup", <<>>, r, w, f) = -Bit(f = r)
<1>1. f \notin Range(<<>>)
  BY Zenon, Lists
<1>2. f # 0
  BY SMT, FilesConstants DEF FileSlots
<1> QED
  BY SMT, <1>1, <1>2 DEF Weight, Bit

LEMMA BitSet ==
  ASSUME CardFacts, NEW S, NEW T, IsFiniteSet(S), NEW x, \A y : y # x => (y \in T <=> y \in S)
  PROVE  IsFiniteSet(T) /\ Cardinality(T) = Cardinality(S) + Bit(x \in T) - Bit(x \in S)
<1>0. Cardinality(S) \in Nat
  BY Zenon DEF CardFacts, CardType
<1>1. CASE x \in T
  <2>1. T = S \cup {x}
    BY Zenon, <1>1
  <2>2. /\ IsFiniteSet(T)
        /\ Cardinality(T) = IF x \in S THEN Cardinality(S) ELSE Cardinality(S) + 1
    BY Zenon, <2>1 DEF CardFacts, CardAdd
  <2> QED
    BY SMT, <1>0, <1>1, <2>2 DEF Bit
<1>2. CASE x \notin T
  <2>1. T = S \ {x}
    BY Zenon, <1>2
  <2>2. /\ IsFiniteSet(T)
        /\ Cardinality(T) = IF x \in S THEN Cardinality(S) - 1 ELSE Cardinality(S)
    BY Zenon, <2>1 DEF CardFacts, CardRemove
  <2> QED
    BY SMT, <1>0, <1>2, <2>2 DEF Bit
<1> QED
  BY Zenon, <1>1, <1>2

LEMMA OneProcess ==
  ASSUME CardFacts, ProcTypes, NEW p \in Procs, NEW f \in FileSlots,
         \A q \in Procs : q # p => /\ pc'[q] = pc[q] /\ todo'[q] = todo[q]
                                   /\ rf'[q] = rf[q] /\ wf'[q] = wf[q]
  PROVE  Others(f)' \in Int /\ Others(f) \in Int /\ Others(f)' = Others(f) + (Mine(p, f)' - Mine(p, f))
<1>1. IsFiniteSet(Descriptors(f)) /\ IsFiniteSet(Closers(f)) /\ IsFiniteSet(Makers(f)) /\ IsFiniteSet(Dupers(f))
  BY Zenon, FiniteRefs
<1>2. IsFiniteSet(Closers(f)') /\ Cardinality(Closers(f)') = Cardinality(Closers(f)) + Bit(Closes(p, f)') - Bit(Closes(p, f))
  <2>1. \A y : y # p => (y \in Closers(f)' <=> y \in Closers(f))
    BY Zenon DEF Closers, Closes
  <2>2. p \in Closers(f)' <=> Closes(p, f)'
    BY Zenon DEF Closers
  <2>3. p \in Closers(f) <=> Closes(p, f)
    BY Zenon DEF Closers
  <2>4. Cardinality(Closers(f)') = Cardinality(Closers(f)) + Bit(p \in Closers(f)') - Bit(p \in Closers(f))
    BY Zenon, <1>1, <2>1, BitSet
  <2>5. IsFiniteSet(Closers(f)')
    BY Zenon, <1>1, <2>1, BitSet
  <2> QED
    BY Zenon, <2>2, <2>3, <2>4, <2>5 DEF Bit
<1>3. IsFiniteSet(Makers(f)') /\ Cardinality(Makers(f)') = Cardinality(Makers(f)) + Bit(Makes(p, f)') - Bit(Makes(p, f))
  <2>1. \A y : y # p => (y \in Makers(f)' <=> y \in Makers(f))
    BY Zenon DEF Makers, Makes
  <2>2. p \in Makers(f)' <=> Makes(p, f)'
    BY Zenon DEF Makers
  <2>3. p \in Makers(f) <=> Makes(p, f)
    BY Zenon DEF Makers
  <2>4. Cardinality(Makers(f)') = Cardinality(Makers(f)) + Bit(p \in Makers(f)') - Bit(p \in Makers(f))
    BY Zenon, <1>1, <2>1, BitSet
  <2>5. IsFiniteSet(Makers(f)')
    BY Zenon, <1>1, <2>1, BitSet
  <2> QED
    BY Zenon, <2>2, <2>3, <2>4, <2>5 DEF Bit
<1>4. IsFiniteSet(Dupers(f)') /\ Cardinality(Dupers(f)') = Cardinality(Dupers(f)) + Bit(Dups(p, f)') - Bit(Dups(p, f))
  <2>1. \A y : y # p => (y \in Dupers(f)' <=> y \in Dupers(f))
    BY Zenon DEF Dupers, Dups
  <2>2. p \in Dupers(f)' <=> Dups(p, f)'
    BY Zenon DEF Dupers
  <2>3. p \in Dupers(f) <=> Dups(p, f)
    BY Zenon DEF Dupers
  <2>4. Cardinality(Dupers(f)') = Cardinality(Dupers(f)) + Bit(p \in Dupers(f)') - Bit(p \in Dupers(f))
    BY Zenon, <1>1, <2>1, BitSet
  <2>5. IsFiniteSet(Dupers(f)')
    BY Zenon, <1>1, <2>1, BitSet
  <2> QED
    BY Zenon, <2>2, <2>3, <2>4, <2>5 DEF Bit
<1>5. /\ Cardinality(Closers(f)') \in Nat /\ Cardinality(Makers(f)') \in Nat /\ Cardinality(Dupers(f)') \in Nat
      /\ Cardinality(Closers(f)) \in Nat /\ Cardinality(Makers(f)) \in Nat /\ Cardinality(Dupers(f)) \in Nat
  BY Zenon, <1>1, <1>2, <1>3, <1>4 DEF CardFacts, CardType
<1> QED
  BY SMT, <1>2, <1>3, <1>4, <1>5 DEF Others, Mine, Weight, Closes, Makes, Dups, Bit

Tables == [Procs -> [Fds -> 0 .. NFILE]]
With(o, p, fd, f) == [o EXCEPT ![p][fd] = f]
OnlyPut(o, new, p, fd, f) ==
  /\ new \in Tables
  /\ \A q \in Procs : q # p => new[q] = o[q]
  /\ \A k \in Fds : k # fd => new[p][k] = o[p][k]
  /\ new[p][fd] = f
LEMMA Put ==
  ASSUME NEW o \in Tables, NEW p \in Procs, NEW fd \in Fds, NEW f \in 0 .. NFILE
  PROVE  OnlyPut(o, With(o, p, fd, f), p, fd, f)
<1>1. With(o, p, fd, f) \in Tables
  BY Zenon DEF With, Tables
<1> QED
  BY Zenon, <1>1 DEF With, Tables, OnlyPut

LEMMA OneDescriptor ==
  ASSUME CardFacts, NEW o, NEW new, NEW p \in Procs, NEW fd \in Fds, NEW f, NEW g,
         OnlyPut(o, new, p, fd, f)
  PROVE  Cardinality(Places(new, g)) = Cardinality(Places(o, g)) + (Bit(f = g) - Bit(o[p][fd] = g))
<1> DEFINE S == Places(o, g)
           T == Places(new, g)
<1>1. /\ \A q \in Procs : q # p => new[q] = o[q]
      /\ \A k \in Fds : k # fd => new[p][k] = o[p][k]
      /\ new[p][fd] = f
  BY Zenon DEF OnlyPut
<1>2. <<p, fd>> \in Procs \X Fds /\ <<p, fd>>[1] = p /\ <<p, fd>>[2] = fd
  BY Zenon
<1>3. (<<p, fd>> \in T <=> f = g) /\ (<<p, fd>> \in S <=> o[p][fd] = g)
  BY Zenon, <1>1, <1>2 DEF Places
<1>4. ASSUME NEW y, y # <<p, fd>> PROVE y \in T <=> y \in S
  <2>1. CASE y \in Procs \X Fds
    <3>1. y[1] \in Procs /\ y[2] \in Fds /\ (y[1] # p \/ y[2] # fd)
      BY SMT, <1>4, <2>1
    <3>2. new[y[1]][y[2]] = o[y[1]][y[2]]
      BY Zenon, <1>1, <3>1
    <3> QED
      BY Zenon, <2>1, <3>2 DEF Places
  <2>2. CASE y \notin Procs \X Fds
    BY Zenon, <2>2 DEF Places
  <2> QED
    BY Zenon, <2>1, <2>2
<1>5. IsFiniteSet(S) /\ Cardinality(S) \in Nat
  <2>1. IsFiniteSet(Procs \X Fds) /\ S \in SUBSET (Procs \X Fds)
    <3>1. IsFiniteSet(Fds)
      BY SMT, FilesConstants DEF CardFacts, CardInterval, Fds
    <3> QED
      BY Zenon, <3>1, FilesConstants DEF CardFacts, CardProduct, Places
  <2> QED
    BY Zenon, <2>1 DEF CardFacts, CardSubset, CardType
<1> HIDE DEF S, T
<1>6. Cardinality(T) = Cardinality(S) + Bit(<<p, fd>> \in T) - Bit(<<p, fd>> \in S)
  BY Zenon, <1>4, <1>5, BitSet
<1> QED
  BY Zenon, <1>3, <1>5, <1>6 DEF Bit, S, T
-----------------------------------------------------------------------------
(* The steps of Files, and the first part of the invariant: the processes, *)
(* their descriptors and the reference counts.                             *)
CountsInv == TableInv /\ RefsCounted /\ ~panicked

LEMMA LocalsKept ==
  ASSUME NEW q \in Procs, LocalsOf(q), pc'[q] = pc[q], rf'[q] = rf[q], wf'[q] = wf[q],
         todo'[q] = todo[q], ofile'[q] = ofile[q]
  PROVE  LocalsOf(q)'
BY Zenon DEF LocalsOf

LEMMA RefsKept ==
  ASSUME RefsCounted, UNCHANGED <<ofile, todo, rf, wf, ref>>,
         \A q \in Procs : /\ pc'[q] \in {"alloc", "kalloc"} <=> pc[q] \in {"alloc", "kalloc"}
                          /\ pc'[q] = "dup" <=> pc[q] = "dup"
  PROVE  RefsCounted'
<1> SUFFICES ASSUME NEW f \in FileSlots
             PROVE  ref'[f] = Cardinality(Descriptors(f)') + Others(f)'
  BY Zenon DEF RefsCounted
<1>1. Descriptors(f)' = Descriptors(f) /\ Closers(f)' = Closers(f)
  BY Zenon DEF Descriptors, Places, Closers, Closes
<1>2. Makers(f)' = Makers(f)
  <2>1. ASSUME NEW q \in Procs PROVE Makes(q, f)' <=> Makes(q, f)
    BY Zenon DEF Makes
  <2> QED
    BY Zenon, <2>1 DEF Makers
<1>3. Dupers(f)' = Dupers(f)
  <2>1. ASSUME NEW q \in Procs PROVE Dups(q, f)' <=> Dups(q, f)
    BY Zenon DEF Dups
  <2> QED
    BY Zenon, <2>1 DEF Dupers
<1> QED
  BY Zenon, <1>1, <1>2, <1>3 DEF RefsCounted, Others

(* Steps that move processes in user mode, in the pipe, in exit() and in   *)
(* fileclose(), and touch neither descriptors nor references.              *)
Calm == {"user", "dead", "exit", "close", "pipeclose", "read", "rsleep", "write", "whold", "wsleep"}

LEMMA QuietStep ==
  ASSUME CountsInv, UNCHANGED <<ofile, rf, wf, todo, np, ref, panicked>>,
         pc' \in [Procs -> Labels], after' \in [Procs -> {"user", "exit"}],
         ftype' \in [FileSlots -> Types], ff' \in [Procs -> Types],
         \A q \in Procs : \/ pc'[q] = pc[q]
                          \/ /\ pc[q] \in Calm /\ pc'[q] \in Calm
                             /\ todo[q] # <<>> => pc'[q] \in {"close", "pipeclose"}
  PROVE  CountsInv'
<1>0. ProcTypes /\ TableTypes /\ Locals /\ Children /\ RefsCounted /\ ~panicked
  BY Zenon DEF CountsInv, TableInv
<1>1. ProcTypes' /\ TableTypes'
  BY Zenon, <1>0 DEF ProcTypes, TableTypes
<1>2. ASSUME NEW q \in Procs
      PROVE  /\ pc'[q] \in {"alloc", "kalloc"} <=> pc[q] \in {"alloc", "kalloc"}
             /\ pc'[q] = "kalloc" <=> pc[q] = "kalloc"
             /\ pc'[q] = "dup" <=> pc[q] = "dup"
             /\ pc'[q] = "fork" <=> pc[q] = "fork"
             /\ pc'[q] = "used" <=> pc[q] = "used"
  <2>1. CASE pc'[q] = pc[q]
    BY Zenon, <2>1
  <2>2. CASE pc[q] \in Calm /\ pc'[q] \in Calm
    BY Zenon, <2>2 DEF Calm
  <2> QED
    BY Zenon, <2>1, <2>2
<1>3. Locals'
  <2> SUFFICES ASSUME NEW q \in Procs PROVE LocalsOf(q)'
    BY Zenon DEF Locals
  <2>1. LocalsOf(q)
    BY Zenon, <1>0 DEF Locals
  <2>2. pc'[q] \in {"alloc", "kalloc", "dup"} <=> pc[q] \in {"alloc", "kalloc", "dup"}
    BY Zenon, <1>2
  <2>3. todo'[q] # <<>> => pc'[q] \in {"close", "pipeclose"}
    BY Zenon, <2>1 DEF LocalsOf
  <2> QED
    BY Zenon, <1>2, <2>1, <2>2, <2>3 DEF LocalsOf
<1>4. Children'
  BY Zenon, <1>0, <1>2 DEF Children
<1>5. RefsCounted'
  BY Zenon, <1>0, <1>2, RefsKept
<1> QED
  BY Zenon, <1>0, <1>1, <1>3, <1>4, <1>5 DEF CountsInv, TableInv

(* Where the processes are after a step. *)
LEMMA GotoMoves ==
  ASSUME ProcTypes, NEW p \in Procs, NEW l \in Labels, Goto(p, l)
  PROVE  /\ pc' \in [Procs -> Labels] /\ pc'[p] = l
         /\ \A q \in Procs : q # p => pc'[q] = pc[q]
BY Zenon DEF ProcTypes, Goto

LEMMA ReadersMove ==
  ASSUME ProcTypes, NEW p \in Procs, NEW l \in Labels, WakeReaders(p, l)
  PROVE  /\ pc' \in [Procs -> Labels] /\ pc'[p] = l
         /\ \A q \in Procs : q # p => pc'[q] = IF pc[q] = "rsleep" THEN "read" ELSE pc[q]
<1> PICK m \in [Procs -> Labels] : m = [q \in Procs |-> IF pc[q] = "rsleep" THEN "read" ELSE pc[q]]
  <2>1. \A q \in Procs : (IF pc[q] = "rsleep" THEN "read" ELSE pc[q]) \in Labels
    BY Zenon DEF ProcTypes, Labels
  <2> QED
    BY Zenon, <2>1
<1>1. pc' = [m EXCEPT ![p] = l]
  BY Zenon DEF WakeReaders
<1>2. \A q \in Procs : m[q] = IF pc[q] = "rsleep" THEN "read" ELSE pc[q]
  BY Zenon
<1>3. pc' \in [Procs -> Labels] /\ pc'[p] = l /\ \A q \in Procs : q # p => pc'[q] = m[q]
  BY Zenon, <1>1
<1> QED
  BY Zenon, <1>2, <1>3

LEMMA WritersMove ==
  ASSUME ProcTypes, NEW p \in Procs, NEW l \in Labels, WakeWriters(p, l)
  PROVE  /\ pc' \in [Procs -> Labels] /\ pc'[p] = l
         /\ \A q \in Procs : q # p => pc'[q] = IF pc[q] = "wsleep" THEN "write" ELSE pc[q]
<1> PICK m \in [Procs -> Labels] : m = [q \in Procs |-> IF pc[q] = "wsleep" THEN "write" ELSE pc[q]]
  <2>1. \A q \in Procs : (IF pc[q] = "wsleep" THEN "write" ELSE pc[q]) \in Labels
    BY Zenon DEF ProcTypes, Labels
  <2> QED
    BY Zenon, <2>1
<1>1. pc' = [m EXCEPT ![p] = l]
  BY Zenon DEF WakeWriters
<1>2. \A q \in Procs : m[q] = IF pc[q] = "wsleep" THEN "write" ELSE pc[q]
  BY Zenon
<1>3. pc' \in [Procs -> Labels] /\ pc'[p] = l /\ \A q \in Procs : q # p => pc'[q] = m[q]
  BY Zenon, <1>1
<1> QED
  BY Zenon, <1>2, <1>3

(* One process moves, and sleepers may be woken. *)
Moves(p, l) ==
  /\ pc' \in [Procs -> Labels] /\ pc'[p] = l
  /\ \A q \in Procs : q # p => \/ pc'[q] = pc[q]
                               \/ pc[q] = "rsleep" /\ pc'[q] = "read"
                               \/ pc[q] = "wsleep" /\ pc'[q] = "write"

LEMMA AnyMove ==
  ASSUME ProcTypes, NEW p \in Procs, NEW l \in Labels, Goto(p, l) \/ WakeReaders(p, l) \/ WakeWriters(p, l)
  PROVE  Moves(p, l)
<1>1. CASE Goto(p, l)
  BY Zenon, <1>1, GotoMoves DEF Moves
<1>2. CASE WakeReaders(p, l)
  BY Zenon, <1>2, ReadersMove DEF Moves
<1>3. CASE WakeWriters(p, l)
  BY Zenon, <1>3, WritersMove DEF Moves
<1> QED
  BY Zenon, <1>1, <1>2, <1>3

LEMMA QuietMove ==
  ASSUME CountsInv, UNCHANGED <<ofile, rf, wf, todo, np, ref, panicked>>,
         after' \in [Procs -> {"user", "exit"}],
         ftype' \in [FileSlots -> Types], ff' \in [Procs -> Types],
         NEW p \in Procs, NEW l \in Calm, Moves(p, l), pc[p] \in Calm,
         todo[p] # <<>> => l \in {"close", "pipeclose"}
  PROVE  CountsInv'
<1>1. ASSUME NEW q \in Procs
      PROVE  \/ pc'[q] = pc[q]
             \/ /\ pc[q] \in Calm /\ pc'[q] \in Calm
                /\ todo[q] # <<>> => pc'[q] \in {"close", "pipeclose"}
  <2>1. CASE q = p
    BY Zenon, <2>1 DEF Moves
  <2>2. CASE q # p /\ pc'[q] # pc[q]
    <3>1. \/ pc[q] = "rsleep" /\ pc'[q] = "read"
          \/ pc[q] = "wsleep" /\ pc'[q] = "write"
      BY Zenon, <2>2 DEF Moves
    <3>2. pc[q] \in Calm /\ pc'[q] \in Calm /\ pc[q] \notin {"close", "pipeclose"}
      BY Zenon, <3>1 DEF Calm
    <3>3. todo[q] = <<>>
      BY Zenon, <3>2 DEF CountsInv, TableInv, Locals, LocalsOf
    <3> QED
      BY Zenon, <3>2, <3>3
  <2> QED
    BY Zenon, <2>1, <2>2
<1>2. pc' \in [Procs -> Labels]
  BY Zenon DEF Moves
<1> QED
  BY Zenon, <1>1, <1>2, QuietStep

(* Where a pipe step leads, and that it is one under pi->lock. *)
LEMMA PipeMoves ==
  ASSUME ProcTypes, NEW p \in Procs, PipeStep(p)
  PROVE  /\ pc[p] \in {"read", "write", "whold"}
         /\ \E l \in {"user", "rsleep", "whold", "wsleep"} :
              /\ Moves(p, l)
              /\ l = "rsleep" => pc[p] = "read"
              /\ l \in {"whold", "wsleep"} => pc[p] \in {"write", "whold"}
<1>0. {"user", "rsleep", "whold", "wsleep"} \in SUBSET Labels
  BY Zenon DEF Labels
<1>1. CASE WriteLock(p)
  BY Zenon, <1>0, <1>1, AnyMove DEF WriteLock
<1>2. CASE WriteRefused(p)
  BY Zenon, <1>0, <1>2, AnyMove DEF WriteRefused
<1>3. CASE WriteSleep(p)
  BY Zenon, <1>0, <1>3, AnyMove DEF WriteSleep
<1>4. CASE WriteByte(p)
  <2>1. pc' = pc /\ pc[p] = "whold" /\ pc \in [Procs -> Labels]
    BY Zenon, <1>4 DEF WriteByte, ProcTypes
  <2> QED
    BY Zenon, <2>1 DEF Moves
<1>5. CASE WriteEnd(p)
  BY Zenon, <1>0, <1>5, AnyMove DEF WriteEnd
<1>6. CASE ReadWait(p)
  <2>1. pc[p] = "read" /\ (Goto(p, "user") \/ Goto(p, "rsleep"))
    BY Zenon, <1>6 DEF ReadWait
  <2> QED
    BY Zenon, <1>0, <2>1, AnyMove
<1>7. CASE \E k \in 0 .. PIPESIZE : ReadTake(p, k)
  <2>1. pc[p] = "read" /\ WakeWriters(p, "user")
    BY Zenon, <1>7 DEF ReadTake
  <2> QED
    BY Zenon, <1>0, <2>1, AnyMove
<1> QED
  BY Zenon, <1>1, <1>2, <1>3, <1>4, <1>5, <1>6, <1>7 DEF PipeStep

LEMMA QuietSteps ==
  ASSUME CountsInv, NEW p \in Procs,
         \/ Exit(p) \/ ClosePipe(p) \/ CloseDone(p) \/ Kill(p)
         \/ \E fd \in Fds, n \in 1 .. MaxN : FileRw(p, fd, n)
         \/ PipeStep(p) /\ UNCHANGED <<table, ofile, locals, panicked>>
  PROVE  CountsInv'
<1>0. ProcTypes /\ TableTypes /\ LocalsOf(p) /\ pc[p] \in Labels
  BY Zenon DEF CountsInv, TableInv, Locals, ProcTypes
<1>1. CASE Exit(p)
  <2>1. pc[p] = "user" /\ Moves(p, "exit")
    <3>1. "exit" \in Labels
      BY Zenon DEF Labels
    <3> QED
      BY Zenon, <1>0, <1>1, <3>1, AnyMove DEF Exit
  <2>2. UNCHANGED <<ofile, rf, wf, todo, np, ref, panicked, after, ftype, ff>>
    BY Zenon, <1>1 DEF Exit, table, locals
  <2>3. "user" \in Calm /\ "exit" \in Calm /\ pc[p] \notin {"close", "pipeclose"}
    BY Zenon, <2>1 DEF Calm
  <2> QED
    BY Zenon, <1>0, <2>1, <2>2, <2>3, QuietMove DEF ProcTypes, TableTypes, LocalsOf
<1>2. CASE ClosePipe(p)
  <2>1. pc[p] = "pipeclose" /\ Moves(p, "close")
    <3>1. "close" \in Labels
      BY Zenon DEF Labels
    <3> QED
      BY Zenon, <1>0, <1>2, <3>1, AnyMove DEF ClosePipe, PipeClose
  <2>2. UNCHANGED <<ofile, rf, wf, todo, np, ref, panicked, after, ftype>>
    BY Zenon, <1>2 DEF ClosePipe, table
  <2>3. "pipeclose" \in Calm /\ "close" \in Calm
    BY Zenon DEF Calm
  <2>4. ff' \in [Procs -> Types]
    <3>1. "none" \in Types
      BY Zenon DEF Types
    <3> QED
      BY Zenon, <1>0, <1>2, <3>1 DEF ClosePipe, TableTypes
  <2> QED
    BY Zenon, <1>0, <2>1, <2>2, <2>3, <2>4, QuietMove DEF ProcTypes, TableTypes
<1>3. CASE CloseDone(p)
  <2>1. after[p] \in {"user", "exit"}
    BY Zenon, <1>0 DEF ProcTypes
  <2>2. after[p] \in Labels /\ after[p] \in Calm /\ "close" \in Calm
    BY Zenon, <2>1 DEF Labels, Calm
  <2>3. pc[p] = "close" /\ Moves(p, after[p]) /\ todo[p] = <<>>
    BY Zenon, <1>0, <1>3, <2>2, AnyMove DEF CloseDone
  <2>4. UNCHANGED <<ofile, rf, wf, todo, np, ref, panicked, ftype, ff>>
    BY Zenon, <1>3 DEF CloseDone, table
  <2>5. after' \in [Procs -> {"user", "exit"}]
    BY Zenon, <1>0, <1>3 DEF CloseDone, ProcTypes
  <2> QED
    BY Zenon, <1>0, <2>2, <2>3, <2>4, <2>5, QuietMove DEF TableTypes
<1>4. CASE Kill(p)
  <2>1. PICK l \in Labels : /\ Goto(p, l)
                            /\ l = pc[p] \/ (pc[p] = "rsleep" /\ l = "read") \/ (pc[p] = "wsleep" /\ l = "write")
    <3>1. "read" \in Labels /\ "write" \in Labels
      BY Zenon DEF Labels
    <3> QED
      BY Zenon, <1>0, <1>4, <3>1 DEF Kill
  <2>2. pc' \in [Procs -> Labels] /\ pc'[p] = l /\ \A q \in Procs : q # p => pc'[q] = pc[q]
    BY Zenon, <1>0, <2>1, GotoMoves
  <2>3. UNCHANGED <<ofile, rf, wf, todo, np, ref, panicked, after, ftype, ff>>
    BY Zenon, <1>4 DEF Kill, table, locals
  <2>4. CASE l = pc[p]
    <3>1. \A q \in Procs : pc'[q] = pc[q]
      BY Zenon, <2>2, <2>4
    <3> QED
      BY Zenon, <1>0, <2>2, <2>3, <3>1, QuietStep DEF ProcTypes, TableTypes
  <2>5. CASE (pc[p] = "rsleep" /\ l = "read") \/ (pc[p] = "wsleep" /\ l = "write")
    <3>1. pc[p] \in Calm /\ l \in Calm /\ pc[p] \notin {"close", "pipeclose"}
      BY Zenon, <2>5 DEF Calm
    <3>2. Moves(p, l)
      BY Zenon, <2>2 DEF Moves
    <3> QED
      BY Zenon, <1>0, <2>3, <3>1, <3>2, QuietMove DEF ProcTypes, TableTypes, LocalsOf
  <2> QED
    BY Zenon, <2>1, <2>4, <2>5
<1>5. ASSUME NEW fd \in Fds, NEW n \in 1 .. MaxN, FileRw(p, fd, n) PROVE CountsInv'
  <2>1. PICK l \in {"read", "write"} : Goto(p, l)
    BY Zenon, <1>5 DEF FileRw
  <2>2. l \in Labels /\ l \in Calm
    BY Zenon DEF Labels, Calm
  <2>3. Moves(p, l)
    BY Zenon, <1>0, <2>1, <2>2, AnyMove
  <2>4. pc[p] = "user" /\ UNCHANGED <<ofile, rf, wf, todo, np, ref, panicked, after, ftype, ff>>
    BY Zenon, <1>5 DEF FileRw, User, table, locals
  <2>5. pc[p] \in Calm /\ pc[p] \notin {"close", "pipeclose"}
    BY Zenon, <2>4 DEF Calm
  <2> QED
    BY Zenon, <1>0, <2>2, <2>3, <2>4, <2>5, QuietMove DEF ProcTypes, TableTypes, LocalsOf
<1>6. CASE PipeStep(p) /\ UNCHANGED <<table, ofile, locals, panicked>>
  <2>1. pc[p] \in {"read", "write", "whold"}
    BY Zenon, <1>0, <1>6, PipeMoves
  <2>2. PICK l \in {"user", "rsleep", "whold", "wsleep"} : Moves(p, l)
    BY Zenon, <1>0, <1>6, PipeMoves
  <2>3. l \in Calm /\ pc[p] \in Calm /\ pc[p] \notin {"close", "pipeclose"}
    BY Zenon, <2>1 DEF Calm
  <2>4. UNCHANGED <<ofile, rf, wf, todo, np, ref, panicked, after, ftype, ff>>
    BY Zenon, <1>6 DEF table, locals
  <2> QED
    BY Zenon, <1>0, <2>2, <2>3, <2>4, QuietMove DEF ProcTypes, TableTypes, LocalsOf
<1> QED
  BY Zenon, <1>1, <1>2, <1>3, <1>4, <1>5, <1>6

(* Steps of one process that is not in fork(): it is enough that the       *)
(* process itself and the counts are in order.                             *)
LEMMA OneStep ==
  ASSUME CardFacts, CountsInv, NEW p \in Procs, ProcTypes', TableTypes', ~panicked',
         \A q \in Procs : q # p => /\ pc'[q] = pc[q] /\ todo'[q] = todo[q] /\ rf'[q] = rf[q]
                                   /\ wf'[q] = wf[q] /\ ofile'[q] = ofile[q],
         np' = np, pc' = pc \/ (pc[p] \notin {"fork", "used"} /\ pc'[p] # "fork"), LocalsOf(p)',
         \A f \in FileSlots :
           \E d \in Int : /\ Cardinality(Descriptors(f)') = Cardinality(Descriptors(f)) + d
                          /\ ref'[f] = ref[f] + d + (Mine(p, f)' - Mine(p, f))
  PROVE  CountsInv'
<1>0. ProcTypes /\ Locals /\ Children /\ RefsCounted
  BY Zenon DEF CountsInv, TableInv
<1>1. Locals'
  <2> SUFFICES ASSUME NEW q \in Procs PROVE LocalsOf(q)'
    BY Zenon DEF Locals
  <2>1. CASE q # p
    BY Zenon, <1>0, <2>1, LocalsKept DEF Locals
  <2> QED
    BY Zenon, <2>1
<1>2. Children'
  <2>1. ASSUME NEW q \in Procs, pc'[q] = "fork"
        PROVE  pc[q] = "fork" /\ np'[q] = np[q] /\ np[q] \in Procs /\ pc[np[q]] = "used" /\ pc'[np[q]] = "used"
    <3>1. pc[q] = "fork" /\ np'[q] = np[q]
      BY Zenon, <2>1
    <3>2. np[q] \in Procs /\ pc[np[q]] = "used"
      BY Zenon, <1>0, <3>1 DEF Children
    <3>3. pc'[np[q]] = "used"
      BY Zenon, <3>2
    <3> QED
      BY Zenon, <3>1, <3>2, <3>3
  <2>2. \A q \in Procs : pc'[q] = "fork" => np'[q] \in Procs /\ pc'[np'[q]] = "used"
    BY Zenon, <2>1
  <2>3. ASSUME NEW q \in Procs, NEW r \in Procs, pc'[q] = "fork", pc'[r] = "fork", np'[q] = np'[r] PROVE q = r
    <3>1. pc[q] = "fork" /\ pc[r] = "fork" /\ np[q] = np[r]
      BY Zenon, <2>1, <2>3
    <3> QED
      BY Zenon, <1>0, <3>1 DEF Children
  <2> QED
    BY Zenon, <2>2, <2>3 DEF Children
<1>3. RefsCounted'
  <2> SUFFICES ASSUME NEW f \in FileSlots
               PROVE  ref'[f] = Cardinality(Descriptors(f)') + Others(f)'
    BY Zenon DEF RefsCounted
  <2>1. Others(f) \in Int /\ Others(f)' = Others(f) + (Mine(p, f)' - Mine(p, f))
    BY Zenon, <1>0, OneProcess
  <2>2. ref[f] = Cardinality(Descriptors(f)) + Others(f) /\ Cardinality(Descriptors(f)) \in Nat
    BY Zenon, <1>0, FiniteRefs DEF RefsCounted
  <2>3. PICK d \in Int : /\ Cardinality(Descriptors(f)') = Cardinality(Descriptors(f)) + d
                         /\ ref'[f] = ref[f] + d + (Mine(p, f)' - Mine(p, f))
    BY Zenon
  <2>4. Mine(p, f)' \in Int /\ Mine(p, f) \in Int
    BY SMT DEF Mine, Weight, Bit
  <2> QED
    BY SMT, <2>1, <2>2, <2>3, <2>4
<1> QED
  BY Zenon, <1>1, <1>2, <1>3 DEF CountsInv, TableInv

LEMMA Smallest ==
  ASSUME CardFacts, NEW T \in SUBSET Nat, T # {}
  PROVE  Min(T) \in T
BY Zenon DEF CardFacts, NatMin, Min

LEMMA KeepStep ==
  ASSUME CardFacts, CountsInv, NEW p \in Procs, ProcTypes', TableTypes', ~panicked',
         \A q \in Procs : q # p => /\ pc'[q] = pc[q] /\ todo'[q] = todo[q] /\ rf'[q] = rf[q] /\ wf'[q] = wf[q],
         ofile' = ofile, np' = np, pc[p] \notin {"fork", "used"}, pc'[p] # "fork", LocalsOf(p)',
         \A f \in FileSlots : ref'[f] = ref[f] + (Mine(p, f)' - Mine(p, f))
  PROVE  CountsInv'
<1>1. ASSUME NEW f \in FileSlots
      PROVE  \E d \in Int : /\ Cardinality(Descriptors(f)') = Cardinality(Descriptors(f)) + d
                            /\ ref'[f] = ref[f] + d + (Mine(p, f)' - Mine(p, f))
  <2>1. Descriptors(f)' = Descriptors(f)
    BY Zenon DEF Descriptors, Places
  <2>2. Cardinality(Descriptors(f)) \in Nat /\ ref[f] \in Int /\ 0 \in Int
    BY FiniteRefs DEF CountsInv, TableInv, TableTypes
  <2>3. Cardinality(Descriptors(f)') = Cardinality(Descriptors(f)) + 0 /\ ref[f] + 0 = ref[f]
    BY SMT, <2>1, <2>2
  <2> QED
    BY Zenon, <2>2, <2>3
<1>2. \A q \in Procs : q # p => /\ pc'[q] = pc[q] /\ todo'[q] = todo[q] /\ rf'[q] = rf[q]
                                /\ wf'[q] = wf[q] /\ ofile'[q] = ofile[q]
  BY Zenon
<1> QED
  BY Zenon, <1>1, <1>2, OneStep

LEMMA SetStep ==
  ASSUME CardFacts, CountsInv, NEW p \in Procs, ProcTypes', TableTypes', ~panicked',
         \A q \in Procs : q # p => /\ pc'[q] = pc[q] /\ todo'[q] = todo[q] /\ rf'[q] = rf[q] /\ wf'[q] = wf[q],
         NEW fd \in Fds, NEW g \in 0 .. NFILE, SetFile(p, fd, g),
         np' = np, pc' = pc \/ (pc[p] \notin {"fork", "used"} /\ pc'[p] # "fork"), LocalsOf(p)',
         \A f \in FileSlots :
           ref'[f] = ref[f] + (Bit(g = f) - Bit(ofile[p][fd] = f)) + (Mine(p, f)' - Mine(p, f))
  PROVE  CountsInv'
<1>0. OnlyPut(ofile, ofile', p, fd, g)
  <2>1. ofile \in Tables /\ ofile' = With(ofile, p, fd, g)
    BY Zenon DEF CountsInv, TableInv, ProcTypes, Tables, SetFile, With
  <2> QED
    BY Zenon, <2>1, Put
<1>1. ASSUME NEW f \in FileSlots
      PROVE  \E d \in Int : /\ Cardinality(Descriptors(f)') = Cardinality(Descriptors(f)) + d
                            /\ ref'[f] = ref[f] + d + (Mine(p, f)' - Mine(p, f))
  <2>1. Cardinality(Places(ofile', f)) = Cardinality(Places(ofile, f)) + (Bit(g = f) - Bit(ofile[p][fd] = f))
    BY SMT, <1>0, OneDescriptor
  <2>2. Bit(g = f) - Bit(ofile[p][fd] = f) \in Int
    BY SMT DEF Bit
  <2>3. Cardinality(Descriptors(f)') = Cardinality(Descriptors(f)) + (Bit(g = f) - Bit(ofile[p][fd] = f))
    BY Zenon, <2>1 DEF Descriptors, Places
  <2> QED
    BY Zenon, <2>2, <2>3
<1>2. \A q \in Procs : q # p => /\ pc'[q] = pc[q] /\ todo'[q] = todo[q] /\ rf'[q] = rf[q]
                                /\ wf'[q] = wf[q] /\ ofile'[q] = ofile[q]
  BY Zenon, <1>0 DEF OnlyPut
<1> QED
  BY Zenon, <1>1, <1>2, OneStep

LEMMA Idle ==
  ASSUME NEW p \in Procs, LocalsOf(p), pc[p] \notin {"alloc", "kalloc", "dup", "close", "pipeclose"}
  PROVE  todo[p] = <<>> /\ rf[p] = 0 /\ wf[p] = 0 /\ \A f \in FileSlots : Mine(p, f) = 0
<1>1. todo[p] = <<>> /\ rf[p] = 0 /\ wf[p] = 0
  BY Zenon DEF LocalsOf
<1>2. ASSUME NEW f \in FileSlots PROVE Mine(p, f) = 0
  <2>1. Mine(p, f) = Weight(pc[p], <<>>, rf[p], wf[p], f)
    BY Zenon, <1>1 DEF Mine
  <2>2. pc[p] \notin {"alloc", "kalloc", "dup"}
    BY Zenon
  <2>3. Weight(pc[p], <<>>, rf[p], wf[p], f) = 0
    BY Zenon, <2>2, WeightIdle
  <2> QED
    BY Zenon, <2>1, <2>3
<1> QED
  BY Zenon, <1>1, <1>2

LEMMA FreeFile ==
  ASSUME CardFacts, FreeFiles # {}
  PROVE  Min(FreeFiles) \in FileSlots /\ ref[Min(FreeFiles)] = 0
<1>1. FreeFiles \in SUBSET Nat
  BY SMT, FilesConstants DEF FreeFiles, FileSlots
<1> QED
  BY Zenon, <1>1, Smallest DEF FreeFiles

LEMMA FileAllocReadCounts ==
  ASSUME CardFacts, CountsInv, NEW p \in Procs, FileAllocRead(p)
  PROVE  CountsInv'
<1>0. ProcTypes /\ TableTypes /\ LocalsOf(p) /\ ~panicked
  BY Zenon DEF CountsInv, TableInv, Locals
<1>1. UNCHANGED <<ofile, wf, todo, np, panicked, after, ftype, ff>>
  BY Zenon DEF FileAllocRead
<1>2. CASE FreeFiles = {}
  <2>1. UNCHANGED <<pc, ref, rf>>
    BY Zenon, <1>2 DEF FileAllocRead
  <2> QED
    BY Zenon, <1>0, <1>1, <2>1, QuietStep DEF ProcTypes, TableTypes
<1>3. CASE FreeFiles # {}
  <2>1. PICK f0 \in FileSlots : /\ ref[f0] = 0 /\ ref' = [ref EXCEPT ![f0] = 1]
                                /\ rf' = [rf EXCEPT ![p] = f0] /\ Goto(p, "alloc")
    BY Zenon, <1>3, FreeFile DEF FileAllocRead
  <2>2. "alloc" \in Labels /\ f0 \in 0 .. NFILE /\ f0 # 0
    BY SMT, FilesConstants DEF Labels, FileSlots
  <2>3. pc' \in [Procs -> Labels] /\ pc'[p] = "alloc" /\ \A q \in Procs : q # p => pc'[q] = pc[q]
    BY Zenon, <1>0, <2>1, <2>2, GotoMoves
  <2>4. rf' \in [Procs -> 0 .. NFILE] /\ rf'[p] = f0 /\ \A q \in Procs : q # p => rf'[q] = rf[q]
    BY Zenon, <1>0, <2>1, <2>2 DEF ProcTypes
  <2>5. /\ ref' \in [FileSlots -> Int] /\ ref'[f0] = 1
        /\ \A f \in FileSlots : ref[f] \in Int /\ (f # f0 => ref'[f] = ref[f])
    BY SMT, <1>0, <2>1 DEF TableTypes
  <2>6. pc[p] = "user" /\ todo[p] = <<>> /\ wf[p] = 0
    <3>1. pc[p] = "user"
      BY Zenon DEF FileAllocRead, User
    <3> QED
      BY Zenon, <1>0, <3>1 DEF LocalsOf
  <2>7. LocalsOf(p)'
    BY Zenon, <1>1, <2>2, <2>3, <2>4, <2>6 DEF LocalsOf
  <2>8. ProcTypes' /\ TableTypes'
    BY Zenon, <1>0, <1>1, <2>3, <2>4, <2>5 DEF ProcTypes, TableTypes
  <2>9. ASSUME NEW f \in FileSlots PROVE ref'[f] = ref[f] + (Mine(p, f)' - Mine(p, f))
    <3>1. Mine(p, f) = 0
      BY Zenon, <1>0, <2>6, Idle
    <3>2. Mine(p, f)' = Weight("alloc", <<>>, f0, 0, f)
      BY Zenon, <1>1, <2>3, <2>4, <2>6 DEF Mine
    <3>3. Weight("alloc", <<>>, f0, 0, f) = Bit(f = f0)
      BY Zenon, WeightBusy
    <3> QED
      BY SMT, <2>1, <2>5, <3>1, <3>2, <3>3 DEF Bit
  <2> QED
    BY Zenon, <1>0, <1>1, <2>3, <2>4, <2>6, <2>7, <2>8, <2>9, KeepStep
<1> QED
  BY Zenon, <1>2, <1>3

LEMMA CloseAllMoves ==
  ASSUME ProcTypes, NEW p \in Procs, NEW s \in Todos, NEW l \in {"user", "exit"}, CloseAll(p, s, l)
  PROVE  /\ pc' \in [Procs -> Labels] /\ pc'[p] = "close" /\ \A q \in Procs : q # p => pc'[q] = pc[q]
         /\ todo' \in [Procs -> Todos] /\ todo'[p] = s /\ \A q \in Procs : q # p => todo'[q] = todo[q]
         /\ after' \in [Procs -> {"user", "exit"}]
<1>1. "close" \in Labels
  BY Zenon DEF Labels
<1>2. pc' \in [Procs -> Labels] /\ pc'[p] = "close" /\ \A q \in Procs : q # p => pc'[q] = pc[q]
  BY Zenon, <1>1, GotoMoves DEF CloseAll
<1>3. todo' \in [Procs -> Todos] /\ todo'[p] = s /\ \A q \in Procs : q # p => todo'[q] = todo[q]
  BY Zenon DEF CloseAll, ProcTypes
<1>4. after' \in [Procs -> {"user", "exit"}]
  BY Zenon DEF CloseAll, ProcTypes
<1> QED
  BY Zenon, <1>2, <1>3, <1>4

LEMMA Cleared ==
  ASSUME NEW v \in [Procs -> 0 .. NFILE], NEW w, NEW p \in Procs, w = [v EXCEPT ![p] = 0]
  PROVE  w \in [Procs -> 0 .. NFILE] /\ w[p] = 0 /\ \A q \in Procs : q # p => w[q] = v[q]
BY SMT, FilesConstants

LEMMA RealFile ==
  ASSUME ProcTypes, NEW p \in Procs, LocalsOf(p)
  PROVE  /\ pc[p] \in {"alloc", "kalloc", "dup"} => rf[p] \in FileSlots /\ todo[p] = <<>>
         /\ pc[p] = "alloc" => wf[p] = 0
         /\ pc[p] = "kalloc" => wf[p] \in FileSlots /\ rf[p] # wf[p]
<1>1. \A n \in 0 .. NFILE : n # 0 => n \in FileSlots
  BY SMT DEF FileSlots
<1>2. rf[p] \in 0 .. NFILE /\ wf[p] \in 0 .. NFILE
  BY Zenon DEF ProcTypes
<1>3. pc[p] \in {"alloc", "kalloc", "dup"} => rf[p] \in FileSlots /\ todo[p] = <<>>
  <2> SUFFICES ASSUME pc[p] \in {"alloc", "kalloc", "dup"} PROVE rf[p] \in FileSlots /\ todo[p] = <<>>
    OBVIOUS
  <2>1. pc[p] \notin {"close", "pipeclose"}
    BY Zenon
  <2> QED
    BY Zenon, <1>1, <1>2, <2>1 DEF LocalsOf
<1>4. pc[p] = "alloc" => wf[p] = 0
  BY Zenon DEF LocalsOf
<1>5. pc[p] = "kalloc" => wf[p] \in FileSlots /\ rf[p] # wf[p]
  BY Zenon, <1>1, <1>2 DEF LocalsOf
<1> QED
  BY Zenon, <1>3, <1>4, <1>5

LEMMA FileAllocWriteCounts ==
  ASSUME CardFacts, CountsInv, NEW p \in Procs, FileAllocWrite(p)
  PROVE  CountsInv'
<1>0. ProcTypes /\ TableTypes /\ LocalsOf(p) /\ ~panicked /\ pc[p] = "alloc"
  BY Zenon DEF CountsInv, TableInv, Locals, FileAllocWrite
<1>1. UNCHANGED <<ofile, np, panicked, ftype, ff>>
  BY Zenon DEF FileAllocWrite
<1>2. PICK r \in FileSlots : r = rf[p] /\ todo[p] = <<>> /\ wf[p] = 0
  BY Zenon, <1>0, RealFile
<1>3. ASSUME NEW f \in FileSlots PROVE Mine(p, f) = Bit(f = r)
  <2>1. Mine(p, f) = Weight("alloc", <<>>, r, 0, f)
    BY Zenon, <1>0, <1>2 DEF Mine
  <2> QED
    BY Zenon, <2>1, WeightBusy
<1>4. pc[p] \notin {"fork", "used"}
  BY Zenon, <1>0
<1>5. CASE FreeFiles = {}
  <2>1. CloseAll(p, <<r>>, "user") /\ rf' = [rf EXCEPT ![p] = 0]
    BY Zenon, <1>2, <1>5 DEF FileAllocWrite
  <2>2. <<r>> \in Todos /\ Range(<<r>>) = {r}
    BY Zenon, Lists
  <2>3. /\ pc' \in [Procs -> Labels] /\ pc'[p] = "close" /\ \A q \in Procs : q # p => pc'[q] = pc[q]
        /\ todo' \in [Procs -> Todos] /\ todo'[p] = <<r>> /\ \A q \in Procs : q # p => todo'[q] = todo[q]
        /\ after' \in [Procs -> {"user", "exit"}]
    BY Zenon, <1>0, <2>1, <2>2, CloseAllMoves
  <2>4. rf' \in [Procs -> 0 .. NFILE] /\ rf'[p] = 0 /\ \A q \in Procs : q # p => rf'[q] = rf[q]
    BY Zenon, <1>0, <2>1, Cleared DEF ProcTypes
  <2>5. UNCHANGED <<ref, wf>>
    BY Zenon, <1>5 DEF FileAllocWrite
  <2>6. ProcTypes' /\ TableTypes'
    BY Zenon, <1>0, <1>1, <2>3, <2>4, <2>5 DEF ProcTypes, TableTypes
  <2>7. LocalsOf(p)'
    BY Zenon, <1>2, <2>3, <2>4, <2>5 DEF LocalsOf
  <2>8. ASSUME NEW f \in FileSlots PROVE ref'[f] = ref[f] + (Mine(p, f)' - Mine(p, f))
    <3>1. Mine(p, f)' = Weight("close", <<r>>, 0, 0, f)
      BY Zenon, <1>2, <2>3, <2>4, <2>5 DEF Mine
    <3>2. Weight("close", <<r>>, 0, 0, f) = Bit(f \in Range(<<r>>))
      BY Zenon, WeightList
    <3>3. Bit(f \in Range(<<r>>)) = Bit(f = r)
      BY Zenon, <2>2 DEF Bit
    <3>4. Mine(p, f)' = Bit(f = r) /\ Mine(p, f) = Bit(f = r) /\ ref'[f] = ref[f] /\ ref[f] \in Int
      BY Zenon, <1>0, <1>3, <2>5, <3>1, <3>2, <3>3 DEF TableTypes
    <3> QED
      BY SMT, <3>4 DEF Bit
  <2> QED
    BY Zenon, <1>0, <1>1, <1>4, <2>3, <2>4, <2>5, <2>6, <2>7, <2>8, KeepStep
<1>6. CASE FreeFiles # {}
  <2>1. PICK f0 \in FileSlots : /\ ref[f0] = 0 /\ ref' = [ref EXCEPT ![f0] = 1]
                                /\ wf' = [wf EXCEPT ![p] = f0] /\ Goto(p, "kalloc")
    BY Zenon, <1>6, FreeFile DEF FileAllocWrite
  <2>2. "kalloc" \in Labels /\ f0 \in 0 .. NFILE /\ f0 # 0 /\ r # 0
    BY SMT, FilesConstants DEF Labels, FileSlots
  <2>3. pc' \in [Procs -> Labels] /\ pc'[p] = "kalloc" /\ \A q \in Procs : q # p => pc'[q] = pc[q]
    BY Zenon, <1>0, <2>1, <2>2, GotoMoves
  <2>4. wf' \in [Procs -> 0 .. NFILE] /\ wf'[p] = f0 /\ \A q \in Procs : q # p => wf'[q] = wf[q]
    BY Zenon, <1>0, <2>1, <2>2 DEF ProcTypes
  <2>5. /\ ref' \in [FileSlots -> Int] /\ ref'[f0] = 1
        /\ \A f \in FileSlots : ref[f] \in Int /\ (f # f0 => ref'[f] = ref[f])
    BY SMT, <1>0, <2>1 DEF TableTypes
  <2>6. UNCHANGED <<rf, todo, after>>
    BY Zenon, <1>6 DEF FileAllocWrite
  <2>7. r # f0
    <3>1. Makers(r) # {}
      BY Zenon, <1>0, <1>2 DEF Makers, Makes
    <3>2. ref[r] >= 1
      BY Zenon, <3>1, Counts DEF CountsInv
    <3> QED
      BY SMT, <2>1, <3>2
  <2>8. LocalsOf(p)'
    BY Zenon, <1>2, <2>2, <2>3, <2>4, <2>6, <2>7 DEF LocalsOf
  <2>9. ProcTypes' /\ TableTypes'
    BY Zenon, <1>0, <1>1, <2>3, <2>4, <2>5, <2>6 DEF ProcTypes, TableTypes
  <2>10. ASSUME NEW f \in FileSlots PROVE ref'[f] = ref[f] + (Mine(p, f)' - Mine(p, f))
    <3>1. Mine(p, f)' = Weight("kalloc", <<>>, r, f0, f)
      BY Zenon, <1>2, <2>3, <2>4, <2>6 DEF Mine
    <3>2. Weight("kalloc", <<>>, r, f0, f) = Bit(f \in {r, f0})
      BY Zenon, WeightBusy DEF Bit
    <3>3. Mine(p, f) = Bit(f = r)
      BY Zenon, <1>3
    <3> QED
      BY SMT, <2>1, <2>5, <2>7, <3>1, <3>2, <3>3 DEF Bit
  <2>11. pc'[p] # "fork"
    BY Zenon, <2>3
  <2> QED
    BY Zenon, <1>0, <1>1, <1>4, <2>3, <2>4, <2>6, <2>8, <2>9, <2>10, <2>11, KeepStep
<1> QED
  BY Zenon, <1>5, <1>6

(* pipealloc() or sys_pipe() gives both files back. *)
LEMMA GiveUpCounts ==
  ASSUME CardFacts, CountsInv, NEW p \in Procs, pc[p] = "kalloc",
         CloseAll(p, <<rf[p], wf[p]>>, "user"), rf' = [rf EXCEPT ![p] = 0], wf' = [wf EXCEPT ![p] = 0],
         UNCHANGED <<ref, ofile, np, panicked>>, ftype' \in [FileSlots -> Types], ff' = ff
  PROVE  CountsInv'
<1>0. ProcTypes /\ TableTypes /\ LocalsOf(p) /\ ~panicked
  BY Zenon DEF CountsInv, TableInv, Locals
<1>1. PICK r \in FileSlots, w \in FileSlots : r = rf[p] /\ w = wf[p] /\ r # w /\ todo[p] = <<>>
  BY Zenon, <1>0, RealFile
<1>2. <<r, w>> \in Todos /\ Range(<<r, w>>) = {r, w}
  BY Zenon, <1>1, Lists
<1>3. CloseAll(p, <<r, w>>, "user")
  BY Zenon, <1>1
<1>4. /\ pc' \in [Procs -> Labels] /\ pc'[p] = "close" /\ \A q \in Procs : q # p => pc'[q] = pc[q]
      /\ todo' \in [Procs -> Todos] /\ todo'[p] = <<r, w>> /\ \A q \in Procs : q # p => todo'[q] = todo[q]
      /\ after' \in [Procs -> {"user", "exit"}]
  BY Zenon, <1>0, <1>2, <1>3, CloseAllMoves
<1>5. rf' \in [Procs -> 0 .. NFILE] /\ rf'[p] = 0 /\ \A q \in Procs : q # p => rf'[q] = rf[q]
  BY Zenon, <1>0, Cleared DEF ProcTypes
<1>6. wf' \in [Procs -> 0 .. NFILE] /\ wf'[p] = 0 /\ \A q \in Procs : q # p => wf'[q] = wf[q]
  BY Zenon, <1>0, Cleared DEF ProcTypes
<1>7. ProcTypes' /\ TableTypes'
  BY Zenon, <1>0, <1>4, <1>5, <1>6 DEF ProcTypes, TableTypes
<1>8. LocalsOf(p)'
  BY Zenon, <1>4, <1>5, <1>6 DEF LocalsOf
<1>9. ASSUME NEW f \in FileSlots PROVE ref'[f] = ref[f] + (Mine(p, f)' - Mine(p, f))
  <2>1. Mine(p, f)' = Weight("close", <<r, w>>, 0, 0, f)
    BY Zenon, <1>4, <1>5, <1>6 DEF Mine
  <2>2. Weight("close", <<r, w>>, 0, 0, f) = Bit(f \in Range(<<r, w>>))
    BY Zenon, WeightList
  <2>3. Mine(p, f) = Weight("kalloc", <<>>, r, w, f)
    BY Zenon, <1>1 DEF Mine
  <2>4. Weight("kalloc", <<>>, r, w, f) = Bit(f \in {r, w})
    BY Zenon, WeightBusy DEF Bit
  <2>5. Mine(p, f)' = Mine(p, f) /\ Mine(p, f) = Bit(f \in {r, w}) /\ ref'[f] = ref[f] /\ ref[f] \in Int
    BY Zenon, <1>0, <1>2, <2>1, <2>2, <2>3, <2>4 DEF TableTypes
  <2> QED
    BY SMT, <2>5 DEF Bit
<1>10. pc[p] \notin {"fork", "used"} /\ pc'[p] # "fork"
  BY Zenon, <1>4
<1> QED
  BY Zenon, <1>0, <1>4, <1>5, <1>6, <1>7, <1>8, <1>9, <1>10, KeepStep

LEMMA PipeNoMemoryCounts ==
  ASSUME CardFacts, CountsInv, NEW p \in Procs, PipeNoMemory(p)
  PROVE  CountsInv'
<1>1. UNCHANGED <<ref, ofile, np, panicked, ftype, ff>>
  BY Zenon DEF PipeNoMemory, table
<1>2. ftype' \in [FileSlots -> Types]
  BY Zenon, <1>1 DEF CountsInv, TableInv, TableTypes
<1>3. /\ pc[p] = "kalloc" /\ CloseAll(p, <<rf[p], wf[p]>>, "user")
      /\ rf' = [rf EXCEPT ![p] = 0] /\ wf' = [wf EXCEPT ![p] = 0]
  BY Zenon DEF PipeNoMemory
<1> QED
  BY Zenon, <1>1, <1>2, <1>3, GiveUpCounts

(* The two descriptors of sys_pipe(). *)
LEMMA TwoFree ==
  ASSUME CardFacts, NEW p \in Procs, Cardinality(FreeFds(p)) >= 2
  PROVE  LET a == Min(FreeFds(p)) IN
         a \in FreeFds(p) /\ Min(FreeFds(p) \ {a}) \in FreeFds(p) \ {a}
<1> DEFINE S == FreeFds(p)
           a == Min(S)
<1>1. S \in SUBSET Fds /\ IsFiniteSet(Fds) /\ Fds \in SUBSET Nat
  BY SMT, FilesConstants DEF CardFacts, CardInterval, Fds, FreeFds
<1>2. IsFiniteSet(S) /\ S # {}
  <2>1. IsFiniteSet(S)
    BY Zenon, <1>1 DEF CardFacts, CardSubset
  <2>2. S # {}
    BY SMT DEF CardFacts, CardEmpty
  <2> QED
    BY Zenon, <2>1, <2>2
<1>3. S \in SUBSET Nat
  BY Zenon, <1>1
<1>4. a \in S
  BY Zenon, <1>2, <1>3, Smallest
<1> HIDE DEF a, S
<1>5. Cardinality(S \ {a}) = Cardinality(S) - 1 /\ IsFiniteSet(S \ {a})
  BY Zenon, <1>2, <1>4 DEF CardFacts, CardRemove
<1>6. S \ {a} # {}
  <2>1. Cardinality(S) >= 2 /\ Cardinality(S) \in Nat /\ Cardinality({}) = 0
    BY Zenon, <1>2 DEF S, CardFacts, CardType, CardEmpty
  <2> QED
    BY SMT, <1>5, <2>1
<1>7. Min(S \ {a}) \in S \ {a}
  BY Zenon, <1>3, <1>6, Smallest
<1> QED
  BY Zenon, <1>4, <1>7 DEF a, S

LEMMA PipeAllocCounts ==
  ASSUME CardFacts, CountsInv, NEW p \in Procs, PipeAlloc(p)
  PROVE  CountsInv'
<1>0. ProcTypes /\ TableTypes /\ LocalsOf(p) /\ ~panicked /\ pc[p] = "kalloc"
  BY Zenon DEF CountsInv, TableInv, Locals, PipeAlloc
<1>1. UNCHANGED <<ref, np, panicked, ff>> /\ rf' = [rf EXCEPT ![p] = 0] /\ wf' = [wf EXCEPT ![p] = 0]
  BY Zenon DEF PipeAlloc
<1>2. PICK r \in FileSlots, w \in FileSlots : r = rf[p] /\ w = wf[p] /\ r # w /\ todo[p] = <<>>
  BY Zenon, <1>0, RealFile
<1>3. ftype' \in [FileSlots -> Types]
  <2>1. ftype' = [ftype EXCEPT ![rf[p]] = "r", ![wf[p]] = "w"]
    BY Zenon DEF PipeAlloc
  <2>2. "r" \in Types /\ "w" \in Types
    BY Zenon DEF Types
  <2> QED
    BY Zenon, <1>0, <2>1, <2>2 DEF TableTypes
<1>4. CASE CloseAll(p, <<rf[p], wf[p]>>, "user") /\ UNCHANGED ofile
  BY Zenon, <1>0, <1>1, <1>3, <1>4, GiveUpCounts
<1>5. ASSUME Cardinality(FreeFds(p)) >= 2, Goto(p, "user"), UNCHANGED <<todo, after>>,
             NEW a, NEW b, a = Min(FreeFds(p)), b = Min(FreeFds(p) \ {a}),
             ofile' = [ofile EXCEPT ![p][a] = rf[p], ![p][b] = wf[p]]
      PROVE  CountsInv'
  <2>1. a \in Fds /\ b \in Fds /\ a # b /\ ofile[p][a] = 0 /\ ofile[p][b] = 0
    BY Zenon, <1>5, TwoFree DEF FreeFds, Open
  <2>2. "user" \in Labels /\ r \in 0 .. NFILE /\ w \in 0 .. NFILE
    BY SMT, FilesConstants DEF Labels, FileSlots
  <2>3. pc' \in [Procs -> Labels] /\ pc'[p] = "user" /\ \A q \in Procs : q # p => pc'[q] = pc[q]
    BY Zenon, <1>0, <1>5, <2>2, GotoMoves
  <2>4. rf' \in [Procs -> 0 .. NFILE] /\ rf'[p] = 0 /\ \A q \in Procs : q # p => rf'[q] = rf[q]
    BY Zenon, <1>0, <1>1, Cleared DEF ProcTypes
  <2>5. wf' \in [Procs -> 0 .. NFILE] /\ wf'[p] = 0 /\ \A q \in Procs : q # p => wf'[q] = wf[q]
    BY Zenon, <1>0, <1>1, Cleared DEF ProcTypes
  <2>6. OnlyPut(ofile, With(ofile, p, a, r), p, a, r)
    BY Zenon, <1>0, <2>1, <2>2, Put DEF ProcTypes, Tables
  <2>7. PICK mid : mid = With(ofile, p, a, r) /\ OnlyPut(ofile, mid, p, a, r)
    BY Zenon, <2>6
  <2>8. ofile' = With(mid, p, b, w)
    BY Zenon, <1>0, <1>2, <1>5, <2>1, <2>7 DEF ProcTypes, With
  <2>9. OnlyPut(mid, ofile', p, b, w)
    <3>1. mid \in Tables
      BY Zenon, <2>7 DEF OnlyPut
    <3>2. OnlyPut(mid, With(mid, p, b, w), p, b, w)
      BY Zenon, <2>1, <2>2, <3>1, Put
    <3> QED
      BY Zenon, <2>8, <3>2
  <2>10. ProcTypes' /\ TableTypes'
    BY Zenon, <1>0, <1>1, <1>3, <1>5, <2>3, <2>4, <2>5, <2>9 DEF ProcTypes, TableTypes, Tables, OnlyPut
  <2>11. LocalsOf(p)'
    BY Zenon, <1>2, <1>5, <2>3, <2>4, <2>5 DEF LocalsOf
  <2>12. ASSUME NEW f \in FileSlots
         PROVE  \E d \in Int : /\ Cardinality(Descriptors(f)') = Cardinality(Descriptors(f)) + d
                               /\ ref'[f] = ref[f] + d + (Mine(p, f)' - Mine(p, f))
    <3>1. Cardinality(Places(mid, f)) = Cardinality(Places(ofile, f)) + (Bit(r = f) - Bit(ofile[p][a] = f))
      BY SMT, <2>1, <2>7, OneDescriptor
    <3>2. Cardinality(Places(ofile', f)) = Cardinality(Places(mid, f)) + (Bit(w = f) - Bit(mid[p][b] = f))
      BY SMT, <2>1, <2>9, OneDescriptor
    <3>3. ofile[p][a] # f /\ mid[p][b] # f
      BY SMT, <2>1, <2>7, FilesConstants DEF FileSlots, OnlyPut
    <3>4. Bit(ofile[p][a] = f) = 0 /\ Bit(mid[p][b] = f) = 0
      BY Zenon, <3>3 DEF Bit
    <3>5. Cardinality(Places(ofile', f)) = Cardinality(Descriptors(f)')
      BY Zenon DEF Descriptors, Places
    <3>6. Cardinality(Places(ofile, f)) = Cardinality(Descriptors(f)) /\ Cardinality(Descriptors(f)) \in Nat
      BY Zenon, FiniteRefs DEF Descriptors
    <3> DEFINE d == Bit(r = f) + Bit(w = f)
    <3>7. d \in Int /\ Cardinality(Descriptors(f)') = Cardinality(Descriptors(f)) + d
      BY SMT, <3>1, <3>2, <3>4, <3>5, <3>6 DEF Bit
    <3>8. Mine(p, f) = Weight("kalloc", <<>>, r, w, f)
      BY Zenon, <1>0, <1>2 DEF Mine
    <3>9. Weight("kalloc", <<>>, r, w, f) = Bit(f \in {r, w})
      BY Zenon, WeightBusy DEF Bit
    <3>10. Mine(p, f)' = Weight("user", <<>>, 0, 0, f)
      BY Zenon, <1>2, <1>5, <2>3, <2>4, <2>5 DEF Mine
    <3>11. Weight("user", <<>>, 0, 0, f) = 0
      BY Zenon, WeightIdle
    <3>12. ref'[f] = ref[f] /\ ref[f] \in Int
      BY Zenon, <1>0, <1>1 DEF TableTypes
    <3>13. d = Mine(p, f)
      BY SMT, <1>2, <3>8, <3>9 DEF Bit
    <3>14. ref'[f] = ref[f] + d + (Mine(p, f)' - Mine(p, f))
      BY SMT, <3>7, <3>10, <3>11, <3>12, <3>13
    <3> QED
      BY Zenon, <3>7, <3>14
  <2>13. pc[p] \notin {"fork", "used"} /\ pc'[p] # "fork"
    BY Zenon, <1>0, <2>3
  <2>14. \A q \in Procs : q # p => /\ pc'[q] = pc[q] /\ todo'[q] = todo[q] /\ rf'[q] = rf[q]
                                   /\ wf'[q] = wf[q] /\ ofile'[q] = ofile[q]
    BY Zenon, <1>5, <2>3, <2>4, <2>5, <2>7, <2>9 DEF OnlyPut
  <2> QED
    BY Zenon, <1>0, <1>1, <2>10, <2>11, <2>12, <2>13, <2>14, OneStep
<1> QED
  BY Zenon, <1>4, <1>5 DEF PipeAlloc

LEMMA SysDupCounts ==
  ASSUME CardFacts, CountsInv, NEW p \in Procs, NEW fd \in Fds, SysDup(p, fd)
  PROVE  CountsInv'
<1>0. ProcTypes /\ TableTypes /\ LocalsOf(p) /\ ~panicked
  BY Zenon DEF CountsInv, TableInv, Locals
<1>1. UNCHANGED <<wf, todo, np, panicked, after, ref, ftype, ff>> /\ pc[p] = "user" /\ FreeFds(p) # {}
  BY Zenon DEF SysDup, User, table
<1>2. PICK k \in Fds : k = Min(FreeFds(p)) /\ ofile[p][k] = 0
  <2>1. FreeFds(p) \in SUBSET Nat
    BY SMT, FilesConstants DEF FreeFds, Fds
  <2>2. Min(FreeFds(p)) \in FreeFds(p)
    BY Zenon, <1>1, <2>1, Smallest
  <2> QED
    BY Zenon, <2>2 DEF FreeFds, Open
<1>3. PICK g \in FileSlots : g = ofile[p][fd]
  <2>1. ofile[p][fd] \in 0 .. NFILE /\ ofile[p][fd] # 0
    BY Zenon, <1>0 DEF ProcTypes, SysDup, Open
  <2> QED
    BY SMT, <2>1 DEF FileSlots
<1>4. SetFile(p, k, g) /\ rf' = [rf EXCEPT ![p] = g] /\ Goto(p, "dup")
  BY Zenon, <1>2, <1>3 DEF SysDup
<1>5. "dup" \in Labels /\ g \in 0 .. NFILE /\ g # 0 /\ k # fd
  BY SMT, <1>2, <1>3, FilesConstants DEF Labels, FileSlots
<1>6. pc' \in [Procs -> Labels] /\ pc'[p] = "dup" /\ \A q \in Procs : q # p => pc'[q] = pc[q]
  BY Zenon, <1>0, <1>4, <1>5, GotoMoves
<1>7. rf' \in [Procs -> 0 .. NFILE] /\ rf'[p] = g /\ \A q \in Procs : q # p => rf'[q] = rf[q]
  BY Zenon, <1>0, <1>4, <1>5 DEF ProcTypes
<1>8. OnlyPut(ofile, ofile', p, k, g)
  <2>1. ofile \in Tables /\ ofile' = With(ofile, p, k, g)
    BY Zenon, <1>0, <1>4 DEF ProcTypes, Tables, SetFile, With
  <2> QED
    BY Zenon, <1>5, <2>1, Put
<1>9. ProcTypes' /\ TableTypes'
  BY Zenon, <1>0, <1>1, <1>6, <1>7, <1>8 DEF ProcTypes, TableTypes, OnlyPut, Tables
<1>10. todo[p] = <<>> /\ wf[p] = 0
  BY Zenon, <1>0, <1>1 DEF LocalsOf
<1>11. LocalsOf(p)'
  <2>1. ofile'[p][k] = g /\ ofile'[p][fd] = g
    BY Zenon, <1>3, <1>5, <1>8 DEF OnlyPut
  <2>2. \E a, b \in Fds : a # b /\ ofile'[p][a] = g /\ ofile'[p][b] = g
    BY Zenon, <1>5, <2>1
  <2> QED
    BY Zenon, <1>1, <1>5, <1>6, <1>7, <1>10, <2>2 DEF LocalsOf
<1>12. ASSUME NEW f \in FileSlots
       PROVE  ref'[f] = ref[f] + (Bit(g = f) - Bit(ofile[p][k] = f)) + (Mine(p, f)' - Mine(p, f))
  <2>1. Mine(p, f) = 0
    BY Zenon, <1>0, <1>1, Idle
  <2>2. Mine(p, f)' = Weight("dup", <<>>, g, 0, f)
    BY Zenon, <1>1, <1>6, <1>7, <1>10 DEF Mine
  <2>3. Weight("dup", <<>>, g, 0, f) = -Bit(f = g)
    BY Zenon, WeightBusy DEF Bit
  <2>4. ref'[f] = ref[f] /\ ref[f] \in Int /\ f # 0
    BY SMT, <1>0, <1>1, FilesConstants DEF TableTypes, FileSlots
  <2> QED
    BY SMT, <1>2, <2>1, <2>2, <2>3, <2>4 DEF Bit
<1>13. pc[p] \notin {"fork", "used"} /\ pc'[p] # "fork"
  BY Zenon, <1>1, <1>6
<1>14. \A q \in Procs : q # p => /\ pc'[q] = pc[q] /\ todo'[q] = todo[q] /\ rf'[q] = rf[q] /\ wf'[q] = wf[q]
  BY Zenon, <1>1, <1>6, <1>7
<1> QED
  BY Zenon, <1>0, <1>1, <1>4, <1>5, <1>9, <1>11, <1>12, <1>13, <1>14, SetStep

(* filedup() of a file with a reference. *)
LEMMA DupCounts ==
  ASSUME CountsInv, NEW g \in FileSlots, ref[g] >= 1, FileDup(g)
  PROVE  /\ ~panicked' /\ ref' \in [FileSlots -> Int]
         /\ \A f \in FileSlots : ref[f] \in Int /\ ref'[f] = ref[f] + Bit(f = g)
<1>0. ref \in [FileSlots -> Int] /\ ~panicked
  BY Zenon DEF CountsInv, TableInv, TableTypes
<1>1. ref' = [ref EXCEPT ![g] = ref[g] + 1] /\ ref[g] \in Int
  BY Zenon, <1>0 DEF FileDup
<1>2. ref' \in [FileSlots -> Int] /\ ref'[g] = ref[g] + 1 /\ \A f \in FileSlots : f # g => ref'[f] = ref[f]
  <2>1. ref[g] + 1 \in Int
    BY SMT, <1>1
  <2> QED
    BY Zenon, <1>0, <1>1, <2>1
<1>3. ~panicked'
  <2>1. ~(ref[g] < 1)
    BY SMT, <1>1
  <2> QED
    BY Zenon, <1>0, <2>1 DEF FileDup
<1>4. ASSUME NEW f \in FileSlots PROVE ref[f] \in Int /\ ref'[f] = ref[f] + Bit(f = g)
  BY SMT, <1>0, <1>2 DEF Bit
<1> QED
  BY Zenon, <1>2, <1>3, <1>4

LEMMA DupRefCounts ==
  ASSUME CardFacts, CountsInv, NEW p \in Procs, DupRef(p)
  PROVE  CountsInv'
<1>0. ProcTypes /\ TableTypes /\ LocalsOf(p) /\ ~panicked /\ TableInv /\ RefsCounted
  BY Zenon DEF CountsInv, TableInv, Locals
<1>1. /\ UNCHANGED <<ofile, wf, todo, np, after, ftype, ff>> /\ pc[p] = "dup"
      /\ FileDup(rf[p]) /\ rf' = [rf EXCEPT ![p] = 0] /\ Goto(p, "user")
  BY Zenon DEF DupRef
<1>2. PICK g \in FileSlots : g = rf[p] /\ todo[p] = <<>>
  BY Zenon, <1>0, <1>1, RealFile
<1>3. wf[p] = 0
  BY Zenon, <1>0, <1>1 DEF LocalsOf
<1>4. ref[g] >= 1
  <2>1. PICK a \in Fds : ofile[p][a] = g
    BY Zenon, <1>0, <1>1, <1>2 DEF LocalsOf
  <2>2. <<p, a>> \in Descriptors(g)
    BY Zenon, <2>1 DEF Descriptors, Places
  <2> QED
    BY Zenon, <1>0, <2>2, Counts
<1>5. /\ ~panicked' /\ ref' \in [FileSlots -> Int]
      /\ \A f \in FileSlots : ref[f] \in Int /\ ref'[f] = ref[f] + Bit(f = g)
  <2>1. FileDup(g)
    BY Zenon, <1>1, <1>2
  <2> QED
    BY Zenon, <1>4, <2>1, DupCounts
<1>6. pc' \in [Procs -> Labels] /\ pc'[p] = "user" /\ \A q \in Procs : q # p => pc'[q] = pc[q]
  <2>1. "user" \in Labels
    BY Zenon DEF Labels
  <2> QED
    BY Zenon, <1>0, <1>1, <2>1, GotoMoves
<1>7. rf' \in [Procs -> 0 .. NFILE] /\ rf'[p] = 0 /\ \A q \in Procs : q # p => rf'[q] = rf[q]
  BY Zenon, <1>0, <1>1, Cleared DEF ProcTypes
<1>8. ProcTypes' /\ TableTypes'
  BY Zenon, <1>0, <1>1, <1>5, <1>6, <1>7 DEF ProcTypes, TableTypes
<1>9. LocalsOf(p)'
  BY Zenon, <1>1, <1>2, <1>3, <1>6, <1>7 DEF LocalsOf
<1>10. ASSUME NEW f \in FileSlots PROVE ref'[f] = ref[f] + (Mine(p, f)' - Mine(p, f))
  <2>1. Mine(p, f) = Weight("dup", <<>>, g, 0, f)
    BY Zenon, <1>1, <1>2, <1>3 DEF Mine
  <2>2. Weight("dup", <<>>, g, 0, f) = -Bit(f = g)
    BY Zenon, WeightBusy DEF Bit
  <2>3. Mine(p, f)' = Weight("user", <<>>, 0, 0, f)
    BY Zenon, <1>1, <1>2, <1>3, <1>6, <1>7 DEF Mine
  <2>4. Weight("user", <<>>, 0, 0, f) = 0
    BY Zenon, WeightIdle
  <2>5. ref'[f] = ref[f] + Bit(f = g) /\ ref[f] \in Int
    BY Zenon, <1>5
  <2> QED
    BY SMT, <2>1, <2>2, <2>3, <2>4, <2>5 DEF Bit
<1>11. pc[p] \notin {"fork", "used"} /\ pc'[p] # "fork"
  BY Zenon, <1>1, <1>6
<1>12. \A q \in Procs : q # p => /\ pc'[q] = pc[q] /\ todo'[q] = todo[q] /\ rf'[q] = rf[q] /\ wf'[q] = wf[q]
  BY Zenon, <1>1, <1>6, <1>7
<1> QED
  BY Zenon, <1>1, <1>5, <1>8, <1>9, <1>10, <1>11, <1>12, KeepStep

(* A descriptor is cleared and its file is going to be closed. *)
LEMMA DropCounts ==
  ASSUME CardFacts, CountsInv, NEW p \in Procs, NEW fd \in Open(p), NEW l \in {"user", "exit"},
         pc[p] \in {"user", "exit"}, SetFile(p, fd, 0), CloseAll(p, <<ofile[p][fd]>>, l),
         UNCHANGED <<rf, wf, np, panicked, ref, ftype, ff>>
  PROVE  CountsInv'
<1>0. ProcTypes /\ TableTypes /\ LocalsOf(p) /\ ~panicked
  BY Zenon DEF CountsInv, TableInv, Locals
<1>1. pc[p] \notin {"alloc", "kalloc", "dup", "close", "pipeclose"} /\ pc[p] \notin {"fork", "used"}
  BY Zenon
<1>2. PICK g \in FileSlots : g = ofile[p][fd] /\ fd \in Fds
  <2>1. fd \in Fds /\ ofile[p][fd] \in 0 .. NFILE /\ ofile[p][fd] # 0
    BY Zenon, <1>0 DEF ProcTypes, Open
  <2> QED
    BY SMT, <2>1 DEF FileSlots
<1>3. <<g>> \in Todos /\ Range(<<g>>) = {g}
  BY Zenon, Lists
<1>4. CloseAll(p, <<g>>, l)
  BY Zenon, <1>2
<1>5. /\ pc' \in [Procs -> Labels] /\ pc'[p] = "close" /\ \A q \in Procs : q # p => pc'[q] = pc[q]
      /\ todo' \in [Procs -> Todos] /\ todo'[p] = <<g>> /\ \A q \in Procs : q # p => todo'[q] = todo[q]
      /\ after' \in [Procs -> {"user", "exit"}]
  BY Zenon, <1>0, <1>3, <1>4, CloseAllMoves
<1>6. 0 \in 0 .. NFILE
  BY SMT, FilesConstants
<1>7. OnlyPut(ofile, ofile', p, fd, 0)
  <2>1. ofile \in Tables /\ ofile' = With(ofile, p, fd, 0)
    BY Zenon, <1>0 DEF ProcTypes, Tables, SetFile, With
  <2> QED
    BY Zenon, <1>2, <1>6, <2>1, Put
<1>8. ProcTypes' /\ TableTypes'
  BY Zenon, <1>0, <1>5, <1>7 DEF ProcTypes, TableTypes, OnlyPut, Tables
<1>9. rf[p] = 0 /\ wf[p] = 0
  BY Zenon, <1>0, <1>1, Idle
<1>10. LocalsOf(p)'
  BY Zenon, <1>5, <1>9 DEF LocalsOf
<1>11. ASSUME NEW f \in FileSlots
       PROVE  ref'[f] = ref[f] + (Bit(0 = f) - Bit(ofile[p][fd] = f)) + (Mine(p, f)' - Mine(p, f))
  <2>1. Mine(p, f) = 0
    BY Zenon, <1>0, <1>1, Idle
  <2>2. Mine(p, f)' = Weight("close", <<g>>, 0, 0, f)
    BY Zenon, <1>5, <1>9 DEF Mine
  <2>3. Weight("close", <<g>>, 0, 0, f) = Bit(f \in Range(<<g>>))
    BY Zenon, WeightList
  <2>4. Bit(f \in Range(<<g>>)) = Bit(ofile[p][fd] = f)
    BY Zenon, <1>2, <1>3 DEF Bit
  <2>5. ref'[f] = ref[f] /\ ref[f] \in Int /\ f # 0
    BY SMT, <1>0, FilesConstants DEF TableTypes, FileSlots
  <2> QED
    BY SMT, <2>1, <2>2, <2>3, <2>4, <2>5 DEF Bit
<1>12. pc'[p] # "fork"
  BY Zenon, <1>5
<1>13. \A q \in Procs : q # p => /\ pc'[q] = pc[q] /\ todo'[q] = todo[q] /\ rf'[q] = rf[q] /\ wf'[q] = wf[q]
  BY Zenon, <1>5
<1> QED
  BY Zenon, <1>0, <1>1, <1>2, <1>6, <1>8, <1>10, <1>11, <1>12, <1>13, SetStep

LEMMA SysCloseCounts ==
  ASSUME CardFacts, CountsInv, NEW p \in Procs, NEW fd \in Fds, SysClose(p, fd)
  PROVE  CountsInv'
<1>1. UNCHANGED <<rf, wf, np, panicked, ref, ftype, ff>> /\ pc[p] = "user" /\ fd \in Open(p)
  BY Zenon DEF SysClose, User, table
<1>2. SetFile(p, fd, 0) /\ CloseAll(p, <<ofile[p][fd]>>, "user")
  BY Zenon DEF SysClose
<1> QED
  BY Zenon, <1>1, <1>2, DropCounts

LEMMA ExitCloseCounts ==
  ASSUME CardFacts, CountsInv, NEW p \in Procs, ExitClose(p)
  PROVE  CountsInv'
<1>0. ProcTypes /\ TableTypes /\ LocalsOf(p)
  BY Zenon DEF CountsInv, TableInv, Locals
<1>1. UNCHANGED <<rf, wf, np, panicked, ref, ftype, ff>> /\ pc[p] = "exit"
  BY Zenon DEF ExitClose, table
<1>2. CASE Open(p) # {}
  <2>1. PICK fd \in Open(p) : SetFile(p, fd, 0) /\ CloseAll(p, <<ofile[p][fd]>>, "exit")
    <3>1. Open(p) \in SUBSET Nat
      BY SMT, FilesConstants DEF Open, Fds
    <3>2. Min(Open(p)) \in Open(p)
      BY Zenon, <1>2, <3>1, Smallest
    <3> QED
      BY Zenon, <1>2, <3>2 DEF ExitClose
  <2> QED
    BY Zenon, <1>1, <2>1, DropCounts
<1>3. CASE Open(p) = {}
  <2>1. Goto(p, "dead") /\ UNCHANGED <<ofile, todo, after>>
    BY Zenon, <1>3 DEF ExitClose
  <2>2. "dead" \in Labels /\ "dead" \in Calm /\ pc[p] \in Calm /\ pc[p] \notin {"close", "pipeclose"}
    BY Zenon, <1>1 DEF Labels, Calm
  <2>3. Moves(p, "dead")
    BY Zenon, <1>0, <2>1, <2>2, AnyMove
  <2> QED
    BY Zenon, <1>0, <1>1, <2>1, <2>2, <2>3, QuietMove DEF ProcTypes, TableTypes, LocalsOf
<1> QED
  BY Zenon, <1>2, <1>3

LEMMA ForkCounts ==
  ASSUME CountsInv, NEW p \in Procs, NEW c \in Procs, Fork(p, c)
  PROVE  CountsInv'
<1>0. ProcTypes /\ TableTypes /\ Locals /\ Children /\ RefsCounted /\ ~panicked
  BY Zenon DEF CountsInv, TableInv
<1>1. UNCHANGED <<ofile, rf, wf, todo, after, ref, ftype, ff, panicked>> /\ pc[p] = "user" /\ pc[c] = "dead"
  BY Zenon DEF Fork, User, table
<1>2. np' \in [Procs -> Procs \cup {NULL}] /\ np'[p] = c /\ \A q \in Procs : q # p => np'[q] = np[q]
  BY Zenon, <1>0 DEF ProcTypes, Fork
<1>3. p # c
  BY Zenon, <1>1
<1>4. /\ pc' \in [Procs -> Labels] /\ pc'[p] = "fork" /\ pc'[c] = "used"
      /\ \A q \in Procs : q # p /\ q # c => pc'[q] = pc[q]
  <2>1. "fork" \in Labels /\ "used" \in Labels
    BY Zenon DEF Labels
  <2>2. pc' = [pc EXCEPT ![p] = "fork", ![c] = "used"]
    BY Zenon DEF Fork
  <2> QED
    BY Zenon, <1>0, <1>3, <2>1, <2>2 DEF ProcTypes
<1>5. ProcTypes' /\ TableTypes'
  BY Zenon, <1>0, <1>1, <1>2, <1>4 DEF ProcTypes, TableTypes
<1>6. Locals'
  <2> SUFFICES ASSUME NEW q \in Procs PROVE LocalsOf(q)'
    BY Zenon DEF Locals
  <2>1. LocalsOf(q)
    BY Zenon, <1>0 DEF Locals
  <2>2. CASE q # p /\ q # c
    BY Zenon, <1>1, <1>4, <2>1, <2>2, LocalsKept
  <2>3. CASE q = p \/ q = c
    <3>1. pc[q] \in {"user", "dead"} /\ pc'[q] \in {"fork", "used"}
      BY Zenon, <1>1, <1>4, <2>3
    <3>2. todo[q] = <<>> /\ rf[q] = 0 /\ wf[q] = 0
      BY Zenon, <2>1, <3>1 DEF LocalsOf
    <3> QED
      BY Zenon, <1>1, <3>1, <3>2 DEF LocalsOf
  <2> QED
    BY Zenon, <2>2, <2>3
<1>7. Children'
  <2>1. ASSUME NEW q \in Procs, q # p, pc'[q] = "fork"
        PROVE  pc[q] = "fork" /\ np'[q] = np[q] /\ np[q] \in Procs /\ np[q] # c /\ pc'[np[q]] = "used"
    <3>1. pc[q] = "fork" /\ np'[q] = np[q]
      <4>1. q # c
        BY Zenon, <1>4, <2>1
      <4> QED
        BY Zenon, <1>2, <1>4, <2>1, <4>1
    <3>2. np[q] \in Procs /\ pc[np[q]] = "used"
      BY Zenon, <1>0, <3>1 DEF Children
    <3>3. np[q] # c /\ np[q] # p
      BY Zenon, <1>1, <3>2
    <3> QED
      BY Zenon, <1>4, <3>1, <3>2, <3>3
  <2>2. ASSUME NEW q \in Procs, pc'[q] = "fork" PROVE np'[q] \in Procs /\ pc'[np'[q]] = "used"
    <3>1. CASE q = p
      BY Zenon, <1>2, <1>4, <3>1
    <3>2. CASE q # p
      BY Zenon, <2>1, <2>2, <3>2
    <3> QED
      BY Zenon, <3>1, <3>2
  <2>3. ASSUME NEW q \in Procs, NEW r \in Procs, pc'[q] = "fork", pc'[r] = "fork", np'[q] = np'[r] PROVE q = r
    <3>1. CASE q # p /\ r # p
      <4>1. pc[q] = "fork" /\ pc[r] = "fork" /\ np[q] = np[r]
        BY Zenon, <2>1, <2>3, <3>1
      <4> QED
        BY Zenon, <1>0, <4>1 DEF Children
    <3>2. CASE q = p /\ r # p
      BY Zenon, <1>2, <2>1, <2>3, <3>2
    <3>3. CASE q # p /\ r = p
      BY Zenon, <1>2, <2>1, <2>3, <3>3
    <3> QED
      BY Zenon, <3>1, <3>2, <3>3
  <2> QED
    BY Zenon, <2>2, <2>3 DEF Children
<1>8. RefsCounted'
  <2>1. ASSUME NEW q \in Procs
        PROVE  /\ pc'[q] \in {"alloc", "kalloc"} <=> pc[q] \in {"alloc", "kalloc"}
               /\ pc'[q] = "dup" <=> pc[q] = "dup"
    <3>1. CASE q # p /\ q # c
      BY Zenon, <1>4, <3>1
    <3>2. CASE q = p \/ q = c
      BY Zenon, <1>1, <1>4, <3>2
    <3> QED
      BY Zenon, <3>1, <3>2
  <2> QED
    BY Zenon, <1>0, <1>1, <2>1, RefsKept
<1> QED
  BY Zenon, <1>0, <1>1, <1>5, <1>6, <1>7, <1>8 DEF CountsInv, TableInv

(* fork() copies a descriptor, or lets the child run. *)
LEMMA ForkCopyCounts ==
  ASSUME CardFacts, CountsInv, NEW p \in Procs, ForkDup(p), Open(p) \ Open(np[p]) # {}
  PROVE  CountsInv'
<1>0. ProcTypes /\ TableTypes /\ Locals /\ Children /\ RefsCounted /\ TableInv
  BY Zenon DEF CountsInv, TableInv
<1>1. PICK c \in Procs : c = np[p] /\ pc[c] = "used"
  BY Zenon, <1>0 DEF Children, ForkDup
<1>2. PICK fd \in Open(p) \ Open(c) : /\ FileDup(ofile[p][fd]) /\ SetFile(c, fd, ofile[p][fd])
                                      /\ UNCHANGED <<pc, np>>
  <2>1. Open(p) \ Open(c) \in SUBSET Nat /\ Open(p) \ Open(c) # {}
    <3>1. Open(p) \ Open(c) # {}
      BY Zenon, <1>1
    <3> QED
      BY SMT, <3>1, FilesConstants DEF Open, Fds
  <2>2. Min(Open(p) \ Open(c)) \in Open(p) \ Open(c)
    BY Zenon, <2>1, Smallest
  <2> QED
    BY Zenon, <1>1, <2>2 DEF ForkDup
<1>3. UNCHANGED <<rf, wf, todo, after, ftype, ff>>
  BY Zenon DEF ForkDup
<1>4. fd \in Fds /\ ofile[c][fd] = 0
  BY Zenon DEF Open
<1>5. PICK g \in FileSlots : g = ofile[p][fd]
  <2>1. ofile[p][fd] \in 0 .. NFILE /\ ofile[p][fd] # 0
    BY Zenon, <1>0, <1>4 DEF ProcTypes, Open
  <2> QED
    BY SMT, <2>1 DEF FileSlots
<1>6. ref[g] >= 1
  <2>1. <<p, fd>> \in Descriptors(g)
    BY Zenon, <1>4, <1>5 DEF Descriptors, Places
  <2> QED
    BY Zenon, <1>0, <2>1, Counts
<1>7. /\ ~panicked' /\ ref' \in [FileSlots -> Int]
      /\ \A f \in FileSlots : ref[f] \in Int /\ ref'[f] = ref[f] + Bit(f = g)
  <2>1. FileDup(g)
    BY Zenon, <1>2, <1>5
  <2> QED
    BY Zenon, <1>6, <2>1, DupCounts
<1>8. SetFile(c, fd, g) /\ g \in 0 .. NFILE
  <2>1. g \in 0 .. NFILE
    BY SMT DEF FileSlots
  <2> QED
    BY Zenon, <1>2, <1>5, <2>1
<1>9. OnlyPut(ofile, ofile', c, fd, g)
  <2>1. ofile \in Tables /\ ofile' = With(ofile, c, fd, g)
    BY Zenon, <1>0, <1>8 DEF ProcTypes, Tables, SetFile, With
  <2> QED
    BY Zenon, <1>4, <1>8, <2>1, Put
<1>10. ProcTypes' /\ TableTypes'
  BY Zenon, <1>0, <1>2, <1>3, <1>7, <1>9 DEF ProcTypes, TableTypes, OnlyPut, Tables
<1>11. LocalsOf(c)'
  <2>1. LocalsOf(c)
    BY Zenon, <1>0 DEF Locals
  <2>2. pc[c] # "dup"
    BY Zenon, <1>1
  <2> QED
    BY Zenon, <1>2, <1>3, <2>1, <2>2 DEF LocalsOf
<1>12. ASSUME NEW f \in FileSlots
       PROVE  ref'[f] = ref[f] + (Bit(g = f) - Bit(ofile[c][fd] = f)) + (Mine(c, f)' - Mine(c, f))
  <2>1. Mine(c, f)' = Mine(c, f)
    BY Zenon, <1>2, <1>3 DEF Mine
  <2>2. Mine(c, f) \in Int
    BY SMT DEF Mine, Weight, Bit
  <2>3. ref'[f] = ref[f] + Bit(f = g) /\ ref[f] \in Int
    BY Zenon, <1>7
  <2>4. ofile[c][fd] # f
    BY SMT, <1>4, FilesConstants DEF FileSlots
  <2> QED
    BY SMT, <2>1, <2>2, <2>3, <2>4 DEF Bit
<1>13. \A q \in Procs : q # c => /\ pc'[q] = pc[q] /\ todo'[q] = todo[q] /\ rf'[q] = rf[q] /\ wf'[q] = wf[q]
  BY Zenon, <1>2, <1>3
<1> QED
  BY Zenon, <1>2, <1>4, <1>7, <1>8, <1>10, <1>11, <1>12, <1>13, SetStep

LEMMA ForkDoneCounts ==
  ASSUME CountsInv, NEW p \in Procs, ForkDup(p), Open(p) \ Open(np[p]) = {}
  PROVE  CountsInv'
<1>0. ProcTypes /\ TableTypes /\ Locals /\ Children /\ RefsCounted /\ ~panicked /\ pc[p] = "fork"
  BY Zenon DEF CountsInv, TableInv, ForkDup
<1>1. PICK c \in Procs : c = np[p] /\ pc[c] = "used"
  BY Zenon, <1>0 DEF Children
<1>2. /\ pc' = [pc EXCEPT ![p] = "user", ![c] = "user"] /\ np' = [np EXCEPT ![p] = NULL]
      /\ UNCHANGED <<ofile, rf, wf, todo, after, ref, ftype, ff, panicked>>
  BY Zenon, <1>1 DEF ForkDup
<1>3. np' \in [Procs -> Procs \cup {NULL}] /\ \A q \in Procs : q # p => np'[q] = np[q]
  BY Zenon, <1>0, <1>2 DEF ProcTypes
<1>4. /\ pc' \in [Procs -> Labels] /\ pc'[p] = "user" /\ pc'[c] = "user"
      /\ \A q \in Procs : q # p /\ q # c => pc'[q] = pc[q]
  <2>1. "user" \in Labels
    BY Zenon DEF Labels
  <2> QED
    BY Zenon, <1>0, <1>2, <2>1 DEF ProcTypes
<1>5. ProcTypes' /\ TableTypes'
  BY Zenon, <1>0, <1>2, <1>3, <1>4 DEF ProcTypes, TableTypes
<1>6. Locals'
  <2> SUFFICES ASSUME NEW q \in Procs PROVE LocalsOf(q)'
    BY Zenon DEF Locals
  <2>1. LocalsOf(q)
    BY Zenon, <1>0 DEF Locals
  <2>2. CASE q # p /\ q # c
    BY Zenon, <1>2, <1>4, <2>1, <2>2, LocalsKept
  <2>3. CASE q = p \/ q = c
    <3>1. pc[q] \in {"fork", "used"} /\ pc'[q] = "user"
      BY Zenon, <1>0, <1>1, <1>4, <2>3
    <3>2. todo[q] = <<>> /\ rf[q] = 0 /\ wf[q] = 0
      BY Zenon, <2>1, <3>1 DEF LocalsOf
    <3> QED
      BY Zenon, <1>2, <3>1, <3>2 DEF LocalsOf
  <2> QED
    BY Zenon, <2>2, <2>3
<1>7. Children'
  <2>1. ASSUME NEW q \in Procs, pc'[q] = "fork"
        PROVE  pc[q] = "fork" /\ np'[q] = np[q] /\ np[q] \in Procs /\ pc'[np[q]] = "used"
    <3>1. q # p /\ q # c
      BY Zenon, <1>4, <2>1
    <3>2. pc[q] = "fork" /\ np'[q] = np[q]
      BY Zenon, <1>3, <1>4, <2>1, <3>1
    <3>3. np[q] \in Procs /\ pc[np[q]] = "used" /\ np[q] # c
      BY Zenon, <1>0, <1>1, <3>1, <3>2 DEF Children
    <3>4. np[q] # p
      BY Zenon, <1>0, <3>3
    <3> QED
      BY Zenon, <1>4, <3>2, <3>3, <3>4
  <2>2. ASSUME NEW q \in Procs, NEW r \in Procs, pc'[q] = "fork", pc'[r] = "fork", np'[q] = np'[r] PROVE q = r
    <3>1. pc[q] = "fork" /\ pc[r] = "fork" /\ np[q] = np[r]
      BY Zenon, <2>1, <2>2
    <3> QED
      BY Zenon, <1>0, <3>1 DEF Children
  <2>3. \A q \in Procs : pc'[q] = "fork" => np'[q] \in Procs /\ pc'[np'[q]] = "used"
    BY Zenon, <2>1
  <2> QED
    BY Zenon, <2>2, <2>3 DEF Children
<1>8. RefsCounted'
  <2>1. ASSUME NEW q \in Procs
        PROVE  /\ pc'[q] \in {"alloc", "kalloc"} <=> pc[q] \in {"alloc", "kalloc"}
               /\ pc'[q] = "dup" <=> pc[q] = "dup"
    <3>1. CASE q # p /\ q # c
      BY Zenon, <1>4, <3>1
    <3>2. CASE q = p \/ q = c
      BY Zenon, <1>0, <1>1, <1>4, <3>2
    <3> QED
      BY Zenon, <3>1, <3>2
  <2> QED
    BY Zenon, <1>0, <1>2, <2>1, RefsKept
<1> QED
  BY Zenon, <1>0, <1>2, <1>5, <1>6, <1>7, <1>8 DEF CountsInv, TableInv

LEMMA FileCloseCounts ==
  ASSUME CardFacts, CountsInv, NEW p \in Procs, FileClose(p)
  PROVE  CountsInv'
<1>0. ProcTypes /\ TableTypes /\ LocalsOf(p) /\ ~panicked /\ TableInv /\ RefsCounted
  BY Zenon DEF CountsInv, TableInv, Locals
<1>1. /\ UNCHANGED <<ofile, rf, wf, after, np>> /\ pc[p] = "close" /\ todo[p] # <<>>
      /\ todo' = [todo EXCEPT ![p] = Tail(todo[p])]
  BY Zenon DEF FileClose
<1>2. PICK g \in FileSlots : /\ g = Head(todo[p]) /\ g \in Range(todo[p])
                             /\ Tail(todo[p]) \in Todos /\ Range(Tail(todo[p])) = Range(todo[p]) \ {g}
  <2>1. todo[p] \in Todos
    BY Zenon, <1>0 DEF ProcTypes
  <2> QED
    BY Zenon, <1>1, <2>1, HeadTail
<1>3. ref[g] >= 1
  <2>1. p \in Closers(g)
    BY Zenon, <1>2 DEF Closers, Closes
  <2> QED
    BY Zenon, <1>0, <2>1, Counts
<1>4. ~panicked'
  <2>1. ref[g] \in Int
    BY Zenon, <1>0 DEF TableTypes
  <2>2. ~(ref[g] < 1)
    BY SMT, <1>3, <2>1
  <2> QED
    BY Zenon, <1>0, <1>2, <2>2 DEF FileClose
<1>5. /\ ref' \in [FileSlots -> Int] /\ ref'[g] = ref[g] - 1
      /\ \A f \in FileSlots : ref[f] \in Int /\ (f # g => ref'[f] = ref[f])
  <2>1. ref' = [ref EXCEPT ![g] = ref[g] - 1] /\ ref \in [FileSlots -> Int]
    BY Zenon, <1>0, <1>2 DEF FileClose, TableTypes
  <2>2. ref[g] - 1 \in Int
    BY SMT, <2>1
  <2> QED
    BY Zenon, <2>1, <2>2
<1>6. todo' \in [Procs -> Todos] /\ todo'[p] = Tail(todo[p]) /\ \A q \in Procs : q # p => todo'[q] = todo[q]
  BY Zenon, <1>0, <1>1, <1>2 DEF ProcTypes
<1>7. /\ pc' \in [Procs -> Labels] /\ pc'[p] \in {"close", "pipeclose"}
      /\ \A q \in Procs : q # p => pc'[q] = pc[q]
  <2>1. CASE UNCHANGED pc
    BY Zenon, <1>0, <1>1, <2>1 DEF ProcTypes
  <2>2. CASE Goto(p, "pipeclose")
    <3>1. "pipeclose" \in Labels
      BY Zenon DEF Labels
    <3> QED
      BY Zenon, <1>0, <2>2, <3>1, GotoMoves
  <2> QED
    BY Zenon, <2>1, <2>2 DEF FileClose
<1>8. ftype' \in [FileSlots -> Types] /\ ff' \in [Procs -> Types]
  <2>1. CASE UNCHANGED <<pc, ff, ftype>>
    BY Zenon, <1>0, <2>1 DEF TableTypes
  <2>2. CASE ff' = [ff EXCEPT ![p] = ftype[g]] /\ ftype' = [ftype EXCEPT ![g] = "none"]
    <3>1. "none" \in Types /\ ftype[g] \in Types
      BY Zenon, <1>0 DEF Types, TableTypes
    <3> QED
      BY Zenon, <1>0, <2>2, <3>1 DEF TableTypes
  <2> QED
    BY Zenon, <1>2, <2>1, <2>2 DEF FileClose
<1>9. ProcTypes' /\ TableTypes'
  BY Zenon, <1>0, <1>1, <1>5, <1>6, <1>7, <1>8 DEF ProcTypes, TableTypes
<1>10. rf[p] = 0 /\ wf[p] = 0
  BY Zenon, <1>0, <1>1 DEF LocalsOf
<1>11. LocalsOf(p)'
  <2>1. rf'[p] = 0 /\ wf'[p] = 0
    BY Zenon, <1>1, <1>10
  <2> QED
    BY Zenon, <1>7, <2>1 DEF LocalsOf
<1>12. ASSUME NEW f \in FileSlots PROVE ref'[f] = ref[f] + (Mine(p, f)' - Mine(p, f))
  <2>1. Mine(p, f) = Bit(f \in Range(todo[p]))
    <3>1. pc[p] \notin {"alloc", "kalloc", "dup"}
      BY Zenon, <1>1
    <3> QED
      BY Zenon, <3>1, WeightList DEF Mine
  <2>2. Mine(p, f)' = Bit(f \in Range(Tail(todo[p])))
    <3>1. pc'[p] \notin {"alloc", "kalloc", "dup"}
      BY Zenon, <1>7
    <3>2. Weight(pc'[p], Tail(todo[p]), rf'[p], wf'[p], f) = Bit(f \in Range(Tail(todo[p])))
      BY Zenon, <3>1, WeightList
    <3> QED
      BY Zenon, <1>6, <3>2 DEF Mine
  <2>3. f \in Range(Tail(todo[p])) <=> f \in Range(todo[p]) /\ f # g
    BY Zenon, <1>2
  <2>4. CASE f = g
    BY SMT, <1>2, <1>5, <2>1, <2>2, <2>3, <2>4 DEF Bit
  <2>5. CASE f # g
    BY SMT, <1>5, <2>1, <2>2, <2>3, <2>5 DEF Bit
  <2> QED
    BY Zenon, <2>4, <2>5
<1>13. pc[p] \notin {"fork", "used"} /\ pc'[p] # "fork"
  BY Zenon, <1>1, <1>7
<1>14. \A q \in Procs : q # p => /\ pc'[q] = pc[q] /\ todo'[q] = todo[q] /\ rf'[q] = rf[q] /\ wf'[q] = wf[q]
  BY Zenon, <1>1, <1>6, <1>7
<1> QED
  BY Zenon, <1>1, <1>4, <1>9, <1>11, <1>12, <1>13, <1>14, KeepStep

LEMMA CountsStep ==
  ASSUME CardFacts, CountsInv, NEW p \in Procs,
         \/ FileAllocRead(p) \/ FileAllocWrite(p) \/ PipeNoMemory(p) \/ PipeAlloc(p)
         \/ DupRef(p) \/ Exit(p) \/ ExitClose(p) \/ ForkDup(p)
         \/ FileClose(p) \/ ClosePipe(p) \/ CloseDone(p)
         \/ \E fd \in Fds : SysDup(p, fd) \/ SysClose(p, fd) \/ \E n \in 1 .. MaxN : FileRw(p, fd, n)
         \/ \E c \in Procs : Fork(p, c)
         \/ Kill(p)
         \/ PipeStep(p) /\ UNCHANGED <<table, ofile, locals, panicked>>
  PROVE  CountsInv'
<1>1. CASE FileAllocRead(p) \/ FileAllocWrite(p) \/ PipeNoMemory(p) \/ PipeAlloc(p)
  BY Zenon, <1>1, FileAllocReadCounts, FileAllocWriteCounts, PipeNoMemoryCounts, PipeAllocCounts
<1>2. CASE DupRef(p) \/ ExitClose(p) \/ ForkDup(p) \/ FileClose(p)
  BY Zenon, <1>2, DupRefCounts, ExitCloseCounts, ForkCopyCounts, ForkDoneCounts, FileCloseCounts
<1>3. CASE \E fd \in Fds : SysDup(p, fd) \/ SysClose(p, fd)
  BY Zenon, <1>3, SysDupCounts, SysCloseCounts
<1>4. CASE \E c \in Procs : Fork(p, c)
  BY Zenon, <1>4, ForkCounts
<1>5. CASE \/ Exit(p) \/ ClosePipe(p) \/ CloseDone(p) \/ Kill(p)
           \/ \E fd \in Fds, n \in 1 .. MaxN : FileRw(p, fd, n)
           \/ PipeStep(p) /\ UNCHANGED <<table, ofile, locals, panicked>>
  BY Zenon, <1>5, QuietSteps
<1> QED
  BY Zenon, <1>1, <1>2, <1>3, <1>4, <1>5
-----------------------------------------------------------------------------
(* The second part of the invariant: the ends of the pipe. *)
LEMMA EndsQuiet ==
  ASSUME EndsInv, UNCHANGED <<ofile, ftype, ff, inuse, readopen, writeopen>>,
         \A q \in Procs :
           \/ pc'[q] = pc[q]
           \/ /\ pc[q] # "pipeclose" /\ pc'[q] # "pipeclose"
              /\ pc'[q] \in Reading => pc[q] \in Reading \/ Has(q, "r")
              /\ pc'[q] \in Writing => pc[q] \in Writing \/ Has(q, "w")
  PROVE  EndsInv'
<1>1. OneHolder' /\ OpenEnds' /\ Typed'
  BY Zenon DEF EndsInv, OneHolder, OpenEnds, Held, Typed
<1>2. Closing'
  BY Zenon DEF EndsInv, Closing
<1>3. ASSUME NEW q \in Procs PROVE Uses(q)'
  <2>1. \A e : Has(q, e)' <=> Has(q, e)
    BY Zenon DEF Has
  <2>2. Uses(q)
    BY Zenon DEF EndsInv, Using
  <2> QED
    BY Zenon, <2>1, <2>2 DEF Uses
<1> QED
  BY Zenon, <1>1, <1>2, <1>3 DEF EndsInv, Using

(* One process moves to a place outside the pipe, sleepers may wake. *)
LEMMA EndsMove ==
  ASSUME EndsInv, UNCHANGED <<ofile, ftype, ff, inuse, readopen, writeopen>>,
         NEW p \in Procs, NEW l, Moves(p, l), pc[p] # "pipeclose", l # "pipeclose",
         l \in Reading => pc[p] \in Reading \/ Has(p, "r"),
         l \in Writing => pc[p] \in Writing \/ Has(p, "w")
  PROVE  EndsInv'
<1>1. ASSUME NEW q \in Procs
      PROVE  \/ pc'[q] = pc[q]
             \/ /\ pc[q] # "pipeclose" /\ pc'[q] # "pipeclose"
                /\ pc'[q] \in Reading => pc[q] \in Reading \/ Has(q, "r")
                /\ pc'[q] \in Writing => pc[q] \in Writing \/ Has(q, "w")
  <2>1. CASE q = p
    BY Zenon, <2>1 DEF Moves
  <2>2. CASE q # p /\ pc'[q] # pc[q]
    <3>1. \/ pc[q] = "rsleep" /\ pc'[q] = "read"
          \/ pc[q] = "wsleep" /\ pc'[q] = "write"
      BY Zenon, <2>2 DEF Moves
    <3> QED
      BY Zenon, <3>1 DEF Reading, Writing
  <2> QED
    BY Zenon, <2>1, <2>2
<1> QED
  BY Zenon, <1>1, EndsQuiet

(* The steps of the file table that no end of the pipe sees. *)
LEMMA AwayEnds ==
  ASSUME ProcTypes, EndsInv, NEW p \in Procs,
         \/ FileAllocRead(p) \/ FileAllocWrite(p) \/ PipeNoMemory(p) \/ DupRef(p) \/ Exit(p)
         \/ CloseDone(p) \/ (ExitClose(p) /\ Open(p) = {})
  PROVE  EndsInv'
<1> DEFINE Out == {"user", "dead", "exit", "alloc", "kalloc", "close"}
<1>0. /\ Out \in SUBSET Labels
      /\ \A l \in Out : l # "pipeclose" /\ l \notin Reading /\ l \notin Writing
  BY Zenon DEF Labels, Reading, Writing
<1>1. UNCHANGED <<ofile, ftype, ff, inuse, readopen, writeopen>>
  <2>1. CASE FileAllocRead(p) \/ FileAllocWrite(p)
    BY Zenon, <2>1 DEF FileAllocRead, FileAllocWrite, pipe, ends
  <2>2. CASE PipeNoMemory(p) \/ DupRef(p)
    BY Zenon, <2>2 DEF PipeNoMemory, DupRef, pipe, ends, table
  <2>3. CASE Exit(p) \/ CloseDone(p) \/ (ExitClose(p) /\ Open(p) = {})
    BY Zenon, <2>3 DEF Exit, CloseDone, ExitClose, pipe, ends, table, locals
  <2> QED
    BY Zenon, <2>1, <2>2, <2>3
<1>2. pc[p] # "pipeclose"
  BY Zenon DEF FileAllocRead, FileAllocWrite, PipeNoMemory, DupRef, Exit, CloseDone, ExitClose, User
<1>3. UNCHANGED pc \/ \E l \in Out : Goto(p, l)
  <2>1. CASE FileAllocRead(p) \/ FileAllocWrite(p)
    BY Zenon, <2>1 DEF FileAllocRead, FileAllocWrite, CloseAll
  <2>2. CASE PipeNoMemory(p) \/ DupRef(p) \/ Exit(p)
    BY Zenon, <2>2 DEF PipeNoMemory, DupRef, Exit, CloseAll
  <2>3. CASE CloseDone(p)
    <3>1. after[p] \in {"user", "exit"}
      BY Zenon DEF ProcTypes
    <3> QED
      BY Zenon, <2>3, <3>1 DEF CloseDone
  <2>4. CASE ExitClose(p) /\ Open(p) = {}
    BY Zenon, <2>4 DEF ExitClose
  <2> QED
    BY Zenon, <2>1, <2>2, <2>3, <2>4
<1> HIDE DEF Out
<1>4. CASE UNCHANGED pc
  BY Zenon, <1>1, <1>4, EndsQuiet
<1>5. ASSUME NEW l \in Out, Goto(p, l) PROVE EndsInv'
  <2>1. Moves(p, l)
    BY Zenon, <1>0, <1>5, AnyMove
  <2> QED
    BY Zenon, <1>0, <1>1, <1>2, <2>1, EndsMove
<1> QED
  BY Zenon, <1>3, <1>4, <1>5

(* fork(), and the child that it lets run. *)
LEMMA ForkEnds ==
  ASSUME CountsInv, EndsInv, NEW p \in Procs,
         (\E c \in Procs : Fork(p, c)) \/ (ForkDup(p) /\ Open(p) \ Open(np[p]) = {})
  PROVE  EndsInv'
<1>0. pc \in [Procs -> Labels] /\ Children
  BY Zenon DEF CountsInv, TableInv, ProcTypes
<1>1. UNCHANGED <<ofile, ftype, ff, inuse, readopen, writeopen>>
  BY Zenon DEF Fork, ForkDup, pipe, ends, table
<1>2. PICK c \in Procs, l \in {"fork", "user"}, m \in {"used", "user"} :
        /\ pc' = [pc EXCEPT ![p] = l, ![c] = m]
        /\ pc[p] \in {"user", "fork"} /\ pc[c] \in {"dead", "used"}
  <2>1. CASE \E c \in Procs : Fork(p, c)
    BY Zenon, <2>1 DEF Fork, User
  <2>2. CASE ForkDup(p) /\ Open(p) \ Open(np[p]) = {}
    <3>1. /\ pc[p] = "fork" /\ np[p] \in Procs /\ pc[np[p]] = "used"
          /\ pc' = [pc EXCEPT ![p] = "user", ![np[p]] = "user"]
      BY Zenon, <1>0, <2>2 DEF ForkDup, Children
    <3> QED
      BY Zenon, <3>1
  <2> QED
    BY Zenon, <2>1, <2>2
<1>3. ASSUME NEW q \in Procs
      PROVE  \/ pc'[q] = pc[q]
             \/ /\ pc[q] # "pipeclose" /\ pc'[q] # "pipeclose"
                /\ pc'[q] \in Reading => pc[q] \in Reading \/ Has(q, "r")
                /\ pc'[q] \in Writing => pc[q] \in Writing \/ Has(q, "w")
  <2>1. /\ q # p /\ q # c => pc'[q] = pc[q]
        /\ q = p \/ q = c => pc'[q] \in {"fork", "used", "user"} /\ pc[q] \in {"user", "fork", "dead", "used"}
    BY Zenon, <1>0, <1>2
  <2> QED
    BY Zenon, <2>1 DEF Reading, Writing
<1> QED
  BY Zenon, <1>1, <1>3, EndsQuiet

(* read(), write() and kill(), and the steps in the pipe. *)
LEMMA PipeUseEnds ==
  ASSUME CountsInv, EndsInv, NEW p \in Procs,
         \/ \E fd \in Fds, n \in 1 .. MaxN : FileRw(p, fd, n)
         \/ Kill(p)
         \/ PipeStep(p) /\ UNCHANGED <<table, ofile, locals, panicked>>
  PROVE  EndsInv'
<1>0. ProcTypes
  BY Zenon DEF CountsInv, TableInv
<1>1. ASSUME NEW fd \in Fds, NEW n \in 1 .. MaxN, FileRw(p, fd, n) PROVE EndsInv'
  <2>1. UNCHANGED <<ofile, ftype, ff, inuse, readopen, writeopen>> /\ pc[p] = "user"
    BY Zenon, <1>1 DEF FileRw, User, ends, table, locals
  <2>2. ofile[p][fd] # 0 /\ ftype[ofile[p][fd]] \in Ends
    BY Zenon, <1>1 DEF FileRw, Open, EndsInv, Typed
  <2>3. PICK l \in {"read", "write"} : /\ Goto(p, l)
                                       /\ l = "read" => ftype[ofile[p][fd]] = "r"
                                       /\ l = "write" => ftype[ofile[p][fd]] = "w"
    BY Zenon, <1>1, <2>2 DEF FileRw, Ends
  <2>4. (l = "read" => Has(p, "r")) /\ (l = "write" => Has(p, "w"))
    BY Zenon, <2>2, <2>3 DEF Has
  <2>5. /\ l \in Labels /\ l # "pipeclose" /\ pc[p] # "pipeclose"
        /\ l \in Reading => l = "read"
        /\ l \in Writing => l = "write"
    BY Zenon, <2>1 DEF Labels, Reading, Writing
  <2>6. Moves(p, l)
    BY Zenon, <1>0, <2>3, <2>5, AnyMove
  <2> QED
    BY Zenon, <2>1, <2>4, <2>5, <2>6, EndsMove
<1>2. CASE Kill(p)
  <2>1. UNCHANGED <<ofile, ftype, ff, inuse, readopen, writeopen>>
    BY Zenon, <1>2 DEF Kill, pipe, ends, table, locals
  <2>2. PICK l : /\ Goto(p, l)
                 /\ l = pc[p] \/ (pc[p] = "rsleep" /\ l = "read") \/ (pc[p] = "wsleep" /\ l = "write")
    BY Zenon, <1>2 DEF Kill
  <2>3. pc'[p] = l /\ \A q \in Procs : q # p => pc'[q] = pc[q]
    BY Zenon, <1>0, <2>2 DEF Goto, ProcTypes
  <2>4. ASSUME NEW q \in Procs
        PROVE  \/ pc'[q] = pc[q]
               \/ /\ pc[q] # "pipeclose" /\ pc'[q] # "pipeclose"
                  /\ pc'[q] \in Reading => pc[q] \in Reading \/ Has(q, "r")
                  /\ pc'[q] \in Writing => pc[q] \in Writing \/ Has(q, "w")
    BY Zenon, <2>2, <2>3 DEF Reading, Writing
  <2> QED
    BY Zenon, <2>1, <2>4, EndsQuiet
<1>3. CASE PipeStep(p) /\ UNCHANGED <<table, ofile, locals, panicked>>
  <2>1. UNCHANGED <<inuse, readopen, writeopen>>
    BY Zenon, <1>3 DEF PipeStep, WriteLock, WriteRefused, WriteSleep, WriteByte, WriteEnd, ReadWait, ReadTake, ends
  <2>2. UNCHANGED <<ofile, ftype, ff>>
    BY Zenon, <1>3 DEF table, locals
  <2>3. pc[p] \in {"read", "write", "whold"}
    BY Zenon, <1>0, <1>3, PipeMoves
  <2>4. PICK l \in {"user", "rsleep", "whold", "wsleep"} :
          /\ Moves(p, l)
          /\ l = "rsleep" => pc[p] = "read"
          /\ l \in {"whold", "wsleep"} => pc[p] \in {"write", "whold"}
    BY Zenon, <1>0, <1>3, PipeMoves
  <2>5. /\ pc[p] # "pipeclose" /\ l # "pipeclose"
        /\ l \in Reading => pc[p] \in Reading
        /\ l \in Writing => pc[p] \in Writing
    BY Zenon, <2>3, <2>4 DEF Reading, Writing
  <2> QED
    BY Zenon, <2>1, <2>2, <2>4, <2>5, EndsMove
<1> QED
  BY Zenon, <1>1, <1>2, <1>3

LEMMA HoldersKept ==
  ASSUME OneHolder, OpenEnds, UNCHANGED <<ftype, ff, inuse, readopen, writeopen>>
  PROVE  OneHolder' /\ OpenEnds'
<1>1. OneHolder'
  BY Zenon DEF OneHolder
<1>2. \A e : Held(e)' <=> Held(e)
  BY Zenon DEF Held
<1> QED
  BY Zenon, <1>1, <1>2 DEF OpenEnds

(* One descriptor of r is set or cleared, and r does not use the pipe. *)
LEMMA PutEnds ==
  ASSUME EndsInv, ProcTypes, UNCHANGED <<ftype, ff, inuse, readopen, writeopen>>,
         NEW r \in Procs, NEW fd \in Fds, NEW g \in 0 .. NFILE, SetFile(r, fd, g), g # 0 => ftype[g] \in Ends,
         pc[r] # "pipeclose", pc'[r] \in {"dup", "close", "used"},
         \A q \in Procs : q # r => pc'[q] = pc[q]
  PROVE  EndsInv'
<1>1. OnlyPut(ofile, ofile', r, fd, g)
  <2>1. ofile \in Tables /\ ofile' = With(ofile, r, fd, g)
    BY Zenon DEF ProcTypes, Tables, SetFile, With
  <2> QED
    BY Zenon, <2>1, Put
<1>2. pc'[r] # "pipeclose" /\ pc'[r] \notin Reading /\ pc'[r] \notin Writing
  BY Zenon DEF Reading, Writing
<1>3. OneHolder' /\ OpenEnds'
  BY Zenon, HoldersKept DEF EndsInv
<1>4. ASSUME NEW q \in Procs PROVE ff'[q] # "none" <=> pc'[q] = "pipeclose"
  <2>1. ff'[q] = ff[q] /\ (ff[q] # "none" <=> pc[q] = "pipeclose")
    BY Zenon DEF EndsInv, Closing
  <2>2. pc'[q] = pc[q] \/ (pc[q] # "pipeclose" /\ pc'[q] # "pipeclose")
    BY Zenon, <1>2
  <2> QED
    BY Zenon, <2>1, <2>2
<1>5. ASSUME NEW q \in Procs, NEW k \in Fds, ofile'[q][k] # 0 PROVE ftype'[ofile'[q][k]] \in Ends
  <2>1. CASE q = r /\ k = fd
    BY Zenon, <1>1, <1>5, <2>1 DEF OnlyPut
  <2>2. CASE ~(q = r /\ k = fd)
    <3>1. ofile'[q][k] = ofile[q][k]
      BY Zenon, <1>1, <2>2 DEF OnlyPut
    <3> QED
      BY Zenon, <1>5, <3>1 DEF EndsInv, Typed
  <2> QED
    BY Zenon, <2>1, <2>2
<1>6. ASSUME NEW q \in Procs PROVE Uses(q)'
  <2>1. CASE q = r
    BY Zenon, <1>2, <2>1 DEF Uses
  <2>2. CASE q # r
    <3>1. ofile'[q] = ofile[q] /\ pc'[q] = pc[q] /\ Uses(q)
      BY Zenon, <1>1, <2>2 DEF OnlyPut, EndsInv, Using
    <3>2. \A e : Has(q, e)' <=> Has(q, e)
      BY Zenon, <3>1 DEF Has
    <3> QED
      BY Zenon, <3>1, <3>2 DEF Uses
  <2> QED
    BY Zenon, <2>1, <2>2
<1> QED
  BY Zenon, <1>3, <1>4, <1>5, <1>6 DEF EndsInv, Closing, Typed, Using

LEMMA DescriptorEnds ==
  ASSUME CardFacts, CountsInv, EndsInv, NEW p \in Procs,
         \/ \E fd \in Fds : SysDup(p, fd) \/ SysClose(p, fd)
         \/ ExitClose(p) /\ Open(p) # {}
         \/ ForkDup(p) /\ Open(p) \ Open(np[p]) # {}
  PROVE  EndsInv'
<1>0. ProcTypes /\ Children /\ pc \in [Procs -> Labels]
  BY Zenon DEF CountsInv, TableInv, ProcTypes
<1>1. UNCHANGED <<ftype, ff, inuse, readopen, writeopen>>
  <2>1. CASE \E fd \in Fds : SysDup(p, fd) \/ SysClose(p, fd)
    BY Zenon, <2>1 DEF SysDup, SysClose, pipe, ends, table
  <2>2. CASE ExitClose(p) \/ ForkDup(p)
    BY Zenon, <2>2 DEF ExitClose, ForkDup, pipe, ends, table
  <2> QED
    BY Zenon, <2>1, <2>2
<1>2. \A q \in Procs : Open(q) \in SUBSET Nat /\ FreeFds(q) \in SUBSET Nat
  BY SMT, FilesConstants DEF Open, FreeFds, Fds
<1>3. 0 \in 0 .. NFILE /\ {"dup", "close", "used"} \in SUBSET Labels
  BY SMT, FilesConstants DEF Labels
<1>4. ASSUME NEW l \in Labels, Goto(p, l) PROVE pc'[p] = l /\ \A q \in Procs : q # p => pc'[q] = pc[q]
  BY Zenon, <1>0, <1>4, GotoMoves
<1>5. ASSUME NEW fd \in Fds, SysDup(p, fd) PROVE EndsInv'
  <2>1. Min(FreeFds(p)) \in FreeFds(p)
    BY Zenon, <1>2, <1>5, Smallest DEF SysDup
  <2>2. Min(FreeFds(p)) \in Fds /\ ofile[p][fd] \in 0 .. NFILE /\ ftype[ofile[p][fd]] \in Ends
    BY Zenon, <1>0, <1>5, <2>1 DEF FreeFds, ProcTypes, SysDup, Open, EndsInv, Typed
  <2>3. SetFile(p, Min(FreeFds(p)), ofile[p][fd]) /\ Goto(p, "dup") /\ pc[p] = "user"
    BY Zenon, <1>5 DEF SysDup, User
  <2>4. pc[p] # "pipeclose"
    BY Zenon, <2>3
  <2> QED
    BY Zenon, <1>0, <1>1, <1>3, <1>4, <2>2, <2>3, <2>4, PutEnds
<1>6. ASSUME NEW fd \in Fds, SetFile(p, fd, 0), Goto(p, "close"), pc[p] \in {"user", "exit"} PROVE EndsInv'
  <2>1. pc[p] # "pipeclose"
    BY Zenon, <1>6
  <2> QED
    BY Zenon, <1>0, <1>1, <1>3, <1>4, <1>6, <2>1, PutEnds
<1>7. CASE \E fd \in Fds : SysClose(p, fd)
  <2>1. PICK fd \in Fds : SetFile(p, fd, 0) /\ Goto(p, "close") /\ pc[p] = "user"
    BY Zenon, <1>7 DEF SysClose, CloseAll, User
  <2> QED
    BY Zenon, <1>6, <2>1
<1>8. CASE ExitClose(p) /\ Open(p) # {}
  <2>1. Min(Open(p)) \in Fds
    BY Zenon, <1>2, <1>8, Smallest DEF Open
  <2>2. SetFile(p, Min(Open(p)), 0) /\ Goto(p, "close") /\ pc[p] = "exit"
    BY Zenon, <1>8 DEF ExitClose, CloseAll
  <2> QED
    BY Zenon, <1>6, <2>1, <2>2
<1>9. CASE ForkDup(p) /\ Open(p) \ Open(np[p]) # {}
  <2>1. PICK c \in Procs : c = np[p] /\ pc[c] = "used"
    BY Zenon, <1>0, <1>9 DEF Children, ForkDup
  <2>2. PICK fd \in Open(p) \ Open(c) : SetFile(c, fd, ofile[p][fd]) /\ UNCHANGED pc
    <3>1. Open(p) \ Open(c) \in SUBSET Nat /\ Open(p) \ Open(c) # {}
      BY Zenon, <1>2, <1>9, <2>1
    <3>2. Min(Open(p) \ Open(c)) \in Open(p) \ Open(c)
      BY Zenon, <3>1, Smallest
    <3> QED
      BY Zenon, <1>9, <2>1, <3>1, <3>2 DEF ForkDup
  <2>3. fd \in Fds /\ ofile[p][fd] \in 0 .. NFILE /\ ftype[ofile[p][fd]] \in Ends
    BY Zenon, <1>0, <2>2 DEF ProcTypes, Open, EndsInv, Typed
  <2>4. pc[c] # "pipeclose" /\ pc'[c] = "used"
    BY Zenon, <2>1, <2>2
  <2> QED
    BY Zenon, <1>0, <1>1, <2>1, <2>2, <2>3, <2>4, PutEnds
<1> QED
  BY Zenon, <1>5, <1>7, <1>8, <1>9

(* Without a pipe there is no file of one, no descriptor and no user. *)
LEMMA NoPipe ==
  ASSUME CountsInv, EndsInv, ~inuse
  PROVE  /\ \A f \in FileSlots : ftype[f] = "none"
         /\ \A q \in Procs : ff[q] = "none"
         /\ \A q \in Procs, k \in Fds : ofile[q][k] = 0
         /\ \A q \in Procs : pc[q] \notin Reading /\ pc[q] \notin Writing /\ pc[q] # "pipeclose"
<1>0. ProcTypes /\ TableTypes
  BY Zenon DEF CountsInv, TableInv
<1>1. ~Held("r") /\ ~Held("w")
  BY Zenon DEF EndsInv, OpenEnds
<1>2. ASSUME NEW f \in FileSlots PROVE ftype[f] = "none"
  <2>1. ftype[f] # "r" /\ ftype[f] # "w" /\ ftype[f] \in Types
    BY Zenon, <1>0, <1>1 DEF Held, TableTypes
  <2> QED
    BY Zenon, <2>1 DEF Types
<1>3. ASSUME NEW q \in Procs PROVE ff[q] = "none"
  <2>1. ff[q] # "r" /\ ff[q] # "w" /\ ff[q] \in Types
    BY Zenon, <1>0, <1>1 DEF Held, TableTypes
  <2> QED
    BY Zenon, <2>1 DEF Types
<1>4. ASSUME NEW q \in Procs, NEW k \in Fds, ofile[q][k] # 0 PROVE FALSE
  <2>1. ofile[q][k] \in 0 .. NFILE /\ ftype[ofile[q][k]] \in Ends
    BY Zenon, <1>0, <1>4 DEF ProcTypes, EndsInv, Typed
  <2>2. ofile[q][k] \in FileSlots
    BY SMT, <1>4, <2>1 DEF FileSlots
  <2>3. ftype[ofile[q][k]] = "none"
    BY Zenon, <1>2, <2>2
  <2> QED
    BY Zenon, <2>1, <2>3 DEF Ends
<1>5. ASSUME NEW q \in Procs PROVE pc[q] \notin Reading /\ pc[q] \notin Writing /\ pc[q] # "pipeclose"
  <2>1. ~Has(q, "r") /\ ~Has(q, "w")
    BY Zenon, <1>4 DEF Has
  <2>2. Uses(q) /\ (ff[q] # "none" <=> pc[q] = "pipeclose")
    BY Zenon DEF EndsInv, Using, Closing
  <2> QED
    BY Zenon, <1>3, <2>1, <2>2 DEF Uses
<1> QED
  BY Zenon, <1>2, <1>3, <1>4, <1>5

(* pipealloc() and sys_pipe(): a file for each end, and descriptors for    *)
(* both or for none.                                                       *)
LEMMA PipeAllocEnds ==
  ASSUME CardFacts, CountsInv, EndsInv, NEW p \in Procs, PipeAlloc(p)
  PROVE  EndsInv'
<1>0. ProcTypes /\ TableTypes /\ LocalsOf(p) /\ pc[p] = "kalloc" /\ ~inuse
  BY Zenon DEF CountsInv, TableInv, Locals, PipeAlloc
<1>1. PICK r \in FileSlots, w \in FileSlots : r = rf[p] /\ w = wf[p] /\ r # w
  BY Zenon, <1>0, RealFile
<1>2. /\ \A f \in FileSlots : ftype[f] = "none"
      /\ \A q \in Procs : ff[q] = "none"
      /\ \A q \in Procs, k \in Fds : ofile[q][k] = 0
      /\ \A q \in Procs : pc[q] \notin Reading /\ pc[q] \notin Writing /\ pc[q] # "pipeclose"
  BY Zenon, <1>0, NoPipe
<1>3. /\ ftype'[r] = "r" /\ ftype'[w] = "w"
      /\ \A f \in FileSlots : f # r /\ f # w => ftype'[f] = "none"
  <2>1. ftype' = [ftype EXCEPT ![r] = "r", ![w] = "w"] /\ ftype \in [FileSlots -> Types]
    BY Zenon, <1>0, <1>1 DEF PipeAlloc, TableTypes
  <2> QED
    BY Zenon, <1>1, <1>2, <2>1
<1>4. inuse' /\ readopen' /\ writeopen' /\ ff' = ff
  BY Zenon DEF PipeAlloc, PipeNew
<1>5. "r" # "w" /\ "r" # "none" /\ "w" # "none" /\ "r" \in Ends /\ "w" \in Ends
  BY Zenon DEF Ends
<1>6. OneHolder' /\ OpenEnds'
  <2>1. \A f \in FileSlots : (ftype'[f] = "r" => f = r) /\ (ftype'[f] = "w" => f = w)
    BY Zenon, <1>3, <1>5
  <2>2. \A q \in Procs : ff'[q] # "r" /\ ff'[q] # "w"
    BY Zenon, <1>2, <1>4, <1>5
  <2>3. Held("r")' /\ Held("w")'
    BY Zenon, <1>3 DEF Held
  <2>4. OneHolder'
    BY Zenon, <2>1, <2>2 DEF OneHolder, Ends
  <2> QED
    BY Zenon, <1>4, <2>3, <2>4 DEF OpenEnds
<1>7. \A q \in Procs : pc'[q] \notin Reading /\ pc'[q] \notin Writing /\ pc'[q] # "pipeclose"
  <2>1. PICK l \in {"user", "close"} : Goto(p, l)
    BY Zenon DEF PipeAlloc, CloseAll
  <2>2. l \in Labels /\ l \notin Reading /\ l \notin Writing /\ l # "pipeclose"
    BY Zenon DEF Labels, Reading, Writing
  <2>3. pc'[p] = l /\ \A q \in Procs : q # p => pc'[q] = pc[q]
    BY Zenon, <1>0, <2>1, <2>2, GotoMoves
  <2> QED
    BY Zenon, <1>2, <2>2, <2>3
<1>8. Closing' /\ Using'
  <2>1. Closing'
    BY Zenon, <1>2, <1>4, <1>7 DEF Closing
  <2> QED
    BY Zenon, <1>7, <2>1 DEF Using, Uses
<1>9. \A q \in Procs, k \in Fds : ofile'[q][k] \in {0, r, w}
  <2>1. CASE UNCHANGED ofile
    BY Zenon, <1>2, <2>1
  <2>2. ASSUME Cardinality(FreeFds(p)) >= 2, NEW a, NEW b, a = Min(FreeFds(p)), b = Min(FreeFds(p) \ {a}),
               ofile' = [ofile EXCEPT ![p][a] = r, ![p][b] = w]
        PROVE  \A q \in Procs, k \in Fds : ofile'[q][k] \in {0, r, w}
    <3>1. a \in Fds /\ b \in Fds /\ ofile \in [Procs -> [Fds -> 0 .. NFILE]]
      BY Zenon, <1>0, <2>2, TwoFree DEF FreeFds, ProcTypes
    <3>2. \A q \in Procs, k \in Fds : ofile'[q][k] = ofile[q][k] \/ ofile'[q][k] = r \/ ofile'[q][k] = w
      BY Zenon, <2>2, <3>1
    <3> QED
      BY Zenon, <1>2, <3>2
  <2> QED
    BY Zenon, <1>1, <2>1, <2>2 DEF PipeAlloc
<1>10. Typed'
  BY Zenon, <1>3, <1>5, <1>9 DEF Typed
<1> QED
  BY Zenon, <1>6, <1>8, <1>10 DEF EndsInv

(* fileclose(): without a reference left the end passes from the file to   *)
(* the process that closes it, and no descriptor refers to the file.       *)
LEMMA FileCloseEnds ==
  ASSUME CardFacts, CountsInv, EndsInv, NEW p \in Procs, FileClose(p)
  PROVE  EndsInv'
<1>0. ProcTypes /\ TableTypes /\ TableInv /\ RefsCounted /\ pc[p] = "close" /\ todo[p] # <<>>
  BY Zenon DEF CountsInv, TableInv, FileClose
<1>1. UNCHANGED <<ofile, inuse, readopen, writeopen>>
  BY Zenon DEF FileClose, pipe, ends
<1>2. PICK f \in FileSlots : f = Head(todo[p]) /\ f \in Range(todo[p])
  <2>1. todo[p] \in Todos
    BY Zenon, <1>0 DEF ProcTypes
  <2> QED
    BY Zenon, <1>0, <2>1, HeadTail
<1>3. CASE ~(ref[f] = 1 /\ ftype[f] # "none")
  <2>1. UNCHANGED <<pc, ff, ftype>>
    BY Zenon, <1>2, <1>3 DEF FileClose
  <2> QED
    BY Zenon, <1>1, <2>1, EndsQuiet
<1>4. CASE ref[f] = 1 /\ ftype[f] # "none"
  <2>1. /\ ff' = [ff EXCEPT ![p] = ftype[f]] /\ ftype' = [ftype EXCEPT ![f] = "none"]
        /\ Goto(p, "pipeclose")
    BY Zenon, <1>2, <1>4 DEF FileClose
  <2>2. ff'[p] = ftype[f] /\ \A q \in Procs : q # p => ff'[q] = ff[q]
    BY Zenon, <1>0, <2>1 DEF TableTypes
  <2>3. ftype'[f] = "none" /\ \A g \in FileSlots : g # f => ftype'[g] = ftype[g]
    BY Zenon, <1>0, <2>1 DEF TableTypes
  <2>4. pc'[p] = "pipeclose" /\ \A q \in Procs : q # p => pc'[q] = pc[q]
    <3>1. "pipeclose" \in Labels
      BY Zenon DEF Labels
    <3> QED
      BY Zenon, <1>0, <2>1, <3>1, GotoMoves
  <2>5. ff[p] = "none"
    <3>1. pc[p] # "pipeclose"
      BY Zenon, <1>0
    <3> QED
      BY Zenon, <3>1 DEF EndsInv, Closing
  <2>6. \A q \in Procs, k \in Fds : ofile[q][k] # f
    <3>1. Descriptors(f) = {}
      <4>1. p \in Closers(f)
        BY Zenon, <1>2 DEF Closers, Closes
      <4> QED
        BY Zenon, <1>0, <1>4, <4>1, Counts
    <3>2. ASSUME NEW q \in Procs, NEW k \in Fds, ofile[q][k] = f PROVE FALSE
      <4>1. <<q, k>> \in Descriptors(f)
        BY Zenon, <3>2 DEF Descriptors, Places
      <4> QED
        BY Zenon, <3>1, <4>1
    <3> QED
      BY Zenon, <3>2
  <2>7. \A q \in Procs, k \in Fds : ofile[q][k] # 0 => ftype'[ofile[q][k]] = ftype[ofile[q][k]]
    <3>1. ASSUME NEW q \in Procs, NEW k \in Fds, ofile[q][k] # 0 PROVE ftype'[ofile[q][k]] = ftype[ofile[q][k]]
      <4>1. ofile[q][k] \in 0 .. NFILE
        BY Zenon, <1>0 DEF ProcTypes
      <4>2. ofile[q][k] \in FileSlots
        BY SMT, <3>1, <4>1 DEF FileSlots
      <4> QED
        BY Zenon, <2>3, <2>6, <4>2
    <3> QED
      BY Zenon, <3>1
  <2>8. ASSUME NEW e \in Ends
        PROVE  /\ \A g, h \in FileSlots : ftype'[g] = e /\ ftype'[h] = e => g = h
               /\ \A q, s \in Procs : ff'[q] = e /\ ff'[s] = e => q = s
               /\ \A g \in FileSlots, q \in Procs : ~(ftype'[g] = e /\ ff'[q] = e)
               /\ Held(e)' <=> Held(e)
    <3>1. e # "none"
      BY Zenon DEF Ends
    <3>2. /\ \A g, h \in FileSlots : ftype[g] = e /\ ftype[h] = e => g = h
          /\ \A q, s \in Procs : ff[q] = e /\ ff[s] = e => q = s
          /\ \A g \in FileSlots, q \in Procs : ~(ftype[g] = e /\ ff[q] = e)
      BY Zenon DEF EndsInv, OneHolder
    <3>3. \A g \in FileSlots : ftype'[g] = e <=> g # f /\ ftype[g] = e
      BY Zenon, <2>3, <3>1
    <3>4. \A q \in Procs : ff'[q] = e <=> (q = p /\ ftype[f] = e) \/ ff[q] = e
      BY Zenon, <2>2, <2>5, <3>1
    <3>5. \A g, h \in FileSlots : ftype'[g] = e /\ ftype'[h] = e => g = h
      BY Zenon, <3>2, <3>3
    <3>6. \A q, s \in Procs : ff'[q] = e /\ ff'[s] = e => q = s
      BY Zenon, <3>2, <3>4
    <3>7. \A g \in FileSlots, q \in Procs : ~(ftype'[g] = e /\ ff'[q] = e)
      BY Zenon, <3>2, <3>3, <3>4
    <3>8. Held(e)' <=> Held(e)
      BY Zenon, <3>3, <3>4 DEF Held
    <3> QED
      BY Zenon, <3>5, <3>6, <3>7, <3>8
  <2>9. OneHolder' /\ OpenEnds'
    <3>1. OneHolder'
      BY Zenon, <2>8 DEF OneHolder
    <3>2. (Held("r")' <=> Held("r")) /\ (Held("w")' <=> Held("w"))
      BY Zenon, <2>8 DEF Ends
    <3> QED
      BY Zenon, <1>1, <3>1, <3>2 DEF EndsInv, OpenEnds
  <2>10. Closing'
    BY Zenon, <1>4, <2>2, <2>4 DEF EndsInv, Closing
  <2>11. Typed'
    BY Zenon, <1>1, <2>7 DEF EndsInv, Typed
  <2>12. ASSUME NEW q \in Procs PROVE Uses(q)'
    <3>1. \A e : Has(q, e)' <=> Has(q, e)
      BY Zenon, <1>1, <2>7 DEF Has
    <3>2. pc'[p] \notin Reading /\ pc'[p] \notin Writing
      BY Zenon, <2>4 DEF Reading, Writing
    <3>3. Uses(q)
      BY Zenon DEF EndsInv, Using
    <3> QED
      BY Zenon, <2>4, <3>1, <3>2, <3>3 DEF Uses
  <2> QED
    BY Zenon, <2>9, <2>10, <2>11, <2>12 DEF EndsInv, Using
<1> QED
  BY Zenon, <1>3, <1>4

(* pipeclose(): the end that p holds is closed, and nobody else has it. *)
LEMMA ClosePipeEnds ==
  ASSUME CountsInv, EndsInv, NEW p \in Procs, ClosePipe(p)
  PROVE  EndsInv'
<1>0. ProcTypes /\ TableTypes /\ pc[p] = "pipeclose"
  BY Zenon DEF CountsInv, TableInv, ClosePipe
<1>1. UNCHANGED <<ofile, ftype>> /\ ff' = [ff EXCEPT ![p] = "none"] /\ PipeClose(p, ff[p])
  BY Zenon DEF ClosePipe, table
<1>2. PICK c \in Ends : c = ff[p]
  <2>1. ff[p] # "none" /\ ff[p] \in Types
    BY Zenon, <1>0 DEF EndsInv, Closing, TableTypes
  <2> QED
    BY Zenon, <2>1 DEF Types, Ends
<1>3. Moves(p, "close")
  <2>1. "close" \in Labels
    BY Zenon DEF Labels
  <2>2. WakeReaders(p, "close") \/ WakeWriters(p, "close")
    BY Zenon, <1>1 DEF PipeClose
  <2> QED
    BY Zenon, <1>0, <2>1, <2>2, AnyMove
<1>4. ff'[p] = "none" /\ \A q \in Procs : q # p => ff'[q] = ff[q]
  BY Zenon, <1>0, <1>1 DEF TableTypes
<1>5. ASSUME NEW e \in Ends
      PROVE  /\ \A g, h \in FileSlots : ftype'[g] = e /\ ftype'[h] = e => g = h
             /\ \A q, s \in Procs : ff'[q] = e /\ ff'[s] = e => q = s
             /\ \A g \in FileSlots, q \in Procs : ~(ftype'[g] = e /\ ff'[q] = e)
             /\ Held(e)' <=> Held(e) /\ e # c
  <2>1. e # "none"
    BY Zenon DEF Ends
  <2>2. /\ \A g, h \in FileSlots : ftype[g] = e /\ ftype[h] = e => g = h
        /\ \A q, s \in Procs : ff[q] = e /\ ff[s] = e => q = s
        /\ \A g \in FileSlots, q \in Procs : ~(ftype[g] = e /\ ff[q] = e)
    BY Zenon DEF EndsInv, OneHolder
  <2>3. \A q \in Procs : ff'[q] = e <=> q # p /\ ff[q] = e
    BY Zenon, <1>4, <2>1
  <2>4. Held(e)' <=> Held(e) /\ e # c
    <3>1. CASE e = c
      BY Zenon, <1>1, <1>2, <2>2, <2>3, <3>1 DEF Held
    <3>2. CASE e # c
      <4>1. ff[p] # e
        BY Zenon, <1>2, <3>2
      <4> QED
        BY Zenon, <1>1, <2>3, <3>2, <4>1 DEF Held
    <3> QED
      BY Zenon, <3>1, <3>2
  <2>5. \A q, s \in Procs : ff'[q] = e /\ ff'[s] = e => q = s
    BY Zenon, <2>2, <2>3
  <2>6. \A g \in FileSlots, q \in Procs : ~(ftype'[g] = e /\ ff'[q] = e)
    BY Zenon, <1>1, <2>2, <2>3
  <2> QED
    BY Zenon, <1>1, <2>2, <2>4, <2>5, <2>6
<1>6. OneHolder' /\ OpenEnds'
  <2>1. OneHolder'
    BY Zenon, <1>5 DEF OneHolder
  <2>2. (Held("r")' <=> Held("r") /\ "r" # c) /\ (Held("w")' <=> Held("w") /\ "w" # c)
    BY Zenon, <1>5 DEF Ends
  <2>3. (writeopen' <=> writeopen /\ c # "w") /\ (readopen' <=> readopen /\ c # "r")
        /\ (inuse' <=> readopen' \/ writeopen')
    BY Zenon, <1>1, <1>2 DEF PipeClose
  <2>4. (readopen <=> Held("r")) /\ (writeopen <=> Held("w"))
    BY Zenon DEF EndsInv, OpenEnds
  <2>5. (readopen' <=> Held("r")') /\ (writeopen' <=> Held("w")')
    BY Zenon, <2>2, <2>3, <2>4
  <2> QED
    BY Zenon, <2>1, <2>3, <2>5 DEF OpenEnds
<1>7. ASSUME NEW q \in Procs PROVE Uses(q)' /\ (ff'[q] # "none" <=> pc'[q] = "pipeclose")
  <2>1. CASE q = p
    <3>1. pc'[p] # "pipeclose" /\ pc'[p] \notin Reading /\ pc'[p] \notin Writing
      BY Zenon, <1>3 DEF Moves, Reading, Writing
    <3> QED
      BY Zenon, <1>4, <2>1, <3>1 DEF Uses
  <2>2. CASE q # p
    <3>1. \A e : Has(q, e)' <=> Has(q, e)
      BY Zenon, <1>1 DEF Has
    <3>2. Uses(q) /\ (ff[q] # "none" <=> pc[q] = "pipeclose") /\ ff'[q] = ff[q]
      BY Zenon, <1>4, <2>2 DEF EndsInv, Using, Closing
    <3>3. /\ pc'[q] \in Reading => pc[q] \in Reading
          /\ pc'[q] \in Writing => pc[q] \in Writing
          /\ pc'[q] = "pipeclose" <=> pc[q] = "pipeclose"
      <4>1. \/ pc'[q] = pc[q]
            \/ pc[q] = "rsleep" /\ pc'[q] = "read"
            \/ pc[q] = "wsleep" /\ pc'[q] = "write"
        BY Zenon, <1>3, <2>2 DEF Moves
      <4> QED
        BY Zenon, <4>1 DEF Reading, Writing
    <3> QED
      BY Zenon, <3>1, <3>2, <3>3 DEF Uses
  <2> QED
    BY Zenon, <2>1, <2>2
<1>8. Typed'
  BY Zenon, <1>1 DEF EndsInv, Typed
<1> QED
  BY Zenon, <1>6, <1>7, <1>8 DEF EndsInv, Using, Closing

LEMMA EndsStep ==
  ASSUME CardFacts, CountsInv, EndsInv, Next
  PROVE  EndsInv'
<1>0. ProcTypes
  BY Zenon DEF CountsInv, TableInv
<1>1. PICK p \in Procs :
        \/ FileAllocRead(p) \/ FileAllocWrite(p) \/ PipeNoMemory(p) \/ PipeAlloc(p)
        \/ DupRef(p) \/ Exit(p) \/ ExitClose(p) \/ ForkDup(p)
        \/ FileClose(p) \/ ClosePipe(p) \/ CloseDone(p)
        \/ \E fd \in Fds : SysDup(p, fd) \/ SysClose(p, fd) \/ \E n \in 1 .. MaxN : FileRw(p, fd, n)
        \/ \E c \in Procs : Fork(p, c)
        \/ Kill(p)
        \/ PipeStep(p) /\ UNCHANGED <<table, ofile, locals, panicked>>
  BY Zenon DEF Next
<1>2. CASE FileAllocRead(p) \/ FileAllocWrite(p) \/ PipeNoMemory(p) \/ DupRef(p) \/ Exit(p) \/ CloseDone(p)
  BY Zenon, <1>0, <1>2, AwayEnds
<1>3. CASE ExitClose(p)
  BY Zenon, <1>0, <1>3, AwayEnds, DescriptorEnds
<1>4. CASE ForkDup(p) \/ \E c \in Procs : Fork(p, c)
  BY Zenon, <1>4, ForkEnds, DescriptorEnds
<1>5. CASE PipeAlloc(p) \/ FileClose(p) \/ ClosePipe(p)
  BY Zenon, <1>5, PipeAllocEnds, FileCloseEnds, ClosePipeEnds
<1>6. CASE \E fd \in Fds : SysDup(p, fd) \/ SysClose(p, fd)
  BY Zenon, <1>6, DescriptorEnds
<1>7. CASE \/ \E fd \in Fds, n \in 1 .. MaxN : FileRw(p, fd, n)
           \/ Kill(p)
           \/ PipeStep(p) /\ UNCHANGED <<table, ofile, locals, panicked>>
  BY Zenon, <1>7, PipeUseEnds
<1> QED
  BY Zenon, <1>1, <1>2, <1>3, <1>4, <1>5, <1>6, <1>7
-----------------------------------------------------------------------------
(* The third part of the invariant: the ring and its sleepers.  What the   *)
(* counters say although they wrap.                                        *)
Uints == 0 .. UintRange - 1
Ahead(a, b) == IF a >= b THEN a - b ELSE a - b + UintRange
Step(a, k) == IF a + k < UintRange THEN a + k ELSE a + k - UintRange

LEMMA Wrap ==
  ASSUME NEW a \in Uints, NEW b \in Uints, NEW k \in 0 .. PIPESIZE
  PROVE  /\ (a - b) % UintRange = Ahead(a, b) /\ Ahead(a, b) \in Uints
         /\ (a + k) % UintRange = Step(a, k) /\ Step(a, k) \in Uints
<1>0. UintRange \in Nat /\ UintRange > 0 /\ PIPESIZE \in Nat /\ UintRange > PIPESIZE /\ PIPESIZE > 0
  BY SMT, PipeConstants
<1>1. /\ \A x \in 0 .. UintRange - 1 : x % UintRange = x
      /\ \A x \in UintRange .. 2 * UintRange - 1 : x % UintRange = x - UintRange
      /\ \A x \in -UintRange .. -1 : x % UintRange = x + UintRange
  BY Zenon, <1>0, ModNear
<1>2. (a - b) % UintRange = Ahead(a, b) /\ Ahead(a, b) \in Uints
  <2>1. CASE a >= b
    <3>1. a - b \in 0 .. UintRange - 1 /\ Ahead(a, b) = a - b
      BY SMT, <1>0, <2>1 DEF Ahead, Uints
    <3> QED
      BY Zenon, <1>1, <3>1 DEF Uints
  <2>2. CASE ~(a >= b)
    <3>1. a - b \in -UintRange .. -1 /\ Ahead(a, b) = (a - b) + UintRange /\ Ahead(a, b) \in Uints
      BY SMT, <1>0, <2>2 DEF Ahead, Uints
    <3> QED
      BY Zenon, <1>1, <3>1
  <2> QED
    BY Zenon, <2>1, <2>2
<1>3. (a + k) % UintRange = Step(a, k) /\ Step(a, k) \in Uints
  <2>1. CASE a + k < UintRange
    <3>1. a + k \in 0 .. UintRange - 1 /\ Step(a, k) = a + k
      BY SMT, <1>0, <2>1 DEF Step, Uints
    <3> QED
      BY Zenon, <1>1, <3>1 DEF Uints
  <2>2. CASE ~(a + k < UintRange)
    <3>1. a + k \in UintRange .. 2 * UintRange - 1 /\ Step(a, k) = (a + k) - UintRange /\ Step(a, k) \in Uints
      BY SMT, <1>0, <2>2 DEF Step, Uints
    <3> QED
      BY Zenon, <1>1, <3>1
  <2> QED
    BY Zenon, <2>1, <2>2
<1> QED
  BY Zenon, <1>2, <1>3

(* nwrite - nread is how many bytes there are, also when it wraps. *)
LEMMA Counters ==
  ASSUME PipeTypes
  PROVE  /\ Count = Ahead(nwrite, nread) /\ Count \in Nat
         /\ Full <=> Count = PIPESIZE
         /\ Count = 0 <=> nread = nwrite
<1>0. nread \in Uints /\ nwrite \in Uints
  BY Zenon DEF PipeTypes, Uints
<1>1. UintRange \in Nat /\ PIPESIZE \in Nat /\ UintRange > PIPESIZE /\ PIPESIZE \in 0 .. PIPESIZE
  BY SMT, PipeConstants
<1>2. Count = Ahead(nwrite, nread) /\ Ahead(nwrite, nread) \in Uints
  BY Zenon, <1>0, <1>1, Wrap DEF Count
<1>3. Full <=> nwrite = Step(nread, PIPESIZE)
  BY Zenon, <1>0, <1>1, Wrap DEF Full
<1>4. nwrite = Step(nread, PIPESIZE) <=> Ahead(nwrite, nread) = PIPESIZE
  BY SMT, <1>0, <1>1 DEF Step, Ahead, Uints
<1>5. Ahead(nwrite, nread) = 0 <=> nread = nwrite
  BY SMT, <1>0, <1>1 DEF Ahead, Uints
<1>6. Ahead(nwrite, nread) \in Nat
  BY SMT, <1>2 DEF Uints
<1> QED
  BY Zenon, <1>2, <1>3, <1>4, <1>5, <1>6

(* k bytes are taken, and one is written. *)
LEMMA Taken ==
  ASSUME PipeTypes, NEW k \in 0 .. PIPESIZE, k <= Count,
         nread' = (nread + k) % UintRange, nwrite' = nwrite
  PROVE  nread' \in Uints /\ nread' = Step(nread, k) /\ Count' = Count - k
<1>0. nread \in Uints /\ nwrite \in Uints
  BY Zenon DEF PipeTypes, Uints
<1>1. UintRange \in Nat /\ PIPESIZE \in Nat /\ UintRange > PIPESIZE
  BY Zenon, PipeConstants
<1>2. nread' \in Uints /\ nread' = Step(nread, k)
  BY Zenon, <1>0, Wrap
<1>3. Count' = (nwrite' - nread') % UintRange /\ nwrite' \in Uints
  BY Zenon, <1>0 DEF Count
<1>4. (nwrite' - nread') % UintRange = Ahead(nwrite', nread')
  BY Zenon, <1>2, <1>3, Wrap
<1>5. k <= Ahead(nwrite, nread) /\ Count = Ahead(nwrite, nread)
  BY Zenon, Counters
<1>6. Ahead(nwrite, Step(nread, k)) = Ahead(nwrite, nread) - k
  BY SMT, <1>0, <1>1, <1>5 DEF Ahead, Step, Uints
<1> QED
  BY Zenon, <1>2, <1>3, <1>4, <1>5, <1>6

LEMMA Written ==
  ASSUME PipeTypes, Count < PIPESIZE, nwrite' = (nwrite + 1) % UintRange, nread' = nread
  PROVE  nwrite' \in Uints /\ nwrite' = Step(nwrite, 1) /\ Count' = Count + 1
<1>0. nread \in Uints /\ nwrite \in Uints
  BY Zenon DEF PipeTypes, Uints
<1>1. UintRange \in Nat /\ PIPESIZE \in Nat /\ UintRange > PIPESIZE /\ 1 \in 0 .. PIPESIZE
  BY SMT, PipeConstants
<1>2. nwrite' \in Uints /\ nwrite' = Step(nwrite, 1)
  BY Zenon, <1>0, <1>1, Wrap
<1>3. Count' = (nwrite' - nread') % UintRange /\ nread' \in Uints
  BY Zenon, <1>0 DEF Count
<1>4. (nwrite' - nread') % UintRange = Ahead(nwrite', nread')
  BY Zenon, <1>1, <1>2, <1>3, Wrap
<1>5. Ahead(nwrite, nread) < PIPESIZE /\ Count = Ahead(nwrite, nread)
  BY Zenon, Counters
<1>6. Ahead(Step(nwrite, 1), nread) = Ahead(nwrite, nread) + 1
  BY SMT, <1>0, <1>1, <1>5 DEF Ahead, Step, Uints
<1> QED
  BY Zenon, <1>2, <1>3, <1>4, <1>5, <1>6

(* A step that leaves the pipe alone, and in which nobody takes its lock   *)
(* or goes to sleep on it.                                                 *)
LEMMA PipeQuiet ==
  ASSUME PipeInv, UNCHANGED <<ends, ring, plock, unwoken>>,
         \A q \in Procs : \/ pc'[q] = pc[q]
                          \/ pc[q] # "whold" /\ pc'[q] \notin {"whold", "rsleep", "wsleep"}
  PROVE  PipeInv'
<1>0. UNCHANGED <<inuse, readopen, writeopen, data, nread, nwrite>>
  BY Zenon DEF ends, ring
<1>1. PipeTypes' /\ RingFits'
  BY Zenon, <1>0 DEF PipeInv, PipeTypes, RingFits, Count
<1>2. ASSUME NEW q \in Procs PROVE plock' = q <=> pc'[q] = "whold"
  <2>1. plock = q <=> pc[q] = "whold"
    BY Zenon DEF PipeInv, Locked
  <2>2. pc'[q] = "whold" <=> pc[q] = "whold"
    BY Zenon
  <2> QED
    BY Zenon, <2>1, <2>2
<1>3. Readers' /\ Writers'
  <2>1. \A q \in Procs : (pc'[q] = "rsleep" => pc[q] = "rsleep") /\ (pc'[q] = "wsleep" => pc[q] = "wsleep")
    BY Zenon
  <2>2. Readers'
    BY Zenon, <1>0, <2>1 DEF PipeInv, Readers
  <2>3. Writers'
    BY Zenon, <1>0, <2>1 DEF PipeInv, Writers, Full
  <2> QED
    BY Zenon, <2>2, <2>3
<1> QED
  BY Zenon, <1>1, <1>2, <1>3 DEF PipeInv, Locked

(* The steps of the file table; read(), write() and kill(). *)
LEMMA AwayPipe ==
  ASSUME CountsInv, PipeInv, NEW p \in Procs,
         \/ FileAllocRead(p) \/ FileAllocWrite(p) \/ PipeNoMemory(p)
         \/ DupRef(p) \/ Exit(p) \/ ExitClose(p) \/ ForkDup(p) \/ FileClose(p) \/ CloseDone(p)
         \/ \E fd \in Fds : SysDup(p, fd) \/ SysClose(p, fd) \/ \E n \in 1 .. MaxN : FileRw(p, fd, n)
         \/ \E c \in Procs : Fork(p, c)
         \/ Kill(p)
  PROVE  PipeInv'
<1>0. ProcTypes /\ Children
  BY Zenon DEF CountsInv, TableInv
<1>1. UNCHANGED <<ends, ring, plock, unwoken>>
  <2>1. CASE FileAllocRead(p) \/ FileAllocWrite(p) \/ PipeNoMemory(p) \/ DupRef(p)
    BY Zenon, <2>1 DEF FileAllocRead, FileAllocWrite, PipeNoMemory, DupRef, pipe
  <2>2. CASE Exit(p) \/ ExitClose(p) \/ ForkDup(p) \/ FileClose(p) \/ CloseDone(p)
    BY Zenon, <2>2 DEF Exit, ExitClose, ForkDup, FileClose, CloseDone, pipe
  <2>3. CASE \E fd \in Fds : SysDup(p, fd) \/ SysClose(p, fd) \/ \E n \in 1 .. MaxN : FileRw(p, fd, n)
    BY Zenon, <2>3 DEF SysDup, SysClose, FileRw, pipe
  <2>4. CASE Kill(p) \/ \E c \in Procs : Fork(p, c)
    BY Zenon, <2>4 DEF Kill, Fork, pipe
  <2> QED
    BY Zenon, <2>1, <2>2, <2>3, <2>4
<1> DEFINE Out == {"user", "dead", "exit", "alloc", "kalloc", "close", "dup", "pipeclose", "read", "write"}
           Quiet(q) == \/ pc'[q] = pc[q]
                       \/ pc[q] # "whold" /\ pc'[q] \notin {"whold", "rsleep", "wsleep"}
<1>2. ASSUME pc[p] # "whold", NEW l \in Out, Goto(p, l) PROVE \A q \in Procs : Quiet(q)
  <2>1. l \in Labels /\ l \notin {"whold", "rsleep", "wsleep"}
    BY Zenon DEF Labels
  <2>2. pc'[p] = l /\ \A q \in Procs : q # p => pc'[q] = pc[q]
    BY Zenon, <1>0, <1>2, <2>1, GotoMoves
  <2> QED
    BY Zenon, <1>2, <2>1, <2>2
<1>3. ASSUME NEW c \in Procs, pc[p] # "whold", pc[c] # "whold", NEW l \in {"fork", "user"}, NEW m \in {"used", "user"},
             pc' = [pc EXCEPT ![p] = l, ![c] = m]
      PROVE  \A q \in Procs : Quiet(q)
  <2>1. l \notin {"whold", "rsleep", "wsleep"} /\ m \notin {"whold", "rsleep", "wsleep"}
    BY Zenon
  <2>2. \A q \in Procs : pc'[q] = pc[q] \/ (q = p /\ pc'[q] = l) \/ (q = c /\ pc'[q] = m)
    BY Zenon, <1>0, <1>3 DEF ProcTypes
  <2> QED
    BY Zenon, <1>3, <2>1, <2>2
<1>4. \A q \in Procs : Quiet(q)
  <2>1. CASE FileAllocRead(p) \/ FileAllocWrite(p) \/ PipeNoMemory(p) \/ DupRef(p)
    <3>1. pc[p] # "whold"
      BY Zenon, <2>1 DEF FileAllocRead, FileAllocWrite, PipeNoMemory, DupRef, User
    <3>2. UNCHANGED pc \/ \E l \in Out : Goto(p, l)
      BY Zenon, <2>1 DEF FileAllocRead, FileAllocWrite, PipeNoMemory, DupRef, CloseAll
    <3> QED
      BY Zenon, <1>2, <3>1, <3>2
  <2>2. CASE Exit(p) \/ ExitClose(p) \/ FileClose(p)
    <3>1. pc[p] # "whold"
      BY Zenon, <2>2 DEF Exit, ExitClose, FileClose
    <3>2. UNCHANGED pc \/ \E l \in Out : Goto(p, l)
      BY Zenon, <2>2 DEF Exit, ExitClose, FileClose, CloseAll
    <3> QED
      BY Zenon, <1>2, <3>1, <3>2
  <2>3. CASE CloseDone(p)
    <3>1. pc[p] # "whold"
      BY Zenon, <2>3 DEF CloseDone
    <3>2. after[p] \in Out /\ Goto(p, after[p])
      BY Zenon, <1>0, <2>3 DEF CloseDone, ProcTypes
    <3> QED
      BY Zenon, <1>2, <3>1, <3>2
  <2>4. ASSUME NEW fd \in Fds, SysDup(p, fd) \/ SysClose(p, fd) \/ \E n \in 1 .. MaxN : FileRw(p, fd, n)
        PROVE  \A q \in Procs : Quiet(q)
    <3>1. pc[p] # "whold"
      BY Zenon, <2>4 DEF SysDup, SysClose, FileRw, User
    <3>2. \E l \in Out : Goto(p, l)
      BY Zenon, <2>4 DEF SysDup, SysClose, FileRw, CloseAll
    <3> QED
      BY Zenon, <1>2, <3>1, <3>2
  <2>5. CASE Kill(p)
    <3>1. PICK l : /\ Goto(p, l)
                   /\ l = pc[p] \/ (pc[p] = "rsleep" /\ l = "read") \/ (pc[p] = "wsleep" /\ l = "write")
      BY Zenon, <2>5 DEF Kill
    <3>2. pc'[p] = l /\ \A q \in Procs : q # p => pc'[q] = pc[q]
      BY Zenon, <1>0, <3>1 DEF Goto, ProcTypes
    <3> QED
      BY Zenon, <3>1, <3>2
  <2>6. ASSUME NEW c \in Procs, Fork(p, c) PROVE \A q \in Procs : Quiet(q)
    <3>1. pc[p] = "user" /\ pc[c] = "dead" /\ pc' = [pc EXCEPT ![p] = "fork", ![c] = "used"]
      BY Zenon, <2>6 DEF Fork, User
    <3>2. pc[p] # "whold" /\ pc[c] # "whold"
      BY Zenon, <3>1
    <3> QED
      BY Zenon, <1>3, <3>1, <3>2
  <2>7. CASE ForkDup(p)
    <3>1. PICK c \in Procs : c = np[p] /\ pc[c] = "used" /\ pc[p] = "fork"
      BY Zenon, <1>0, <2>7 DEF Children, ForkDup
    <3>2. pc[p] # "whold" /\ pc[c] # "whold"
      BY Zenon, <3>1
    <3>3. UNCHANGED pc \/ pc' = [pc EXCEPT ![p] = "user", ![c] = "user"]
      BY Zenon, <2>7, <3>1 DEF ForkDup
    <3> QED
      BY Zenon, <1>3, <3>1, <3>2, <3>3
  <2> QED
    BY Zenon, <2>1, <2>2, <2>3, <2>4, <2>5, <2>6, <2>7
<1> QED
  BY Zenon, <1>1, <1>4, PipeQuiet

(* Who moves is the one that had the lock or takes it, or nobody has it. *)
LEMMA LockMoves ==
  ASSUME Locked, NEW p \in Procs, NEW l, Moves(p, l), plock \in {p, NULL},
         plock' = IF l = "whold" THEN p ELSE NULL
  PROVE  Locked'
<1>0. NULL \notin Procs
  BY Zenon, FilesConstants
<1>1. ASSUME NEW q \in Procs PROVE plock' = q <=> pc'[q] = "whold"
  <2>1. CASE q = p
    BY Zenon, <1>0, <2>1 DEF Moves
  <2>2. CASE q # p
    <3>1. plock # q /\ plock' # q
      BY Zenon, <1>0, <2>2
    <3>2. pc[q] # "whold"
      BY Zenon, <3>1 DEF Locked
    <3>3. \/ pc'[q] = pc[q]
          \/ pc[q] = "rsleep" /\ pc'[q] = "read"
          \/ pc[q] = "wsleep" /\ pc'[q] = "write"
      BY Zenon, <2>2 DEF Moves
    <3>4. pc'[q] # "whold"
      BY Zenon, <3>2, <3>3
    <3> QED
      BY Zenon, <3>1, <3>4
  <2> QED
    BY Zenon, <2>1, <2>2
<1> QED
  BY Zenon, <1>1 DEF Locked

(* Who sleeps after a move slept before it, or is who moves. *)
LEMMA SleepMoves ==
  ASSUME NEW p \in Procs, NEW l, Moves(p, l), NEW q \in Procs
  PROVE  /\ pc'[q] = "rsleep" => (pc[q] = "rsleep" /\ q # p) \/ (q = p /\ l = "rsleep")
         /\ pc'[q] = "wsleep" => (pc[q] = "wsleep" /\ q # p) \/ (q = p /\ l = "wsleep")
<1>1. CASE q = p
  BY Zenon, <1>1 DEF Moves
<1>2. CASE q # p
  <2>1. \/ pc'[q] = pc[q]
        \/ pc[q] = "rsleep" /\ pc'[q] = "read"
        \/ pc[q] = "wsleep" /\ pc'[q] = "write"
    BY Zenon, <1>2 DEF Moves
  <2> QED
    BY Zenon, <1>2, <2>1
<1> QED
  BY Zenon, <1>1, <1>2

LEMMA AllAwake ==
  ASSUME ProcTypes, NEW p \in Procs, NEW l \in Labels
  PROVE  /\ WakeReaders(p, l) /\ l # "rsleep" => \A q \in Procs : pc'[q] # "rsleep"
         /\ WakeWriters(p, l) /\ l # "wsleep" => \A q \in Procs : pc'[q] # "wsleep"
<1>1. ASSUME WakeReaders(p, l), l # "rsleep", NEW q \in Procs PROVE pc'[q] # "rsleep"
  <2>1. pc'[p] = l /\ (q # p => pc'[q] = IF pc[q] = "rsleep" THEN "read" ELSE pc[q])
    BY Zenon, <1>1, ReadersMove
  <2> QED
    BY Zenon, <1>1, <2>1
<1>2. ASSUME WakeWriters(p, l), l # "wsleep", NEW q \in Procs PROVE pc'[q] # "wsleep"
  <2>1. pc'[p] = l /\ (q # p => pc'[q] = IF pc[q] = "wsleep" THEN "write" ELSE pc[q])
    BY Zenon, <1>2, WritersMove
  <2> QED
    BY Zenon, <1>2, <2>1
<1> QED
  BY Zenon, <1>1, <1>2

(* pipewrite(). *)
LEMMA WriterPipe ==
  ASSUME ProcTypes, PipeInv, NEW p \in Procs,
         WriteLock(p) \/ WriteRefused(p) \/ WriteSleep(p) \/ WriteEnd(p)
  PROVE  PipeInv'
<1>0. UNCHANGED <<inuse, readopen, writeopen, data, nread, nwrite>>
  BY Zenon DEF WriteLock, WriteRefused, WriteSleep, WriteEnd, ends, ring
<1>1. {"user", "whold", "wsleep"} \in SUBSET Labels
  BY Zenon DEF Labels
<1>2. "user" # "whold" /\ "wsleep" # "whold" /\ "user" # "rsleep" /\ "user" # "wsleep" /\ "wsleep" # "rsleep"
      /\ "whold" # "rsleep" /\ "whold" # "wsleep"
  BY Zenon
<1>3. PipeTypes /\ Locked /\ RingFits /\ Readers /\ Writers
  BY Zenon DEF PipeInv
<1>4. RingFits' /\ (Full' <=> Full)
  BY Zenon, <1>0, <1>3 DEF RingFits, Count, Full
<1>5. pc[p] = "whold" => plock = p
  BY Zenon, <1>3 DEF Locked
<1>6. p # NULL
  BY Zenon, FilesConstants
<1>7. PipeTypes' <=> plock' \in Procs \cup {NULL}
  BY Zenon, <1>0, <1>3 DEF PipeTypes
<1>8. CASE WriteLock(p)
  <2>1. plock = NULL /\ plock' = p /\ Moves(p, "whold")
    BY Zenon, <1>1, <1>8, AnyMove DEF WriteLock
  <2>2. Locked'
    BY Zenon, <1>3, <2>1, LockMoves
  <2>3. Readers'
    BY Zenon, <1>0, <1>2, <1>3, <1>6, <2>1, SleepMoves DEF Readers
  <2>4. Writers'
    BY Zenon, <1>0, <1>2, <1>3, <1>4, <2>1, SleepMoves DEF Writers
  <2> QED
    BY Zenon, <1>4, <1>7, <2>1, <2>2, <2>3, <2>4 DEF PipeInv
<1>9. CASE WriteRefused(p)
  <2>1. plock = p /\ plock' = NULL /\ Moves(p, "user") /\ unwoken' = (Count > 0)
    BY Zenon, <1>1, <1>5, <1>9, AnyMove DEF WriteRefused, Leave
  <2>2. Locked'
    BY Zenon, <1>2, <1>3, <2>1, LockMoves
  <2>3. nread = nwrite \/ unwoken'
    <3>1. nread # nwrite => Count > 0
      <4>1. (Count = 0 <=> nread = nwrite) /\ Count \in Nat
        BY Zenon, <1>3, Counters
      <4> QED
        BY SMT, <4>1
    <3> QED
      BY Zenon, <2>1, <3>1
  <2>4. Readers'
    BY Zenon, <1>0, <1>2, <1>3, <2>1, <2>3, SleepMoves DEF Readers
  <2>5. Writers'
    BY Zenon, <1>0, <1>2, <1>3, <1>4, <2>1, SleepMoves DEF Writers
  <2> QED
    BY Zenon, <1>4, <1>7, <2>1, <2>2, <2>4, <2>5 DEF PipeInv
<1>10. CASE WriteSleep(p)
  <2>1. plock = p /\ plock' = NULL /\ WakeReaders(p, "wsleep") /\ readopen /\ Full
    BY Zenon, <1>5, <1>10 DEF WriteSleep, Refused
  <2>2. Moves(p, "wsleep")
    BY Zenon, <1>1, <2>1, AnyMove
  <2>3. Locked'
    BY Zenon, <1>2, <1>3, <2>1, <2>2, LockMoves
  <2>4. Readers'
    BY Zenon, <1>1, <1>2, <2>1, AllAwake DEF Readers
  <2>5. Writers'
    BY Zenon, <1>0, <1>4, <2>1 DEF Writers
  <2> QED
    BY Zenon, <1>4, <1>7, <2>1, <2>3, <2>4, <2>5 DEF PipeInv
<1>11. CASE WriteEnd(p)
  <2>1. plock = p /\ plock' = NULL /\ WakeReaders(p, "user")
    BY Zenon, <1>5, <1>11 DEF WriteEnd, Leave
  <2>2. Moves(p, "user")
    BY Zenon, <1>1, <2>1, AnyMove
  <2>3. Locked'
    BY Zenon, <1>2, <1>3, <2>1, <2>2, LockMoves
  <2>4. Readers'
    BY Zenon, <1>1, <1>2, <2>1, AllAwake DEF Readers
  <2>5. Writers'
    BY Zenon, <1>0, <1>2, <1>3, <1>4, <2>2, SleepMoves DEF Writers
  <2> QED
    BY Zenon, <1>4, <1>7, <2>1, <2>3, <2>4, <2>5 DEF PipeInv
<1> QED
  BY Zenon, <1>8, <1>9, <1>10, <1>11

(* One byte of pipewrite(): nobody sleeps for room in a ring that has it. *)
LEMMA SlotRange ==
  ASSUME NEW n \in Int
  PROVE  Slot(n) \in 0 .. PIPESIZE - 1
<1>1. PIPESIZE \in Nat /\ PIPESIZE > 0
  BY SMT, PipeConstants
<1> QED
  BY Zenon, <1>1, ModDiv DEF Slot

LEMMA WriteBytePipe ==
  ASSUME PipeInv, NEW p \in Procs, WriteByte(p)
  PROVE  PipeInv' /\ Count < PIPESIZE
<1>0. UNCHANGED <<pc, inuse, readopen, writeopen, nread, plock, unwoken>> /\ ~Full /\ pc[p] = "whold"
  BY Zenon DEF WriteByte, ends
<1>1. PipeTypes /\ Locked /\ RingFits /\ Readers /\ Writers
  BY Zenon DEF PipeInv
<1>2. Count < PIPESIZE /\ Count \in Nat
  <2>1. Count <= PIPESIZE /\ Count # PIPESIZE /\ Count \in Nat
    BY Zenon, <1>0, <1>1, Counters DEF RingFits
  <2> QED
    BY SMT, <2>1, PipeConstants
<1>3. nwrite' \in Uints /\ Count' = Count + 1
  <2>1. nwrite' = (nwrite + 1) % UintRange
    BY Zenon DEF WriteByte
  <2> QED
    BY Zenon, <1>0, <1>1, <1>2, <2>1, Written
<1>4. RingFits'
  <2>1. Count + 1 <= PIPESIZE
    BY SMT, <1>2, PipeConstants
  <2> QED
    BY Zenon, <1>3, <2>1 DEF RingFits
<1>5. data' \in [0 .. PIPESIZE - 1 -> 0 .. UintRange - 1]
  <2>1. data \in [0 .. PIPESIZE - 1 -> 0 .. UintRange - 1] /\ nwrite \in 0 .. UintRange - 1
    BY Zenon, <1>1 DEF PipeTypes
  <2>2. data' = [data EXCEPT ![Slot(nwrite)] = nwrite]
    BY Zenon DEF WriteByte
  <2> QED
    BY Zenon, <2>1, <2>2
<1>6. PipeTypes' /\ Locked'
  BY Zenon, <1>0, <1>1, <1>3, <1>5 DEF PipeTypes, Locked, Uints
<1>7. Readers' /\ Writers'
  <2>1. plock' # NULL
    <3>1. plock = p /\ p # NULL
      BY Zenon, <1>0, <1>1, FilesConstants DEF Locked
    <3> QED
      BY Zenon, <1>0, <3>1
  <2>2. Readers'
    BY Zenon, <1>0, <1>1, <2>1 DEF Readers
  <2>3. Writers'
    BY Zenon, <1>0, <1>1 DEF Writers
  <2> QED
    BY Zenon, <2>2, <2>3
<1> QED
  BY Zenon, <1>2, <1>4, <1>6, <1>7 DEF PipeInv

(* piperead(). *)
LEMMA ReadWaitPipe ==
  ASSUME ProcTypes, PipeInv, NEW p \in Procs, ReadWait(p)
  PROVE  PipeInv'
<1>0. /\ UNCHANGED <<inuse, readopen, writeopen, data, nread, nwrite, plock>>
      /\ plock = NULL /\ nread = nwrite /\ writeopen
  BY Zenon DEF ReadWait, ends, ring
<1>1. PipeTypes /\ Locked /\ RingFits /\ Readers /\ Writers
  BY Zenon DEF PipeInv
<1>2. PipeTypes' /\ RingFits' /\ (Full' <=> Full)
  BY Zenon, <1>0, <1>1 DEF PipeTypes, RingFits, Count, Full
<1>3. PICK l \in {"user", "rsleep"} : Goto(p, l)
  BY Zenon DEF ReadWait
<1>4. l \in Labels /\ l # "whold" /\ l # "wsleep"
  BY Zenon DEF Labels
<1>5. Moves(p, l)
  BY Zenon, <1>3, <1>4, AnyMove
<1>6. Locked'
  BY Zenon, <1>0, <1>1, <1>4, <1>5, LockMoves
<1>7. Readers'
  BY Zenon, <1>0 DEF Readers
<1>8. Writers'
  BY Zenon, <1>0, <1>1, <1>2, <1>4, <1>5, SleepMoves DEF Writers
<1> QED
  BY Zenon, <1>2, <1>6, <1>7, <1>8 DEF PipeInv

LEMMA ReadTakePipe ==
  ASSUME ProcTypes, PipeInv, NEW p \in Procs, NEW k \in 0 .. PIPESIZE, ReadTake(p, k)
  PROVE  PipeInv'
<1>0. /\ UNCHANGED <<inuse, readopen, writeopen, data, nwrite, plock, unwoken>>
      /\ plock = NULL /\ (nread # nwrite \/ ~writeopen)
      /\ nread' = (nread + k) % UintRange /\ k <= Count /\ WakeWriters(p, "user")
  BY Zenon DEF ReadTake, WakeWriters, ends
<1>1. PipeTypes /\ Locked /\ RingFits /\ Readers /\ Writers
  BY Zenon DEF PipeInv
<1>2. nread' \in Uints /\ Count' = Count - k
  BY Zenon, <1>0, <1>1, Taken
<1>3. PipeTypes'
  BY Zenon, <1>0, <1>1, <1>2 DEF PipeTypes, Uints
<1>4. RingFits'
  <2>1. Count \in Nat /\ Count <= PIPESIZE
    BY Zenon, <1>1, Counters DEF RingFits
  <2>2. Count - k <= PIPESIZE
    BY SMT, <2>1, PipeConstants
  <2> QED
    BY Zenon, <1>2, <2>2 DEF RingFits
<1>5. "user" \in Labels /\ "user" # "whold" /\ "user" # "rsleep" /\ "user" # "wsleep"
  BY Zenon DEF Labels
<1>6. Moves(p, "user")
  BY Zenon, <1>0, <1>5, AnyMove
<1>7. Locked'
  BY Zenon, <1>0, <1>1, <1>5, <1>6, LockMoves
<1>8. Readers'
  BY Zenon, <1>0, <1>1, <1>5, <1>6, SleepMoves DEF Readers
<1>9. Writers'
  BY Zenon, <1>0, <1>5, AllAwake DEF Writers
<1> QED
  BY Zenon, <1>3, <1>4, <1>7, <1>8, <1>9 DEF PipeInv

(* A ring with both counters at zero. *)
LEMMA EmptyRing ==
  ASSUME nread' = 0, nwrite' = 0
  PROVE  Count' = 0 /\ RingFits' /\ nread' \in 0 .. UintRange - 1 /\ nwrite' \in 0 .. UintRange - 1
<1>1. 0 \in Uints /\ 0 \in 0 .. PIPESIZE /\ UintRange \in Nat /\ PIPESIZE \in Nat
  BY SMT, PipeConstants DEF Uints
<1>2. (0 - 0) % UintRange = Ahead(0, 0)
  BY Zenon, <1>1, Wrap
<1>3. Count' = Ahead(0, 0)
  BY Zenon, <1>2 DEF Count
<1>4. Ahead(0, 0) = 0
  BY SMT DEF Ahead
<1>5. 0 <= PIPESIZE
  BY SMT, <1>1
<1> QED
  BY Zenon, <1>1, <1>3, <1>4, <1>5 DEF RingFits, Uints

(* pipealloc(): nobody is in a pipe that there is not. *)
LEMMA PipeAllocPipe ==
  ASSUME CountsInv, EndsInv, PipeInv, NEW p \in Procs, PipeAlloc(p)
  PROVE  PipeInv' /\ Count' = 0
<1>0. ProcTypes /\ PipeTypes /\ Locked /\ ~inuse
  BY Zenon DEF CountsInv, TableInv, PipeInv, PipeAlloc
<1>1. inuse' = TRUE /\ readopen' = TRUE /\ writeopen' = TRUE /\ nread' = 0 /\ nwrite' = 0 /\ UNCHANGED <<data, plock>>
  BY Zenon DEF PipeAlloc, PipeNew
<1>2. \A q \in Procs : pc[q] \notin Reading /\ pc[q] \notin Writing
  BY Zenon, <1>0, NoPipe
<1>3. \A q \in Procs : pc'[q] \notin Reading /\ pc'[q] \notin Writing
  <2>1. PICK l \in {"user", "close"} : Goto(p, l)
    BY Zenon DEF PipeAlloc, CloseAll
  <2>2. l \in Labels /\ l \notin Reading /\ l \notin Writing
    BY Zenon DEF Labels, Reading, Writing
  <2>3. pc'[p] = l /\ \A q \in Procs : q # p => pc'[q] = pc[q]
    BY Zenon, <1>0, <2>1, <2>2, GotoMoves
  <2> QED
    BY Zenon, <1>2, <2>2, <2>3
<1>4. "rsleep" \in Reading /\ "wsleep" \in Writing /\ "whold" \in Writing
  BY Zenon DEF Reading, Writing
<1>5. Locked' /\ Readers' /\ Writers'
  <2>1. \A q \in Procs : plock # q
    BY Zenon, <1>0, <1>2, <1>4 DEF Locked
  <2>2. \A q \in Procs : pc'[q] # "whold" /\ pc'[q] # "rsleep" /\ pc'[q] # "wsleep"
    BY Zenon, <1>3, <1>4
  <2> QED
    BY Zenon, <1>1, <2>1, <2>2 DEF Locked, Readers, Writers
<1>6. Count' = 0 /\ RingFits' /\ nread' \in 0 .. UintRange - 1 /\ nwrite' \in 0 .. UintRange - 1
  BY Zenon, <1>1, EmptyRing
<1>7. PipeTypes'
  BY Zenon, <1>0, <1>1, <1>6 DEF PipeTypes
<1> QED
  BY Zenon, <1>5, <1>6, <1>7 DEF PipeInv

(* pipeclose(): who slept for the other end is woken, and who sleeps on    *)
(* sees the ring as it was.                                                *)
LEMMA ClosePipePipe ==
  ASSUME CountsInv, EndsInv, PipeInv, NEW p \in Procs, ClosePipe(p)
  PROVE  /\ PipeInv'
         /\ UNCHANGED ring \/ (nread' = 0 /\ nwrite' = 0 /\ Count' = 0)
<1>0. ProcTypes /\ TableTypes /\ pc[p] = "pipeclose"
  BY Zenon DEF CountsInv, TableInv, ClosePipe
<1>1. PipeTypes /\ Locked /\ RingFits /\ Readers /\ Writers
  BY Zenon DEF PipeInv
<1>2. PICK c \in Ends : c = ff[p]
  <2>1. ff[p] # "none" /\ ff[p] \in Types
    BY Zenon, <1>0 DEF EndsInv, Closing, TableTypes
  <2> QED
    BY Zenon, <2>1 DEF Types, Ends
<1>3. PipeClose(p, c)
  BY Zenon, <1>2 DEF ClosePipe
<1>4. /\ plock = NULL /\ plock' = NULL
      /\ writeopen' = (writeopen /\ c # "w") /\ readopen' = (readopen /\ c # "r")
      /\ inuse' = (readopen' \/ writeopen')
  BY Zenon, <1>3 DEF PipeClose
<1>5. "close" \in Labels /\ "close" # "whold" /\ "close" # "rsleep" /\ "close" # "wsleep" /\ "r" # "w"
  BY Zenon DEF Labels
<1>6. (c = "w" /\ WakeReaders(p, "close")) \/ (c = "r" /\ c # "w" /\ WakeWriters(p, "close"))
  BY Zenon, <1>3, <1>5 DEF PipeClose, Ends
<1>7. Moves(p, "close")
  BY Zenon, <1>0, <1>5, <1>6, AnyMove
<1>8. Locked'
  BY Zenon, <1>1, <1>4, <1>5, <1>7, LockMoves
<1>9. inuse' => UNCHANGED <<data, nread, nwrite>>
  BY Zenon, <1>3 DEF PipeClose, ring
<1>10. ~inuse' => nread' = 0 /\ nwrite' = 0 /\ data' = Junk
  BY Zenon, <1>3 DEF PipeClose, Kfree
<1>11. Junk \in [0 .. PIPESIZE - 1 -> 0 .. UintRange - 1]
  <2>1. 0 \in 0 .. UintRange - 1
    BY SMT, PipeConstants
  <2> QED
    BY Zenon, <2>1 DEF Junk
<1>12. UNCHANGED ring \/ (nread' = 0 /\ nwrite' = 0 /\ Count' = 0)
  BY Zenon, <1>9, <1>10, EmptyRing DEF ring
<1>13. RingFits'
  <2>1. CASE inuse'
    BY Zenon, <1>1, <1>9, <2>1 DEF RingFits, Count
  <2>2. CASE ~inuse'
    BY Zenon, <1>10, <2>2, EmptyRing
  <2> QED
    BY Zenon, <2>1, <2>2
<1>14. PipeTypes'
  <2>1. nread' \in 0 .. UintRange - 1 /\ nwrite' \in 0 .. UintRange - 1
        /\ data' \in [0 .. PIPESIZE - 1 -> 0 .. UintRange - 1]
    <3>1. CASE inuse'
      BY Zenon, <1>1, <1>9, <3>1 DEF PipeTypes
    <3>2. CASE ~inuse'
      BY Zenon, <1>10, <1>11, <3>2, EmptyRing
    <3> QED
      BY Zenon, <3>1, <3>2
  <2>2. inuse' \in BOOLEAN /\ readopen' \in BOOLEAN /\ writeopen' \in BOOLEAN
    BY Zenon, <1>4
  <2> QED
    BY Zenon, <1>4, <2>1, <2>2 DEF PipeTypes
<1>15. Readers'
  <2>1. CASE c = "w"
    BY Zenon, <1>0, <1>5, <1>6, <2>1, AllAwake DEF Readers
  <2>2. CASE c = "r" /\ c # "w"
    <3>1. UNCHANGED unwoken
      BY Zenon, <1>6, <2>2 DEF WakeWriters
    <3>2. ASSUME NEW q \in Procs, pc'[q] = "rsleep"
          PROVE  writeopen' /\ (plock' = NULL => nread' = nwrite' \/ unwoken')
      <4>1. pc[q] = "rsleep"
        BY Zenon, <1>5, <1>7, <3>2, SleepMoves
      <4>2. writeopen /\ (nread = nwrite \/ unwoken)
        BY Zenon, <1>1, <1>4, <4>1 DEF Readers
      <4>3. writeopen' /\ inuse'
        BY Zenon, <1>4, <2>2, <4>2
      <4> QED
        BY Zenon, <1>9, <3>1, <4>2, <4>3
    <3> QED
      BY Zenon, <3>2 DEF Readers
  <2> QED
    BY Zenon, <1>6, <2>1, <2>2
<1>16. Writers'
  <2>1. CASE c = "r"
    BY Zenon, <1>0, <1>5, <1>6, <2>1, AllAwake DEF Writers
  <2>2. CASE c = "w"
    <3>1. ASSUME NEW q \in Procs, pc'[q] = "wsleep" PROVE readopen' /\ Full'
      <4>1. pc[q] = "wsleep"
        BY Zenon, <1>5, <1>7, <3>1, SleepMoves
      <4>2. readopen /\ Full
        BY Zenon, <1>1, <4>1 DEF Writers
      <4>3. readopen' /\ inuse'
        BY Zenon, <1>4, <1>5, <2>2, <4>2
      <4> QED
        BY Zenon, <1>9, <4>2, <4>3 DEF Full
    <3> QED
      BY Zenon, <3>1 DEF Writers
  <2> QED
    BY Zenon, <2>1, <2>2 DEF Ends
<1> QED
  BY Zenon, <1>8, <1>12, <1>13, <1>14, <1>15, <1>16 DEF PipeInv

LEMMA PipeInvStep ==
  ASSUME CountsInv, EndsInv, PipeInv, Next
  PROVE  PipeInv'
<1>0. ProcTypes
  BY Zenon DEF CountsInv, TableInv
<1>1. PICK p \in Procs :
        \/ FileAllocRead(p) \/ FileAllocWrite(p) \/ PipeNoMemory(p) \/ PipeAlloc(p)
        \/ DupRef(p) \/ Exit(p) \/ ExitClose(p) \/ ForkDup(p)
        \/ FileClose(p) \/ ClosePipe(p) \/ CloseDone(p)
        \/ \E fd \in Fds : SysDup(p, fd) \/ SysClose(p, fd) \/ \E n \in 1 .. MaxN : FileRw(p, fd, n)
        \/ \E c \in Procs : Fork(p, c)
        \/ Kill(p)
        \/ PipeStep(p) /\ UNCHANGED <<table, ofile, locals, panicked>>
  BY Zenon DEF Next
<1>2. CASE PipeAlloc(p) \/ ClosePipe(p)
  BY Zenon, <1>2, PipeAllocPipe, ClosePipePipe
<1>3. CASE PipeStep(p)
  <2>1. CASE WriteLock(p) \/ WriteRefused(p) \/ WriteSleep(p) \/ WriteEnd(p)
    BY Zenon, <1>0, <2>1, WriterPipe
  <2>2. CASE WriteByte(p) \/ ReadWait(p) \/ \E k \in 0 .. PIPESIZE : ReadTake(p, k)
    BY Zenon, <1>0, <2>2, WriteBytePipe, ReadWaitPipe, ReadTakePipe
  <2> QED
    BY Zenon, <1>3, <2>1, <2>2 DEF PipeStep
<1> QED
  BY Zenon, <1>1, <1>2, <1>3, AwayPipe
-----------------------------------------------------------------------------
(* The ring as a queue.  The slots follow the counters when these wrap,    *)
(* since the range of a uint is a multiple of PIPESIZE.                    *)
Queue(d, r, n) == [i \in 1 .. n |-> d[Slot(r + i - 1)]]

LEMMA SlotStep ==
  ASSUME NEW a \in Uints, NEW k \in 0 .. PIPESIZE, NEW j \in Int
  PROVE  Slot(Step(a, k) + j) = Slot(a + k + j)
<1>0. PIPESIZE \in Nat /\ PIPESIZE > 0 /\ UintRange \in Nat /\ UintRange % PIPESIZE = 0
  BY SMT, PipeConstants
<1>1. PICK m \in Int : UintRange = PIPESIZE * m
  <2>1. /\ UintRange \div PIPESIZE \in Int
        /\ UintRange % PIPESIZE = UintRange - PIPESIZE * (UintRange \div PIPESIZE)
    BY SMT, <1>0, ModDiv
  <2>2. PICK m \in Int : UintRange % PIPESIZE = UintRange - PIPESIZE * m
    BY Zenon, <2>1
  <2>3. UintRange = PIPESIZE * m
    BY SMT, <1>0, <2>2
  <2> QED
    BY Zenon, <2>3
<1>2. a \in Int /\ k \in Int /\ a + k + j \in Int
  BY SMT, <1>0 DEF Uints
<1>3. CASE a + k < UintRange
  <2>1. Step(a, k) + j = a + k + j
    BY Zenon, <1>2, <1>3 DEF Step
  <2> QED
    BY Zenon, <2>1
<1>4. CASE ~(a + k < UintRange)
  <2>1. Step(a, k) + j = (a + k + j) + (-m) * PIPESIZE /\ -m \in Int
    BY SMT, <1>0, <1>1, <1>2, <1>4 DEF Step
  <2>2. ((a + k + j) + (-m) * PIPESIZE) % PIPESIZE = (a + k + j) % PIPESIZE
    BY Zenon, <1>0, <1>2, <2>1, ModShift
  <2> QED
    BY Zenon, <2>1, <2>2 DEF Slot
<1> QED
  BY Zenon, <1>3, <1>4

LEMMA QueueSeq ==
  ASSUME NEW d \in [0 .. PIPESIZE - 1 -> Uints], NEW r \in Int, NEW n \in Nat
  PROVE  /\ Queue(d, r, n) \in Seq(Uints) /\ Len(Queue(d, r, n)) = n
         /\ \A i \in 1 .. n : Queue(d, r, n)[i] = d[Slot(r + i - 1)]
<1>1. ASSUME NEW i \in 1 .. n PROVE d[Slot(r + i - 1)] \in Uints
  <2>1. r + i - 1 \in Int
    BY SMT
  <2>2. Slot(r + i - 1) \in 0 .. PIPESIZE - 1
    BY Zenon, <2>1, SlotRange
  <2> QED
    BY Zenon, <2>2
<1>2. Queue(d, r, n) \in [1 .. n -> Uints]
  BY Zenon, <1>1 DEF Queue
<1>3. \A i \in 1 .. n : Queue(d, r, n)[i] = d[Slot(r + i - 1)]
  BY Zenon DEF Queue
<1> HIDE DEF Queue
<1>4. Queue(d, r, n) \in Seq(Uints) /\ Len(Queue(d, r, n)) = n
  BY SMT, <1>2
<1> QED
  BY Zenon, <1>3, <1>4

LEMMA SameTail ==
  ASSUME NEW S, NEW s \in Seq(S), NEW t \in Seq(S), NEW k \in 0 .. Len(s),
         Len(t) = Len(s) - k, \A i \in 1 .. Len(t) : t[i] = s[i + k]
  PROVE  t = SubSeq(s, k + 1, Len(s))
BY SMT

LEMMA SameAppend ==
  ASSUME NEW S, NEW s \in Seq(S), NEW t \in Seq(S), NEW b \in S,
         Len(t) = Len(s) + 1, \A i \in 1 .. Len(s) : t[i] = s[i], t[Len(s) + 1] = b
  PROVE  t = Append(s, b)
BY SMT

(* piperead() takes the oldest bytes. *)
LEMMA TakeQueue ==
  ASSUME PipeTypes, NEW k \in 0 .. PIPESIZE, k <= Count,
         nread' = (nread + k) % UintRange, nwrite' = nwrite, data' = data
  PROVE  Queue(data', nread', Count') = SubSeq(Queue(data, nread, Count), k + 1, Count)
<1>0. nread \in Uints /\ data \in [0 .. PIPESIZE - 1 -> Uints] /\ Count \in Nat
  BY Zenon, Counters DEF PipeTypes, Uints
<1>1. nread' \in Uints /\ nread' = Step(nread, k) /\ Count' = Count - k
  BY Zenon, Taken
<1>2. nread \in Int /\ nread' \in Int /\ Count' \in Nat /\ k \in 0 .. Count
  BY SMT, <1>0, <1>1, PipeConstants DEF Uints
<1> DEFINE s == Queue(data, nread, Count)
           t == Queue(data, nread', Count')
<1>3. s \in Seq(Uints) /\ Len(s) = Count /\ \A i \in 1 .. Count : s[i] = data[Slot(nread + i - 1)]
  BY Zenon, <1>0, <1>2, QueueSeq
<1>4. t \in Seq(Uints) /\ Len(t) = Count' /\ \A i \in 1 .. Count' : t[i] = data[Slot(nread' + i - 1)]
  BY Zenon, <1>0, <1>2, QueueSeq
<1>5. ASSUME NEW i \in 1 .. Count' PROVE t[i] = s[i + k]
  <2>1. i - 1 \in Int /\ i + k \in 1 .. Count
    BY SMT, <1>0, <1>1, <1>2
  <2>2. Slot(Step(nread, k) + (i - 1)) = Slot(nread + k + (i - 1))
    BY Zenon, <1>0, <2>1, SlotStep
  <2>3. nread' + i - 1 = Step(nread, k) + (i - 1) /\ nread + k + (i - 1) = nread + (i + k) - 1
    BY SMT, <1>1, <1>2
  <2>4. t[i] = data[Slot(nread' + i - 1)] /\ s[i + k] = data[Slot(nread + (i + k) - 1)]
    BY Zenon, <1>3, <1>4, <2>1
  <2> QED
    BY Zenon, <2>2, <2>3, <2>4
<1> HIDE DEF s, t
<1>6. t = SubSeq(s, k + 1, Len(s))
  BY Zenon, <1>1, <1>2, <1>3, <1>4, <1>5, SameTail
<1> QED
  BY Zenon, <1>3, <1>6 DEF s, t

(* pipewrite() puts a byte behind the others, in a slot of none of them. *)
Longer(d, e, r, w, n) == Queue(e, r, n + 1) = Append(Queue(d, r, n), w)
LEMMA QueueLonger ==
  ASSUME NEW d \in [0 .. PIPESIZE - 1 -> Uints], NEW e \in [0 .. PIPESIZE - 1 -> Uints],
         NEW r \in Uints, NEW w \in Uints, NEW n \in 0 .. PIPESIZE - 1, w = Step(r, n),
         \A k \in 0 .. PIPESIZE - 1 : e[k] = IF k = Slot(w) THEN w ELSE d[k]
  PROVE  Longer(d, e, r, w, n)
<1>1. r \in Int /\ w \in Int /\ n \in Nat /\ n + 1 \in Nat /\ n \in 0 .. PIPESIZE /\ PIPESIZE \in Nat /\ PIPESIZE > 0 /\ 0 \in Int
  BY SMT, PipeConstants DEF Uints
<1>2. Slot(w) = Slot(r + n)
  <2>1. Slot(Step(r, n) + 0) = Slot(r + n + 0)
    BY Zenon, <1>1, SlotStep
  <2>2. Step(r, n) + 0 = w /\ r + n + 0 = r + n
    BY SMT, <1>1
  <2> QED
    BY Zenon, <2>1, <2>2
<1>3. ASSUME NEW i \in 1 .. n PROVE i \in 1 .. n + 1 /\ e[Slot(r + i - 1)] = d[Slot(r + i - 1)]
  <2>1. r + i - 1 \in Int /\ r + n \in Int /\ i \in 1 .. n + 1
        /\ r + i - 1 < r + n /\ r + n < r + i - 1 + PIPESIZE
    BY SMT, <1>1
  <2>2. Slot(r + i - 1) # Slot(r + n)
    BY Zenon, <1>1, <2>1, ModDistinct DEF Slot
  <2>3. Slot(r + i - 1) \in 0 .. PIPESIZE - 1
    BY Zenon, <2>1, SlotRange
  <2> QED
    BY Zenon, <1>2, <2>1, <2>2, <2>3
<1>4. n + 1 \in 1 .. n + 1 /\ e[Slot(r + (n + 1) - 1)] = w
  <2>1. n + 1 \in 1 .. n + 1 /\ r + (n + 1) - 1 = r + n
    BY SMT, <1>1
  <2>2. Slot(w) \in 0 .. PIPESIZE - 1
    BY Zenon, <1>1, SlotRange
  <2> QED
    BY Zenon, <1>2, <2>1, <2>2
<1> DEFINE s == Queue(d, r, n)
           t == Queue(e, r, n + 1)
<1>5. s \in Seq(Uints) /\ Len(s) = n /\ \A i \in 1 .. n : s[i] = d[Slot(r + i - 1)]
  BY Zenon, <1>1, QueueSeq
<1>6. t \in Seq(Uints) /\ Len(t) = n + 1 /\ \A i \in 1 .. n + 1 : t[i] = e[Slot(r + i - 1)]
  BY Zenon, <1>1, QueueSeq
<1> HIDE DEF s, t
<1>7. Len(t) = Len(s) + 1 /\ (\A i \in 1 .. Len(s) : t[i] = s[i]) /\ t[Len(s) + 1] = w
  BY Zenon, <1>3, <1>4, <1>5, <1>6
<1>8. t = Append(s, w)
  BY SMT, <1>5, <1>6, <1>7, SameAppend
<1> QED
  BY Zenon, <1>8 DEF s, t, Longer

LEMMA SendQueue ==
  ASSUME PipeTypes, PipeTypes', Count < PIPESIZE, nread' = nread,
         nwrite' = (nwrite + 1) % UintRange,
         \A k \in 0 .. PIPESIZE - 1 : data'[k] = IF k = Slot(nwrite) THEN nwrite ELSE data[k]
  PROVE  Queue(data', nread', Count') = Append(Queue(data, nread, Count), nwrite)
<1>1. nread \in Uints /\ nwrite \in Uints /\ Count = Ahead(nwrite, nread) /\ Count \in Nat
  BY Zenon, Counters DEF PipeTypes, Uints
<1>2. data \in [0 .. PIPESIZE - 1 -> Uints] /\ data' \in [0 .. PIPESIZE - 1 -> Uints]
  BY Zenon DEF PipeTypes, Uints
<1>3. Count' = Count + 1
  BY Zenon, Written
<1>4. Count \in 0 .. PIPESIZE - 1 /\ nwrite = Step(nread, Count)
  BY SMT, <1>1, PipeConstants DEF Ahead, Step, Uints
<1>5. Longer(data, data', nread, nwrite, Count)
  BY Zenon, <1>1, <1>2, <1>4, QueueLonger
<1> QED
  BY Zenon, <1>3, <1>5 DEF Longer

(* A pipe that is freed or new drops what is in the ring. *)
LEMMA DropQueue ==
  ASSUME PipeTypes, Count' = 0
  PROVE  Queue(data', nread', Count') = SubSeq(Queue(data, nread, Count), Count + 1, Count)
<1>0. nread \in Int /\ data \in [0 .. PIPESIZE - 1 -> Uints] /\ Count \in Nat
  <2>1. nread \in Uints /\ data \in [0 .. PIPESIZE - 1 -> Uints] /\ Count \in Nat
    BY Zenon, Counters DEF PipeTypes, Uints
  <2> QED
    BY SMT, <2>1 DEF Uints
<1> DEFINE s == Queue(data, nread, Count)
<1>1. s \in Seq(Uints) /\ Len(s) = Count
  BY Zenon, <1>0, QueueSeq
<1>2. Queue(data', nread', Count') = <<>>
  <2>1. 1 .. Count' = {}
    BY SMT
  <2> QED
    BY <2>1 DEF Queue
<1> HIDE DEF s
<1>3. SubSeq(s, Count + 1, Count) = <<>>
  BY SMT, <1>0, <1>1
<1> QED
  BY Zenon, <1>2, <1>3 DEF s

(* Every step is one of the queue, or leaves the ring alone. *)
LEMMA RingStep ==
  ASSUME CountsInv, EndsInv, PipeInv, Next
  PROVE  \/ UNCHANGED ring
         \/ /\ Count < PIPESIZE
            /\ Queue(data', nread', Count') = Append(Queue(data, nread, Count), nwrite)
         \/ \E k \in 0 .. Count : Queue(data', nread', Count') = SubSeq(Queue(data, nread, Count), k + 1, Count)
<1>0. ProcTypes /\ PipeTypes /\ RingFits
  BY Zenon DEF CountsInv, TableInv, PipeInv
<1>1. Count \in Nat /\ Count <= PIPESIZE /\ Count \in 0 .. Count
  <2>1. Count \in Nat /\ Count <= PIPESIZE
    BY Zenon, <1>0, Counters DEF RingFits
  <2> QED
    BY SMT, <2>1
<1>2. PICK p \in Procs :
        \/ FileAllocRead(p) \/ FileAllocWrite(p) \/ PipeNoMemory(p) \/ PipeAlloc(p)
        \/ DupRef(p) \/ Exit(p) \/ ExitClose(p) \/ ForkDup(p)
        \/ FileClose(p) \/ ClosePipe(p) \/ CloseDone(p)
        \/ \E fd \in Fds : SysDup(p, fd) \/ SysClose(p, fd) \/ \E n \in 1 .. MaxN : FileRw(p, fd, n)
        \/ \E c \in Procs : Fork(p, c)
        \/ Kill(p)
        \/ PipeStep(p) /\ UNCHANGED <<table, ofile, locals, panicked>>
  BY Zenon DEF Next
<1>3. CASE FileAllocRead(p) \/ FileAllocWrite(p) \/ PipeNoMemory(p) \/ DupRef(p) \/ Exit(p) \/ ExitClose(p)
  BY Zenon, <1>3 DEF FileAllocRead, FileAllocWrite, PipeNoMemory, DupRef, Exit, ExitClose, pipe
<1>4. CASE ForkDup(p) \/ FileClose(p) \/ CloseDone(p) \/ Kill(p) \/ \E c \in Procs : Fork(p, c)
  BY Zenon, <1>4 DEF ForkDup, FileClose, CloseDone, Kill, Fork, pipe
<1>5. CASE \E fd \in Fds : SysDup(p, fd) \/ SysClose(p, fd) \/ \E n \in 1 .. MaxN : FileRw(p, fd, n)
  BY Zenon, <1>5 DEF SysDup, SysClose, FileRw, pipe
<1>6. CASE PipeAlloc(p)
  <2>1. Count' = 0
    BY Zenon, <1>6, PipeAllocPipe
  <2>2. Queue(data', nread', Count') = SubSeq(Queue(data, nread, Count), Count + 1, Count)
    BY Zenon, <1>0, <2>1, DropQueue
  <2> QED
    BY Zenon, <1>1, <2>2
<1>7. CASE ClosePipe(p)
  <2>1. UNCHANGED ring \/ Count' = 0
    BY Zenon, <1>7, ClosePipePipe
  <2>2. Count' = 0 => Queue(data', nread', Count') = SubSeq(Queue(data, nread, Count), Count + 1, Count)
    BY Zenon, <1>0, DropQueue
  <2> QED
    BY Zenon, <1>1, <2>1, <2>2
<1>8. CASE WriteLock(p) \/ WriteRefused(p) \/ WriteSleep(p) \/ WriteEnd(p) \/ ReadWait(p)
  BY Zenon, <1>8 DEF WriteLock, WriteRefused, WriteSleep, WriteEnd, ReadWait
<1>9. CASE WriteByte(p)
  <2>1. PipeTypes' /\ Count < PIPESIZE
    BY Zenon, <1>9, WriteBytePipe DEF PipeInv
  <2>2. nread' = nread /\ nwrite' = (nwrite + 1) % UintRange
    BY Zenon, <1>9 DEF WriteByte
  <2>3. \A k \in 0 .. PIPESIZE - 1 : data'[k] = IF k = Slot(nwrite) THEN nwrite ELSE data[k]
    <3>1. data' = [data EXCEPT ![Slot(nwrite)] = nwrite] /\ data \in [0 .. PIPESIZE - 1 -> 0 .. UintRange - 1]
      BY Zenon, <1>0, <1>9 DEF WriteByte, PipeTypes
    <3> QED
      BY Zenon, <3>1
  <2>4. Queue(data', nread', Count') = Append(Queue(data, nread, Count), nwrite)
    BY Zenon, <1>0, <2>1, <2>2, <2>3, SendQueue
  <2> QED
    BY Zenon, <2>1, <2>4
<1>10. ASSUME NEW k \in 0 .. PIPESIZE, ReadTake(p, k)
       PROVE  \E n \in 0 .. Count : Queue(data', nread', Count') = SubSeq(Queue(data, nread, Count), n + 1, Count)
  <2>1. /\ nread' = (nread + k) % UintRange /\ nwrite' = nwrite /\ data' = data /\ k <= Count
    BY Zenon, <1>10 DEF ReadTake
  <2>2. k \in 0 .. Count
    BY SMT, <1>1, <2>1
  <2>3. Queue(data', nread', Count') = SubSeq(Queue(data, nread, Count), k + 1, Count)
    BY Zenon, <1>0, <2>1, TakeQueue
  <2> QED
    BY Zenon, <2>2, <2>3
<1> QED
  BY Zenon, <1>2, <1>3, <1>4, <1>5, <1>6, <1>7, <1>8, <1>9, <1>10 DEF PipeStep

LEMMA FifoStep ==
  ASSUME CountsInv, EndsInv, PipeInv, [Next]_vars
  PROVE  [Channel!Next]_([i \in 1 .. Count |-> data[Slot(nread + i - 1)]])
<1>0. PipeTypes
  BY Zenon DEF PipeInv
<1>1. nread \in Int /\ data \in [0 .. PIPESIZE - 1 -> Uints] /\ Count \in Nat /\ nwrite \in Uints
  <2>1. nread \in Uints /\ data \in [0 .. PIPESIZE - 1 -> Uints] /\ Count \in Nat /\ nwrite \in Uints
    BY Zenon, <1>0, Counters DEF PipeTypes, Uints
  <2> QED
    BY SMT, <2>1 DEF Uints
<1>2. Len(Queue(data, nread, Count)) = Count
  BY Zenon, <1>1, QueueSeq
<1>3. CASE UNCHANGED ring
  BY Zenon, <1>3 DEF ring, Count
<1>4. CASE /\ Count < PIPESIZE
           /\ Queue(data', nread', Count') = Append(Queue(data, nread, Count), nwrite)
  BY Zenon, <1>1, <1>2, <1>4 DEF Channel!Next, Channel!Send, Queue, Uints
<1>5. CASE \E k \in 0 .. Count : Queue(data', nread', Count') = SubSeq(Queue(data, nread, Count), k + 1, Count)
  BY Zenon, <1>2, <1>5 DEF Channel!Next, Channel!Receive, Queue
<1>6. CASE UNCHANGED vars
  BY Zenon, <1>3, <1>6 DEF vars, pipe
<1> QED
  BY Zenon, <1>3, <1>4, <1>5, <1>6, RingStep
-----------------------------------------------------------------------------
(* The initial state. *)
LEMMA InitTable ==
  ASSUME CardFacts, Init
  PROVE  CountsInv /\ EndsInv
<1>0. /\ \A p \in Procs : pc[p] \in {"user", "dead"}
      /\ \A p \in Procs : rf[p] = 0 /\ wf[p] = 0 /\ todo[p] = <<>> /\ ff[p] = "none"
      /\ \A p \in Procs, fd \in Fds : ofile[p][fd] = 0
      /\ \A f \in FileSlots : ref[f] = 0 /\ ftype[f] = "none"
      /\ inuse = FALSE /\ readopen = FALSE /\ writeopen = FALSE /\ panicked = FALSE
  <2>1. \A p \in Procs : pc[p] \in {"user", "dead"}
    BY Zenon DEF Init
  <2> QED
    BY Zenon, <2>1 DEF Init, PipeInit, NoFiles
<1>1. ProcTypes
  <2>1. 0 \in 0 .. NFILE /\ {"user", "dead"} \in SUBSET Labels
    BY SMT, FilesConstants DEF Labels
  <2>2. pc \in [Procs -> Labels]
    BY Zenon, <2>1 DEF Init
  <2>3. ofile \in [Procs -> [Fds -> 0 .. NFILE]] /\ rf \in [Procs -> 0 .. NFILE] /\ wf \in [Procs -> 0 .. NFILE]
    BY Zenon, <2>1 DEF Init, NoFiles
  <2>4. todo \in [Procs -> Todos] /\ after \in [Procs -> {"user", "exit"}] /\ np \in [Procs -> Procs \cup {NULL}]
    BY Zenon, Lists DEF Init
  <2> QED
    BY Zenon, <2>2, <2>3, <2>4 DEF ProcTypes
<1>2. TableTypes
  <2>1. 0 \in Int
    BY SMT
  <2> QED
    BY Zenon, <2>1 DEF Init, TableTypes, Types
<1>3. Locals /\ Children
  <2>1. \A p \in Procs : pc[p] \notin {"alloc", "kalloc", "dup", "fork"}
    BY Zenon, <1>0
  <2> QED
    BY Zenon, <1>0, <2>1 DEF Locals, LocalsOf, Children
<1>4. ASSUME NEW f \in FileSlots PROVE ref[f] = Cardinality(Descriptors(f)) + Others(f)
  <2>1. f # 0
    BY SMT, FilesConstants DEF FileSlots
  <2>2. Descriptors(f) = {}
    <3>1. ASSUME NEW d \in Procs \X Fds PROVE ofile[d[1]][d[2]] # f
      <4>1. d[1] \in Procs /\ d[2] \in Fds
        BY Zenon
      <4> QED
        BY Zenon, <1>0, <2>1, <4>1
    <3> QED
      BY Zenon, <3>1 DEF Descriptors, Places
  <2>3. Closers(f) = {}
    BY Zenon, <1>0, Lists DEF Closers, Closes
  <2>4. Makers(f) = {} /\ Dupers(f) = {}
    BY Zenon, <1>0, <2>1 DEF Makers, Makes, Dupers, Dups
  <2>5. Cardinality({}) = 0
    BY Zenon DEF CardFacts, CardEmpty
  <2> QED
    BY SMT, <1>0, <2>2, <2>3, <2>4, <2>5 DEF Others
<1>5. \A p \in Procs : pc[p] # "pipeclose" /\ pc[p] \notin Reading /\ pc[p] \notin Writing
  BY Zenon, <1>0 DEF Reading, Writing
<1>6. ~Held("r") /\ ~Held("w") /\ \A e \in Ends : e # "none"
  BY Zenon, <1>0 DEF Held, Ends
<1>7. OneHolder /\ OpenEnds
  BY Zenon, <1>0, <1>6 DEF OneHolder, OpenEnds
<1>8. Closing /\ Typed /\ Using
  BY Zenon, <1>0, <1>5 DEF Closing, Typed, Using, Uses
<1> QED
  BY Zenon, <1>0, <1>1, <1>2, <1>3, <1>4, <1>7, <1>8 DEF CountsInv, TableInv, RefsCounted, EndsInv

LEMMA InitPipe ==
  ASSUME Init
  PROVE  PipeInv /\ Count = 0
<1>0. /\ inuse = FALSE /\ readopen = FALSE /\ writeopen = FALSE
      /\ data = Junk /\ nread = 0 /\ nwrite = 0 /\ plock = NULL
  BY Zenon DEF Init, PipeInit
<1>1. \A p \in Procs : pc[p] \in {"user", "dead"}
  BY Zenon DEF Init
<1>2. \A p \in Procs : pc[p] # "whold" /\ pc[p] # "rsleep" /\ pc[p] # "wsleep"
  BY Zenon, <1>1
<1>3. PipeTypes
  <2>1. 0 \in 0 .. UintRange - 1
    BY SMT, PipeConstants
  <2> QED
    BY Zenon, <1>0, <2>1 DEF PipeTypes, Junk
<1>4. Count = 0
  BY Zenon, <1>0, <1>3, Counters
<1>5. RingFits
  <2>1. 0 <= PIPESIZE
    BY SMT, PipeConstants
  <2> QED
    BY Zenon, <1>4, <2>1 DEF RingFits
<1>6. Locked /\ Readers /\ Writers
  BY Zenon, <1>0, <1>2, FilesConstants DEF Locked, Readers, Writers
<1> QED
  BY Zenon, <1>3, <1>4, <1>5, <1>6 DEF PipeInv

(* How many files and processes stand for an end of the pipe. *)
LEMMA HolderCount ==
  ASSUME CardFacts, OneHolder, NEW e \in Ends
  PROVE  Cardinality({f \in FileSlots : ftype[f] = e}) + Cardinality({p \in Procs : ff[p] = e})
           = IF Held(e) THEN 1 ELSE 0
<1> DEFINE F == {f \in FileSlots : ftype[f] = e}
           P == {p \in Procs : ff[p] = e}
<1>0. Cardinality({}) = 0 /\ \A x : Cardinality({x}) = 1
  BY Zenon DEF CardFacts, CardEmpty, CardOne
<1>1. CASE ~Held(e)
  <2>1. F = {} /\ P = {}
    BY Zenon, <1>1 DEF Held
  <2> QED
    BY SMT, <1>0, <1>1, <2>1
<1>2. CASE \E f \in FileSlots : ftype[f] = e
  <2>1. PICK f \in FileSlots : ftype[f] = e
    BY Zenon, <1>2
  <2>2. F = {f} /\ P = {}
    BY Zenon, <2>1 DEF OneHolder
  <2>3. Held(e)
    BY Zenon, <2>1 DEF Held
  <2>4. Cardinality(F) + Cardinality(P) = 1
    <3>1. Cardinality(F) = 1 /\ Cardinality(P) = 0
      BY Zenon, <1>0, <2>2
    <3> HIDE DEF F, P
    <3> QED
      BY SMT, <3>1
  <2> QED
    BY Zenon, <2>3, <2>4
<1>3. CASE \E p \in Procs : ff[p] = e
  <2>1. PICK p \in Procs : ff[p] = e
    BY Zenon, <1>3
  <2>2. F = {} /\ P = {p}
    BY Zenon, <2>1 DEF OneHolder
  <2>3. Held(e)
    BY Zenon, <2>1 DEF Held
  <2>4. Cardinality(F) + Cardinality(P) = 1
    <3>1. Cardinality(F) = 0 /\ Cardinality(P) = 1
      BY Zenon, <1>0, <2>2
    <3> HIDE DEF F, P
    <3> QED
      BY SMT, <3>1
  <2> QED
    BY Zenon, <2>3, <2>4
<1> QED
  BY Zenon, <1>1, <1>2, <1>3 DEF Held
-----------------------------------------------------------------------------
INSTANCE FiniteSetTheorems

LEMMA CardFactsHold == CardFacts
<1>1. CardEmpty /\ CardOne /\ CardType
  BY Zenon, FS_EmptySet, FS_Singleton, FS_CardinalityType DEF CardEmpty, CardOne, CardType
<1>2. CardAdd
  BY Zenon, FS_AddElement DEF CardAdd
<1>3. CardRemove
  BY Zenon, FS_RemoveElement DEF CardRemove
<1>4. CardSubset
  BY Zenon, FS_Subset DEF CardSubset
<1>5. CardUnion /\ CardProduct
  BY Zenon, FS_Union, FS_Product DEF CardUnion, CardProduct
<1>6. CardInterval
  BY Zenon, FS_Interval DEF CardInterval
<1>7. CardInjection
  <2>1. \A S, T : \A g \in Injection(S, T) :
          IsFiniteSet(T) => IsFiniteSet(S) /\ Cardinality(S) <= Cardinality(T)
    BY Zenon, FS_Injection
  <2> QED
    BY Zenon, <2>1 DEF CardInjection, OneToOne, Injection, IsInjective
<1>8. NatMin
  <2> SUFFICES ASSUME NEW T \in SUBSET Nat, T # {} PROVE \E x \in T : \A y \in T : x <= y
    BY Zenon DEF NatMin
  <2> DEFINE Less == {ss \in Nat \X Nat : ss[1] < ss[2]}
  <2>1. IsWellFoundedOn(Less, Nat)
    BY Zenon, NatLessThanWellFounded DEF OpToRel
  <2> HIDE DEF Less
  <2>2. PICK x \in T : \A y \in T : ~(<<y, x>> \in Less)
    BY Zenon, <2>1, WFMin
  <2> USE DEF Less
  <2>3. ASSUME NEW y \in T PROVE x <= y
    <3>1. ~(<<y, x>> \in Less)
      BY Zenon, <2>2
    <3> QED
      BY SMT, <3>1
  <2> QED
    BY Zenon, <2>3
<1> QED
  BY Zenon, <1>1, <1>2, <1>3, <1>4, <1>5, <1>6, <1>7, <1>8 DEF CardFacts

(* The inductive invariant of pipe(), dup(), close(), read(), write(),     *)
(* fork(), exit() and kill() over the file table and a pipe.               *)
THEOREM FilesInductive == Spec => []IInv
<1>1. Init => IInv
  BY Zenon, CardFactsHold, InitTable, InitPipe DEF IInv, CountsInv
<1>2. IInv /\ [Next]_vars => IInv'
  <2> SUFFICES ASSUME IInv, [Next]_vars PROVE IInv'
    BY Zenon
  <2>1. CountsInv /\ EndsInv /\ PipeInv
    BY Zenon DEF IInv, CountsInv
  <2>2. CASE Next
    <3>1. CountsInv'
      BY Zenon, <2>1, <2>2, CardFactsHold, CountsStep DEF Next
    <3>2. EndsInv' /\ PipeInv'
      BY Zenon, <2>1, <2>2, CardFactsHold, EndsStep, PipeInvStep
    <3> QED
      BY Zenon, <3>1, <3>2 DEF IInv, CountsInv
  <2>3. CASE UNCHANGED vars
    <3>1. CountsInv'
      BY Zenon, <2>1, <2>3, QuietStep DEF vars, table, locals, CountsInv, TableInv, ProcTypes, TableTypes
    <3>2. EndsInv'
      BY Zenon, <2>1, <2>3, EndsQuiet DEF vars, pipe, ends, table, locals
    <3>3. PipeInv'
      BY Zenon, <2>1, <2>3, PipeQuiet DEF vars, pipe
    <3> QED
      BY Zenon, <3>1, <3>2, <3>3 DEF IInv, CountsInv
  <2> QED
    BY Zenon, <2>2, <2>3
<1> QED
  BY <1>1, <1>2, PTL DEF Spec

(* f->ref is exact between any two sections under ftable.lock, and         *)
(* filedup() and fileclose() never panic.                                  *)
THEOREM ReferencesExact == Spec => []RefsExact
<1>1. IInv => RefsExact
  <2> SUFFICES ASSUME IInv, NEW f \in FileSlots
               PROVE  ref[f] = Cardinality({d \in Procs \X Fds : ofile[d[1]][d[2]] = f})
                               + Cardinality({p \in Procs : f \in Range(todo[p])})
                               + Cardinality({p \in Procs : pc[p] \in {"alloc", "kalloc"} /\ f \in {rf[p], wf[p]}})
                               - Cardinality({p \in Procs : pc[p] = "dup" /\ rf[p] = f})
    BY Zenon DEF RefsExact, IInv
  <2> DEFINE a == Cardinality(Descriptors(f))
             b == Cardinality(Closers(f))
             c == Cardinality(Makers(f))
             d == Cardinality(Dupers(f))
  <2>1. a \in Nat /\ b \in Nat /\ c \in Nat /\ d \in Nat
    BY Zenon, CardFactsHold, FiniteRefs
  <2>2. ref[f] = a + (b + c - d)
    BY Zenon DEF IInv, RefsCounted, Others
  <2> HIDE DEF a, b, c, d
  <2>3. ref[f] = a + b + c - d
    BY SMT, <2>1, <2>2
  <2> QED
    BY Zenon, <2>3 DEF a, b, c, d, Descriptors, Places, Closers, Closes, Makers, Makes, Dupers, Dups
<1> QED
  BY <1>1, FilesInductive, PTL

(* pi->readopen and pi->writeopen say whether one file, or one last        *)
(* fileclose() of it, stands for the end; piperead() and pipewrite() are   *)
(* never in a pipe whose end is closed, let alone freed.                   *)
THEOREM PipeEndsExact == Spec => []EndsExact
<1>1. IInv => EndsExact
  <2> SUFFICES ASSUME IInv PROVE EndsExact
    OBVIOUS
  <2>0. ProcTypes /\ OneHolder /\ OpenEnds /\ Using /\ PipeTypes
    BY Zenon DEF IInv, TableInv, EndsInv, PipeInv
  <2> DEFINE holders(e) == Cardinality({f \in FileSlots : ftype[f] = e}) + Cardinality({p \in Procs : ff[p] = e})
  <2>1. "r" \in Ends /\ "w" \in Ends
    BY Zenon DEF Ends
  <2>2. holders("r") = (IF Held("r") THEN 1 ELSE 0) /\ holders("w") = (IF Held("w") THEN 1 ELSE 0)
    BY Zenon, <2>0, <2>1, CardFactsHold, HolderCount
  <2> HIDE DEF holders
  <2>3. holders("r") = (IF readopen THEN 1 ELSE 0) /\ holders("w") = (IF writeopen THEN 1 ELSE 0)
    BY Zenon, <2>0, <2>2 DEF OpenEnds
  <2>4. inuse = (readopen \/ writeopen)
    BY Zenon, <2>0 DEF OpenEnds, PipeTypes
  <2>5. ASSUME NEW p \in Procs, NEW e, Has(p, e) PROVE Held(e)
    <3>1. PICK fd \in Fds : ofile[p][fd] # 0 /\ ftype[ofile[p][fd]] = e
      BY Zenon, <2>5 DEF Has
    <3>2. ofile[p][fd] \in 0 .. NFILE
      BY Zenon, <2>0 DEF ProcTypes
    <3>3. ofile[p][fd] \in FileSlots
      BY SMT, <3>1, <3>2 DEF FileSlots
    <3> QED
      BY Zenon, <3>1, <3>3 DEF Held
  <2>6. ASSUME NEW p \in Procs
        PROVE  /\ pc[p] \in {"read", "rsleep"} => readopen
               /\ pc[p] \in {"write", "whold", "wsleep"} => writeopen
    <3>1. (pc[p] \in {"read", "rsleep"} => Has(p, "r")) /\ (pc[p] \in {"write", "whold", "wsleep"} => Has(p, "w"))
      BY Zenon, <2>0 DEF Using, Uses, Reading, Writing
    <3> QED
      BY Zenon, <2>0, <2>5, <3>1 DEF OpenEnds
  <2> QED
    BY Zenon, <2>3, <2>4, <2>6 DEF EndsExact, holders
<1> QED
  BY <1>1, FilesInductive, PTL

(* No wakeup of piperead() or pipewrite() is lost, whatever closes, kills  *)
(* and wrapping counters come between, but for the writer that is killed.  *)
THEOREM NoLostWakeup == Spec => []SleepersHaveReason
<1>1. IInv => SleepersHaveReason
  BY Zenon DEF IInv, PipeInv, Readers, Writers, SleepersHaveReason
<1> QED
  BY <1>1, FilesInductive, PTL

(* The ring of pipe.c with its two wrapping counters is a FIFO queue of at *)
(* most PIPESIZE bytes.                                                    *)
THEOREM RingIsFifo == Spec => ImplementsFifo
<1>1. Init => Channel!Init
  <2> SUFFICES ASSUME Init PROVE Channel!Init
    OBVIOUS
  <2>1. Count = 0
    BY Zenon, InitPipe
  <2>2. 1 .. Count = {}
    BY SMT, <2>1
  <2> QED
    BY <2>2 DEF Channel!Init
<1>2. IInv /\ [Next]_vars => [Channel!Next]_([i \in 1 .. Count |-> data[Slot(nread + i - 1)]])
  BY Zenon, FifoStep DEF IInv, CountsInv
<1> QED
  BY <1>1, <1>2, FilesInductive, PTL DEF Spec, ImplementsFifo, Channel!Spec
=============================================================================
