-------------------------- MODULE VirtioInvariant ---------------------------
(***************************************************************************)
(* The invariant of the disk driver (module VirtioDisk), and that every    *)
(* step of the driver, of the device and of the interrupt handler keeps    *)
(* it.  It holds for every client that gives a transfer a buffer and a     *)
(* block of its own; module BcacheProofs shows that the sleep locks of the *)
(* buffer cache do, module DiskProofs draws the conclusions for the driver *)
(* alone.                                                                  *)
(***************************************************************************)
EXTENDS VirtioDisk, CardFacts, TLAPS

Labels == {"idle", "bget", "lock", "locksleep", "rw", "nodesc", "iowait", "iodone", "use", "rel"}
Requests == [buf : 0 .. NBUF, write : BOOLEAN, block : Blocks \cup {0}]

DriverTypes ==
  /\ pc \in [Procs -> Labels] /\ buf \in [Procs -> 0 .. NBUF]
  /\ write \in [Procs -> BOOLEAN] /\ head \in [Procs -> Descs]
  /\ bdisk \in [Bufs -> BOOLEAN] /\ data \in [Bufs -> Int] /\ disk \in [Blocks -> Int]
  /\ free \in SUBSET Descs /\ chain \in [Descs -> SUBSET Descs] /\ req \in [Descs -> Requests]
  /\ avail \in SUBSET Descs /\ used \in Seq(Descs)

(* The heads of requests, the processes that wait for one, and the         *)
(* requests in one of the rings.                                           *)
Heads == {h \in Descs : chain[h] # {}}
InFlight(p) == pc[p] \in {"iowait", "iodone"}
InRing == avail \cup Range(used)

(* The descriptors are divided among the free ones and the chains. *)
Chains ==
  /\ \A h \in Heads : h \in chain[h] /\ chain[h] \cap free = {}
  /\ \A g, h \in Heads : g # h => chain[g] \cap chain[h] = {}
  /\ \A d \in Descs : d \in free \/ \E h \in Heads : d \in chain[h]

(* Every request has one process, and asks for what that process wants. *)
Owned ==
  /\ \A p \in Procs : InFlight(p) =>
       /\ buf[p] \in Bufs /\ head[p] \in Heads
       /\ req[head[p]].buf = buf[p] /\ req[head[p]].write = write[p] /\ req[head[p]].block \in Blocks
  /\ \A p, q \in Procs : InFlight(p) /\ InFlight(q) /\ head[p] = head[q] => p = q
  /\ \A h \in Heads : \E p \in Procs : InFlight(p) /\ head[p] = h

(* A request is in one place of one ring, and b->disk tells whether it is. *)
Rings ==
  /\ InRing \subseteq Heads /\ avail \cap Range(used) = {}
  /\ \A i, j \in DOMAIN used : used[i] = used[j] => i = j
  /\ \A p \in Procs : InFlight(p) => (bdisk[buf[p]] <=> head[p] \in InRing)
  /\ \A b \in Bufs : bdisk[b] => \E p \in Procs : InFlight(p) /\ buf[p] = b
  /\ \A p \in Procs : pc[p] = "iowait" => bdisk[buf[p]]

(* What the device answered was transferred. *)
Transferred ==
  \A p \in Procs : InFlight(p) /\ head[p] \notin avail => data[buf[p]] = disk[req[head[p]].block]

DriverInv == DriverTypes /\ Chains /\ Owned /\ Rings /\ Transferred

(* What the driver expects of its clients: requests at the same time are   *)
(* for different buffers and different blocks.                             *)
Exclusive ==
  \A p, q \in Procs : InFlight(p) /\ InFlight(q) /\ p # q =>
    buf[p] # buf[q] /\ req[head[p]].block # req[head[q]].block

(* What alloc3_desc() finds when three descriptors are free. *)
ThreeFree == Min(free) \in alloc3_desc /\ alloc3_desc \subseteq free
-----------------------------------------------------------------------------
(* The used ring: the device appends to it, virtio_disk_intr() takes from  *)
(* its front.                                                              *)
Distinct(s) == \A i, j \in DOMAIN s : s[i] = s[j] => i = j

LEMMA AppendRing ==
  \A D : \A s \in Seq(D), h \in D : Distinct(s) /\ h \notin Range(s) =>
    /\ Append(s, h) \in Seq(D) /\ Distinct(Append(s, h))
    /\ Range(Append(s, h)) = Range(s) \cup {h}
<1> SUFFICES ASSUME NEW D, NEW s \in Seq(D), NEW h \in D, Distinct(s), h \notin Range(s)
             PROVE  /\ Append(s, h) \in Seq(D) /\ Distinct(Append(s, h))
                    /\ Range(Append(s, h)) = Range(s) \cup {h}
  OBVIOUS
<1>1. /\ Append(s, h) \in Seq(D) /\ Len(s) \in Nat /\ DOMAIN s = 1 .. Len(s)
      /\ DOMAIN Append(s, h) = 1 .. Len(s) + 1
      /\ \A i \in DOMAIN Append(s, h) : Append(s, h)[i] = IF i = Len(s) + 1 THEN h ELSE s[i]
  BY SMT
<1>2. DOMAIN Append(s, h) = DOMAIN s \cup {Len(s) + 1} /\ Len(s) + 1 \notin DOMAIN s
  BY SMT, <1>1
<1>3. \A i \in DOMAIN s : s[i] # h
  BY Zenon DEF Range
<1> HIDE DEF Distinct
<1>4. Distinct(Append(s, h))
  BY Zenon, <1>1, <1>2, <1>3 DEF Distinct
<1>5. \A x : x \in Range(Append(s, h)) <=> x \in Range(s) \cup {h}
  BY Zenon, <1>1, <1>2 DEF Range
<1> QED
  BY Zenon, <1>1, <1>4, <1>5

LEMMA TailRing ==
  ASSUME NEW D, NEW s \in Seq(D), Distinct(s), s # <<>>
  PROVE  /\ Tail(s) \in Seq(D) /\ Distinct(Tail(s)) /\ Head(s) \in D
         /\ Head(s) \in Range(s) /\ Range(Tail(s)) = Range(s) \ {Head(s)}
<1>1. /\ Tail(s) \in Seq(D) /\ Len(s) \in Nat \ {0} /\ DOMAIN s = 1 .. Len(s)
      /\ DOMAIN Tail(s) = 1 .. Len(s) - 1 /\ Head(s) = s[1] /\ Head(s) \in D
      /\ \A i \in DOMAIN Tail(s) : Tail(s)[i] = s[i + 1]
  BY SMT
<1>2. /\ \A i \in DOMAIN Tail(s) : i + 1 \in DOMAIN s /\ i + 1 # 1
      /\ \A i \in DOMAIN s : i # 1 => \E j \in DOMAIN Tail(s) : i = j + 1
      /\ \A i, j \in DOMAIN Tail(s) : i + 1 = j + 1 => i = j
      /\ 1 \in DOMAIN s
  <2>1. \A i \in 1 .. Len(s) : i # 1 => i - 1 \in 1 .. Len(s) - 1 /\ i = (i - 1) + 1
    BY SMT, <1>1
  <2>2. /\ \A i \in 1 .. Len(s) - 1 : i + 1 \in 1 .. Len(s) /\ i + 1 # 1
        /\ \A i, j \in 1 .. Len(s) - 1 : i + 1 = j + 1 => i = j
        /\ 1 \in 1 .. Len(s)
    BY SMT, <1>1
  <2> QED
    BY Zenon, <1>1, <2>1, <2>2
<1> HIDE DEF Distinct
<1>3. ASSUME NEW i \in DOMAIN Tail(s), NEW j \in DOMAIN Tail(s), Tail(s)[i] = Tail(s)[j]
      PROVE  i = j
  <2>1. s[i + 1] = s[j + 1] /\ i + 1 \in DOMAIN s /\ j + 1 \in DOMAIN s
    BY Zenon, <1>1, <1>2, <1>3
  <2>2. i + 1 = j + 1
    BY Zenon, <2>1 DEF Distinct
  <2> QED
    BY Zenon, <1>2, <2>2
<1>4. ASSUME NEW x PROVE x \in Range(Tail(s)) <=> x \in Range(s) \ {Head(s)}
  <2>1. ASSUME NEW i \in DOMAIN Tail(s), x = Tail(s)[i] PROVE x \in Range(s) \ {Head(s)}
    <3>1. x = s[i + 1] /\ i + 1 \in DOMAIN s /\ i + 1 # 1
      BY Zenon, <1>1, <1>2, <2>1
    <3> QED
      BY Zenon, <1>1, <1>2, <3>1 DEF Range, Distinct
  <2>2. ASSUME NEW i \in DOMAIN s, x = s[i], x # Head(s) PROVE x \in Range(Tail(s))
    <3>1. PICK j \in DOMAIN Tail(s) : i = j + 1
      BY Zenon, <1>1, <1>2, <2>2
    <3> QED
      BY Zenon, <1>1, <2>2, <3>1 DEF Range
  <2> QED
    BY Zenon, <2>1, <2>2 DEF Range
<1> QED
  BY Zenon, <1>1, <1>2, <1>3, <1>4 DEF Range, Distinct
-----------------------------------------------------------------------------
(* A step of a client, or of virtio_disk_rw() without a request, that does *)
(* not touch a transfer under way.                                         *)
LEMMA DriverFrame ==
  ASSUME DriverInv, DriverTypes', UNCHANGED <<free, chain, req, avail, used, head, bdisk, disk>>,
         \A p \in Procs :
           /\ InFlight(p)' <=> InFlight(p)
           /\ InFlight(p) => buf'[p] = buf[p] /\ write'[p] = write[p] /\ data'[buf[p]] = data[buf[p]]
           /\ pc'[p] = "iowait" => bdisk[buf[p]]
  PROVE  DriverInv'
<1> USE DEF DriverInv
<1>1. Heads' = Heads /\ InRing' = InRing
  BY Zenon DEF Heads, InRing
<1>2. \A p \in Procs : pc'[p] = "iowait" => buf'[p] = buf[p]
  BY Zenon DEF InFlight
<1>3. Chains'
  BY Zenon, <1>1 DEF Chains
<1>4. Owned'
  <2>1. ASSUME NEW p \in Procs, InFlight(p)'
        PROVE  /\ buf'[p] \in Bufs /\ head'[p] \in Heads'
               /\ req'[head'[p]].buf = buf'[p] /\ req'[head'[p]].write = write'[p]
               /\ req'[head'[p]].block \in Blocks
    BY Zenon, <1>1, <2>1 DEF Owned
  <2>2. \A p, q \in Procs : InFlight(p)' /\ InFlight(q)' /\ head'[p] = head'[q] => p = q
    BY Zenon DEF Owned
  <2>3. \A h \in Heads' : \E p \in Procs : InFlight(p)' /\ head'[p] = h
    BY Zenon, <1>1 DEF Owned
  <2> QED
    BY Zenon, <2>1, <2>2, <2>3 DEF Owned
<1>5. Rings'
  <2>1. \A p \in Procs : InFlight(p)' => (bdisk'[buf'[p]] <=> head'[p] \in InRing')
    BY Zenon, <1>1 DEF Rings
  <2>2. ASSUME NEW b \in Bufs, bdisk'[b] PROVE \E p \in Procs : InFlight(p)' /\ buf'[p] = b
    <3>1. PICK p \in Procs : InFlight(p) /\ buf[p] = b
      BY Zenon, <2>2 DEF Rings
    <3> QED
      BY Zenon, <3>1
  <2> QED
    BY Zenon, <1>1, <1>2, <2>1, <2>2 DEF Rings
<1>6. Transferred'
  BY Zenon DEF Transferred
<1> QED
  BY Zenon, <1>3, <1>4, <1>5, <1>6

(* virtio_disk_rw() without a free descriptor, or woken too early. *)
LEMMA RwWaits ==
  ASSUME DriverInv, NEW p \in Procs, RwNoDesc(p) \/ RwAgain(p)
  PROVE  DriverInv'
<1>1. /\ UNCHANGED <<free, chain, req, avail, used, head, bdisk, disk, buf, write, data>>
      /\ pc \in [Procs -> Labels]
  BY Zenon DEF RwNoDesc, RwAgain, driver, DriverInv, DriverTypes
<1>2. CASE RwNoDesc(p)
  <2>1. WakeFree \in [Procs -> Labels]
    BY Zenon, <1>1 DEF WakeFree, Labels
  <2>2. /\ pc' \in [Procs -> Labels]
        /\ \A q \in Procs : pc'[q] \in {pc[q], "rw", "nodesc"}
        /\ \A q \in Procs : InFlight(q) => pc'[q] = pc[q]
    BY Zenon, <1>1, <1>2, <2>1 DEF RwNoDesc, WakeFree, InFlight, Labels
  <2>3. \A q \in Procs : InFlight(q)' <=> InFlight(q)
    BY Zenon, <2>2 DEF InFlight
  <2>4. DriverTypes'
    BY Zenon, <1>1, <2>2 DEF DriverInv, DriverTypes
  <2>5. \A q \in Procs : pc'[q] = "iowait" => bdisk[buf[q]]
    BY Zenon, <2>2 DEF DriverInv, Rings
  <2> QED
    BY Zenon, <1>1, <2>3, <2>4, <2>5, DriverFrame
<1>3. CASE RwAgain(p)
  <2>1. pc' = [pc EXCEPT ![p] = "iowait"] /\ pc[p] = "iodone" /\ bdisk[buf[p]]
    BY Zenon, <1>3 DEF RwAgain
  <2>2. pc' \in [Procs -> Labels] /\ \A q \in Procs : q # p => pc'[q] = pc[q]
    BY Zenon, <1>1, <2>1 DEF Labels
  <2>3. \A q \in Procs : InFlight(q)' <=> InFlight(q)
    BY Zenon, <1>1, <2>1, <2>2 DEF InFlight
  <2>4. DriverTypes'
    BY Zenon, <1>1, <2>2 DEF DriverInv, DriverTypes
  <2>5. \A q \in Procs : pc'[q] = "iowait" => bdisk[buf[q]]
    BY Zenon, <2>1, <2>2 DEF DriverInv, Rings
  <2> QED
    BY Zenon, <1>1, <2>3, <2>4, <2>5, DriverFrame
<1> QED
  BY Zenon, <1>2, <1>3

(* virtio_disk_rw() puts a request into the avail ring, for a buffer with  *)
(* which no other request is under way.                                    *)
LEMMA RwStarts ==
  ASSUME DriverInv, ThreeFree, NEW p \in Procs, NEW k \in Blocks, RwStart(p, k),
         buf[p] \in Bufs, \A q \in Procs : InFlight(q) => buf[q] # buf[p]
  PROVE  DriverInv' /\ Heads' = Heads \cup {Min(free)} /\ Min(free) \notin Heads
<1> USE DEF DriverInv
<1> DEFINE h == Min(free)
           three == alloc3_desc
           r == [buf |-> buf[p], write |-> write[p], block |-> k]
<1>0. DriverTypes
  OBVIOUS
<1>1. h \in three /\ three \subseteq free /\ h \in free /\ h \in Descs /\ three \subseteq Descs
  BY Zenon DEF ThreeFree, DriverTypes
<1>2. /\ pc[p] = "rw" /\ pc' = [pc EXCEPT ![p] = "iowait"]
      /\ chain' = [chain EXCEPT ![h] = three] /\ req' = [req EXCEPT ![h] = r]
      /\ bdisk' = [bdisk EXCEPT ![buf[p]] = TRUE] /\ head' = [head EXCEPT ![p] = h]
  BY Zenon DEF RwStart
<1>a. free' = free \ three /\ avail' = avail \cup {h}
  BY Zenon DEF RwStart
<1>b. buf' = buf /\ write' = write /\ data' = data /\ disk' = disk /\ used' = used
  BY Zenon DEF RwStart
<1> HIDE DEF h, three, r
<1>3. h \notin Heads /\ h \notin InRing
  BY Zenon, <1>1 DEF Chains, Rings
<1>4. chain'[h] = three /\ \A g \in Descs : g # h => chain'[g] = chain[g]
  BY Zenon, <1>0, <1>1, <1>2 DEF DriverTypes
<1>5. \A g : g \in Heads' <=> g \in Heads \cup {h}
  BY Zenon, <1>1, <1>4 DEF Heads
<1>6. /\ ~InFlight(p) /\ InFlight(p)' /\ head'[p] = h /\ bdisk'[buf[p]] /\ req'[h] = r
      /\ \A q \in Procs : q # p => pc'[q] = pc[q] /\ head'[q] = head[q] /\ (InFlight(q)' <=> InFlight(q))
      /\ \A b \in Bufs : b # buf[p] => bdisk'[b] = bdisk[b]
      /\ \A g \in Descs : g # h => req'[g] = req[g]
  BY Zenon, <1>0, <1>1, <1>2 DEF DriverTypes, InFlight
<1>7. \A q \in Procs : InFlight(q) =>
        /\ q # p /\ InFlight(q)' /\ head'[q] = head[q] /\ head[q] # h /\ req'[head[q]] = req[head[q]]
        /\ buf[q] \in Bufs /\ buf[q] # buf[p] /\ bdisk'[buf[q]] = bdisk[buf[q]]
  <2>1. \A q \in Procs : InFlight(q) =>
          q # p /\ head[q] \in Heads /\ head[q] \in Descs /\ buf[q] \in Bufs
    BY Zenon, <1>6 DEF Owned, Heads
  <2> QED
    BY Zenon, <1>3, <1>6, <2>1
<1>8. r.buf = buf[p] /\ r.write = write[p] /\ r.block = k /\ r \in Requests
  BY Zenon, <1>0 DEF r, DriverTypes, Requests
<1>9. DriverTypes'
  <2>1. pc' \in [Procs -> Labels] /\ head' \in [Procs -> Descs] /\ bdisk' \in [Bufs -> BOOLEAN]
    BY Zenon, <1>0, <1>1, <1>2 DEF DriverTypes, Labels
  <2>2. chain' \in [Descs -> SUBSET Descs] /\ req' \in [Descs -> Requests]
    BY Zenon, <1>0, <1>1, <1>2, <1>8 DEF DriverTypes
  <2> QED
    BY Zenon, <1>0, <1>1, <1>a, <1>b, <2>1, <2>2 DEF DriverTypes
<1>10. Chains'
  <2>1. ASSUME NEW g \in Heads' PROVE g \in chain'[g] /\ chain'[g] \cap free' = {}
    <3>1. CASE g = h
      BY Zenon, <1>1, <1>a, <1>b, <1>4, <3>1
    <3>2. CASE g # h
      BY Zenon, <1>a, <1>b, <1>4, <1>5, <3>2 DEF Chains, Heads
    <3> QED
      BY Zenon, <3>1, <3>2
  <2>2. \A g \in Heads : g # h /\ chain'[g] = chain[g] /\ chain[g] \cap three = {}
    BY Zenon, <1>1, <1>3, <1>4 DEF Chains, Heads
  <2>3. ASSUME NEW f \in Heads', NEW g \in Heads', f # g PROVE chain'[f] \cap chain'[g] = {}
    <3>1. CASE f = h
      <4>1. chain'[f] = three /\ chain'[g] \cap three = {}
        BY Zenon, <1>4, <1>5, <2>2, <2>3, <3>1
      <4> QED
        BY Zenon, <4>1
    <3>2. CASE g = h
      <4>1. chain'[g] = three /\ chain'[f] \cap three = {}
        BY Zenon, <1>4, <1>5, <2>2, <2>3, <3>2
      <4> QED
        BY Zenon, <4>1
    <3>3. CASE f # h /\ g # h
      <4>1. f \in Heads /\ g \in Heads /\ chain'[f] = chain[f] /\ chain'[g] = chain[g]
        BY Zenon, <1>5, <2>2, <3>3
      <4> QED
        BY Zenon, <2>3, <4>1 DEF Chains
    <3> QED
      BY Zenon, <3>1, <3>2, <3>3
  <2>4. ASSUME NEW d \in Descs PROVE d \in free' \/ \E g \in Heads' : d \in chain'[g]
    <3>1. CASE d \in free
      BY Zenon, <1>a, <1>b, <1>4, <1>5, <3>1
    <3>2. CASE d \notin free
      BY Zenon, <1>5, <2>2, <3>2 DEF Chains
    <3> QED
      BY Zenon, <3>1, <3>2
  <2> QED
    BY Zenon, <2>1, <2>3, <2>4 DEF Chains
<1>11. Owned'
  <2>1. ASSUME NEW q \in Procs, InFlight(q)'
        PROVE  /\ buf'[q] \in Bufs /\ head'[q] \in Heads'
               /\ req'[head'[q]].buf = buf'[q] /\ req'[head'[q]].write = write'[q]
               /\ req'[head'[q]].block \in Blocks
    <3>1. CASE q = p
      BY Zenon, <1>a, <1>b, <1>5, <1>6, <1>8, <3>1
    <3>2. CASE q # p
      <4>1. InFlight(q)
        BY Zenon, <1>6, <2>1, <3>2
      <4>2. head'[q] = head[q] /\ req'[head'[q]] = req[head[q]]
        BY Zenon, <1>7, <4>1
      <4>3. buf'[q] = buf[q] /\ write'[q] = write[q]
        BY Zenon, <1>b
      <4>4. /\ buf[q] \in Bufs /\ head[q] \in Heads'
            /\ req[head[q]].buf = buf[q] /\ req[head[q]].write = write[q]
            /\ req[head[q]].block \in Blocks
        BY Zenon, <1>5, <4>1 DEF Owned
      <4> QED
        BY Zenon, <4>2, <4>3, <4>4
    <3> QED
      BY Zenon, <3>1, <3>2
  <2>2. ASSUME NEW o \in Procs, NEW q \in Procs, InFlight(o)', InFlight(q)', head'[o] = head'[q]
        PROVE  o = q
    <3>1. \A x \in Procs : InFlight(x)' /\ x # p => InFlight(x) /\ head'[x] = head[x] /\ head'[x] # h
      BY Zenon, <1>6, <1>7
    <3>2. o # p <=> q # p
      BY Zenon, <1>6, <2>2, <3>1
    <3>3. CASE o # p /\ q # p
      BY Zenon, <2>2, <3>1, <3>3 DEF Owned
    <3> QED
      BY Zenon, <3>2, <3>3
  <2>3. ASSUME NEW g \in Heads' PROVE \E q \in Procs : InFlight(q)' /\ head'[q] = g
    <3>1. CASE g = h
      BY Zenon, <1>6, <3>1
    <3>2. CASE g # h
      <4>1. PICK q \in Procs : InFlight(q) /\ head[q] = g
        BY Zenon, <1>5, <3>2 DEF Owned
      <4> QED
        BY Zenon, <1>7, <4>1
    <3> QED
      BY Zenon, <3>1, <3>2
  <2> QED
    BY Zenon, <2>1, <2>2, <2>3 DEF Owned
<1>12. Rings'
  <2>0. \A g : g \in InRing' <=> g \in InRing \cup {h}
    BY Zenon, <1>a, <1>b DEF InRing
  <2>1. InRing' \subseteq Heads'
    BY Zenon, <1>5, <2>0 DEF Rings
  <2>2. avail' \cap Range(used') = {}
    <3>1. h \notin Range(used)
      BY Zenon, <1>3 DEF InRing
    <3> QED
      BY Zenon, <1>a, <1>b, <3>1 DEF Rings
  <2>3. ASSUME NEW q \in Procs, InFlight(q)' PROVE bdisk'[buf'[q]] <=> head'[q] \in InRing'
    <3>1. CASE q = p
      BY Zenon, <1>a, <1>b, <1>6, <2>0, <3>1
    <3>2. CASE q # p
      <4>1. InFlight(q)
        BY Zenon, <1>6, <2>3, <3>2
      <4>2. head'[q] = head[q] /\ head[q] # h /\ bdisk'[buf[q]] = bdisk[buf[q]]
        BY Zenon, <1>7, <4>1
      <4> QED
        BY Zenon, <1>b, <2>0, <4>1, <4>2 DEF Rings
    <3> QED
      BY Zenon, <3>1, <3>2
  <2>4. ASSUME NEW b \in Bufs, bdisk'[b] PROVE \E q \in Procs : InFlight(q)' /\ buf'[q] = b
    <3>1. CASE b = buf[p]
      BY Zenon, <1>a, <1>b, <1>6, <3>1
    <3>2. CASE b # buf[p]
      <4>1. PICK q \in Procs : InFlight(q) /\ buf[q] = b
        BY Zenon, <1>6, <2>4, <3>2 DEF Rings
      <4> QED
        BY Zenon, <1>a, <1>b, <1>7, <4>1
    <3> QED
      BY Zenon, <3>1, <3>2
  <2>5. ASSUME NEW q \in Procs, pc'[q] = "iowait" PROVE bdisk'[buf'[q]]
    <3>1. CASE q = p
      BY Zenon, <1>a, <1>b, <1>6, <3>1
    <3>2. CASE q # p
      <4>1. pc[q] = "iowait" /\ InFlight(q) /\ bdisk[buf[q]]
        BY Zenon, <1>6, <2>5, <3>2 DEF Rings, InFlight
      <4> QED
        BY Zenon, <1>a, <1>b, <1>7, <4>1
    <3> QED
      BY Zenon, <3>1, <3>2
  <2>6. \A i, j \in DOMAIN used' : used'[i] = used'[j] => i = j
    BY Zenon, <1>a, <1>b DEF Rings
  <2> QED
    BY Zenon, <2>1, <2>2, <2>3, <2>4, <2>5, <2>6 DEF Rings
<1>13. Transferred'
  <2> SUFFICES ASSUME NEW q \in Procs, InFlight(q)', head'[q] \notin avail'
               PROVE  data'[buf'[q]] = disk'[req'[head'[q]].block]
    BY Zenon DEF Transferred
  <2>1. q # p
    BY Zenon, <1>a, <1>b, <1>6
  <2>2. InFlight(q)
    BY Zenon, <1>6, <2>1
  <2>3. head'[q] = head[q] /\ req'[head[q]] = req[head[q]]
    BY Zenon, <1>7, <2>2
  <2> QED
    BY Zenon, <1>a, <1>b, <2>2, <2>3 DEF Transferred
<1> QED
  BY Zenon, <1>3, <1>5, <1>9, <1>10, <1>11, <1>12, <1>13 DEF h

(* virtio_disk_rw() returns and frees its chain, of which no descriptor is *)
(* free: the request is in no ring, and its data was transferred.          *)
LEMMA RwReturns ==
  ASSUME DriverInv, NEW p \in Procs, RwDone(p)
  PROVE  /\ DriverInv' /\ (panicked' => panicked)
         /\ head[p] \in Heads /\ Heads' = Heads \ {head[p]} /\ chain[head[p]] \cap free = {}
         /\ data[buf[p]] = disk[req[head[p]].block]
<1> USE DEF DriverInv
<1> DEFINE h == head[p]
<1>0. DriverTypes
  OBVIOUS
<1>1. pc[p] = "iodone" /\ ~bdisk[buf[p]] /\ InFlight(p)
  BY Zenon DEF RwDone, InFlight
<1>2. h \in Heads /\ h \in Descs /\ h \notin InRing /\ buf[p] \in Bufs
  BY Zenon, <1>1 DEF Owned, Rings, Heads
<1>3. chain[h] \cap free = {}
  BY Zenon, <1>2 DEF Chains
<1>4. /\ panicked' = (panicked \/ chain[h] \cap free # {})
      /\ free' = free \cup chain[h]
      /\ buf' = buf /\ write' = write /\ data' = data /\ disk' = disk
      /\ bdisk' = bdisk /\ avail' = avail /\ used' = used
  BY Zenon DEF RwDone
<1>5. /\ chain' = [chain EXCEPT ![h] = {}] /\ req' = [req EXCEPT ![h] = NoReq]
      /\ pc' = [WakeFree EXCEPT ![p] = "use"] /\ head' = [head EXCEPT ![p] = 0]
  BY Zenon DEF RwDone
<1> HIDE DEF h
<1>6. chain'[h] = {} /\ \A g \in Descs : g # h => chain'[g] = chain[g] /\ req'[g] = req[g]
  BY Zenon, <1>0, <1>2, <1>5 DEF DriverTypes
<1>7. \A g : g \in Heads' <=> g \in Heads \ {h}
  BY Zenon, <1>2, <1>6 DEF Heads
<1>8. WakeFree \in [Procs -> Labels] /\ \A q \in Procs : WakeFree[q] = IF pc[q] = "nodesc" THEN "rw" ELSE pc[q]
  BY Zenon, <1>0 DEF WakeFree, DriverTypes, Labels
<1>9. /\ pc' \in [Procs -> Labels] /\ ~InFlight(p)' /\ pc'[p] = "use"
      /\ \A q \in Procs : q # p => (InFlight(q)' <=> InFlight(q)) /\ head'[q] = head[q]
      /\ \A q \in Procs : pc'[q] = "iowait" => pc[q] = "iowait"
  <2>1. pc' \in [Procs -> Labels] /\ pc'[p] = "use" /\ \A q \in Procs : q # p => pc'[q] = WakeFree[q]
    BY Zenon, <1>5, <1>8 DEF Labels
  <2>2. \A q \in Procs : q # p => head'[q] = head[q]
    BY Zenon, <1>0, <1>5 DEF DriverTypes
  <2>3. \A q \in Procs : WakeFree[q] \in {"iowait", "iodone"} => WakeFree[q] = pc[q]
    BY Zenon, <1>8
  <2>4. \A q \in Procs : pc[q] \in {"iowait", "iodone"} => WakeFree[q] = pc[q]
    BY Zenon, <1>8
  <2> QED
    BY Zenon, <2>1, <2>2, <2>3, <2>4 DEF InFlight
<1>10. \A q \in Procs : InFlight(q)' =>
         /\ q # p /\ InFlight(q) /\ head'[q] = head[q] /\ head[q] \in Heads /\ head[q] # h
         /\ req'[head'[q]] = req[head[q]]
  <2>1. \A q \in Procs : InFlight(q)' => q # p /\ InFlight(q) /\ head'[q] = head[q]
    BY Zenon, <1>9
  <2>2. \A q \in Procs : InFlight(q) /\ q # p => head[q] \in Heads /\ head[q] \in Descs /\ head[q] # h
    BY Zenon, <1>1 DEF Owned, Heads, h
  <2> QED
    BY Zenon, <1>6, <2>1, <2>2
<1>11. DriverTypes'
  <2>1. 0 \in Descs
    BY SMT, VirtioConstants DEF Descs
  <2>2. NoReq \in Requests
    <3>1. 0 \in 0 .. NBUF
      BY SMT, VirtioConstants
    <3> QED
      BY Zenon, <3>1 DEF NoReq, Requests
  <2>3. chain' \in [Descs -> SUBSET Descs] /\ req' \in [Descs -> Requests] /\ head' \in [Procs -> Descs]
    BY Zenon, <1>0, <1>5, <2>1, <2>2 DEF DriverTypes
  <2>4. free' \in SUBSET Descs
    BY Zenon, <1>0, <1>2, <1>4 DEF DriverTypes
  <2> QED
    BY Zenon, <1>0, <1>4, <1>9, <2>3, <2>4 DEF DriverTypes
<1>12. Chains'
  <2>1. \A g \in Heads' : g \in Heads /\ g # h /\ chain'[g] = chain[g] /\ chain[g] \cap chain[h] = {}
    BY Zenon, <1>2, <1>6, <1>7 DEF Chains, Heads
  <2>2. ASSUME NEW g \in Heads' PROVE g \in chain'[g] /\ chain'[g] \cap free' = {}
    <3>1. g \in chain[g] /\ chain[g] \cap free = {} /\ chain'[g] = chain[g] /\ chain[g] \cap chain[h] = {}
      BY Zenon, <2>1 DEF Chains
    <3> QED
      BY Zenon, <1>4, <3>1
  <2>3. ASSUME NEW f \in Heads', NEW g \in Heads', f # g PROVE chain'[f] \cap chain'[g] = {}
    <3>1. f \in Heads /\ g \in Heads /\ chain'[f] = chain[f] /\ chain'[g] = chain[g]
      BY Zenon, <2>1
    <3> QED
      BY Zenon, <2>3, <3>1 DEF Chains
  <2>4. ASSUME NEW d \in Descs, d \notin free' PROVE \E g \in Heads' : d \in chain'[g]
    <3>1. d \notin free /\ d \notin chain[h]
      BY Zenon, <1>4, <2>4
    <3>2. PICK g \in Heads : d \in chain[g]
      BY Zenon, <3>1 DEF Chains
    <3>3. g \in Heads'
      BY Zenon, <1>7, <3>1, <3>2
    <3> QED
      BY Zenon, <2>1, <3>2, <3>3
  <2> QED
    BY Zenon, <2>2, <2>3, <2>4 DEF Chains
<1>13. Owned'
  <2>1. ASSUME NEW q \in Procs, InFlight(q)'
        PROVE  /\ buf'[q] \in Bufs /\ head'[q] \in Heads'
               /\ req'[head'[q]].buf = buf'[q] /\ req'[head'[q]].write = write'[q]
               /\ req'[head'[q]].block \in Blocks
    <3>1. InFlight(q) /\ head'[q] \in Heads' /\ req'[head'[q]] = req[head[q]]
      BY Zenon, <1>7, <1>10, <2>1
    <3>2. buf'[q] = buf[q] /\ write'[q] = write[q]
      BY Zenon, <1>4
    <3> QED
      BY Zenon, <3>1, <3>2 DEF Owned
  <2>2. ASSUME NEW o \in Procs, NEW q \in Procs, InFlight(o)', InFlight(q)', head'[o] = head'[q]
        PROVE  o = q
    BY Zenon, <1>10, <2>2 DEF Owned
  <2>3. ASSUME NEW g \in Heads' PROVE \E q \in Procs : InFlight(q)' /\ head'[q] = g
    <3>1. g \in Heads /\ g # h
      BY Zenon, <1>7
    <3>2. PICK q \in Procs : InFlight(q) /\ head[q] = g
      BY Zenon, <3>1 DEF Owned
    <3>3. q # p
      BY Zenon, <3>1, <3>2 DEF h
    <3> QED
      BY Zenon, <1>9, <3>2, <3>3
  <2> QED
    BY Zenon, <2>1, <2>2, <2>3 DEF Owned
<1>14. Rings'
  <2>0. InRing' = InRing
    BY Zenon, <1>4 DEF InRing
  <2>1. InRing' \subseteq Heads'
    BY Zenon, <1>2, <1>7, <2>0 DEF Rings
  <2>2. ASSUME NEW q \in Procs, InFlight(q)' PROVE bdisk'[buf'[q]] <=> head'[q] \in InRing'
    <3>1. InFlight(q) /\ head'[q] = head[q]
      BY Zenon, <1>10, <2>2
    <3> QED
      BY Zenon, <1>4, <2>0, <3>1 DEF Rings
  <2>3. ASSUME NEW b \in Bufs, bdisk'[b] PROVE \E q \in Procs : InFlight(q)' /\ buf'[q] = b
    <3>1. bdisk[b]
      BY Zenon, <1>4, <2>3
    <3>2. PICK q \in Procs : InFlight(q) /\ buf[q] = b
      BY Zenon, <3>1 DEF Rings
    <3>3. q # p
      BY Zenon, <1>1, <3>1, <3>2
    <3> QED
      BY Zenon, <1>4, <1>9, <3>2, <3>3
  <2>4. \A q \in Procs : pc'[q] = "iowait" => bdisk'[buf'[q]]
    BY Zenon, <1>4, <1>9 DEF Rings
  <2> QED
    BY Zenon, <1>4, <2>1, <2>2, <2>3, <2>4 DEF Rings
<1>15. Transferred'
  <2> SUFFICES ASSUME NEW q \in Procs, InFlight(q)', head'[q] \notin avail'
               PROVE  data'[buf'[q]] = disk'[req'[head'[q]].block]
    BY Zenon DEF Transferred
  <2>1. InFlight(q) /\ head'[q] = head[q] /\ req'[head'[q]] = req[head[q]]
    BY Zenon, <1>10
  <2> QED
    BY Zenon, <1>4, <2>1 DEF Transferred
<1>16. data[buf[p]] = disk[req[h].block]
  BY Zenon, <1>1, <1>2 DEF Transferred, InRing, h
<1>17. panicked' => panicked
  BY Zenon, <1>3, <1>4
<1> QED
  BY Zenon, <1>2, <1>3, <1>7, <1>11, <1>12, <1>13, <1>14, <1>15, <1>16, <1>17 DEF h

(* The device answers a request of the avail ring: nobody else transfers   *)
(* that buffer or that block.                                              *)
LEMMA DeviceAnswers ==
  ASSUME DriverInv, Exclusive, NEW h \in Descs, Device(h)
  PROVE  /\ DriverInv'
         /\ \E p \in Procs : InFlight(p) /\ head[p] = h
         /\ req[h].buf \in Bufs /\ req[h].block \in Blocks
<1> USE DEF DriverInv
<1> DEFINE r == req[h]
<1>0. DriverTypes
  OBVIOUS
<1>1. h \in avail /\ h \in InRing /\ h \in Heads /\ h \notin Range(used)
  BY Zenon DEF Device, Rings, InRing
<1>2. PICK p \in Procs : InFlight(p) /\ head[p] = h
  BY Zenon, <1>1 DEF Owned
<1>3. r.buf = buf[p] /\ r.write = write[p] /\ r.block \in Blocks /\ buf[p] \in Bufs
  BY Zenon, <1>2 DEF Owned
<1>4. /\ avail' = avail \ {h} /\ used' = Append(used, h)
      /\ pc' = pc /\ buf' = buf /\ write' = write /\ head' = head /\ bdisk' = bdisk
      /\ free' = free /\ chain' = chain /\ req' = req
  BY Zenon DEF Device
<1>5. IF r.write THEN disk' = [disk EXCEPT ![r.block] = data[r.buf]] /\ data' = data
      ELSE data' = [data EXCEPT ![r.buf] = disk[r.block]] /\ disk' = disk
  BY Zenon DEF Device
<1> HIDE DEF r
<1>6. /\ data' \in [Bufs -> Int] /\ disk' \in [Blocks -> Int] /\ data'[r.buf] = disk'[r.block]
      /\ \A b \in Bufs : b # r.buf => data'[b] = data[b]
      /\ \A k \in Blocks : k # r.block => disk'[k] = disk[k]
  <2>1. data \in [Bufs -> Int] /\ disk \in [Blocks -> Int] /\ r.buf \in Bufs /\ r.block \in Blocks
    BY Zenon, <1>0, <1>3 DEF DriverTypes
  <2>2. CASE r.write
    BY Zenon, <1>5, <2>1, <2>2
  <2>3. CASE ~r.write
    BY Zenon, <1>5, <2>1, <2>3
  <2> QED
    BY Zenon, <2>2, <2>3
<1>7. used' \in Seq(Descs) /\ Distinct(used') /\ Range(used') = Range(used) \cup {h}
  <2>1. used \in Seq(Descs) /\ Distinct(used)
    BY Zenon, <1>0 DEF DriverTypes, Rings, Distinct
  <2>2. /\ Append(used, h) \in Seq(Descs) /\ Distinct(Append(used, h))
        /\ Range(Append(used, h)) = Range(used) \cup {h}
    BY SMT, <1>1, <2>1, AppendRing
  <2> QED
    BY Zenon, <1>4, <2>2
<1>8. Heads' = Heads /\ InRing' = InRing /\ avail' \cap Range(used') = {}
  <2>1. \A g : g \in InRing' <=> g \in InRing
    BY Zenon, <1>1, <1>4, <1>7 DEF InRing
  <2>2. avail' \cap Range(used') = {}
    BY Zenon, <1>4, <1>7 DEF Rings
  <2> QED
    BY Zenon, <1>4, <2>1, <2>2 DEF Heads
<1>9. \A q \in Procs : InFlight(q)' <=> InFlight(q)
  BY Zenon, <1>4 DEF InFlight
<1>10. DriverTypes'
  BY Zenon, <1>0, <1>4, <1>6, <1>7 DEF DriverTypes
<1>11. Chains'
  BY Zenon, <1>4, <1>8 DEF Chains
<1>12. Owned'
  BY Zenon, <1>4, <1>8, <1>9 DEF Owned
<1>13. Rings'
  <2>1. \A q \in Procs : InFlight(q)' => (bdisk'[buf'[q]] <=> head'[q] \in InRing')
    BY Zenon, <1>4, <1>8, <1>9 DEF Rings
  <2>2. \A b \in Bufs : bdisk'[b] => \E q \in Procs : InFlight(q)' /\ buf'[q] = b
    BY Zenon, <1>4, <1>9 DEF Rings
  <2> QED
    BY Zenon, <1>4, <1>7, <1>8, <2>1, <2>2 DEF Rings, Distinct
<1>14. Transferred'
  <2> SUFFICES ASSUME NEW q \in Procs, InFlight(q), head[q] \notin avail'
               PROVE  data'[buf[q]] = disk'[req[head[q]].block]
    BY Zenon, <1>4, <1>9 DEF Transferred
  <2>1. CASE q = p
    BY Zenon, <1>2, <1>3, <1>6, <2>1 DEF r
  <2>2. CASE q # p
    <3>1. /\ buf[q] # buf[p] /\ req[head[q]].block # r.block
          /\ buf[q] \in Bufs /\ req[head[q]].block \in Blocks
      BY Zenon, <1>2, <2>2 DEF Exclusive, Owned, r
    <3>2. head[q] # h
      BY Zenon, <1>2, <2>2 DEF Owned
    <3>3. data[buf[q]] = disk[req[head[q]].block]
      BY Zenon, <1>4, <3>2 DEF Transferred
    <3> QED
      BY Zenon, <1>3, <1>6, <3>1, <3>3
  <2> QED
    BY Zenon, <2>1, <2>2
<1> QED
  BY Zenon, <1>2, <1>3, <1>10, <1>11, <1>12, <1>13, <1>14 DEF r

(* virtio_disk_intr(). *)
LEMMA IntrAnswers ==
  ASSUME DriverInv, Exclusive, Intr
  PROVE  /\ DriverInv' /\ UNCHANGED <<buf, write, head, data, disk, free, chain, req, panicked>>
         /\ \A p \in Procs : \/ pc'[p] = pc[p]
                             \/ pc[p] = "iowait" /\ pc'[p] = "iodone"
<1> USE DEF DriverInv
<1>0. DriverTypes
  OBVIOUS
<1>1. CASE IntrStart \/ IntrEnd
  <2>1. /\ pc' = pc /\ buf' = buf /\ write' = write /\ head' = head /\ bdisk' = bdisk /\ data' = data
        /\ disk' = disk /\ free' = free /\ chain' = chain /\ req' = req /\ avail' = avail /\ used' = used
        /\ panicked' = panicked
    BY Zenon, <1>1 DEF IntrStart, IntrEnd
  <2>2. DriverTypes'
    BY Zenon, <1>0, <2>1 DEF DriverTypes
  <2>3. \A p \in Procs : (InFlight(p)' <=> InFlight(p)) /\ (pc'[p] = "iowait" => bdisk[buf[p]])
    BY Zenon, <2>1 DEF InFlight, Rings
  <2> QED
    BY Zenon, <2>1, <2>2, <2>3, DriverFrame
<1>2. CASE IntrEntry
  <2> DEFINE h == Head(used)
             b == req[h].buf
  <2>1. /\ used # <<>> /\ used' = Tail(used)
        /\ buf' = buf /\ write' = write /\ head' = head /\ data' = data /\ disk' = disk
        /\ free' = free /\ chain' = chain /\ req' = req /\ avail' = avail /\ panicked' = panicked
    BY Zenon, <1>2 DEF IntrEntry
  <2>2. bdisk' = [bdisk EXCEPT ![b] = FALSE] /\ pc' = WakeBuf(b)
    BY Zenon, <1>2 DEF IntrEntry
  <2>3. /\ used' \in Seq(Descs) /\ Distinct(used') /\ h \in Range(used)
        /\ Range(used') = Range(used) \ {h} /\ h \in Descs
    <3>1. used \in Seq(Descs) /\ Distinct(used)
      BY Zenon, <1>0 DEF DriverTypes, Rings, Distinct
    <3> QED
      BY Zenon, <2>1, <3>1, TailRing
  <2> HIDE DEF h
  <2>4. h \in InRing /\ h \in Heads
    BY Zenon, <2>3 DEF InRing, Rings
  <2>5. PICK p \in Procs : InFlight(p) /\ head[p] = h
    BY Zenon, <2>4 DEF Owned
  <2>6. b = buf[p] /\ b \in Bufs
    BY Zenon, <2>5 DEF Owned
  <2> HIDE DEF b
  <2>7. ~bdisk'[b] /\ bdisk' \in [Bufs -> BOOLEAN] /\ \A c \in Bufs : c # b => bdisk'[c] = bdisk[c]
    BY Zenon, <1>0, <2>2, <2>6 DEF DriverTypes
  <2>8. /\ pc' \in [Procs -> Labels]
        /\ \A q \in Procs : IF pc[q] = "iowait" /\ buf[q] = b THEN pc'[q] = "iodone" ELSE pc'[q] = pc[q]
    BY Zenon, <1>0, <2>2 DEF WakeBuf, DriverTypes, Labels
  <2>9. \A q \in Procs : InFlight(q)' <=> InFlight(q)
    BY Zenon, <2>8 DEF InFlight
  <2>10. \A g : g \in InRing' <=> g \in InRing \ {h}
    BY Zenon, <2>1, <2>3 DEF InRing, Rings
  <2>11. Heads' = Heads
    BY Zenon, <2>1 DEF Heads
  <2>12. \A q \in Procs : InFlight(q) /\ q # p => buf[q] \in Bufs /\ buf[q] # b /\ head[q] # h
    BY Zenon, <2>5, <2>6 DEF Exclusive, Owned
  <2>13. DriverTypes'
    BY Zenon, <1>0, <2>1, <2>3, <2>7, <2>8 DEF DriverTypes
  <2>14. Chains'
    BY Zenon, <2>1, <2>11 DEF Chains
  <2>15. Owned'
    BY Zenon, <2>1, <2>9, <2>11 DEF Owned
  <2>16. Rings'
    <3>1. InRing' \subseteq Heads' /\ avail' \cap Range(used') = {}
      BY Zenon, <2>1, <2>3, <2>10, <2>11 DEF Rings
    <3>2. ASSUME NEW q \in Procs, InFlight(q)' PROVE bdisk'[buf'[q]] <=> head'[q] \in InRing'
      <4>1. CASE q = p
        BY Zenon, <2>1, <2>5, <2>6, <2>7, <2>10, <4>1
      <4>2. CASE q # p
        <5>1. InFlight(q) /\ buf[q] \in Bufs /\ buf[q] # b /\ head[q] # h
          BY Zenon, <2>9, <2>12, <3>2, <4>2
        <5> QED
          BY Zenon, <2>1, <2>7, <2>10, <5>1 DEF Rings
      <4> QED
        BY Zenon, <4>1, <4>2
    <3>3. ASSUME NEW c \in Bufs, bdisk'[c] PROVE \E q \in Procs : InFlight(q)' /\ buf'[q] = c
      BY Zenon, <2>1, <2>7, <2>9, <3>3 DEF Rings
    <3>4. ASSUME NEW q \in Procs, pc'[q] = "iowait" PROVE bdisk'[buf'[q]]
      <4>1. pc[q] = "iowait" /\ buf[q] # b
        BY Zenon, <2>8, <3>4
      <4>2. InFlight(q) /\ buf[q] \in Bufs /\ bdisk[buf[q]]
        BY Zenon, <4>1 DEF InFlight, Owned, Rings
      <4> QED
        BY Zenon, <2>1, <2>7, <4>1, <4>2
    <3> QED
      BY Zenon, <2>3, <3>1, <3>2, <3>3, <3>4 DEF Rings, Distinct
  <2>17. Transferred'
    BY Zenon, <2>1, <2>9 DEF Transferred
  <2> QED
    BY Zenon, <2>1, <2>8, <2>13, <2>14, <2>15, <2>16, <2>17
<1> QED
  BY Zenon, <1>1, <1>2 DEF Intr

(* virtio_disk_init(), before anybody calls virtio_disk_rw(). *)
LEMMA DriverStarts ==
  ASSUME DriverInit, pc \in [Procs -> Labels], buf \in [Procs -> 0 .. NBUF],
         data \in [Bufs -> Int], disk \in [Blocks -> Int],
         \A p \in Procs : ~InFlight(p)
  PROVE  DriverInv /\ Heads = {} /\ free = Descs
<1>1. /\ bdisk = [b \in Bufs |-> FALSE] /\ free = Descs /\ chain = [d \in Descs |-> {}]
      /\ req = [d \in Descs |-> NoReq] /\ avail = {} /\ used = <<>>
      /\ write = [p \in Procs |-> FALSE] /\ head = [p \in Procs |-> 0]
  BY Zenon DEF DriverInit
<1>2. 0 \in Descs /\ 0 \in 0 .. NBUF /\ used \in Seq(Descs) /\ DOMAIN used = {}
  BY SMT, VirtioConstants, <1>1 DEF Descs
<1>3. NoReq \in Requests
  BY Zenon, <1>2 DEF NoReq, Requests
<1>4. DriverTypes
  BY Zenon, <1>1, <1>2, <1>3 DEF DriverTypes
<1>5. Heads = {} /\ InRing = {} /\ Range(used) = {}
  BY Zenon, <1>1, <1>2 DEF Heads, InRing, Range
<1>6. Chains /\ Owned
  BY Zenon, <1>1, <1>5 DEF Chains, Owned
<1>7. Rings
  <2>1. \A p \in Procs : pc[p] # "iowait"
    BY Zenon DEF InFlight
  <2> QED
    BY Zenon, <1>1, <1>2, <1>5, <2>1 DEF Rings
<1> QED
  BY Zenon, <1>1, <1>4, <1>5, <1>6, <1>7 DEF DriverInv, Transferred
-----------------------------------------------------------------------------
(* What FiniteSetsExt!Min chooses. *)
LEMMA Smallest ==
  ASSUME CardFacts, NEW T \in SUBSET Nat, T # {}
  PROVE  Min(T) \in T /\ \A y \in T : Min(T) <= y
<1>1. \E z \in T : \A y \in T : z <= y
  BY Zenon DEF CardFacts, NatMin
<1> QED
  BY Zenon, <1>1 DEF Min

(* Taking one element of a set that has some. *)
LEMMA TakeOne ==
  ASSUME CardFacts, NEW T \in SUBSET Descs, NEW n \in Nat, Cardinality(T) = n, n >= 1
  PROVE  /\ Min(T) \in T /\ T \ {Min(T)} \in SUBSET Descs /\ n - 1 \in Nat
         /\ Cardinality(T \ {Min(T)}) = n - 1 /\ IsFiniteSet(T)
<1>1. IsFiniteSet(Descs) /\ Descs \in SUBSET Nat
  <2>1. 0 \in Int /\ NUM - 1 \in Int
    BY SMT, VirtioConstants
  <2>2. IsFiniteSet(0 .. NUM - 1)
    BY Zenon, <2>1 DEF CardFacts, CardInterval
  <2>3. \A d \in 0 .. NUM - 1 : d \in Nat
    BY SMT, VirtioConstants
  <2> QED
    BY Zenon, <2>2, <2>3 DEF Descs
<1>2. IsFiniteSet(T)
  BY Zenon, <1>1 DEF CardFacts, CardSubset
<1>3. T # {}
  <2>1. n # 0
    BY SMT
  <2> QED
    BY Zenon, <1>2, <2>1 DEF CardFacts, CardEmpty
<1>4. Min(T) \in T
  BY Zenon, <1>1, <1>3, Smallest
<1>5. Cardinality(T \ {Min(T)}) = n - 1
  BY Zenon, <1>2, <1>4 DEF CardFacts, CardRemove
<1>6. n - 1 \in Nat
  BY SMT
<1> QED
  BY Zenon, <1>2, <1>4, <1>5, <1>6

(* alloc3_desc() finds three descriptors when three are free. *)
LEMMA AllocThree ==
  ASSUME CardFacts, free \in SUBSET Descs, NEW n \in Nat, Cardinality(free) = n, n >= 3
  PROVE  ThreeFree /\ Cardinality(alloc3_desc) = 3 /\ Cardinality(free \ alloc3_desc) = n - 3
<1> DEFINE i == Min(free)
           j == Min(free \ {i})
           k == Min(free \ {i, j})
           F == free \ {i}
           G == F \ {j}
<1>1. n >= 1 /\ n - 1 \in Nat /\ n - 1 >= 1 /\ n - 1 - 1 \in Nat /\ n - 1 - 1 >= 1 /\ n - 1 - 1 - 1 = n - 3
  BY SMT
<1>2. i \in free /\ F \in SUBSET Descs /\ Cardinality(F) = n - 1
  BY Zenon, <1>1, TakeOne
<1>3. j \in F /\ G \in SUBSET Descs /\ Cardinality(G) = n - 1 - 1
  <2> HIDE DEF F
  <2>1. Min(F) \in F /\ F \ {Min(F)} \in SUBSET Descs /\ Cardinality(F \ {Min(F)}) = n - 1 - 1
    BY Zenon, <1>1, <1>2, TakeOne
  <2>2. j = Min(F)
    BY Zenon DEF F
  <2> QED
    BY Zenon, <2>1, <2>2
<1>4. G = free \ {i, j}
  OBVIOUS
<1>5. k \in G /\ Cardinality(G \ {k}) = n - 1 - 1 - 1
  <2> HIDE DEF G
  <2>1. Min(G) \in G /\ Cardinality(G \ {Min(G)}) = n - 1 - 1 - 1
    BY Zenon, <1>1, <1>3, TakeOne
  <2>2. k = Min(G)
    BY Zenon, <1>4
  <2> QED
    BY Zenon, <2>1, <2>2
<1>6. alloc3_desc = {i, j, k}
  BY Zenon DEF alloc3_desc
<1> HIDE DEF i, j, k
<1>7. i # j /\ i # k /\ j # k /\ {i, j, k} \subseteq free
  BY Zenon, <1>2, <1>3, <1>5
<1>8. ThreeFree
  BY Zenon, <1>6, <1>7 DEF ThreeFree, i
<1>9. Cardinality(free \ alloc3_desc) = n - 3
  <2>1. free \ alloc3_desc = G \ {k}
    BY Zenon, <1>6
  <2> QED
    BY Zenon, <1>1, <1>5, <2>1
<1>10. Cardinality({i, j, k}) = 3
  <2>1. IsFiniteSet({i}) /\ Cardinality({i}) = 1
    BY Zenon DEF CardFacts, CardOne
  <2>2. IsFiniteSet({i} \cup {j}) /\ Cardinality({i} \cup {j}) = 1 + 1
    BY Zenon, <1>7, <2>1 DEF CardFacts, CardAdd
  <2>3. IsFiniteSet({i} \cup {j} \cup {k}) /\ Cardinality({i} \cup {j} \cup {k}) = 1 + 1 + 1
    <3>1. k \notin {i} \cup {j}
      BY Zenon, <1>7
    <3> HIDE DEF i, j
    <3> QED
      BY Zenon, <2>2, <3>1 DEF CardFacts, CardAdd
  <2>4. {i} \cup {j} \cup {k} = {i, j, k}
    BY Zenon
  <2>5. 1 + 1 + 1 = 3
    BY SMT
  <2> QED
    BY Zenon, <2>3, <2>4, <2>5
<1> QED
  BY Zenon, <1>6, <1>8, <1>9, <1>10
=============================================================================
