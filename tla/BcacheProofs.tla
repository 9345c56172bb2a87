---------------------------- MODULE BcacheProofs ----------------------------
(***************************************************************************)
(* Proofs about the buffer cache (module Bcache) and the disk driver below *)
(* it, for any number of processes, buffers, blocks and descriptors.       *)
(***************************************************************************)
EXTENDS Bcache, VirtioInvariant

CacheTypes ==
  /\ bno \in [Bufs -> Blocks \cup {NoBlock}] /\ valid \in [Bufs -> BOOLEAN]
  /\ slock \in [Bufs -> Procs \cup {NULL}]
  /\ lru \in [Bufs -> Bufs] /\ pins \in SUBSET Blocks
  /\ want \in [Procs -> Blocks \cup {NoBlock}]
  /\ latest \in [Blocks -> Int] /\ writes \in Nat

(* Every buffer is in the list; a block is cached in one buffer at most,   *)
(* and in one when it is pinned.                                           *)
Listed == \A b \in Bufs : \E i \in Bufs : lru[i] = b
OneBuffer == \A b, c \in Bufs : bno[b] = bno[c] /\ bno[b] # NoBlock => b = c
Pinned == \A k \in pins : \E b \in Bufs : bno[b] = k /\ valid[b]

(* Where a process is says what it has. *)
Asks ==
  \A p \in Procs :
    /\ pc[p] # "idle" => want[p] \in Blocks
    /\ pc[p] \in {"idle", "bget"} => buf[p] = 0
    /\ pc[p] \notin {"idle", "bget"} => buf[p] \in Bufs /\ bno[buf[p]] = want[p]

(* Between acquiresleep() and releasesleep(). *)
Busy(p) == pc[p] \in {"rw", "nodesc", "iowait", "iodone", "use"}
Locked ==
  /\ \A p \in Procs, b \in Bufs : slock[b] = p <=> Busy(p) /\ buf[p] = b
  /\ \A p \in Procs : pc[p] = "locksleep" => slock[buf[p]] # NULL

(* A request is for the block of its buffer; who reads has a buffer that   *)
(* is not valid, who writes one that is.                                   *)
Aims ==
  /\ \A p \in Procs : InFlight(p) => req[head[p]].block = bno[buf[p]]
  /\ \A p \in Procs : Busy(p) => (valid[buf[p]] <=> write[p] \/ pc[p] = "use")

(* What was last stored in a block is in its valid buffer, and on the disk *)
(* unless the log pins the block or bwrite() is under way.                 *)
Writing(p) == Busy(p) /\ pc[p] # "use" /\ write[p]
InBuffer == \A b \in Bufs : bno[b] # NoBlock /\ valid[b] => data[b] = latest[bno[b]]
OnDisk ==
  \A k \in Blocks :
    \/ disk[k] = latest[k]
    \/ k \in pins
    \/ \E p \in Procs : Writing(p) /\ bno[buf[p]] = k

CacheInv ==
  CacheTypes /\ Listed /\ OneBuffer /\ Pinned /\ Asks /\ Locked /\ Aims /\ InBuffer /\ OnDisk

(* What counting ensures, as shown at the end: an unused buffer is neither *)
(* used nor pinned, bget() finds one if there is one, and alloc3_desc()    *)
(* finds three descriptors.                                                *)
Users(b) == {p \in Procs : buf[p] = b}
Counting ==
  /\ \A b \in Unused : Users(b) = {} /\ bno[b] \notin pins
  /\ Unused # {} => lru[Max({i \in DOMAIN lru : lru[i] \in Unused})] \in Unused
  /\ Cardinality(free) >= 3 => ThreeFree
-----------------------------------------------------------------------------
LEMMA BlockFacts == NoBlock \notin Blocks /\ NULL \notin Procs /\ 0 \notin Bufs
<1>1. 0 \notin Bufs
  BY SMT DEF Bufs
<1> QED
  BY Zenon, <1>1, BcacheConstants

(* The holder of a sleep lock is alone with the buffer and its block. *)
LEMMA Holders ==
  ASSUME CacheInv, DriverInv
  PROVE  /\ \A p \in Procs : Busy(p) =>
              /\ buf[p] \in Bufs /\ slock[buf[p]] = p /\ slock[buf[p]] # NULL
              /\ bno[buf[p]] = want[p] /\ want[p] \in Blocks /\ bno[buf[p]] # NoBlock
         /\ \A p, q \in Procs : Busy(p) /\ Busy(q) /\ buf[p] = buf[q] => p = q
         /\ \A p, q \in Procs : Busy(p) /\ Busy(q) /\ bno[buf[p]] = bno[buf[q]] => p = q
         /\ \A p \in Procs : InFlight(p) => Busy(p)
         /\ Exclusive
<1>1. \A p \in Procs : Busy(p) => buf[p] \in Bufs /\ bno[buf[p]] = want[p] /\ want[p] \in Blocks
  BY Zenon DEF CacheInv, Asks, Busy
<1>2. \A p \in Procs : Busy(p) => slock[buf[p]] = p /\ slock[buf[p]] # NULL /\ bno[buf[p]] # NoBlock
  <2> SUFFICES ASSUME NEW p \in Procs, Busy(p)
               PROVE  slock[buf[p]] = p /\ slock[buf[p]] # NULL /\ bno[buf[p]] # NoBlock
    OBVIOUS
  <2>1. slock[buf[p]] = p
    BY Zenon, <1>1 DEF CacheInv, Locked
  <2>2. p # NULL /\ want[p] # NoBlock
    BY Zenon, <1>1, BlockFacts
  <2> QED
    BY Zenon, <1>1, <2>1, <2>2
<1>3. \A p, q \in Procs : Busy(p) /\ Busy(q) /\ buf[p] = buf[q] => p = q
  BY Zenon, <1>2
<1>4. \A p, q \in Procs : Busy(p) /\ Busy(q) /\ bno[buf[p]] = bno[buf[q]] => p = q
  BY Zenon, <1>1, <1>2, <1>3 DEF CacheInv, OneBuffer
<1>5. \A p \in Procs : InFlight(p) => Busy(p)
  BY Zenon DEF InFlight, Busy
<1>6. Exclusive
  BY Zenon, <1>3, <1>4, <1>5 DEF Exclusive, CacheInv, Aims
<1> QED
  BY Zenon, <1>1, <1>2, <1>3, <1>4, <1>5, <1>6

(* Steps that move processes only between places with the same meaning. *)
Alike(l, m) ==
  \/ l = m
  \/ \E S \in {{"lock", "locksleep"}, {"rw", "nodesc"}, {"iowait", "iodone"}} : l \in S /\ m \in S

LEMMA AlikeStep ==
  ASSUME CacheInv, UNCHANGED <<bno, valid, slock, lru, pins, want, latest, writes>>,
         UNCHANGED <<buf, write, head, req, data, disk>>,
         \A p \in Procs : Alike(pc[p], pc'[p]) /\ (pc'[p] = "locksleep" => slock[buf[p]] # NULL)
  PROVE  CacheInv'
<1> USE DEF CacheInv
<1>1. \A p \in Procs :
        /\ (pc'[p] = "use" <=> pc[p] = "use") /\ (pc'[p] = "idle" <=> pc[p] = "idle")
        /\ (pc'[p] = "bget" <=> pc[p] = "bget")
        /\ (pc'[p] \in {"rw", "nodesc"} <=> pc[p] \in {"rw", "nodesc"})
        /\ (pc'[p] \in {"iowait", "iodone"} <=> pc[p] \in {"iowait", "iodone"})
  BY Zenon DEF Alike
<1>2. \A p \in Procs : (Busy(p)' <=> Busy(p)) /\ (InFlight(p)' <=> InFlight(p)) /\ (Writing(p)' <=> Writing(p))
  <2> SUFFICES ASSUME NEW p \in Procs
               PROVE  (Busy(p)' <=> Busy(p)) /\ (InFlight(p)' <=> InFlight(p)) /\ (Writing(p)' <=> Writing(p))
    OBVIOUS
  <2>1. Busy(p)' <=> Busy(p)
    BY Zenon, <1>1 DEF Busy
  <2>2. InFlight(p)' <=> InFlight(p)
    BY Zenon, <1>1 DEF InFlight
  <2>3. Writing(p)' <=> Writing(p)
    BY Zenon, <1>1, <2>1 DEF Writing
  <2> QED
    BY Zenon, <2>1, <2>2, <2>3
<1>3. CacheTypes' /\ Listed' /\ OneBuffer' /\ Pinned' /\ InBuffer'
  BY Zenon DEF CacheTypes, Listed, OneBuffer, Pinned, InBuffer
<1>4. Asks'
  BY Zenon, <1>1 DEF Asks
<1>5. Locked'
  BY Zenon, <1>2 DEF Locked
<1>6. Aims'
  BY Zenon, <1>1, <1>2 DEF Aims
<1>7. OnDisk'
  BY Zenon, <1>2 DEF OnDisk
<1> QED
  BY Zenon, <1>3, <1>4, <1>5, <1>6, <1>7

(* bread(k) is called. *)
LEMMA BreadStep ==
  ASSUME CacheInv, DriverInv, NEW p \in Procs, NEW k \in Blocks, Bread(p, k)
  PROVE  DriverInv' /\ CacheInv'
<1> USE DEF CacheInv
<1>0. CacheTypes /\ DriverTypes
  BY Zenon DEF DriverInv
<1>1. pc[p] = "idle" /\ want' = [want EXCEPT ![p] = k] /\ pc' = [pc EXCEPT ![p] = "bget"]
  BY Zenon DEF Bread, At, Goto
<1>2. /\ bno' = bno /\ valid' = valid /\ slock' = slock /\ lru' = lru /\ pins' = pins
      /\ latest' = latest /\ writes' = writes /\ buf' = buf /\ write' = write /\ head' = head
      /\ bdisk' = bdisk /\ data' = data /\ disk' = disk
      /\ free' = free /\ chain' = chain /\ req' = req /\ avail' = avail /\ used' = used
  BY Zenon DEF Bread, driver, bounds
<1>3. /\ pc' \in [Procs -> Labels] /\ pc'[p] = "bget" /\ \A q \in Procs : q # p => pc'[q] = pc[q]
      /\ want' \in [Procs -> Blocks \cup {NoBlock}] /\ want'[p] = k
      /\ \A q \in Procs : q # p => want'[q] = want[q]
  BY Zenon, <1>0, <1>1 DEF CacheTypes, DriverTypes, Labels
<1>4. \A q \in Procs : (Busy(q)' <=> Busy(q)) /\ (InFlight(q)' <=> InFlight(q)) /\ (Writing(q)' <=> Writing(q))
                       /\ (Busy(q) => q # p)
  BY Zenon, <1>1, <1>2, <1>3 DEF Busy, InFlight, Writing
<1>5. DriverInv'
  <2>1. DriverTypes'
    BY Zenon, <1>0, <1>2, <1>3 DEF DriverTypes
  <2>2. \A q \in Procs : pc'[q] = "iowait" => bdisk[buf[q]]
    BY Zenon, <1>3 DEF DriverInv, Rings
  <2> QED
    BY Zenon, <1>2, <1>4, <2>1, <2>2, DriverFrame
<1>6. CacheTypes' /\ Listed' /\ OneBuffer' /\ Pinned' /\ InBuffer'
  BY Zenon, <1>2, <1>3 DEF CacheTypes, Listed, OneBuffer, Pinned, InBuffer
<1>7. Asks'
  <2>1. buf[p] = 0
    BY Zenon, <1>1 DEF Asks
  <2> QED
    BY Zenon, <1>2, <1>3, <2>1 DEF Asks
<1>8. Locked'
  <2>1. \A q \in Procs : pc'[q] = "locksleep" => pc[q] = "locksleep"
    BY Zenon, <1>3
  <2> QED
    BY Zenon, <1>2, <1>4, <2>1 DEF Locked
<1>9. Aims'
  <2>1. \A q \in Procs : Busy(q) => pc'[q] = pc[q]
    BY Zenon, <1>3, <1>4
  <2> QED
    BY Zenon, <1>2, <1>4, <2>1 DEF Aims
<1>10. OnDisk'
  BY Zenon, <1>2, <1>4 DEF OnDisk
<1> QED
  BY Zenon, <1>5, <1>6, <1>7, <1>8, <1>9, <1>10

(* bget() returns a buffer, found or recycled. *)
LEMMA BgetStep ==
  ASSUME CacheInv, DriverInv, Counting, NEW p \in Procs, BgetHit(p) \/ BgetMiss(p)
  PROVE  DriverInv' /\ CacheInv'
<1> USE DEF CacheInv
<1>0. CacheTypes /\ DriverTypes /\ pc[p] = "bget" /\ want[p] \in Blocks
  BY Zenon DEF DriverInv, Asks, BgetHit, BgetMiss, At
<1>1. /\ slock' = slock /\ lru' = lru /\ pins' = pins /\ want' = want
      /\ latest' = latest /\ writes' = writes /\ write' = write /\ head' = head
      /\ bdisk' = bdisk /\ data' = data /\ disk' = disk
      /\ free' = free /\ chain' = chain /\ req' = req /\ avail' = avail /\ used' = used
  BY Zenon DEF BgetHit, BgetMiss, driver, bounds
<1>2. \/ pc' = pc /\ buf' = buf /\ bno' = bno /\ valid' = valid
      \/ \E b \in Bufs :
           /\ pc' = [pc EXCEPT ![p] = "lock"] /\ buf' = [buf EXCEPT ![p] = b]
           /\ \/ bno[b] = want[p] /\ bno' = bno /\ valid' = valid
              \/ /\ b \in Unused /\ Cached(want[p]) = {}
                 /\ bno' = [bno EXCEPT ![b] = want[p]] /\ valid' = [valid EXCEPT ![b] = FALSE]
  <2>1. CASE BgetHit(p)
    BY Zenon, <2>1 DEF BgetHit, Cached, Goto
  <2>2. CASE BgetMiss(p)
    <3>1. CASE Unused = {}
      BY Zenon, <2>2, <3>1 DEF BgetMiss
    <3>2. CASE Unused # {}
      <4> DEFINE b == lru[Max({i \in DOMAIN lru : lru[i] \in Unused})]
      <4>1. b \in Unused /\ b \in Bufs
        BY Zenon, <3>2 DEF Counting, Unused
      <4>2. /\ Cached(want[p]) = {} /\ bno' = [bno EXCEPT ![b] = want[p]] /\ valid' = [valid EXCEPT ![b] = FALSE]
            /\ buf' = [buf EXCEPT ![p] = b] /\ pc' = [pc EXCEPT ![p] = "lock"]
        BY Zenon, <2>2, <3>2 DEF BgetMiss, Goto
      <4> HIDE DEF b
      <4> QED
        BY Zenon, <4>1, <4>2
    <3> QED
      BY Zenon, <3>1, <3>2
  <2> QED
    BY Zenon, <2>1, <2>2
<1>3. CASE pc' = pc /\ buf' = buf /\ bno' = bno /\ valid' = valid
  <2>1. \A q \in Procs : (InFlight(q)' <=> InFlight(q)) /\ Alike(pc[q], pc'[q])
    BY Zenon, <1>3 DEF InFlight, Alike
  <2>2. DriverTypes'
    BY Zenon, <1>0, <1>1, <1>3 DEF DriverTypes
  <2>3. DriverInv'
    BY Zenon, <1>1, <1>3, <2>1, <2>2, DriverFrame DEF DriverInv, Rings
  <2>4. CacheInv'
    BY Zenon, <1>1, <1>3, <2>1, AlikeStep DEF Locked
  <2> QED
    BY Zenon, <2>3, <2>4
<1>4. ASSUME NEW b \in Bufs, pc' = [pc EXCEPT ![p] = "lock"], buf' = [buf EXCEPT ![p] = b],
             \/ bno[b] = want[p] /\ bno' = bno /\ valid' = valid
             \/ /\ b \in Unused /\ Cached(want[p]) = {}
                /\ bno' = [bno EXCEPT ![b] = want[p]] /\ valid' = [valid EXCEPT ![b] = FALSE]
      PROVE  DriverInv' /\ CacheInv'
  <2>1. /\ pc' \in [Procs -> Labels] /\ pc'[p] = "lock" /\ \A q \in Procs : q # p => pc'[q] = pc[q]
        /\ buf' \in [Procs -> 0 .. NBUF] /\ buf'[p] = b /\ \A q \in Procs : q # p => buf'[q] = buf[q]
    <3>1. b \in 0 .. NBUF
      BY SMT DEF Bufs
    <3> QED
      BY Zenon, <1>0, <1>4, <3>1 DEF DriverTypes, Labels
  <2>2. \A q \in Procs : /\ (Busy(q)' <=> Busy(q)) /\ (InFlight(q)' <=> InFlight(q))
                          /\ (Writing(q)' <=> Writing(q)) /\ (Busy(q) => q # p)
    BY Zenon, <1>0, <1>1, <2>1 DEF Busy, InFlight, Writing
  <2>3. DriverInv'
    <3>1. DriverTypes'
      BY Zenon, <1>0, <1>1, <2>1 DEF DriverTypes
    <3>2. \A q \in Procs : InFlight(q) => q # p
      BY Zenon, <2>2, Holders
    <3>3. \A q \in Procs : pc'[q] = "iowait" => bdisk[buf[q]]
      BY Zenon, <2>1 DEF DriverInv, Rings
    <3> QED
      BY Zenon, <1>1, <2>1, <2>2, <3>1, <3>2, <3>3, DriverFrame
  <2>4. /\ bno'[b] = want[p] /\ \A c \in Bufs : c # b => bno'[c] = bno[c] /\ valid'[c] = valid[c]
        /\ bno' \in [Bufs -> Blocks \cup {NoBlock}] /\ valid' \in [Bufs -> BOOLEAN]
        /\ \/ bno'[b] = bno[b] /\ valid'[b] = valid[b]
           \/ b \in Unused /\ ~valid'[b] /\ Cached(want[p]) = {}
    BY Zenon, <1>0, <1>4 DEF CacheTypes
  <2>5. \A q \in Procs : q # p /\ buf[q] \in Bufs => bno'[buf[q]] = bno[buf[q]] /\ valid'[buf[q]] = valid[buf[q]]
    <3>1. \A q \in Procs : b \in Unused => buf[q] # b
      BY Zenon DEF Counting, Users
    <3> QED
      BY Zenon, <2>4, <3>1
  <2>6. CacheTypes' /\ Listed'
    BY Zenon, <1>0, <1>1, <2>4 DEF CacheTypes, Listed
  <2>7. OneBuffer'
    <3>1. \A c \in Bufs : c # b => bno[c] # want[p]
      BY Zenon, <1>0, <1>4, BlockFacts DEF OneBuffer, Cached
    <3> QED
      BY Zenon, <2>4, <3>1 DEF OneBuffer
  <2>8. Pinned'
    <3> SUFFICES ASSUME NEW k \in pins PROVE \E c \in Bufs : bno'[c] = k /\ valid'[c]
      BY Zenon, <1>1 DEF Pinned
    <3>1. PICK c \in Bufs : bno[c] = k /\ valid[c]
      BY Zenon DEF Pinned
    <3>2. c = b => b \notin Unused
      BY Zenon, <3>1 DEF Counting
    <3> QED
      BY Zenon, <2>4, <3>1, <3>2
  <2>9. Asks'
    <3>1. \A q \in Procs : q # p /\ pc[q] \notin {"idle", "bget"} => buf[q] \in Bufs /\ bno'[buf[q]] = want[q]
      BY Zenon, <2>5 DEF Asks
    <3> QED
      BY Zenon, <1>0, <1>1, <2>1, <2>4, <3>1 DEF Asks
  <2>10. Locked'
    <3>1. \A q \in Procs : pc'[q] = "locksleep" => q # p /\ pc[q] = "locksleep" /\ buf'[q] = buf[q]
      BY Zenon, <2>1
    <3>2. ASSUME NEW q \in Procs, NEW c \in Bufs
          PROVE  Busy(q)' /\ buf'[q] = c <=> Busy(q) /\ buf[q] = c
      <4>1. CASE q = p
        BY Zenon, <2>2, <4>1
      <4>2. CASE q # p
        BY Zenon, <2>1, <2>2, <4>2
      <4> QED
        BY Zenon, <4>1, <4>2
    <3>3. ASSUME NEW q \in Procs, NEW c \in Bufs
          PROVE  slock'[c] = q <=> Busy(q)' /\ buf'[q] = c
      <4>1. slock[c] = q <=> Busy(q) /\ buf[q] = c
        BY Zenon DEF Locked
      <4> QED
        BY Zenon, <1>1, <3>2, <4>1
    <3> QED
      BY Zenon, <1>1, <3>1, <3>3 DEF Locked
  <2>11. Aims'
    <3>1. \A q \in Procs : Busy(q) => /\ pc'[q] = pc[q] /\ buf'[q] = buf[q]
                                      /\ bno'[buf'[q]] = bno[buf[q]] /\ valid'[buf'[q]] = valid[buf[q]]
      BY Zenon, <2>1, <2>2, <2>5, Holders
    <3>2. \A q \in Procs : InFlight(q) => Busy(q)
      BY Zenon, Holders
    <3> QED
      BY Zenon, <1>1, <2>2, <3>1, <3>2 DEF Aims
  <2>12. InBuffer'
    BY Zenon, <1>1, <2>4 DEF InBuffer
  <2>13. OnDisk'
    <3>1. ASSUME NEW q \in Procs, Writing(q) PROVE bno'[buf'[q]] = bno[buf[q]]
      <4>1. Busy(q) /\ buf[q] \in Bufs
        BY Zenon, <3>1, Holders DEF Writing
      <4> QED
        BY Zenon, <2>1, <2>2, <2>5, <4>1
    <3> QED
      BY Zenon, <1>1, <2>2, <3>1 DEF OnDisk
  <2> QED
    BY Zenon, <2>3, <2>6, <2>7, <2>8, <2>9, <2>10, <2>11, <2>12, <2>13
<1> QED
  BY Zenon, <1>2, <1>3, <1>4

(* Whoever goes to sleep or is woken, by the driver, by kill() or on the   *)
(* sleep lock.                                                             *)
LEMMA WaitStep ==
  ASSUME CacheInv, DriverInv, NEW p \in Procs,
         \/ AcquireWait(p) \/ Kill(p)
         \/ (RwNoDesc(p) \/ RwAgain(p) \/ Intr) /\ UNCHANGED <<cache, bounds>>
  PROVE  DriverInv' /\ CacheInv'
<1> USE DEF CacheInv
<1>0. pc \in [Procs -> Labels] /\ DriverTypes
  BY Zenon DEF DriverInv, DriverTypes
<1>1. UNCHANGED <<bno, valid, slock, lru, pins, want, latest, writes, buf, write, head, req, data, disk>>
  <2>1. CASE AcquireWait(p) \/ Kill(p)
    BY Zenon, <2>1 DEF AcquireWait, Kill, cache, bounds, driver
  <2>2. CASE (RwNoDesc(p) \/ RwAgain(p) \/ Intr) /\ UNCHANGED <<cache, bounds>>
    BY Zenon, <2>2 DEF RwNoDesc, RwAgain, Intr, IntrStart, IntrEntry, IntrEnd, cache, bounds, driver
  <2> QED
    BY Zenon, <2>1, <2>2
<1>2. \A q \in Procs : pc[q] = "locksleep" => slock[buf[q]] # NULL
  BY Zenon DEF Locked
<1>3. CASE AcquireWait(p) \/ Kill(p)
  <2>1. UNCHANGED <<free, chain, req, avail, used, head, bdisk, disk>>
    BY Zenon, <1>3 DEF AcquireWait, Kill, driver
  <2>2. PICK l \in Labels :
          /\ pc' = [pc EXCEPT ![p] = l] /\ Alike(pc[p], l) /\ l # "iowait"
          /\ l = "locksleep" => slock[buf[p]] # NULL
    BY Zenon, <1>3 DEF AcquireWait, Kill, At, Goto, Alike, Labels
  <2>3. pc' \in [Procs -> Labels] /\ pc'[p] = l /\ \A q \in Procs : q # p => pc'[q] = pc[q]
    BY Zenon, <1>0, <2>2
  <2>4. \A q \in Procs : Alike(pc[q], pc'[q]) /\ (pc'[q] = "locksleep" => slock[buf[q]] # NULL)
    BY Zenon, <1>2, <2>2, <2>3 DEF Alike
  <2>5. \A q \in Procs : (InFlight(q)' <=> InFlight(q)) /\ (pc'[q] = "iowait" => bdisk[buf[q]])
    <3>1. InFlight(p)' <=> InFlight(p)
      BY Zenon, <2>2, <2>3 DEF Alike, InFlight
    <3> QED
      BY Zenon, <2>2, <2>3, <3>1 DEF InFlight, DriverInv, Rings
  <2>6. DriverTypes'
    BY Zenon, <1>0, <1>1, <2>1, <2>3 DEF DriverTypes
  <2>7. DriverInv'
    BY Zenon, <1>1, <2>1, <2>5, <2>6, DriverFrame
  <2>8. CacheInv'
    BY Zenon, <1>1, <2>4, AlikeStep
  <2> QED
    BY Zenon, <2>7, <2>8
<1>4. CASE RwNoDesc(p)
  <2>1. \A q \in Procs : WakeFree[q] = IF pc[q] = "nodesc" THEN "rw" ELSE pc[q]
    BY Zenon DEF WakeFree
  <2>2. WakeFree \in [Procs -> Labels]
    BY Zenon, <1>0 DEF WakeFree, Labels
  <2>3. pc[p] = "rw" /\ (pc' = [WakeFree EXCEPT ![p] = "nodesc"] \/ pc' = [pc EXCEPT ![p] = "nodesc"])
    BY Zenon, <1>4 DEF RwNoDesc
  <2>4. /\ pc'[p] = "nodesc" /\ \A q \in Procs : q # p => pc'[q] = WakeFree[q] \/ pc'[q] = pc[q]
    BY Zenon, <1>0, <2>2, <2>3
  <2>5. \A q \in Procs : Alike(pc[q], pc'[q]) /\ (pc'[q] = "locksleep" => pc[q] = "locksleep")
    <3>1. Alike("rw", "nodesc") /\ Alike("nodesc", "rw") /\ \A l : Alike(l, l)
      BY Zenon DEF Alike
    <3> QED
      BY Zenon, <2>1, <2>3, <2>4, <3>1
  <2>6. CacheInv'
    BY Zenon, <1>1, <1>2, <2>5, AlikeStep
  <2> QED
    BY Zenon, <1>4, <2>6, RwWaits
<1>5. CASE RwAgain(p)
  <2>1. pc[p] = "iodone" /\ pc' = [pc EXCEPT ![p] = "iowait"]
    BY Zenon, <1>5 DEF RwAgain
  <2>2. pc'[p] = "iowait" /\ \A q \in Procs : q # p => pc'[q] = pc[q]
    BY Zenon, <1>0, <2>1
  <2>3. \A q \in Procs : Alike(pc[q], pc'[q]) /\ (pc'[q] = "locksleep" => pc[q] = "locksleep")
    BY Zenon, <2>1, <2>2 DEF Alike
  <2>4. CacheInv'
    BY Zenon, <1>1, <1>2, <2>3, AlikeStep
  <2> QED
    BY Zenon, <1>5, <2>4, RwWaits
<1>6. CASE Intr
  <2>1. DriverInv' /\ \A q \in Procs : pc'[q] = pc[q] \/ (pc[q] = "iowait" /\ pc'[q] = "iodone")
    BY Zenon, <1>6, Holders, IntrAnswers
  <2>2. \A q \in Procs : Alike(pc[q], pc'[q]) /\ (pc'[q] = "locksleep" => pc[q] = "locksleep")
    BY Zenon, <2>1 DEF Alike
  <2>3. CacheInv'
    BY Zenon, <1>1, <1>2, <2>2, AlikeStep
  <2> QED
    BY Zenon, <2>1, <2>3
<1> QED
  BY Zenon, <1>3, <1>4, <1>5, <1>6

(* acquiresleep() takes the lock of the buffer. *)
LEMMA AcquireStep ==
  ASSUME CacheInv, DriverInv, NEW p \in Procs, AcquireSleep(p)
  PROVE  DriverInv' /\ CacheInv'
<1> USE DEF CacheInv
<1> DEFINE b == buf[p]
<1>0. CacheTypes /\ DriverTypes
  BY Zenon DEF DriverInv
<1>1. /\ pc[p] = "lock" /\ slock[b] = NULL /\ slock' = [slock EXCEPT ![b] = p]
      /\ \/ valid[b] /\ pc' = [pc EXCEPT ![p] = "use"] /\ write' = write
         \/ ~valid[b] /\ pc' = [pc EXCEPT ![p] = "rw"] /\ write' = [write EXCEPT ![p] = FALSE]
  BY Zenon DEF AcquireSleep, At, Goto
<1>2. /\ bno' = bno /\ valid' = valid /\ lru' = lru /\ pins' = pins /\ want' = want
      /\ latest' = latest /\ writes' = writes /\ buf' = buf /\ head' = head
      /\ bdisk' = bdisk /\ data' = data /\ disk' = disk
      /\ free' = free /\ chain' = chain /\ req' = req /\ avail' = avail /\ used' = used
  BY Zenon DEF AcquireSleep, driver, bounds
<1>3. b \in Bufs /\ bno[b] = want[p] /\ want[p] \in Blocks /\ ~Busy(p) /\ ~InFlight(p)
  BY Zenon, <1>1 DEF Asks, Busy, InFlight
<1>4. /\ pc' \in [Procs -> Labels] /\ \A q \in Procs : q # p => pc'[q] = pc[q] /\ write'[q] = write[q]
      /\ write' \in [Procs -> BOOLEAN]
      /\ \/ valid[b] /\ pc'[p] = "use"
         \/ ~valid[b] /\ pc'[p] = "rw" /\ ~write'[p]
  BY Zenon, <1>0, <1>1 DEF DriverTypes, Labels
<1>5. /\ slock' \in [Bufs -> Procs \cup {NULL}] /\ slock'[b] = p
      /\ \A c \in Bufs : c # b => slock'[c] = slock[c]
  BY Zenon, <1>0, <1>1, <1>3 DEF CacheTypes
<1> HIDE DEF b
<1>6. /\ Busy(p)' /\ ~InFlight(p)' /\ ~Writing(p)'
      /\ \A q \in Procs : q # p =>
           (Busy(q)' <=> Busy(q)) /\ (InFlight(q)' <=> InFlight(q)) /\ (Writing(q)' <=> Writing(q))
  BY Zenon, <1>2, <1>4 DEF Busy, InFlight, Writing
<1>7. DriverInv'
  <2>1. DriverTypes'
    BY Zenon, <1>0, <1>2, <1>4 DEF DriverTypes
  <2>2. \A q \in Procs : (InFlight(q)' <=> InFlight(q)) /\ (InFlight(q) => q # p)
    BY Zenon, <1>3, <1>6
  <2>3. \A q \in Procs : pc'[q] = "iowait" => bdisk[buf[q]]
    BY Zenon, <1>4 DEF DriverInv, Rings
  <2> QED
    BY Zenon, <1>2, <1>4, <2>1, <2>2, <2>3, DriverFrame
<1>8. CacheTypes' /\ Listed' /\ OneBuffer' /\ Pinned' /\ InBuffer'
  BY Zenon, <1>0, <1>2, <1>5 DEF CacheTypes, Listed, OneBuffer, Pinned, InBuffer
<1>9. Asks'
  BY Zenon, <1>2, <1>3, <1>4 DEF Asks, b
<1>10. Locked'
  <2>1. ASSUME NEW q \in Procs, NEW c \in Bufs PROVE slock'[c] = q <=> Busy(q)' /\ buf'[q] = c
    <3>1. slock[c] = q <=> Busy(q) /\ buf[q] = c
      BY Zenon DEF Locked
    <3>2. buf' = buf
      BY Zenon, <1>2
    <3>3. CASE q = p
      <4>1. slock[c] # p
        BY Zenon, <1>3, <3>1, <3>3
      <4> QED
        BY Zenon, <1>5, <1>6, <3>2, <3>3, <4>1 DEF b
    <3>4. CASE q # p
      <4>1. slock[b] # q
        BY Zenon, <1>1, BlockFacts DEF b
      <4> QED
        BY Zenon, <1>5, <1>6, <3>1, <3>2, <3>4, <4>1
    <3> QED
      BY Zenon, <3>3, <3>4
  <2>2. ASSUME NEW q \in Procs, pc'[q] = "locksleep" PROVE slock'[buf'[q]] # NULL
    <3>1. pc[q] = "locksleep" /\ buf'[q] = buf[q]
      BY Zenon, <1>2, <1>4, <2>2
    <3>2. buf[q] \in Bufs /\ slock[buf[q]] # NULL
      BY Zenon, <3>1 DEF Asks, Locked
    <3> QED
      BY Zenon, <1>5, <3>1, <3>2, BlockFacts
  <2> QED
    BY Zenon, <2>1, <2>2 DEF Locked
<1>11. Aims'
  <2>1. \A q \in Procs : InFlight(q)' => req'[head'[q]].block = bno'[buf'[q]]
    BY Zenon, <1>2, <1>6 DEF Aims
  <2>2. ASSUME NEW q \in Procs, Busy(q)' PROVE valid'[buf'[q]] <=> write'[q] \/ pc'[q] = "use"
    <3>1. CASE q = p
      BY Zenon, <1>2, <1>4, <3>1 DEF b
    <3>2. CASE q # p
      BY Zenon, <1>2, <1>4, <1>6, <2>2, <3>2 DEF Aims
    <3> QED
      BY Zenon, <3>1, <3>2
  <2> QED
    BY Zenon, <2>1, <2>2 DEF Aims
<1>12. OnDisk'
  <2>1. \A q \in Procs : Writing(q) => Writing(q)'
    BY Zenon, <1>3, <1>6 DEF Writing
  <2> QED
    BY Zenon, <1>2, <2>1 DEF OnDisk
<1> QED
  BY Zenon, <1>7, <1>8, <1>9, <1>10, <1>11, <1>12

(* virtio_disk_rw() starts the transfer of a buffer. *)
LEMMA StartStep ==
  ASSUME CacheInv, DriverInv, Counting, NEW p \in Procs, RwStart(p, bno[buf[p]]),
         UNCHANGED <<cache, bounds>>
  PROVE  DriverInv' /\ CacheInv' /\ Heads' = Heads \cup {Min(free)} /\ Min(free) \notin Heads
<1> USE DEF CacheInv
<1>0. DriverTypes
  BY Zenon DEF DriverInv
<1>1. /\ pc[p] = "rw" /\ pc' = [pc EXCEPT ![p] = "iowait"] /\ ThreeFree
      /\ req' = [req EXCEPT ![Min(free)] = [buf |-> buf[p], write |-> write[p], block |-> bno[buf[p]]]]
      /\ head' = [head EXCEPT ![p] = Min(free)]
  BY Zenon DEF RwStart, Counting
<1>2. /\ bno' = bno /\ valid' = valid /\ slock' = slock /\ lru' = lru /\ pins' = pins /\ want' = want
      /\ latest' = latest /\ writes' = writes /\ buf' = buf /\ write' = write
      /\ data' = data /\ disk' = disk
  BY Zenon DEF RwStart, cache, bounds
<1>3. Busy(p) /\ ~InFlight(p) /\ buf[p] \in Bufs /\ bno[buf[p]] \in Blocks
  <2>1. Busy(p) /\ ~InFlight(p)
    BY Zenon, <1>1 DEF Busy, InFlight
  <2> QED
    BY Zenon, <2>1, Holders
<1>4. \A q \in Procs : InFlight(q) => buf[q] # buf[p]
  BY Zenon, <1>3, Holders
<1>5. DriverInv' /\ Heads' = Heads \cup {Min(free)} /\ Min(free) \notin Heads
  BY Zenon, <1>1, <1>3, <1>4, RwStarts
<1>6. pc'[p] = "iowait" /\ \A q \in Procs : q # p => pc'[q] = pc[q]
  BY Zenon, <1>0, <1>1 DEF DriverTypes
<1>7. /\ Busy(p)' /\ InFlight(p)'
      /\ \A q \in Procs : q # p => (InFlight(q)' <=> InFlight(q))
      /\ \A q \in Procs : (Busy(q)' <=> Busy(q)) /\ (pc'[q] = "use" <=> pc[q] = "use")
      /\ \A q \in Procs : Writing(q)' <=> Writing(q)
  BY Zenon, <1>1, <1>2, <1>3, <1>6 DEF Busy, InFlight, Writing
<1>8. CacheTypes' /\ Listed' /\ OneBuffer' /\ Pinned' /\ InBuffer'
  BY Zenon, <1>2 DEF CacheTypes, Listed, OneBuffer, Pinned, InBuffer
<1>9. Asks'
  BY Zenon, <1>1, <1>2, <1>6 DEF Asks
<1>10. Locked'
  <2>1. \A q \in Procs : pc'[q] = "locksleep" => pc[q] = "locksleep"
    BY Zenon, <1>6
  <2> QED
    BY Zenon, <1>2, <1>7, <2>1 DEF Locked
<1>11. Aims'
  <2>1. ASSUME NEW q \in Procs, InFlight(q)' PROVE req'[head'[q]].block = bno'[buf'[q]]
    <3>1. Min(free) \in Descs
      BY Zenon, <1>0, <1>1 DEF ThreeFree, DriverTypes
    <3>2. CASE q = p
      <4>1. req'[head'[p]] = [buf |-> buf[p], write |-> write[p], block |-> bno[buf[p]]]
        BY Zenon, <1>0, <1>1, <3>1 DEF DriverTypes
      <4>2. req'[head'[p]].block = bno[buf[p]]
        BY SMT, <4>1
      <4>3. bno'[buf'[p]] = bno[buf[p]]
        BY Zenon, <1>2
      <4> QED
        BY Zenon, <3>2, <4>2, <4>3
    <3>3. CASE q # p
      <4>1. InFlight(q) /\ head'[q] = head[q]
        BY Zenon, <1>0, <1>1, <1>7, <2>1, <3>3 DEF DriverTypes
      <4>2. head[q] \in Heads /\ head[q] \in Descs
        BY Zenon, <4>1 DEF DriverInv, Owned, Heads
      <4>3. req'[head[q]] = req[head[q]]
        BY Zenon, <1>0, <1>1, <1>5, <4>2 DEF DriverTypes
      <4>4. req[head[q]].block = bno[buf[q]] /\ bno'[buf'[q]] = bno[buf[q]]
        BY Zenon, <1>2, <4>1 DEF Aims
      <4> QED
        BY Zenon, <4>1, <4>3, <4>4
    <3> QED
      BY Zenon, <3>2, <3>3
  <2> QED
    BY Zenon, <1>2, <1>7, <2>1 DEF Aims
<1>12. OnDisk'
  BY Zenon, <1>2, <1>7 DEF OnDisk
<1> QED
  BY Zenon, <1>5, <1>8, <1>9, <1>10, <1>11, <1>12

(* virtio_disk_rw() returns: what was read is what was last stored in the  *)
(* block, and what was written is on the disk.                             *)
LEMMA ReturnStep ==
  ASSUME CacheInv, DriverInv, NEW p \in Procs, RwDone(p),
         valid' = [valid EXCEPT ![buf[p]] = TRUE],
         UNCHANGED <<bno, refcnt, slock, lru, pins, want, bounds>>
  PROVE  DriverInv' /\ CacheInv'
<1> USE DEF CacheInv
<1> DEFINE b == buf[p]
           k == bno[b]
<1>0. CacheTypes /\ DriverTypes
  BY Zenon DEF DriverInv
<1>1. pc[p] = "iodone" /\ pc' = [WakeFree EXCEPT ![p] = "use"]
  BY Zenon DEF RwDone
<1>2. /\ bno' = bno /\ slock' = slock /\ lru' = lru /\ pins' = pins /\ want' = want
      /\ latest' = latest /\ writes' = writes /\ buf' = buf /\ write' = write
      /\ data' = data /\ disk' = disk
  BY Zenon DEF RwDone, bounds
<1>3. /\ req' = [req EXCEPT ![head[p]] = NoReq] /\ head' = [head EXCEPT ![p] = 0]
  BY Zenon DEF RwDone
<1>4. DriverInv' /\ data[b] = disk[req[head[p]].block]
  BY Zenon, RwReturns
<1>5. Busy(p) /\ InFlight(p) /\ b \in Bufs /\ k \in Blocks /\ k # NoBlock /\ req[head[p]].block = k
  <2>1. Busy(p) /\ InFlight(p)
    BY Zenon, <1>1 DEF Busy, InFlight
  <2> QED
    BY Zenon, <2>1, Holders DEF Aims
<1>6. valid'[b] /\ valid' \in [Bufs -> BOOLEAN] /\ \A c \in Bufs : c # b => valid'[c] = valid[c]
  BY Zenon, <1>0, <1>5 DEF CacheTypes
<1>7. pc'[p] = "use" /\ \A q \in Procs : q # p => pc'[q] = IF pc[q] = "nodesc" THEN "rw" ELSE pc[q]
  BY Zenon, <1>1 DEF WakeFree
<1> HIDE DEF b, k
<1>8. /\ \A q \in Procs : Busy(q)' <=> Busy(q)
      /\ \A q \in Procs : q # p =>
           /\ (InFlight(q)' <=> InFlight(q)) /\ (Writing(q)' <=> Writing(q))
           /\ (pc'[q] = "use" <=> pc[q] = "use")
      /\ ~InFlight(p)' /\ ~Writing(p)'
  BY Zenon, <1>2, <1>5, <1>7 DEF Busy, InFlight, Writing
<1>9. \A q \in Procs : /\ (pc'[q] = "idle" <=> pc[q] = "idle") /\ (pc'[q] = "bget" <=> pc[q] = "bget")
                       /\ (pc'[q] = "locksleep" => pc[q] = "locksleep")
  <2>1. ASSUME NEW q \in Procs, q # p
        PROVE  /\ (pc'[q] = "idle" <=> pc[q] = "idle") /\ (pc'[q] = "bget" <=> pc[q] = "bget")
               /\ (pc'[q] = "locksleep" => pc[q] = "locksleep")
    BY Zenon, <1>7, <2>1
  <2> QED
    BY Zenon, <1>1, <1>7, <2>1
<1>10. data[b] = latest[k] /\ disk[k] = latest[k]
  <2>1. CASE write[p]
    <3>1. valid[b] /\ data[b] = latest[k]
      BY Zenon, <1>5, <2>1 DEF Aims, InBuffer, b, k
    <3> QED
      BY Zenon, <1>4, <1>5, <3>1
  <2>2. CASE ~write[p]
    <3>1. ~valid[b]
      BY Zenon, <1>1, <1>5, <2>2 DEF Aims, b
    <3>2. k \notin pins
      BY Zenon, <1>5, <3>1 DEF Pinned, OneBuffer, b, k
    <3>3. ASSUME NEW q \in Procs, Writing(q) PROVE bno[buf[q]] # k
      <4>1. Busy(q) /\ q # p
        BY Zenon, <2>2, <3>3 DEF Writing
      <4> QED
        BY Zenon, <1>5, <4>1, Holders DEF b, k
    <3>4. disk[k] = latest[k]
      BY Zenon, <1>5, <3>2, <3>3 DEF OnDisk
    <3> QED
      BY Zenon, <1>4, <1>5, <3>4
  <2> QED
    BY Zenon, <2>1, <2>2
<1>11. CacheTypes' /\ Listed' /\ OneBuffer'
  <2>1. valid' \in [Bufs -> BOOLEAN]
    BY Zenon, <1>6
  <2> QED
    BY Zenon, <1>0, <1>2, <2>1 DEF CacheTypes, Listed, OneBuffer
<1>12. Pinned'
  BY Zenon, <1>2, <1>6 DEF Pinned
<1>13. Asks'
  BY Zenon, <1>2, <1>9 DEF Asks
<1>14. Locked'
  <2>1. \A q \in Procs : Busy(q)' <=> Busy(q)
    BY Zenon, <1>8
  <2>2. ASSUME NEW q \in Procs, NEW c \in Bufs PROVE slock'[c] = q <=> Busy(q)' /\ buf'[q] = c
    <3>1. slock[c] = q <=> Busy(q) /\ buf[q] = c
      BY Zenon DEF Locked
    <3> QED
      BY Zenon, <1>2, <2>1, <3>1
  <2>3. \A q \in Procs : pc'[q] = "locksleep" => slock'[buf'[q]] # NULL
    BY Zenon, <1>2, <1>9 DEF Locked
  <2> QED
    BY Zenon, <2>2, <2>3 DEF Locked
<1>15. Aims'
  <2>1. ASSUME NEW q \in Procs, InFlight(q)' PROVE req'[head'[q]].block = bno'[buf'[q]]
    <3>1. q # p /\ InFlight(q)
      BY Zenon, <1>8, <2>1
    <3>2. head'[q] = head[q]
      BY Zenon, <1>0, <1>3, <3>1 DEF DriverTypes
    <3>3. head[q] # head[p] /\ head[q] \in Descs
      BY Zenon, <1>5, <3>1 DEF DriverInv, Owned, Heads
    <3>4. req'[head[q]] = req[head[q]]
      BY Zenon, <1>0, <1>3, <3>3 DEF DriverTypes
    <3>5. req[head[q]].block = bno[buf[q]] /\ bno'[buf'[q]] = bno[buf[q]]
      BY Zenon, <1>2, <3>1 DEF Aims
    <3> QED
      BY Zenon, <3>2, <3>4, <3>5
  <2>2. ASSUME NEW q \in Procs, Busy(q)' PROVE valid'[buf'[q]] <=> write'[q] \/ pc'[q] = "use"
    <3>1. CASE q = p
      BY Zenon, <1>2, <1>6, <1>7, <3>1 DEF b
    <3>2. CASE q # p
      <4>1. Busy(q) /\ buf[q] \in Bufs /\ buf[q] # b
        BY Zenon, <1>5, <1>8, <2>2, <3>2, Holders DEF b
      <4>2. valid'[buf[q]] = valid[buf[q]]
        BY Zenon, <1>6, <4>1
      <4> QED
        BY Zenon, <1>2, <1>8, <3>2, <4>1, <4>2 DEF Aims
    <3> QED
      BY Zenon, <3>1, <3>2
  <2> QED
    BY Zenon, <2>1, <2>2 DEF Aims
<1>16. InBuffer'
  BY Zenon, <1>2, <1>6, <1>10 DEF InBuffer, k
<1>17. OnDisk'
  <2> SUFFICES ASSUME NEW j \in Blocks, disk[j] # latest[j], j \notin pins
               PROVE  \E q \in Procs : Writing(q)' /\ bno[buf[q]] = j
    BY Zenon, <1>2 DEF OnDisk
  <2>1. PICK q \in Procs : Writing(q) /\ bno[buf[q]] = j
    BY Zenon DEF OnDisk
  <2>2. q # p
    BY Zenon, <1>10, <2>1 DEF b, k
  <2> QED
    BY Zenon, <1>8, <2>1, <2>2
<1> QED
  BY Zenon, <1>4, <1>11, <1>12, <1>13, <1>14, <1>15, <1>16, <1>17

(* The device transfers a block. *)
LEMMA DeviceStep ==
  ASSUME CacheInv, DriverInv, NEW h \in Descs, Device(h), UNCHANGED <<cache, bounds>>
  PROVE  DriverInv' /\ CacheInv'
<1> USE DEF CacheInv
<1> DEFINE r == req[h]
<1>0. CacheTypes /\ DriverTypes
  BY Zenon DEF DriverInv
<1>1. /\ bno' = bno /\ valid' = valid /\ slock' = slock /\ lru' = lru /\ pins' = pins /\ want' = want
      /\ latest' = latest /\ writes' = writes /\ buf' = buf /\ write' = write /\ pc' = pc
      /\ head' = head /\ req' = req
  BY Zenon DEF Device, cache, bounds
<1>2. IF r.write THEN disk' = [disk EXCEPT ![r.block] = data[r.buf]] /\ data' = data
      ELSE data' = [data EXCEPT ![r.buf] = disk[r.block]] /\ disk' = disk
  BY Zenon DEF Device
<1>3. DriverInv' /\ \E p \in Procs : InFlight(p) /\ head[p] = h
  BY Zenon, Holders, DeviceAnswers
<1>4. PICK p \in Procs : InFlight(p) /\ head[p] = h
  BY Zenon, <1>3
<1>5. /\ r.buf = buf[p] /\ r.write = write[p] /\ r.block = bno[buf[p]] /\ Busy(p) /\ pc[p] # "use"
      /\ buf[p] \in Bufs /\ bno[buf[p]] \in Blocks /\ bno[buf[p]] # NoBlock
  <2>1. Busy(p) /\ pc[p] # "use"
    BY Zenon, <1>4 DEF Busy, InFlight
  <2> QED
    BY Zenon, <1>4, <2>1, Holders DEF DriverInv, Owned, Aims
<1> HIDE DEF r
<1>6. \A q \in Procs : (Busy(q)' <=> Busy(q)) /\ (InFlight(q)' <=> InFlight(q)) /\ (Writing(q)' <=> Writing(q))
  BY Zenon, <1>1 DEF Busy, InFlight, Writing
<1>7. CacheTypes' /\ Listed' /\ OneBuffer' /\ Pinned' /\ Asks'
  BY Zenon, <1>1 DEF CacheTypes, Listed, OneBuffer, Pinned, Asks
<1>8. Locked' /\ Aims'
  BY Zenon, <1>1, <1>6 DEF Locked, Aims
<1>9. InBuffer' /\ OnDisk'
  <2>1. CASE write[p]
    <3>1. data' = data /\ disk'[bno[buf[p]]] = data[buf[p]] /\ \A k \in Blocks : k # bno[buf[p]] => disk'[k] = disk[k]
      BY Zenon, <1>0, <1>2, <1>5, <2>1 DEF DriverTypes
    <3>2. data[buf[p]] = latest[bno[buf[p]]]
      BY Zenon, <1>5, <2>1 DEF Aims, InBuffer
    <3> QED
      BY Zenon, <1>1, <1>6, <3>1, <3>2 DEF InBuffer, OnDisk
  <2>2. CASE ~write[p]
    <3>1. disk' = disk /\ \A b \in Bufs : b # buf[p] => data'[b] = data[b]
      BY Zenon, <1>0, <1>2, <1>5, <2>2 DEF DriverTypes
    <3>2. ~valid[buf[p]]
      BY Zenon, <1>5, <2>2 DEF Aims
    <3> QED
      BY Zenon, <1>1, <1>6, <3>1, <3>2 DEF InBuffer, OnDisk
  <2> QED
    BY Zenon, <2>1, <2>2
<1> QED
  BY Zenon, <1>3, <1>7, <1>8, <1>9

(* Who is between acquiresleep() and releasesleep() and outside of         *)
(* virtio_disk_rw() has the latest contents, and no transfer disturbs it.  *)
LEMMA HolderFacts ==
  ASSUME CacheInv, DriverInv, NEW p \in Procs, pc[p] = "use"
  PROVE  /\ Busy(p) /\ ~InFlight(p) /\ ~Writing(p) /\ buf[p] \in Bufs /\ slock[buf[p]] = p
         /\ valid[buf[p]] /\ bno[buf[p]] \in Blocks /\ bno[buf[p]] # NoBlock /\ bno[buf[p]] = want[p]
         /\ data[buf[p]] = latest[bno[buf[p]]]
         /\ \A q \in Procs : InFlight(q) => q # p /\ buf[q] # buf[p]
         /\ \A q \in Procs : Busy(q) /\ q # p => buf[q] # buf[p] /\ bno[buf[q]] # bno[buf[p]]
         /\ \A b \in Bufs : b # buf[p] => bno[b] # bno[buf[p]]
<1>1. Busy(p) /\ ~InFlight(p) /\ ~Writing(p)
  BY Zenon DEF Busy, InFlight, Writing
<1>2. buf[p] \in Bufs /\ slock[buf[p]] = p /\ bno[buf[p]] \in Blocks /\ bno[buf[p]] # NoBlock /\ bno[buf[p]] = want[p]
  BY Zenon, <1>1, Holders
<1>3. valid[buf[p]] /\ data[buf[p]] = latest[bno[buf[p]]]
  BY Zenon, <1>1, <1>2 DEF CacheInv, Aims, InBuffer
<1>4. \A q \in Procs : Busy(q) /\ q # p => buf[q] # buf[p] /\ bno[buf[q]] # bno[buf[p]]
  BY Zenon, <1>1, Holders
<1>5. \A q \in Procs : InFlight(q) => q # p /\ buf[q] # buf[p]
  BY Zenon, <1>1, <1>4, Holders
<1>6. \A b \in Bufs : b # buf[p] => bno[b] # bno[buf[p]]
  BY Zenon, <1>2 DEF CacheInv, OneBuffer
<1> QED
  BY Zenon, <1>1, <1>2, <1>3, <1>4, <1>5, <1>6

(* The holder stores into its buffer: nobody else sees the block. *)
LEMMA StoreStep ==
  ASSUME CacheInv, DriverInv, NEW p \in Procs, pc[p] = "use", Store(buf[p])
  PROVE  /\ data' \in [Bufs -> Int] /\ latest' \in [Blocks -> Int] /\ writes' \in Nat
         /\ data'[buf[p]] = latest'[bno[buf[p]]]
         /\ \A b \in Bufs : b # buf[p] => data'[b] = data[b]
         /\ \A k \in Blocks : k # bno[buf[p]] => latest'[k] = latest[k]
<1>1. buf[p] \in Bufs /\ bno[buf[p]] \in Blocks
  BY Zenon, HolderFacts
<1>2. /\ data' = [data EXCEPT ![buf[p]] = writes + 1] /\ latest' = [latest EXCEPT ![bno[buf[p]]] = writes + 1]
      /\ writes' = writes + 1
  BY Zenon DEF Store
<1>3. data \in [Bufs -> Int] /\ latest \in [Blocks -> Int] /\ writes \in Nat
  BY Zenon DEF CacheInv, CacheTypes, DriverInv, DriverTypes
<1>4. writes + 1 \in Nat /\ writes + 1 \in Int
  BY SMT, <1>3
<1> QED
  BY Zenon, <1>1, <1>2, <1>3, <1>4

(* log_write() pins the buffer, install_trans() unpins it. *)
LEMMA PinStep ==
  ASSUME CacheInv, DriverInv, NEW p \in Procs, Bpin(p) \/ Bunpin(p)
  PROVE  DriverInv' /\ CacheInv'
<1> USE DEF CacheInv
<1> DEFINE b == buf[p]
           k == bno[b]
<1>0. CacheTypes /\ DriverTypes
  BY Zenon DEF DriverInv
<1>1. /\ pc[p] = "use" /\ pc' = pc /\ buf' = buf /\ write' = write /\ head' = head /\ bdisk' = bdisk
      /\ disk' = disk /\ bno' = bno /\ valid' = valid /\ slock' = slock /\ lru' = lru /\ want' = want
      /\ free' = free /\ chain' = chain /\ req' = req /\ avail' = avail /\ used' = used
  BY Zenon DEF Bpin, Bunpin, At, driver, bounds
<1>2. /\ b \in Bufs /\ k \in Blocks /\ k # NoBlock /\ valid[b] /\ data[b] = latest[k]
      /\ \A q \in Procs : InFlight(q) => buf[q] # b
      /\ \A c \in Bufs : c # b => bno[c] # k
  BY Zenon, <1>1, HolderFacts
<1>3. /\ data' \in [Bufs -> Int] /\ latest' \in [Blocks -> Int] /\ writes' \in Nat
      /\ data'[b] = latest'[k]
      /\ \A c \in Bufs : c # b => data'[c] = data[c]
      /\ \A j \in Blocks : j # k => latest'[j] = latest[j]
  <2>1. CASE Bpin(p)
    BY Zenon, <1>1, <2>1, StoreStep DEF Bpin
  <2>2. CASE Bunpin(p)
    BY Zenon, <1>0, <1>2, <2>2 DEF Bunpin, bounds, CacheTypes, DriverTypes
  <2> QED
    BY Zenon, <2>1, <2>2
<1>4. \/ pins' = pins \cup {k}
      \/ pins' = pins \ {k} /\ latest' = latest /\ disk[k] = data[b]
  BY Zenon DEF Bpin, Bunpin, bounds
<1> HIDE DEF b, k
<1>5. \A q \in Procs : (Busy(q)' <=> Busy(q)) /\ (InFlight(q)' <=> InFlight(q)) /\ (Writing(q)' <=> Writing(q))
  BY Zenon, <1>1 DEF Busy, InFlight, Writing
<1>6. DriverInv'
  <2>1. DriverTypes'
    BY Zenon, <1>0, <1>1, <1>3 DEF DriverTypes
  <2>2. \A q \in Procs : InFlight(q) => data'[buf[q]] = data[buf[q]]
    BY Zenon, <1>2, <1>3, Holders
  <2>3. \A q \in Procs : pc'[q] = "iowait" => bdisk[buf[q]]
    BY Zenon, <1>1 DEF DriverInv, Rings
  <2> QED
    BY Zenon, <1>1, <1>5, <2>1, <2>2, <2>3, DriverFrame
<1>7. CacheTypes'
  <2>1. pins' \in SUBSET Blocks
    BY Zenon, <1>0, <1>2, <1>4 DEF CacheTypes
  <2> QED
    BY Zenon, <1>0, <1>1, <1>3, <2>1 DEF CacheTypes
<1>8. Listed' /\ OneBuffer' /\ Asks'
  BY Zenon, <1>1 DEF Listed, OneBuffer, Asks
<1>9. Locked' /\ Aims'
  BY Zenon, <1>1, <1>5 DEF Locked, Aims
<1>10. Pinned'
  BY Zenon, <1>1, <1>2, <1>4 DEF Pinned, k
<1>11. InBuffer'
  <2> SUFFICES ASSUME NEW c \in Bufs, bno[c] # NoBlock, valid[c] PROVE data'[c] = latest'[bno[c]]
    BY Zenon, <1>1 DEF InBuffer
  <2>1. CASE c = b
    BY Zenon, <1>3, <2>1 DEF k
  <2>2. CASE c # b
    <3>1. bno[c] \in Blocks /\ bno[c] # k
      BY Zenon, <1>0, <1>2, <2>2 DEF CacheTypes
    <3> QED
      BY Zenon, <1>3, <2>2, <3>1 DEF InBuffer
  <2> QED
    BY Zenon, <2>1, <2>2
<1>12. OnDisk'
  <2> SUFFICES ASSUME NEW j \in Blocks, disk[j] # latest'[j], j \notin pins'
               PROVE  \E q \in Procs : Writing(q)' /\ bno[buf[q]] = j
    BY Zenon, <1>1 DEF OnDisk
  <2>1. j # k
    BY Zenon, <1>2, <1>4
  <2>2. disk[j] # latest[j] /\ j \notin pins
    BY Zenon, <1>3, <1>4, <2>1
  <2> QED
    BY Zenon, <1>5, <2>2 DEF OnDisk
<1> QED
  BY Zenon, <1>6, <1>7, <1>8, <1>9, <1>10, <1>11, <1>12

(* bwrite() is called. *)
LEMMA BwriteStep ==
  ASSUME CacheInv, DriverInv, NEW p \in Procs, Bwrite(p)
  PROVE  DriverInv' /\ CacheInv'
<1> USE DEF CacheInv
<1> DEFINE b == buf[p]
           k == bno[b]
<1>0. CacheTypes /\ DriverTypes
  BY Zenon DEF DriverInv
<1>1. /\ pc[p] = "use" /\ pc' = [pc EXCEPT ![p] = "rw"] /\ write' = [write EXCEPT ![p] = TRUE]
  BY Zenon DEF Bwrite, At, Goto
<1>2. /\ buf' = buf /\ head' = head /\ bdisk' = bdisk /\ disk' = disk
      /\ bno' = bno /\ valid' = valid /\ slock' = slock /\ lru' = lru /\ want' = want /\ pins' = pins
      /\ free' = free /\ chain' = chain /\ req' = req /\ avail' = avail /\ used' = used
  BY Zenon DEF Bwrite, driver, cache
<1>3. /\ b \in Bufs /\ k \in Blocks /\ k # NoBlock /\ valid[b] /\ data[b] = latest[k]
      /\ \A q \in Procs : InFlight(q) => q # p /\ buf[q] # b
      /\ \A c \in Bufs : c # b => bno[c] # k
  BY Zenon, <1>1, HolderFacts
<1>4. Busy(p) /\ ~InFlight(p) /\ ~Writing(p)
  BY Zenon, <1>1, HolderFacts
<1>5. /\ data' \in [Bufs -> Int] /\ latest' \in [Blocks -> Int] /\ writes' \in Nat
      /\ data'[b] = latest'[k]
      /\ \A c \in Bufs : c # b => data'[c] = data[c]
      /\ \A j \in Blocks : j # k => latest'[j] = latest[j]
  <2>1. CASE Store(b)
    BY Zenon, <1>1, <2>1, StoreStep
  <2>2. CASE data' = data /\ latest' = latest /\ writes' = writes
    BY Zenon, <1>0, <1>3, <2>2 DEF CacheTypes, DriverTypes
  <2> QED
    BY Zenon, <2>1, <2>2 DEF Bwrite
<1>6. /\ pc' \in [Procs -> Labels] /\ pc'[p] = "rw" /\ write' \in [Procs -> BOOLEAN] /\ write'[p]
      /\ \A q \in Procs : q # p => pc'[q] = pc[q] /\ write'[q] = write[q]
  BY Zenon, <1>0, <1>1 DEF DriverTypes, Labels
<1> HIDE DEF b, k
<1>7. /\ \A q \in Procs : (Busy(q)' <=> Busy(q)) /\ (InFlight(q)' <=> InFlight(q))
      /\ \A q \in Procs : q # p => (Writing(q)' <=> Writing(q))
      /\ Writing(p)'
  BY Zenon, <1>2, <1>4, <1>6 DEF Busy, InFlight, Writing
<1>8. DriverInv'
  <2>1. DriverTypes'
    BY Zenon, <1>0, <1>2, <1>5, <1>6 DEF DriverTypes
  <2>2. \A q \in Procs : InFlight(q) => data'[buf[q]] = data[buf[q]] /\ write'[q] = write[q]
    BY Zenon, <1>3, <1>5, <1>6, Holders
  <2>3. \A q \in Procs : pc'[q] = "iowait" => bdisk[buf[q]]
    BY Zenon, <1>6 DEF DriverInv, Rings
  <2> QED
    BY Zenon, <1>2, <1>7, <2>1, <2>2, <2>3, DriverFrame
<1>9. CacheTypes' /\ Listed' /\ OneBuffer' /\ Pinned'
  BY Zenon, <1>0, <1>2, <1>5 DEF CacheTypes, Listed, OneBuffer, Pinned
<1>10. Asks'
  BY Zenon, <1>1, <1>2, <1>6 DEF Asks
<1>11. Locked'
  <2>1. \A q \in Procs : pc'[q] = "locksleep" => pc[q] = "locksleep"
    BY Zenon, <1>6
  <2>2. \A q \in Procs : Busy(q)' <=> Busy(q)
    BY Zenon, <1>7
  <2> QED
    BY Zenon, <1>2, <2>1, <2>2 DEF Locked
<1>12. Aims'
  <2>1. \A q \in Procs : InFlight(q)' => req'[head'[q]].block = bno'[buf'[q]]
    BY Zenon, <1>2, <1>7 DEF Aims
  <2>2. ASSUME NEW q \in Procs, Busy(q)' PROVE valid'[buf'[q]] <=> write'[q] \/ pc'[q] = "use"
    <3>1. CASE q = p
      BY Zenon, <1>2, <1>3, <1>6, <3>1 DEF b
    <3>2. CASE q # p
      BY Zenon, <1>2, <1>6, <1>7, <2>2, <3>2 DEF Aims
    <3> QED
      BY Zenon, <3>1, <3>2
  <2> QED
    BY Zenon, <2>1, <2>2 DEF Aims
<1>13. InBuffer'
  <2> SUFFICES ASSUME NEW c \in Bufs, bno[c] # NoBlock, valid[c] PROVE data'[c] = latest'[bno[c]]
    BY Zenon, <1>2 DEF InBuffer
  <2>1. CASE c = b
    BY Zenon, <1>5, <2>1 DEF k
  <2>2. CASE c # b
    <3>1. bno[c] \in Blocks /\ bno[c] # k
      BY Zenon, <1>0, <1>3, <2>2 DEF CacheTypes
    <3> QED
      BY Zenon, <1>5, <2>2, <3>1 DEF InBuffer
  <2> QED
    BY Zenon, <2>1, <2>2
<1>14. OnDisk'
  <2> SUFFICES ASSUME NEW j \in Blocks, disk[j] # latest'[j], j \notin pins
               PROVE  \E q \in Procs : Writing(q)' /\ bno[buf[q]] = j
    BY Zenon, <1>2 DEF OnDisk
  <2>1. CASE j = k
    BY Zenon, <1>7, <2>1 DEF b, k
  <2>2. CASE j # k
    <3>1. PICK q \in Procs : Writing(q) /\ bno[buf[q]] = j
      BY Zenon, <1>5, <2>2 DEF OnDisk
    <3> QED
      BY Zenon, <1>4, <1>7, <3>1
  <2> QED
    BY Zenon, <2>1, <2>2
<1> QED
  BY Zenon, <1>8, <1>9, <1>10, <1>11, <1>12, <1>13, <1>14

(* brelse() releases the sleep lock and wakes who waits for it. *)
LEMMA ReleaseStep ==
  ASSUME CacheInv, DriverInv, NEW p \in Procs, ReleaseSleep(p)
  PROVE  DriverInv' /\ CacheInv'
<1> USE DEF CacheInv
<1> DEFINE b == buf[p]
<1>0. CacheTypes /\ DriverTypes
  BY Zenon DEF DriverInv
<1>1. /\ pc[p] = "use" /\ slock' = [slock EXCEPT ![b] = NULL]
      /\ pc' = [q \in Procs |-> IF q = p THEN "rel"
                                ELSE IF pc[q] = "locksleep" /\ buf[q] = b THEN "lock" ELSE pc[q]]
  BY Zenon DEF ReleaseSleep, At
<1>2. /\ buf' = buf /\ write' = write /\ head' = head /\ bdisk' = bdisk /\ data' = data /\ disk' = disk
      /\ bno' = bno /\ valid' = valid /\ lru' = lru /\ want' = want /\ pins' = pins
      /\ latest' = latest /\ writes' = writes
      /\ free' = free /\ chain' = chain /\ req' = req /\ avail' = avail /\ used' = used
  BY Zenon DEF ReleaseSleep, driver, bounds
<1>3. b \in Bufs /\ ~InFlight(p) /\ ~Writing(p) /\ \A q \in Procs : Busy(q) /\ q # p => buf[q] # b
  BY Zenon, <1>1, HolderFacts
<1> HIDE DEF b
<1>4. /\ pc'[p] = "rel"
      /\ \A q \in Procs : q # p => \/ pc'[q] = pc[q] /\ ~(pc[q] = "locksleep" /\ buf[q] = b)
                                   \/ pc'[q] = "lock" /\ pc[q] = "locksleep"
  BY Zenon, <1>1
<1>5. pc' \in [Procs -> Labels]
  <2>1. \A q \in Procs : pc'[q] \in Labels
    BY Zenon, <1>0, <1>4 DEF DriverTypes, Labels
  <2>2. pc' = [q \in Procs |-> pc'[q]]
    BY Zenon, <1>1
  <2> QED
    BY Zenon, <2>1, <2>2
<1>6. /\ slock' \in [Bufs -> Procs \cup {NULL}] /\ slock'[b] = NULL
      /\ \A c \in Bufs : c # b => slock'[c] = slock[c]
  BY Zenon, <1>0, <1>1, <1>3 DEF CacheTypes
<1>7. /\ ~Busy(p)'
      /\ \A q \in Procs : (InFlight(q)' <=> InFlight(q)) /\ (Writing(q)' <=> Writing(q))
      /\ \A q \in Procs : q # p => (Busy(q)' <=> Busy(q))
      /\ \A q \in Procs : Busy(q)' => q # p /\ Busy(q) /\ pc'[q] = pc[q]
      /\ \A q \in Procs : pc'[q] = "iowait" => pc[q] = "iowait"
  BY Zenon, <1>1, <1>2, <1>3, <1>4 DEF Busy, InFlight, Writing
<1>8. DriverInv'
  <2>1. DriverTypes'
    BY Zenon, <1>0, <1>2, <1>5 DEF DriverTypes
  <2>2. \A q \in Procs : pc'[q] = "iowait" => bdisk[buf[q]]
    BY Zenon, <1>7 DEF DriverInv, Rings
  <2> QED
    BY Zenon, <1>2, <1>7, <2>1, <2>2, DriverFrame
<1>9. CacheTypes' /\ Listed' /\ OneBuffer' /\ Pinned' /\ InBuffer'
  BY Zenon, <1>0, <1>2, <1>6 DEF CacheTypes, Listed, OneBuffer, Pinned, InBuffer
<1>10. Asks'
  <2>1. ASSUME NEW q \in Procs
        PROVE  (pc[q] \notin {"idle", "bget"} /\ pc'[q] \notin {"idle", "bget"}) \/ pc'[q] = pc[q]
    BY Zenon, <1>1, <1>4
  <2> QED
    BY Zenon, <1>2, <2>1 DEF Asks
<1>11. Locked'
  <2>1. ASSUME NEW q \in Procs, NEW c \in Bufs PROVE slock'[c] = q <=> Busy(q)' /\ buf[q] = c
    <3>1. CASE c = b
      <4>1. slock'[c] # q
        BY Zenon, <1>6, <3>1, BlockFacts
      <4> QED
        BY Zenon, <1>3, <1>7, <3>1, <4>1
    <3>2. CASE c # b /\ q = p
      <4>1. slock[c] = q <=> Busy(q) /\ buf[q] = c
        BY Zenon DEF Locked
      <4>2. buf[q] # c
        BY Zenon, <3>2 DEF b
      <4> QED
        BY Zenon, <1>6, <3>2, <4>1, <4>2
    <3>3. CASE c # b /\ q # p
      <4>1. slock[c] = q <=> Busy(q) /\ buf[q] = c
        BY Zenon DEF Locked
      <4> QED
        BY Zenon, <1>6, <1>7, <3>3, <4>1
    <3> QED
      BY Zenon, <3>1, <3>2, <3>3
  <2>2. ASSUME NEW q \in Procs, pc'[q] = "locksleep" PROVE slock'[buf[q]] # NULL
    <3>1. q # p /\ pc[q] = "locksleep" /\ buf[q] # b
      BY Zenon, <1>4, <2>2
    <3>2. buf[q] \in Bufs /\ slock[buf[q]] # NULL
      BY Zenon, <3>1 DEF Asks, Locked
    <3> QED
      BY Zenon, <1>6, <3>1, <3>2
  <2> QED
    BY Zenon, <1>2, <2>1, <2>2 DEF Locked
<1>12. Aims'
  BY Zenon, <1>2, <1>7 DEF Aims
<1>13. OnDisk'
  BY Zenon, <1>2, <1>7 DEF OnDisk
<1> QED
  BY Zenon, <1>8, <1>9, <1>10, <1>11, <1>12, <1>13

(* The list keeps its buffers when one moves to the front. *)
LEMMA MoveToFrontLists ==
  ASSUME CacheInv, NEW b \in Bufs
  PROVE  MoveToFront(b) \in [Bufs -> Bufs] /\ \A c \in Bufs : \E i \in Bufs : MoveToFront(b)[i] = c
<1> DEFINE i == CHOOSE i \in Bufs : lru[i] = b
<1>1. i \in Bufs /\ lru[i] = b
  BY Zenon DEF CacheInv, Listed
<1>2. MoveToFront(b) = [j \in Bufs |-> IF j = 1 THEN b ELSE IF j <= i THEN lru[j - 1] ELSE lru[j]]
  BY Zenon DEF MoveToFront
<1> HIDE DEF i
<1>3. lru \in [Bufs -> Bufs]
  BY Zenon DEF CacheInv, CacheTypes
<1>4. \A j \in Bufs : (j # 1 => j - 1 \in Bufs) /\ 1 \in Bufs
  BY SMT, VirtioConstants DEF Bufs
<1>5. MoveToFront(b) \in [Bufs -> Bufs]
  BY Zenon, <1>2, <1>3, <1>4
<1>6. ASSUME NEW c \in Bufs PROVE \E j \in Bufs : MoveToFront(b)[j] = c
  <2>1. PICK j \in Bufs : lru[j] = c
    BY Zenon DEF CacheInv, Listed
  <2>2. CASE j = i
    <3>1. c = b /\ MoveToFront(b)[1] = b
      BY Zenon, <1>1, <1>2, <1>4, <2>1, <2>2
    <3> QED
      BY Zenon, <1>4, <3>1
  <2>3. CASE j < i
    <3>1. PICK m \in Bufs : m # 1 /\ m <= i /\ m - 1 = j
      <4>1. j + 1 \in Bufs /\ j + 1 # 1 /\ j + 1 <= i /\ (j + 1) - 1 = j
        BY SMT, <1>1, VirtioConstants, <2>3 DEF Bufs
      <4> QED
        BY Zenon, <4>1
    <3>2. MoveToFront(b)[m] = lru[m - 1]
      BY Zenon, <1>2, <3>1
    <3> QED
      BY Zenon, <2>1, <3>1, <3>2
  <2>4. CASE i < j
    <3>1. j # 1 /\ ~(j <= i)
      BY SMT, <1>1, <2>4 DEF Bufs
    <3>2. MoveToFront(b)[j] = lru[j]
      BY Zenon, <1>2, <3>1
    <3> QED
      BY Zenon, <2>1, <3>2
  <2>5. j = i \/ j < i \/ i < j
    BY SMT, <1>1 DEF Bufs
  <2> QED
    BY Zenon, <2>2, <2>3, <2>4, <2>5
<1> QED
  BY Zenon, <1>5, <1>6

(* brelse() gives the reference back. *)
LEMMA BrelseStep ==
  ASSUME CacheInv, DriverInv, NEW p \in Procs, Brelse(p)
  PROVE  DriverInv' /\ CacheInv'
<1> USE DEF CacheInv
<1>0. CacheTypes /\ DriverTypes
  BY Zenon DEF DriverInv
<1>1. /\ pc[p] = "rel" /\ pc' = [pc EXCEPT ![p] = "idle"] /\ buf' = [buf EXCEPT ![p] = 0]
      /\ want' = [want EXCEPT ![p] = NoBlock] /\ write' = [write EXCEPT ![p] = FALSE]
  BY Zenon DEF Brelse, At, Goto
<1>2. /\ head' = head /\ bdisk' = bdisk /\ data' = data /\ disk' = disk
      /\ bno' = bno /\ valid' = valid /\ slock' = slock /\ pins' = pins
      /\ latest' = latest /\ writes' = writes
      /\ free' = free /\ chain' = chain /\ req' = req /\ avail' = avail /\ used' = used
  BY Zenon DEF Brelse, driver, bounds
<1>3. lru' \in [Bufs -> Bufs] /\ \A c \in Bufs : \E i \in Bufs : lru'[i] = c
  <2>1. buf[p] \in Bufs
    BY Zenon, <1>1 DEF Asks
  <2>2. lru' = MoveToFront(buf[p]) \/ lru' = lru
    BY Zenon DEF Brelse
  <2>3. CASE lru' = MoveToFront(buf[p])
    BY Zenon, <2>1, <2>3, MoveToFrontLists
  <2>4. CASE lru' = lru
    BY Zenon, <1>0, <2>4 DEF CacheTypes, Listed
  <2> QED
    BY Zenon, <2>2, <2>3, <2>4
<1>4. pc' \in [Procs -> Labels] /\ pc'[p] = "idle" /\ \A q \in Procs : q # p => pc'[q] = pc[q]
  BY Zenon, <1>0, <1>1 DEF DriverTypes, Labels
<1>5. buf' \in [Procs -> 0 .. NBUF] /\ buf'[p] = 0 /\ \A q \in Procs : q # p => buf'[q] = buf[q]
  <2>1. 0 \in 0 .. NBUF
    BY SMT, VirtioConstants
  <2> QED
    BY Zenon, <1>0, <1>1, <2>1 DEF DriverTypes
<1>6. /\ want' \in [Procs -> Blocks \cup {NoBlock}] /\ \A q \in Procs : q # p => want'[q] = want[q]
      /\ write' \in [Procs -> BOOLEAN] /\ \A q \in Procs : q # p => write'[q] = write[q]
  BY Zenon, <1>0, <1>1 DEF CacheTypes, DriverTypes
<1>7. /\ ~Busy(p)' /\ ~Busy(p) /\ ~InFlight(p)
      /\ \A q \in Procs : (InFlight(q)' <=> InFlight(q)) /\ (Writing(q)' <=> Writing(q)) /\ (Busy(q)' <=> Busy(q))
      /\ \A q \in Procs : Busy(q) => q # p
      /\ \A q \in Procs : InFlight(q) => q # p
      /\ \A q \in Procs : pc'[q] \in {"iowait", "locksleep"} => q # p
  BY Zenon, <1>1, <1>4, <1>6 DEF Busy, InFlight, Writing
<1>8. DriverInv'
  <2>1. DriverTypes'
    BY Zenon, <1>0, <1>2, <1>4, <1>5, <1>6 DEF DriverTypes
  <2>2. \A q \in Procs : pc'[q] = "iowait" => bdisk[buf[q]]
    BY Zenon, <1>4, <1>7 DEF DriverInv, Rings
  <2>3. \A q \in Procs : InFlight(q) => buf'[q] = buf[q] /\ write'[q] = write[q]
    BY Zenon, <1>5, <1>6, <1>7
  <2> QED
    BY Zenon, <1>2, <1>7, <2>1, <2>2, <2>3, DriverFrame
<1>9. CacheTypes' /\ Listed' /\ OneBuffer' /\ Pinned' /\ InBuffer'
  BY Zenon, <1>0, <1>2, <1>3, <1>6 DEF CacheTypes, Listed, OneBuffer, Pinned, InBuffer
<1>10. Asks'
  <2>1. ASSUME NEW q \in Procs, q # p
        PROVE  pc'[q] = pc[q] /\ buf'[q] = buf[q] /\ want'[q] = want[q]
    BY Zenon, <1>4, <1>5, <1>6, <2>1
  <2> QED
    BY Zenon, <1>2, <1>4, <1>5, <2>1 DEF Asks
<1>11. Locked'
  <2>1. ASSUME NEW q \in Procs, NEW c \in Bufs PROVE slock[c] = q <=> Busy(q)' /\ buf'[q] = c
    <3>1. slock[c] = q <=> Busy(q) /\ buf[q] = c
      BY Zenon DEF Locked
    <3>2. CASE q = p
      BY Zenon, <1>7, <3>1, <3>2
    <3>3. CASE q # p
      BY Zenon, <1>5, <1>7, <3>1, <3>3
    <3> QED
      BY Zenon, <3>2, <3>3
  <2>2. ASSUME NEW q \in Procs, pc'[q] = "locksleep" PROVE slock[buf'[q]] # NULL
    <3>1. q # p /\ pc[q] = "locksleep" /\ buf'[q] = buf[q]
      BY Zenon, <1>4, <1>5, <1>7, <2>2
    <3> QED
      BY Zenon, <3>1 DEF Locked
  <2> QED
    BY Zenon, <1>2, <2>1, <2>2 DEF Locked
<1>12. Aims'
  <2>1. ASSUME NEW q \in Procs, Busy(q) PROVE pc'[q] = pc[q] /\ buf'[q] = buf[q] /\ write'[q] = write[q]
    BY Zenon, <1>4, <1>5, <1>6, <1>7, <2>1
  <2>2. \A q \in Procs : InFlight(q) => Busy(q)
    BY Zenon DEF InFlight, Busy
  <2>3. ASSUME NEW q \in Procs, InFlight(q)' PROVE req'[head'[q]].block = bno'[buf'[q]]
    BY Zenon, <1>2, <1>7, <2>1, <2>2, <2>3 DEF Aims
  <2>4. ASSUME NEW q \in Procs, Busy(q)' PROVE valid'[buf'[q]] <=> write'[q] \/ pc'[q] = "use"
    BY Zenon, <1>2, <1>7, <2>1, <2>4 DEF Aims
  <2> QED
    BY Zenon, <2>3, <2>4 DEF Aims
<1>13. OnDisk'
  <2>1. \A q \in Procs : Writing(q) => Writing(q)' /\ buf'[q] = buf[q]
    BY Zenon, <1>5, <1>7 DEF Writing
  <2> QED
    BY Zenon, <1>2, <2>1 DEF OnDisk
<1> QED
  BY Zenon, <1>8, <1>9, <1>10, <1>11, <1>12, <1>13

(* binit() and virtio_disk_init(). *)
LEMMA InitStep ==
  ASSUME Init
  PROVE  DriverInv /\ CacheInv /\ Heads = {} /\ free = Descs
<1>1. /\ pc = [p \in Procs |-> "idle"] /\ buf = [p \in Procs |-> 0] /\ want = [p \in Procs |-> NoBlock]
      /\ data = [b \in Bufs |-> 0] /\ disk = [k \in Blocks |-> 0] /\ bno = [b \in Bufs |-> NoBlock]
      /\ valid = [b \in Bufs |-> FALSE] /\ slock = [b \in Bufs |-> NULL] /\ pins = {}
      /\ latest = [k \in Blocks |-> 0] /\ writes = 0 /\ DriverInit
  BY Zenon DEF Init
<1>2. lru \in [Bufs -> Bufs] /\ \A c \in Bufs : \E i \in Bufs : lru[i] = c
  <2>1. lru = [i \in Bufs |-> NBUF + 1 - i]
    BY Zenon DEF Init
  <2>2. \A i \in Bufs : NBUF + 1 - i \in Bufs /\ NBUF + 1 - (NBUF + 1 - i) = i
    BY SMT, VirtioConstants DEF Bufs
  <2> QED
    BY Zenon, <2>1, <2>2
<1>3. 0 \in Int /\ 0 \in Nat /\ 0 \in 0 .. NBUF
  BY SMT, VirtioConstants
<1>5. \A p \in Procs : pc[p] = "idle" /\ buf[p] = 0
  BY Zenon, <1>1
<1>6. \A p \in Procs : ~Busy(p) /\ ~InFlight(p)
  BY Zenon, <1>5 DEF Busy, InFlight
<1>4. DriverInv /\ Heads = {} /\ free = Descs
  <2>1. /\ pc \in [Procs -> Labels] /\ buf \in [Procs -> 0 .. NBUF]
        /\ data \in [Bufs -> Int] /\ disk \in [Blocks -> Int]
    BY Zenon, <1>1, <1>3 DEF Labels
  <2> QED
    BY Zenon, <1>1, <1>6, <2>1, DriverStarts
<1>7. CacheTypes
  BY Zenon, <1>1, <1>2, <1>3 DEF CacheTypes
<1>8. Listed /\ OneBuffer /\ Pinned /\ InBuffer /\ OnDisk
  BY Zenon, <1>1, <1>2 DEF Listed, OneBuffer, Pinned, InBuffer, OnDisk
<1>9. Asks
  BY Zenon, <1>5 DEF Asks
<1>10. Locked
  <2>1. ASSUME NEW p \in Procs, NEW b \in Bufs PROVE slock[b] # p
    BY Zenon, <1>1, BlockFacts
  <2> QED
    BY Zenon, <1>5, <1>6, <2>1 DEF Locked
<1>11. Aims
  BY Zenon, <1>6 DEF Aims
<1> QED
  BY Zenon, <1>4, <1>7, <1>8, <1>9, <1>10, <1>11 DEF CacheInv

LEMMA CacheStep ==
  ASSUME CacheInv, DriverInv, Counting, [Next]_vars
  PROVE  DriverInv' /\ CacheInv'
<1>1. ASSUME NEW p \in Procs, NEW k \in Blocks, Bread(p, k) PROVE DriverInv' /\ CacheInv'
  BY Zenon, <1>1, BreadStep
<1>2. ASSUME NEW p \in Procs, Work(p) PROVE DriverInv' /\ CacheInv'
  <2>1. CASE BgetHit(p) \/ BgetMiss(p)
    BY Zenon, <2>1, BgetStep
  <2>2. CASE AcquireSleep(p)
    BY Zenon, <2>2, AcquireStep
  <2>3. CASE AcquireWait(p)
    BY Zenon, <2>3, WaitStep
  <2>4. CASE Rw(p)
    <3>1. CASE RwStart(p, bno[buf[p]]) /\ UNCHANGED <<cache, bounds>>
      BY Zenon, <3>1, StartStep
    <3>2. CASE (RwNoDesc(p) \/ RwAgain(p)) /\ UNCHANGED <<cache, bounds>>
      BY Zenon, <3>2, WaitStep
    <3>3. CASE RwDone(p) /\ valid' = [valid EXCEPT ![buf[p]] = TRUE] /\ UNCHANGED <<bno, refcnt, slock, lru, pins, want, bounds>>
      BY Zenon, <3>3, ReturnStep
    <3> QED
      BY Zenon, <2>4, <3>1, <3>2, <3>3 DEF Rw
  <2>5. CASE Brelse(p)
    BY Zenon, <2>5, BrelseStep
  <2> QED
    BY Zenon, <1>2, <2>1, <2>2, <2>3, <2>4, <2>5 DEF Work
<1>3. ASSUME NEW p \in Procs, Hold(p) PROVE DriverInv' /\ CacheInv'
  BY Zenon, <1>3, PinStep, BwriteStep, ReleaseStep DEF Hold
<1>4. ASSUME NEW p \in Procs, Kill(p) PROVE DriverInv' /\ CacheInv'
  BY Zenon, <1>4, WaitStep
<1>5. ASSUME Intr, UNCHANGED <<cache, bounds>> PROVE DriverInv' /\ CacheInv'
  <2>1. CASE Procs # {}
    BY Zenon, <1>5, <2>1, WaitStep
  <2>2. CASE Procs = {}
    <3>1. DriverInv' /\ UNCHANGED <<buf, write, head, data, disk, req>>
      BY Zenon, <1>5, Holders, IntrAnswers
    <3>2. UNCHANGED <<bno, valid, slock, lru, pins, want, latest, writes>>
      BY Zenon, <1>5 DEF cache, bounds
    <3> QED
      BY Zenon, <2>2, <3>1, <3>2, AlikeStep
  <2> QED
    BY Zenon, <2>1, <2>2
<1>6. ASSUME NEW h \in Descs, Device(h), UNCHANGED <<cache, bounds>> PROVE DriverInv' /\ CacheInv'
  BY Zenon, <1>6, DeviceStep
<1>7. CASE UNCHANGED vars
  <2>1. UNCHANGED <<bno, valid, slock, lru, pins, want, latest, writes>>
    BY Zenon, <1>7 DEF vars, cache, bounds
  <2>2. UNCHANGED <<pc, buf, write, head, bdisk, data, disk, free, chain, req, avail, used>>
    BY Zenon, <1>7 DEF vars, driver
  <2>3. CacheInv'
    <3>1. \A p \in Procs : Alike(pc[p], pc'[p]) /\ (pc'[p] = "locksleep" => slock[buf[p]] # NULL)
      BY Zenon, <2>2 DEF Alike, CacheInv, Locked
    <3> QED
      BY Zenon, <2>1, <2>2, <3>1, AlikeStep
  <2>4. DriverTypes'
    BY Zenon, <2>2 DEF DriverInv, DriverTypes
  <2>5. \A p \in Procs : (InFlight(p)' <=> InFlight(p)) /\ (pc'[p] = "iowait" => bdisk[buf[p]])
    BY Zenon, <2>2 DEF InFlight, DriverInv, Rings
  <2> QED
    BY Zenon, <2>2, <2>3, <2>4, <2>5, DriverFrame
<1> QED
  BY Zenon, <1>1, <1>2, <1>3, <1>4, <1>5, <1>6, <1>7 DEF Next, Halted, Driver
-----------------------------------------------------------------------------
(* Counting: descriptors come and go in threes, and refcnt counts who has  *)
(* the buffer and the pin of the log.                                      *)
DescsCounted ==
  /\ \A h \in Heads : Cardinality(chain[h]) = 3
  /\ Cardinality(free) + 3 * Cardinality(Heads) = NUM
  /\ \A p \in Procs : pc[p] = "nodesc" => Cardinality(free) < 3
Pin(b) == IF bno[b] \in pins THEN 1 ELSE 0
RefsCounted ==
  /\ refcnt \in [Bufs -> Int]
  /\ \A b \in Bufs : refcnt[b] = Cardinality(Users(b)) + Pin(b)
PinsCounted == IsFiniteSet(pins) /\ Cardinality(pins) <= MaxPins

IInv == DriverInv /\ CacheInv /\ DescsCounted /\ RefsCounted /\ PinsCounted
-----------------------------------------------------------------------------
(* What FiniteSetsExt!Max chooses. *)
LEMMA Greatest ==
  ASSUME CardFacts, NEW T \in SUBSET Bufs, T # {}
  PROVE  Max(T) \in T
<1> DEFINE D == {NBUF - y : y \in T}
<1>1. \A y \in T : y \in Nat /\ NBUF - y \in Nat
  BY SMT, VirtioConstants DEF Bufs
<1>2. D \in SUBSET Nat /\ D # {}
  BY Zenon, <1>1
<1> HIDE DEF D
<1>3. Min(D) \in D /\ \A y \in D : Min(D) <= y
  BY Zenon, <1>2, Smallest
<1>4. PICK t \in T : Min(D) = NBUF - t
  BY Zenon, <1>3 DEF D
<1>5. ASSUME NEW y \in T PROVE t >= y
  <2>1. NBUF - t <= NBUF - y
    BY Zenon, <1>3, <1>4 DEF D
  <2> QED
    BY SMT, <1>1, <2>1, VirtioConstants
<1>6. \E z \in T : \A y \in T : z >= y
  BY Zenon, <1>5
<1> QED
  BY Zenon, <1>6 DEF Max

LEMMA FiniteParts ==
  ASSUME CardFacts, IInv
  PROVE  /\ IsFiniteSet(free) /\ Cardinality(free) \in Nat
         /\ IsFiniteSet(Heads) /\ Cardinality(Heads) \in Nat
         /\ \A h \in Heads : IsFiniteSet(chain[h])
         /\ \A b \in Bufs : IsFiniteSet(Users(b)) /\ Cardinality(Users(b)) \in Nat /\ Pin(b) \in 0 .. 1
         /\ Cardinality(pins) \in Nat
<1>1. IsFiniteSet(Descs)
  <2>1. 0 \in Int /\ NUM - 1 \in Int
    BY SMT, VirtioConstants
  <2> QED
    BY Zenon, <2>1 DEF CardFacts, CardInterval, Descs
<1>2. free \in SUBSET Descs /\ Heads \in SUBSET Descs /\ \A h \in Heads : chain[h] \in SUBSET Descs
  BY Zenon DEF IInv, DriverInv, DriverTypes, Heads
<1>3. IsFiniteSet(free) /\ IsFiniteSet(Heads) /\ \A h \in Heads : IsFiniteSet(chain[h])
  BY Zenon, <1>1, <1>2 DEF CardFacts, CardSubset
<1>4. Cardinality(free) \in Nat /\ Cardinality(Heads) \in Nat /\ Cardinality(pins) \in Nat
  BY Zenon, <1>3 DEF CardFacts, CardType, IInv, PinsCounted
<1>5. ASSUME NEW b \in Bufs PROVE IsFiniteSet(Users(b)) /\ Cardinality(Users(b)) \in Nat
  <2>1. Users(b) \in SUBSET Procs
    BY Zenon DEF Users
  <2> HIDE DEF Users
  <2>2. IsFiniteSet(Users(b))
    BY Zenon, <2>1, VirtioConstants DEF CardFacts, CardSubset
  <2> QED
    BY Zenon, <2>2 DEF CardFacts, CardType
<1>6. \A b \in Bufs : Pin(b) \in 0 .. 1
  BY SMT DEF Pin
<1> QED
  BY Zenon, <1>3, <1>4, <1>5, <1>6

LEMMA CountsGive ==
  ASSUME CardFacts, IInv
  PROVE  Counting
<1>1. ASSUME NEW b \in Unused PROVE Users(b) = {} /\ bno[b] \notin pins
  <2>1. b \in Bufs /\ refcnt[b] = 0 /\ refcnt[b] = Cardinality(Users(b)) + Pin(b)
    BY Zenon DEF Unused, IInv, RefsCounted
  <2>2. IsFiniteSet(Users(b)) /\ Cardinality(Users(b)) \in Nat /\ Pin(b) \in 0 .. 1
    BY Zenon, <2>1, FiniteParts
  <2>3. Cardinality(Users(b)) = 0 /\ Pin(b) = 0
    BY SMT, <2>1, <2>2
  <2>4. Users(b) = {}
    <3> HIDE DEF Users
    <3> QED
      BY Zenon, <2>2, <2>3 DEF CardFacts, CardEmpty
  <2>5. bno[b] \notin pins
    <3>1. 1 # 0
      BY SMT
    <3> QED
      BY Zenon, <2>3, <3>1 DEF Pin
  <2> QED
    BY Zenon, <2>4, <2>5
<1>2. ASSUME Unused # {} PROVE lru[Max({i \in DOMAIN lru : lru[i] \in Unused})] \in Unused
  <2> DEFINE T == {i \in DOMAIN lru : lru[i] \in Unused}
  <2>1. DOMAIN lru = Bufs
    BY Zenon DEF IInv, CacheInv, CacheTypes
  <2>2. T \in SUBSET Bufs /\ T # {}
    <3>1. PICK b \in Bufs : b \in Unused
      BY Zenon, <1>2 DEF Unused
    <3>2. PICK i \in Bufs : lru[i] = b
      BY Zenon DEF IInv, CacheInv, Listed
    <3> QED
      BY Zenon, <2>1, <3>1, <3>2
  <2>3. Max(T) \in T
    <3> HIDE DEF T
    <3> QED
      BY Zenon, <2>2, Greatest
  <2> QED
    BY Zenon, <2>3
<1>3. ASSUME Cardinality(free) >= 3 PROVE ThreeFree
  <2>1. Cardinality(free) \in Nat /\ free \in SUBSET Descs
    BY Zenon, FiniteParts DEF IInv, DriverInv, DriverTypes
  <2> QED
    BY Zenon, <1>3, <2>1, AllocThree
<1> QED
  BY Zenon, <1>1, <1>2, <1>3 DEF Counting

(* The steps of virtio_disk_rw() that take descriptors and give them back. *)
LEMMA DescsTaken ==
  ASSUME CardFacts, IInv, NEW p \in Procs, RwStart(p, bno[buf[p]]), UNCHANGED <<cache, bounds>>
  PROVE  DescsCounted'
<1> DEFINE h == Min(free)
           three == alloc3_desc
<1>0. Cardinality(free) \in Nat /\ Cardinality(Heads) \in Nat /\ IsFiniteSet(Heads) /\ free \in SUBSET Descs
  BY Zenon, FiniteParts DEF IInv, DriverInv, DriverTypes
<1>1. Heads' = Heads \cup {h} /\ h \notin Heads
  BY Zenon, CountsGive, StartStep DEF IInv
<1>2. /\ pc[p] = "rw" /\ Cardinality(free) >= 3 /\ free' = free \ three
      /\ chain' = [chain EXCEPT ![h] = three] /\ pc' = [pc EXCEPT ![p] = "iowait"]
  BY Zenon DEF RwStart
<1>3. ThreeFree /\ Cardinality(three) = 3 /\ Cardinality(free \ three) = Cardinality(free) - 3
  BY Zenon, <1>0, <1>2, AllocThree
<1>4. Cardinality(Heads') = Cardinality(Heads) + 1
  BY Zenon, <1>0, <1>1 DEF CardFacts, CardAdd
<1>5. chain \in [Descs -> SUBSET Descs] /\ pc \in [Procs -> Labels] /\ h \in Descs
  BY Zenon, <1>0, <1>3 DEF IInv, DriverInv, DriverTypes, ThreeFree
<1> HIDE DEF h, three
<1>6. chain'[h] = three /\ \A g \in Descs : g # h => chain'[g] = chain[g]
  BY Zenon, <1>2, <1>5
<1>7. \A g \in Heads' : Cardinality(chain'[g]) = 3
  <2>1. \A g \in Heads : g \in Descs /\ Cardinality(chain[g]) = 3
    BY Zenon DEF IInv, DescsCounted, Heads
  <2> QED
    BY Zenon, <1>1, <1>3, <1>6, <2>1
<1>8. Cardinality(free') + 3 * Cardinality(Heads') = NUM
  <2>1. Cardinality(free) + 3 * Cardinality(Heads) = NUM
    BY Zenon DEF IInv, DescsCounted
  <2>2. Cardinality(free') = Cardinality(free) - 3
    BY Zenon, <1>2, <1>3
  <2> QED
    BY SMT, <1>0, <1>4, <2>1, <2>2
<1>9. \A q \in Procs : pc'[q] # "nodesc"
  <2>1. ~(Cardinality(free) < 3)
    BY SMT, <1>0, <1>2
  <2>2. \A q \in Procs : pc[q] # "nodesc"
    BY Zenon, <2>1 DEF IInv, DescsCounted
  <2> QED
    BY Zenon, <1>2, <1>5, <2>2
<1> QED
  BY Zenon, <1>7, <1>8, <1>9 DEF DescsCounted

LEMMA DescsReturned ==
  ASSUME CardFacts, IInv, NEW p \in Procs, RwDone(p)
  PROVE  DescsCounted'
<1> DEFINE h == head[p]
<1>0. /\ Cardinality(free) \in Nat /\ Cardinality(Heads) \in Nat
      /\ IsFiniteSet(Heads) /\ IsFiniteSet(free) /\ IsFiniteSet(chain[h])
      /\ h \in Heads /\ Heads' = Heads \ {h} /\ chain[h] \cap free = {}
  BY Zenon, FiniteParts, RwReturns DEF IInv
<1>1. /\ free' = free \cup chain[h] /\ chain' = [chain EXCEPT ![h] = {}]
      /\ pc' = [WakeFree EXCEPT ![p] = "use"]
  BY Zenon DEF RwDone
<1> HIDE DEF h
<1>2. Cardinality(Heads') = Cardinality(Heads) - 1
  BY Zenon, <1>0 DEF CardFacts, CardRemove
<1>3. Cardinality(chain[h]) = 3 /\ Cardinality(free) + 3 * Cardinality(Heads) = NUM
  BY Zenon, <1>0 DEF IInv, DescsCounted
<1>4. Cardinality(free') = Cardinality(free) + 3
  <2>1. Cardinality(free \cup chain[h]) = Cardinality(free) + Cardinality(chain[h]) - Cardinality(free \cap chain[h])
    BY Zenon, <1>0 DEF CardFacts, CardUnion
  <2>2. Cardinality(free \cap chain[h]) = 0
    <3>1. free \cap chain[h] = {}
      BY Zenon, <1>0
    <3> QED
      BY Zenon, <3>1 DEF CardFacts, CardEmpty
  <2> QED
    BY SMT, <1>0, <1>1, <1>3, <2>1, <2>2
<1>5. Cardinality(free') + 3 * Cardinality(Heads') = NUM
  BY SMT, <1>0, <1>2, <1>3, <1>4
<1>6. \A g \in Heads' : Cardinality(chain'[g]) = 3
  <2>1. chain \in [Descs -> SUBSET Descs] /\ \A g \in Heads : g \in Descs
    BY Zenon DEF IInv, DriverInv, DriverTypes, Heads
  <2>2. \A g \in Descs : g # h => chain'[g] = chain[g]
    BY Zenon, <1>1, <2>1
  <2> QED
    BY Zenon, <1>0, <2>1, <2>2 DEF IInv, DescsCounted
<1>7. \A q \in Procs : pc'[q] # "nodesc"
  BY Zenon, <1>1 DEF WakeFree
<1> QED
  BY Zenon, <1>5, <1>6, <1>7 DEF DescsCounted

LEMMA DescsStep ==
  ASSUME CardFacts, IInv, [Next]_vars
  PROVE  DescsCounted'
<1>0. pc \in [Procs -> Labels]
  BY Zenon DEF IInv, DriverInv, DriverTypes
<1>1. SUFFICES ASSUME ~DescsCounted'
               PROVE  /\ free' = free /\ chain' = chain
                      /\ \A q \in Procs : pc'[q] = "nodesc" => pc[q] = "nodesc" \/ Cardinality(free) < 3
  <2>1. ASSUME free' = free, chain' = chain,
               \A q \in Procs : pc'[q] = "nodesc" => pc[q] = "nodesc" \/ Cardinality(free) < 3
        PROVE  DescsCounted'
    BY Zenon, <2>1 DEF DescsCounted, Heads, IInv
  <2> QED
    BY Zenon, <2>1
<1> DEFINE Goal == /\ free' = free /\ chain' = chain
                   /\ \A q \in Procs : pc'[q] = "nodesc" => pc[q] = "nodesc" \/ Cardinality(free) < 3
<1>2. ASSUME NEW p \in Procs, NEW k \in Blocks, Bread(p, k) PROVE Goal
  BY Zenon, <1>0, <1>2 DEF Bread, Goto, driver
<1>3. ASSUME NEW p \in Procs, Work(p) PROVE Goal
  <2>1. CASE BgetHit(p)
    BY Zenon, <1>0, <2>1 DEF BgetHit, Goto, driver
  <2>2. CASE BgetMiss(p)
    BY Zenon, <1>0, <2>2 DEF BgetMiss, Goto, driver
  <2>3. CASE AcquireSleep(p)
    BY Zenon, <1>0, <2>3 DEF AcquireSleep, Goto, driver
  <2>4. CASE AcquireWait(p)
    BY Zenon, <1>0, <2>4 DEF AcquireWait, Goto, driver
  <2>5. CASE Rw(p)
    <3>1. CASE RwNoDesc(p)
      BY Zenon, <3>1 DEF RwNoDesc, driver
    <3>2. CASE RwAgain(p)
      BY Zenon, <1>0, <3>2 DEF RwAgain, driver
    <3> QED
      BY Zenon, <1>1, <2>5, <3>1, <3>2, DescsTaken, DescsReturned DEF Rw
  <2>6. CASE Brelse(p)
    BY Zenon, <1>0, <2>6 DEF Brelse, Goto, driver
  <2> QED
    BY Zenon, <1>3, <2>1, <2>2, <2>3, <2>4, <2>5, <2>6 DEF Work
<1>4. ASSUME NEW p \in Procs, Hold(p) PROVE Goal
  <2>1. CASE Bpin(p) \/ Bunpin(p)
    BY Zenon, <2>1 DEF Bpin, Bunpin, driver
  <2>2. CASE Bwrite(p)
    BY Zenon, <1>0, <2>2 DEF Bwrite, Goto, driver
  <2>3. CASE ReleaseSleep(p)
    BY Zenon, <1>0, <2>3 DEF ReleaseSleep, driver
  <2> QED
    BY Zenon, <1>4, <2>1, <2>2, <2>3 DEF Hold
<1>5. ASSUME NEW p \in Procs, Kill(p) PROVE Goal
  BY Zenon, <1>0, <1>5 DEF Kill, Goto, driver
<1>6. ASSUME Driver PROVE Goal
  <2>1. CASE Intr
    <3>1. CacheInv /\ DriverInv /\ Exclusive
      BY Zenon, Holders DEF IInv
    <3>2. free' = free /\ chain' = chain /\ \A q \in Procs : pc'[q] = pc[q] \/ (pc[q] = "iowait" /\ pc'[q] = "iodone")
      BY Zenon, <2>1, <3>1, IntrAnswers
    <3> QED
      BY Zenon, <3>2
  <2>2. CASE \E h \in Descs : Device(h)
    BY Zenon, <2>2 DEF Device
  <2> QED
    BY Zenon, <1>6, <2>1, <2>2 DEF Driver
<1>7. ASSUME UNCHANGED vars PROVE Goal
  BY Zenon, <1>7 DEF vars, driver
<1> HIDE DEF Goal
<1>8. Goal
  BY Zenon, <1>2, <1>3, <1>4, <1>5, <1>6, <1>7 DEF Next, Halted
<1> QED
  BY Zenon, <1>8 DEF Goal

(* The reference counts change for one buffer at a time. *)
LEMMA RefsChange ==
  ASSUME CardFacts, IInv, NEW b \in Bufs, refcnt' \in [Bufs -> Int],
         refcnt'[b] = Cardinality(Users(b)') + Pin(b)',
         \A c \in Bufs : c # b => refcnt'[c] = refcnt[c] /\ Users(c)' = Users(c) /\ Pin(c)' = Pin(c)
  PROVE  RefsCounted'
<1> SUFFICES ASSUME NEW c \in Bufs PROVE refcnt'[c] = Cardinality(Users(c)') + Pin(c)'
  BY Zenon DEF RefsCounted
<1>1. CASE c = b
  BY Zenon, <1>1
<1>2. CASE c # b
  <2>1. refcnt[c] = Cardinality(Users(c)) + Pin(c)
    BY Zenon DEF IInv, RefsCounted
  <2>2. refcnt'[c] = refcnt[c] /\ Users(c)' = Users(c) /\ Pin(c)' = Pin(c)
    BY Zenon, <1>2
  <2> HIDE DEF Users, Pin
  <2> QED
    BY Zenon, <2>1, <2>2
<1> QED
  BY Zenon, <1>1, <1>2

LEMMA RefsFrame ==
  ASSUME CardFacts, IInv, UNCHANGED <<refcnt, buf, bno, pins>>
  PROVE  RefsCounted' /\ PinsCounted'
<1>1. \A b \in Bufs : Users(b)' = Users(b) /\ Pin(b)' = Pin(b)
  BY Zenon DEF Users, Pin
<1>2. ASSUME NEW b \in Bufs PROVE refcnt[b] = Cardinality(Users(b)') + Pin(b)'
  <2>1. refcnt[b] = Cardinality(Users(b)) + Pin(b)
    BY Zenon DEF IInv, RefsCounted
  <2>2. Users(b)' = Users(b) /\ Pin(b)' = Pin(b)
    BY Zenon, <1>1
  <2> HIDE DEF Users, Pin
  <2> QED
    BY Zenon, <2>1, <2>2
<1> QED
  BY Zenon, <1>2 DEF RefsCounted, PinsCounted, IInv

(* bget() takes a reference. *)
LEMMA BgetCounts ==
  ASSUME CardFacts, IInv, NEW p \in Procs, BgetHit(p) \/ BgetMiss(p)
  PROVE  RefsCounted' /\ PinsCounted'
<1>0. CacheInv /\ DriverInv /\ CacheTypes /\ DriverTypes /\ pc[p] = "bget" /\ pins' = pins /\ refcnt \in [Bufs -> Int]
  BY Zenon DEF IInv, CacheInv, DriverInv, BgetHit, BgetMiss, At, RefsCounted
<1>1. buf[p] = 0 /\ want[p] \in Blocks /\ buf \in [Procs -> 0 .. NBUF]
  BY Zenon, <1>0 DEF CacheInv, Asks, DriverTypes
<1>2. PinsCounted'
  BY Zenon, <1>0 DEF IInv, PinsCounted
<1>3. ASSUME NEW b \in Bufs, buf' = [buf EXCEPT ![p] = b]
      PROVE  Users(b)' = Users(b) \cup {p} /\ p \notin Users(b) /\ \A c \in Bufs : c # b => Users(c)' = Users(c)
  <2>1. buf'[p] = b /\ \A q \in Procs : q # p => buf'[q] = buf[q]
    BY Zenon, <1>1, <1>3
  <2>2. \A c \in Bufs : c # 0
    BY Zenon, BlockFacts
  <2>3. \A c \in Bufs : p \notin Users(c)
    BY Zenon, <1>1, <2>2 DEF Users
  <2>4. ASSUME NEW c \in Bufs, NEW q PROVE q \in Users(c)' <=> q \in Users(c) \/ (q = p /\ c = b)
    <3>1. CASE q = p
      BY Zenon, <2>1, <2>3, <3>1 DEF Users
    <3>2. CASE q # p
      BY Zenon, <2>1, <3>2 DEF Users
    <3> QED
      BY Zenon, <3>1, <3>2
  <2>5. \A c \in Bufs : c # b => Users(c)' = Users(c)
    <3> HIDE DEF Users
    <3> QED
      BY Zenon, <2>4
  <2>6. Users(b)' = Users(b) \cup {p}
    <3> HIDE DEF Users
    <3> QED
      BY Zenon, <2>4
  <2> QED
    BY Zenon, <2>3, <2>5, <2>6
<1>4. CASE BgetHit(p)
  <2>1. PICK b \in Bufs : bno[b] = want[p] /\ refcnt' = [refcnt EXCEPT ![b] = @ + 1] /\ buf' = [buf EXCEPT ![p] = b]
    BY Zenon, <1>4 DEF BgetHit, Cached
  <2>2. bno' = bno
    BY Zenon, <1>4 DEF BgetHit
  <2>3. \A c \in Bufs : Pin(c)' = Pin(c)
    BY Zenon, <1>0, <2>2 DEF Pin
  <2>4. Users(b)' = Users(b) \cup {p} /\ p \notin Users(b) /\ \A c \in Bufs : c # b => Users(c)' = Users(c)
    BY Zenon, <1>3, <2>1
  <2>5. refcnt[b] \in Int /\ refcnt[b] + 1 \in Int
    BY SMT, <1>0
  <2>6. refcnt' \in [Bufs -> Int] /\ refcnt'[b] = refcnt[b] + 1 /\ \A c \in Bufs : c # b => refcnt'[c] = refcnt[c]
    BY Zenon, <1>0, <2>1, <2>5
  <2>7. IsFiniteSet(Users(b)) /\ Cardinality(Users(b)) \in Nat /\ Pin(b) \in 0 .. 1 /\ refcnt[b] = Cardinality(Users(b)) + Pin(b)
    BY Zenon, FiniteParts DEF IInv, RefsCounted
  <2>8. Cardinality(Users(b)') = Cardinality(Users(b)) + 1
    <3> HIDE DEF Users
    <3> QED
      BY Zenon, <2>4, <2>7 DEF CardFacts, CardAdd
  <2>9. refcnt'[b] = Cardinality(Users(b)') + Pin(b)'
    <3>1. Pin(b)' = Pin(b)
      BY Zenon, <2>3
    <3> HIDE DEF Users, Pin
    <3> QED
      BY SMT, <2>6, <2>7, <2>8, <3>1
  <2> HIDE DEF Users, Pin
  <2> QED
    BY Zenon, <1>2, <2>3, <2>4, <2>6, <2>9, RefsChange
<1>5. CASE BgetMiss(p) /\ Unused = {}
  BY Zenon, <1>0, <1>5, RefsFrame DEF BgetMiss
<1>6. CASE BgetMiss(p) /\ Unused # {}
  <2>1. PICK b \in Bufs :
          /\ bno' = [bno EXCEPT ![b] = want[p]] /\ refcnt' = [refcnt EXCEPT ![b] = 1]
          /\ buf' = [buf EXCEPT ![p] = b] /\ Cached(want[p]) = {} /\ b \in Unused
    <3> DEFINE c == lru[Max({i \in DOMAIN lru : lru[i] \in Unused})]
    <3>1. /\ bno' = [bno EXCEPT ![c] = want[p]] /\ refcnt' = [refcnt EXCEPT ![c] = 1]
          /\ buf' = [buf EXCEPT ![p] = c] /\ Cached(want[p]) = {}
      BY Zenon, <1>6 DEF BgetMiss
    <3>2. c \in Unused /\ c \in Bufs
      BY Zenon, <1>6, CountsGive DEF Counting, Unused
    <3> HIDE DEF c
    <3> QED
      BY Zenon, <3>1, <3>2
  <2>2. Users(b) = {} /\ bno[b] \notin pins
    BY Zenon, <2>1, CountsGive DEF Counting
  <2>10. pins' = pins
    BY Zenon, <1>0
  <2>3. Users(b)' = Users(b) \cup {p} /\ p \notin Users(b) /\ \A c \in Bufs : c # b => Users(c)' = Users(c)
    BY Zenon, <1>3, <2>1, <2>10
  <2>4. want[p] \notin pins
    BY Zenon, <2>1, <1>0 DEF Cached, CacheInv, Pinned
  <2>5. bno'[b] = want[p] /\ \A c \in Bufs : c # b => bno'[c] = bno[c]
    BY Zenon, <1>0, <2>1, <2>2 DEF CacheTypes
  <2>6. Pin(b)' = 0 /\ \A c \in Bufs : c # b => Pin(c)' = Pin(c)
    BY Zenon, <2>4, <2>5, <2>10 DEF Pin
  <2>7. refcnt' \in [Bufs -> Int] /\ refcnt'[b] = 1 /\ \A c \in Bufs : c # b => refcnt'[c] = refcnt[c]
    <3>1. 1 \in Int
      BY SMT
    <3> QED
      BY Zenon, <1>0, <2>1, <2>2, <3>1
  <2>8. Cardinality(Users(b)') = 1
    <3>1. Users(b)' = {p}
      BY Zenon, <2>2, <2>3
    <3> HIDE DEF Users
    <3> QED
      BY Zenon, <3>1 DEF CardFacts, CardOne
  <2>9. refcnt'[b] = Cardinality(Users(b)') + Pin(b)'
    <3> HIDE DEF Users, Pin
    <3> QED
      BY SMT, <2>6, <2>7, <2>8
  <2> HIDE DEF Users, Pin
  <2> QED
    BY Zenon, <1>2, <2>3, <2>6, <2>7, <2>9, <2>10, RefsChange
<1> QED
  BY Zenon, <1>4, <1>5, <1>6

(* bpin() takes a reference for the log, bunpin() gives it back. *)
LEMMA PinCounts ==
  ASSUME CardFacts, IInv, NEW p \in Procs, Bpin(p) \/ Bunpin(p)
  PROVE  RefsCounted' /\ PinsCounted'
<1>0. CacheInv /\ DriverInv /\ CacheTypes /\ pc[p] = "use" /\ refcnt \in [Bufs -> Int] /\ buf' = buf /\ bno' = bno
  BY Zenon DEF IInv, CacheInv, Bpin, Bunpin, At, RefsCounted
<1>1. PICK b \in Bufs : b = buf[p] /\ bno[b] \in Blocks /\ \A c \in Bufs : c # b => bno[c] # bno[b]
  <2>1. buf[p] \in Bufs /\ bno[buf[p]] \in Blocks /\ \A c \in Bufs : c # buf[p] => bno[c] # bno[buf[p]]
    BY Zenon, <1>0, HolderFacts
  <2> QED
    BY Zenon, <2>1
<1>2. PICK k \in Blocks : k = bno[b]
  BY Zenon, <1>1
<1>3. \A c \in Bufs : Users(c)' = Users(c)
  BY Zenon, <1>0 DEF Users
<1>4. /\ IsFiniteSet(pins) /\ Cardinality(pins) \in Nat /\ Cardinality(pins) <= MaxPins /\ MaxPins \in Nat
      /\ Cardinality(Users(b)) \in Nat
      /\ refcnt[b] = Cardinality(Users(b)) + Pin(b) /\ refcnt[b] \in Int
  BY Zenon, <1>0, FiniteParts, BcacheConstants DEF IInv, PinsCounted, RefsCounted
<1>5. CASE Bpin(p) /\ k \in pins
  <2>1. refcnt' = [refcnt EXCEPT ![b] = IF bno[b] \in pins THEN @ ELSE @ + 1] /\ pins' = pins \cup {k}
    BY Zenon, <1>1, <1>2, <1>5 DEF Bpin
  <2>2. pins' = pins
    BY Zenon, <1>5, <2>1
  <2>3. refcnt' = refcnt
    BY Zenon, <1>0, <1>2, <1>5, <2>1
  <2> QED
    BY Zenon, <1>0, <2>2, <2>3, RefsFrame
<1>6. CASE Bpin(p) /\ k \notin pins
  <2>1. /\ refcnt' = [refcnt EXCEPT ![b] = IF bno[b] \in pins THEN @ ELSE @ + 1] /\ pins' = pins \cup {k}
        /\ Cardinality(pins) < MaxPins
    BY Zenon, <1>1, <1>2, <1>6 DEF Bpin
  <2>2. refcnt[b] + 1 \in Int
    BY SMT, <1>4
  <2>3. refcnt' \in [Bufs -> Int] /\ refcnt'[b] = refcnt[b] + 1 /\ \A c \in Bufs : c # b => refcnt'[c] = refcnt[c]
    BY Zenon, <1>0, <1>2, <1>6, <2>1, <2>2
  <2>4. Pin(b) = 0 /\ Pin(b)' = 1 /\ \A c \in Bufs : c # b => Pin(c)' = Pin(c)
    BY Zenon, <1>0, <1>1, <1>2, <1>6, <2>1 DEF Pin
  <2>5. refcnt'[b] = Cardinality(Users(b)') + Pin(b)'
    <3>1. Users(b)' = Users(b)
      BY Zenon, <1>3
    <3> HIDE DEF Users, Pin
    <3> QED
      BY SMT, <1>4, <2>3, <2>4, <3>1
  <2>6. IsFiniteSet(pins') /\ Cardinality(pins') = Cardinality(pins) + 1
    BY Zenon, <1>4, <1>6, <2>1 DEF CardFacts, CardAdd
  <2>7. Cardinality(pins') <= MaxPins
    BY SMT, <1>4, <2>1, <2>6
  <2> HIDE DEF Users, Pin
  <2>8. RefsCounted'
    BY Zenon, <1>3, <2>3, <2>4, <2>5, RefsChange
  <2> QED
    BY Zenon, <2>6, <2>7, <2>8 DEF PinsCounted
<1>7. CASE Bunpin(p)
  <2>1. refcnt' = [refcnt EXCEPT ![b] = @ - 1] /\ pins' = pins \ {k} /\ k \in pins
    BY Zenon, <1>1, <1>2, <1>7 DEF Bunpin
  <2>2. refcnt[b] - 1 \in Int
    BY SMT, <1>4
  <2>3. refcnt' \in [Bufs -> Int] /\ refcnt'[b] = refcnt[b] - 1 /\ \A c \in Bufs : c # b => refcnt'[c] = refcnt[c]
    BY Zenon, <1>0, <2>1, <2>2
  <2>4. Pin(b) = 1 /\ Pin(b)' = 0 /\ \A c \in Bufs : c # b => Pin(c)' = Pin(c)
    BY Zenon, <1>0, <1>1, <1>2, <2>1 DEF Pin
  <2>5. refcnt'[b] = Cardinality(Users(b)') + Pin(b)'
    <3>1. Users(b)' = Users(b)
      BY Zenon, <1>3
    <3> HIDE DEF Users, Pin
    <3> QED
      BY SMT, <1>4, <2>3, <2>4, <3>1
  <2>6. IsFiniteSet(pins') /\ Cardinality(pins') = Cardinality(pins) - 1
    BY Zenon, <1>4, <2>1 DEF CardFacts, CardRemove
  <2>7. Cardinality(pins') <= MaxPins
    BY SMT, <1>4, <2>6
  <2> HIDE DEF Users, Pin
  <2>8. RefsCounted'
    BY Zenon, <1>3, <2>3, <2>4, <2>5, RefsChange
  <2> QED
    BY Zenon, <2>6, <2>7, <2>8 DEF PinsCounted
<1> QED
  BY Zenon, <1>5, <1>6, <1>7

(* brelse() gives the reference back. *)
LEMMA BrelseCounts ==
  ASSUME CardFacts, IInv, NEW p \in Procs, Brelse(p)
  PROVE  RefsCounted' /\ PinsCounted'
<1>0. CacheInv /\ DriverInv /\ DriverTypes /\ pc[p] = "rel" /\ refcnt \in [Bufs -> Int] /\ pins' = pins /\ bno' = bno
  BY Zenon DEF IInv, DriverInv, Brelse, At, RefsCounted
<1>1. PICK b \in Bufs : b = buf[p]
  BY Zenon, <1>0 DEF CacheInv, Asks
<1>2. refcnt' = [refcnt EXCEPT ![b] = @ - 1] /\ buf' = [buf EXCEPT ![p] = 0]
  BY Zenon, <1>1 DEF Brelse
<1>3. /\ IsFiniteSet(Users(b)) /\ Cardinality(Users(b)) \in Nat /\ Pin(b) \in 0 .. 1
      /\ refcnt[b] = Cardinality(Users(b)) + Pin(b) /\ refcnt[b] \in Int
  BY Zenon, <1>0, FiniteParts DEF IInv, RefsCounted
<1>4. refcnt[b] - 1 \in Int
  BY SMT, <1>3
<1>5. refcnt' \in [Bufs -> Int] /\ refcnt'[b] = refcnt[b] - 1 /\ \A c \in Bufs : c # b => refcnt'[c] = refcnt[c]
  BY Zenon, <1>0, <1>2, <1>4
<1>6. \A c \in Bufs : Pin(c)' = Pin(c)
  BY Zenon, <1>0 DEF Pin
<1>7. Users(b)' = Users(b) \ {p} /\ p \in Users(b) /\ \A c \in Bufs : c # b => Users(c)' = Users(c)
  <2>1. buf'[p] = 0 /\ \A q \in Procs : q # p => buf'[q] = buf[q]
    BY Zenon, <1>0, <1>2 DEF DriverTypes
  <2>2. \A c \in Bufs : c # 0
    BY Zenon, BlockFacts
  <2>3. ASSUME NEW c \in Bufs, NEW q PROVE q \in Users(c)' <=> q \in Users(c) /\ q # p
    <3>1. CASE q = p
      BY Zenon, <2>1, <2>2, <3>1 DEF Users
    <3>2. CASE q # p
      BY Zenon, <2>1, <3>2 DEF Users
    <3> QED
      BY Zenon, <3>1, <3>2
  <2>4. p \in Users(b) /\ \A c \in Bufs : c # b => p \notin Users(c)
    BY Zenon, <1>1 DEF Users
  <2>5. Users(b)' = Users(b) \ {p}
    <3> HIDE DEF Users
    <3> QED
      BY Zenon, <2>3
  <2>6. \A c \in Bufs : c # b => Users(c)' = Users(c)
    <3> HIDE DEF Users
    <3> QED
      BY Zenon, <2>3, <2>4
  <2> QED
    BY Zenon, <2>4, <2>5, <2>6
<1> HIDE DEF Users, Pin
<1>8. Cardinality(Users(b)') = Cardinality(Users(b)) - 1
  BY Zenon, <1>3, <1>7 DEF CardFacts, CardRemove
<1>9. refcnt'[b] = Cardinality(Users(b)') + Pin(b)'
  <2>1. Pin(b)' = Pin(b)
    BY Zenon, <1>6
  <2> QED
    BY SMT, <1>3, <1>5, <1>8, <2>1
<1>10. RefsCounted'
  BY Zenon, <1>5, <1>6, <1>7, <1>9, RefsChange
<1> QED
  BY Zenon, <1>0, <1>10 DEF PinsCounted, IInv

LEMMA RefsStep ==
  ASSUME CardFacts, IInv, [Next]_vars
  PROVE  RefsCounted' /\ PinsCounted'
<1>1. ASSUME NEW p \in Procs, NEW k \in Blocks, Bread(p, k) PROVE UNCHANGED <<refcnt, buf, bno, pins>>
  BY Zenon, <1>1 DEF Bread
<1>2. ASSUME NEW p \in Procs, Work(p)
      PROVE  BgetHit(p) \/ BgetMiss(p) \/ Brelse(p) \/ UNCHANGED <<refcnt, buf, bno, pins>>
  <2>1. CASE AcquireSleep(p)
    BY Zenon, <2>1 DEF AcquireSleep
  <2>2. CASE AcquireWait(p)
    BY Zenon, <2>2 DEF AcquireWait, cache
  <2>3. CASE Rw(p)
    BY Zenon, <2>3 DEF Rw, RwStart, RwNoDesc, RwAgain, RwDone, cache
  <2> QED
    BY Zenon, <1>2, <2>1, <2>2, <2>3 DEF Work
<1>3. ASSUME NEW p \in Procs, Hold(p) PROVE Bpin(p) \/ Bunpin(p) \/ UNCHANGED <<refcnt, buf, bno, pins>>
  BY Zenon, <1>3 DEF Hold, Bwrite, ReleaseSleep, cache
<1>4. ASSUME NEW p \in Procs, Kill(p) PROVE UNCHANGED <<refcnt, buf, bno, pins>>
  BY Zenon, <1>4 DEF Kill, cache
<1>5. ASSUME Driver, UNCHANGED <<cache, bounds>> PROVE UNCHANGED <<refcnt, buf, bno, pins>>
  BY Zenon, <1>5 DEF Driver, Intr, IntrStart, IntrEntry, IntrEnd, Device, cache
<1>6. ASSUME UNCHANGED vars PROVE UNCHANGED <<refcnt, buf, bno, pins>>
  BY Zenon, <1>6 DEF vars, cache
<1>7. \/ UNCHANGED <<refcnt, buf, bno, pins>>
      \/ \E p \in Procs : BgetHit(p) \/ BgetMiss(p) \/ Brelse(p) \/ Bpin(p) \/ Bunpin(p)
  BY Zenon, <1>1, <1>2, <1>3, <1>4, <1>5, <1>6 DEF Next, Halted
<1> QED
  BY Zenon, <1>7, RefsFrame, BgetCounts, PinCounts, BrelseCounts

LEMMA InitCounts ==
  ASSUME CardFacts, Init
  PROVE  IInv
<1>1. DriverInv /\ CacheInv /\ Heads = {} /\ free = Descs
  BY Zenon, InitStep
<1>2. /\ pc = [p \in Procs |-> "idle"] /\ buf = [p \in Procs |-> 0]
      /\ refcnt = [b \in Bufs |-> 0] /\ pins = {}
  BY Zenon DEF Init
<1>3. Cardinality({}) = 0 /\ IsFiniteSet({})
  BY Zenon DEF CardFacts, CardEmpty
<1>4. DescsCounted
  <2>1. 0 \in Int /\ NUM - 1 \in Int /\ ~(0 > NUM - 1) /\ NUM - 1 - 0 + 1 = NUM
    BY SMT, VirtioConstants
  <2>2. Cardinality(0 .. NUM - 1) = IF 0 > NUM - 1 THEN 0 ELSE NUM - 1 - 0 + 1
    BY Zenon, <2>1 DEF CardFacts, CardInterval
  <2>3. Cardinality(free) = NUM
    BY Zenon, <1>1, <2>1, <2>2 DEF Descs
  <2>4. NUM + 3 * 0 = NUM
    BY SMT, VirtioConstants
  <2> QED
    BY Zenon, <1>1, <1>2, <1>3, <2>3, <2>4 DEF DescsCounted
<1>5. RefsCounted
  <2>1. 0 \in Int /\ 0 = 0 + 0
    BY SMT
  <2>2. ASSUME NEW b \in Bufs PROVE Users(b) = {} /\ Pin(b) = 0
    <3>1. b # 0
      BY Zenon, BlockFacts
    <3> QED
      BY Zenon, <1>2, <3>1 DEF Users, Pin
  <2> QED
    BY Zenon, <1>2, <1>3, <2>1, <2>2 DEF RefsCounted
<1>6. PinsCounted
  <2>1. 0 <= MaxPins
    BY SMT, BcacheConstants
  <2> QED
    BY Zenon, <1>2, <1>3, <2>1 DEF PinsCounted
<1> QED
  BY Zenon, <1>1, <1>4, <1>5, <1>6 DEF IInv

(* When bget() finds no unused buffer, each is pinned or is that of a      *)
(* process between bget() and brelse().                                    *)
LEMMA BuffersTaken ==
  ASSUME CardFacts, IInv, Unused = {}
  PROVE  Cardinality(Referring) + Cardinality(pins) >= NBUF
<1> DEFINE B1 == {b \in Bufs : bno[b] \in pins}
           B2 == {b \in Bufs : bno[b] \notin pins}
           f1 == [b \in B1 |-> bno[b]]
           f2 == [b \in B2 |-> CHOOSE q \in Procs : buf[q] = b]
<1>0. CacheInv /\ 0 \notin Bufs
  BY Zenon, BlockFacts DEF IInv
<1>2. f1 \in [B1 -> pins] /\ OneToOne(f1, B1)
  <2>1. ASSUME NEW b \in B1, NEW c \in B1, bno[b] = bno[c] PROVE b = c
    <3>1. bno[b] # NoBlock
      BY Zenon, <1>0, BlockFacts DEF CacheInv, CacheTypes
    <3> QED
      BY Zenon, <1>0, <2>1, <3>1 DEF CacheInv, OneBuffer
  <2>2. f1 \in [B1 -> pins]
    BY Zenon
  <2> QED
    BY Zenon, <2>1, <2>2 DEF OneToOne
<1>3. f2 \in [B2 -> Referring] /\ OneToOne(f2, B2)
  <2>1. ASSUME NEW b \in B2 PROVE f2[b] \in Procs /\ buf[f2[b]] = b
    <3>1. b \in Bufs /\ refcnt[b] # 0 /\ Pin(b) = 0 /\ refcnt[b] = Cardinality(Users(b)) + Pin(b)
      BY Zenon DEF Unused, Pin, IInv, RefsCounted
    <3>2. Users(b) # {}
      <4>1. Cardinality({}) = 0 /\ 0 + 0 = 0
        BY SMT DEF CardFacts, CardEmpty
      <4> HIDE DEF Users
      <4> QED
        BY Zenon, <3>1, <4>1
    <3>3. \E q \in Procs : buf[q] = b
      BY Zenon, <3>2 DEF Users
    <3> QED
      BY Zenon, <3>3
  <2>2. f2 \in [B2 -> Referring]
    <3>1. ASSUME NEW b \in B2 PROVE f2[b] \in Referring
      <4>1. b # 0
        BY Zenon, <1>0
      <4>2. f2[b] \in Procs /\ buf[f2[b]] = b
        BY Zenon, <2>1
      <4> HIDE DEF f2, B2
      <4> QED
        BY Zenon, <4>1, <4>2 DEF Referring
    <3> QED
      BY Zenon, <3>1
  <2>3. ASSUME NEW b \in B2, NEW c \in B2, f2[b] = f2[c] PROVE b = c
    BY Zenon, <2>1, <2>3
  <2> QED
    BY Zenon, <2>2, <2>3 DEF OneToOne
<1>4. IsFiniteSet(Referring) /\ Cardinality(Referring) \in Nat
  <2>1. Referring \subseteq Procs
    BY Zenon DEF Referring
  <2>2. IsFiniteSet(Referring)
    BY Zenon, <2>1, VirtioConstants DEF CardFacts, CardSubset
  <2> QED
    BY Zenon, <2>2 DEF CardFacts, CardType
<1>5. Cardinality(Bufs) = NBUF
  <2>1. 1 \in Int /\ NBUF \in Int /\ ~(1 > NBUF) /\ NBUF - 1 + 1 = NBUF
    BY SMT, VirtioConstants
  <2>2. Cardinality(1 .. NBUF) = IF 1 > NBUF THEN 0 ELSE NBUF - 1 + 1
    BY Zenon, <2>1 DEF CardFacts, CardInterval
  <2> QED
    BY Zenon, <2>1, <2>2 DEF Bufs
<1>6. B1 \cup B2 = Bufs /\ B1 \cap B2 = {}
  BY Zenon
<1> HIDE DEF B1, B2, f1, f2
<1>7. /\ IsFiniteSet(B1) /\ Cardinality(B1) <= Cardinality(pins)
      /\ IsFiniteSet(B2) /\ Cardinality(B2) <= Cardinality(Referring)
  BY Zenon, <1>2, <1>3, <1>4 DEF CardFacts, CardInjection, IInv, PinsCounted
<1>8. Cardinality(B1) \in Nat /\ Cardinality(B2) \in Nat
  BY Zenon, <1>7 DEF CardFacts, CardType
<1>9. Cardinality(Bufs) = Cardinality(B1) + Cardinality(B2) - Cardinality({})
  <2>1. Cardinality(B1 \cup B2) = Cardinality(B1) + Cardinality(B2) - Cardinality(B1 \cap B2)
    BY Zenon, <1>7 DEF CardFacts, CardUnion
  <2> QED
    BY Zenon, <1>6, <2>1
<1>10. Cardinality({}) = 0
  BY Zenon DEF CardFacts, CardEmpty
<1>11. Cardinality(pins) \in Nat /\ NBUF \in Nat
  BY Zenon, FiniteParts, VirtioConstants DEF IInv, PinsCounted
<1> QED
  BY SMT, <1>4, <1>5, <1>7, <1>8, <1>9, <1>10, <1>11

(* What a panic leaves, as the kernel stays as it is. *)
PanicMeansFull == panicked => Cardinality(Referring) + Cardinality(pins) >= NBUF

(* bget() panics only when all buffers are taken, and free_desc() never    *)
(* does: no descriptor is freed twice.                                     *)
LEMMA PanicStep ==
  ASSUME CardFacts, IInv, PanicMeansFull, [Next]_vars
  PROVE  PanicMeansFull'
<1>1. ASSUME NEW p \in Procs, NEW k \in Blocks, ~panicked, Bread(p, k) PROVE ~panicked'
  BY Zenon, <1>1 DEF Bread
<1>2. ASSUME NEW p \in Procs, ~panicked, Work(p) PROVE PanicMeansFull'
  <2>1. CASE BgetHit(p) \/ AcquireSleep(p) \/ AcquireWait(p) \/ Brelse(p)
    BY Zenon, <1>2, <2>1 DEF BgetHit, AcquireSleep, AcquireWait, Brelse, PanicMeansFull
  <2>2. CASE BgetMiss(p)
    <3>1. CASE Unused = {}
      <4>1. buf' = buf /\ pins' = pins
        BY Zenon, <2>2, <3>1 DEF BgetMiss
      <4>2. Referring' = Referring
        BY Zenon, <4>1 DEF Referring
      <4>3. Cardinality(Referring) + Cardinality(pins) >= NBUF
        BY Zenon, <3>1, BuffersTaken
      <4> QED
        BY Zenon, <4>1, <4>2, <4>3 DEF PanicMeansFull
    <3>2. CASE Unused # {}
      BY Zenon, <1>2, <2>2, <3>2 DEF BgetMiss, PanicMeansFull
    <3> QED
      BY Zenon, <3>1, <3>2
  <2>3. CASE Rw(p)
    <3>1. CASE RwDone(p)
      BY Zenon, <1>2, <3>1, RwReturns DEF IInv, PanicMeansFull
    <3> QED
      BY Zenon, <1>2, <2>3, <3>1 DEF Rw, RwStart, RwNoDesc, RwAgain, PanicMeansFull
  <2> QED
    BY Zenon, <1>2, <2>1, <2>2, <2>3 DEF Work
<1>3. ASSUME NEW p \in Procs, ~panicked, Hold(p) PROVE ~panicked'
  BY Zenon, <1>3 DEF Hold, Bpin, Bunpin, Bwrite, ReleaseSleep
<1>4. ASSUME NEW p \in Procs, ~panicked, Kill(p) PROVE ~panicked'
  BY Zenon, <1>4 DEF Kill
<1>5. ASSUME ~panicked, Driver PROVE ~panicked'
  BY Zenon, <1>5 DEF Driver, Intr, IntrStart, IntrEntry, IntrEnd, Device
<1>6. ASSUME UNCHANGED vars PROVE PanicMeansFull'
  <2>1. buf' = buf /\ pins' = pins /\ panicked' = panicked
    BY Zenon, <1>6 DEF vars, cache
  <2>2. Referring' = Referring
    BY Zenon, <2>1 DEF Referring
  <2> QED
    BY Zenon, <2>1, <2>2 DEF PanicMeansFull
<1> QED
  BY Zenon, <1>1, <1>2, <1>3, <1>4, <1>5, <1>6 DEF Next, Halted, PanicMeansFull
-----------------------------------------------------------------------------
INSTANCE FiniteSetTheorems

LEMMA CardFactsHold == CardFacts
<1>1. CardEmpty /\ CardOne /\ CardType
  BY Zenon, FS_EmptySet, FS_Singleton, FS_CardinalityType DEF CardEmpty, CardOne, CardType
<1>2. CardAdd
  BY Zenon, FS_AddElement DEF CardAdd
<1>3. CardRemove
  BY Zenon, FS_RemoveElement DEF CardRemove
<1>4. CardSubset
  BY Zenon, FS_Subset DEF CardSubset
<1>5. CardUnion /\ CardProduct
  BY Zenon, FS_Union, FS_Product DEF CardUnion, CardProduct
<1>6. CardInterval
  BY Zenon, FS_Interval DEF CardInterval
<1>7. CardInjection
  <2>1. \A S, T : \A g \in Injection(S, T) :
          IsFiniteSet(T) => IsFiniteSet(S) /\ Cardinality(S) <= Cardinality(T)
    BY Zenon, FS_Injection
  <2> QED
    BY Zenon, <2>1 DEF CardInjection, OneToOne, Injection, IsInjective
<1>8. NatMin
  <2> SUFFICES ASSUME NEW T \in SUBSET Nat, T # {} PROVE \E x \in T : \A y \in T : x <= y
    BY Zenon DEF NatMin
  <2> DEFINE Less == {ss \in Nat \X Nat : ss[1] < ss[2]}
  <2>1. IsWellFoundedOn(Less, Nat)
    BY Zenon, NatLessThanWellFounded DEF OpToRel
  <2> HIDE DEF Less
  <2>2. PICK x \in T : \A y \in T : ~(<<y, x>> \in Less)
    BY Zenon, <2>1, WFMin
  <2> USE DEF Less
  <2>3. ASSUME NEW y \in T PROVE x <= y
    <3>1. ~(<<y, x>> \in Less)
      BY Zenon, <2>2
    <3> QED
      BY SMT, <3>1
  <2> QED
    BY Zenon, <2>3
<1> QED
  BY Zenon, <1>1, <1>2, <1>3, <1>4, <1>5, <1>6, <1>7, <1>8 DEF CardFacts

(* The inductive invariant of bread(), bwrite(), brelse(), bpin() and      *)
(* bunpin() over virtio_disk_rw(), the device and virtio_disk_intr().      *)
THEOREM CacheInductive == Spec => []IInv
<1>1. Init => IInv
  BY Zenon, CardFactsHold, InitCounts
<1>2. IInv /\ [Next]_vars => IInv'
  <2> SUFFICES ASSUME IInv, [Next]_vars PROVE IInv'
    BY Zenon
  <2>1. DriverInv' /\ CacheInv'
    BY Zenon, CardFactsHold, CountsGive, CacheStep DEF IInv
  <2> QED
    BY Zenon, <2>1, CardFactsHold, DescsStep, RefsStep DEF IInv
<1> QED
  BY <1>1, <1>2, PTL DEF Spec

(* bread() returns the buffer of the block asked for, locked, with what    *)
(* was last stored in the block.                                           *)
THEOREM LatestContents == Spec => []HolderSeesLatest
<1>1. IInv => HolderSeesLatest
  <2> SUFFICES ASSUME IInv, NEW p \in Procs, pc[p] = "use"
               PROVE  /\ slock[buf[p]] = p /\ valid[buf[p]] /\ bno[buf[p]] = want[p]
                      /\ data[buf[p]] = latest[want[p]]
    BY Zenon DEF HolderSeesLatest, At
  <2>1. CacheInv /\ DriverInv
    BY Zenon DEF IInv
  <2>2. bno[buf[p]] = want[p] /\ data[buf[p]] = latest[bno[buf[p]]]
    BY Zenon, <2>1, HolderFacts
  <2> QED
    BY Zenon, <2>1, <2>2, HolderFacts
<1> QED
  BY <1>1, CacheInductive, PTL

(* virtio_disk_rw() and virtio_disk_intr() lose no descriptor and no       *)
(* request, and b->disk is set while a request for b is in a ring.         *)
THEOREM DescriptorsExact == Spec => []RequestsExact
<1>1. IInv => RequestsExact
  <2> SUFFICES ASSUME IInv PROVE RequestsExact
    OBVIOUS
  <2>0. DriverTypes /\ Chains /\ Owned /\ Rings /\ DescsCounted
    BY Zenon DEF IInv, DriverInv
  <2>1. Cardinality(free) + 3 * Cardinality(Heads) = NUM
    BY Zenon, <2>0 DEF DescsCounted
  <2>2. free \cup UNION {chain[h] : h \in Heads} = Descs
    <3>1. free \subseteq Descs /\ \A h \in Heads : chain[h] \subseteq Descs
      BY Zenon, <2>0 DEF DriverTypes, Heads
    <3>2. ASSUME NEW d \in Descs PROVE d \in free \cup UNION {chain[h] : h \in Heads}
      <4>1. d \in free \/ \E h \in Heads : d \in chain[h]
        BY Zenon, <2>0 DEF Chains
      <4> QED
        BY Zenon, <4>1
    <3>3. UNION {chain[h] : h \in Heads} \subseteq Descs
      BY Zenon, <3>1
    <3> QED
      BY Zenon, <3>1, <3>2, <3>3
  <2>3. \A h \in Heads : \E p \in Procs : pc[p] \in {"iowait", "iodone"} /\ head[p] = h /\ req[h].buf = buf[p]
    <3> SUFFICES ASSUME NEW h \in Heads
                 PROVE  \E p \in Procs : pc[p] \in {"iowait", "iodone"} /\ head[p] = h /\ req[h].buf = buf[p]
      OBVIOUS
    <3>1. PICK p \in Procs : InFlight(p) /\ head[p] = h
      BY Zenon, <2>0 DEF Owned
    <3>2. req[head[p]].buf = buf[p]
      BY Zenon, <2>0, <3>1 DEF Owned
    <3> QED
      BY Zenon, <3>1, <3>2 DEF InFlight
  <2>4. ASSUME NEW b \in Bufs PROVE bdisk[b] <=> \E h \in avail \cup Range(used) : req[h].buf = b
    <3>1. ASSUME bdisk[b] PROVE \E h \in InRing : req[h].buf = b
      <4>1. PICK p \in Procs : InFlight(p) /\ buf[p] = b
        BY Zenon, <2>0, <3>1 DEF Rings
      <4>2. head[p] \in InRing /\ req[head[p]].buf = b
        BY Zenon, <2>0, <3>1, <4>1 DEF Rings, Owned
      <4> QED
        BY Zenon, <4>2
    <3>2. ASSUME NEW h \in InRing, req[h].buf = b PROVE bdisk[b]
      <4>1. h \in Heads
        BY Zenon, <2>0 DEF Rings
      <4>2. PICK p \in Procs : InFlight(p) /\ head[p] = h
        BY Zenon, <2>0, <4>1 DEF Owned
      <4>3. buf[p] = b
        BY Zenon, <2>0, <3>2, <4>2 DEF Owned
      <4> QED
        BY Zenon, <2>0, <4>2, <4>3 DEF Rings
    <3> QED
      BY Zenon, <3>1, <3>2 DEF InRing
  <2> QED
    BY Zenon, <2>1, <2>2, <2>3, <2>4 DEF RequestsExact, Heads
<1> QED
  BY <1>1, CacheInductive, PTL

(* Nobody sleeps in virtio_disk_rw() or acquiresleep() without a reason,   *)
(* whatever kill() wakes.                                                  *)
THEOREM NoLostWakeup == Spec => []SleepersHaveReason
<1>1. IInv => SleepersHaveReason
  BY Zenon DEF IInv, DriverInv, Rings, DescsCounted, CacheInv, Locked,
     SleepersHaveReason, DiskSleepersHaveReason, At
<1> QED
  BY <1>1, CacheInductive, PTL

(* bget() caches a block in one buffer only, refcnt counts exactly whoever *)
(* is between bget() and brelse() and the pin of the log, and a panic      *)
(* means that they have all the buffers, whatever the size of the cache.   *)
THEOREM ReferencesExact == Spec => []RefcntExact
<1>1. Init => PanicMeansFull
  BY Zenon DEF Init, PanicMeansFull
<1>2. IInv /\ PanicMeansFull /\ [Next]_vars => PanicMeansFull'
  BY Zenon, CardFactsHold, PanicStep
<1>3. IInv /\ PanicMeansFull => RefcntExact
  BY Zenon DEF IInv, CacheInv, OneBuffer, RefsCounted, Users, Pin, PanicMeansFull, RefcntExact
<1> QED
  BY <1>1, <1>2, <1>3, CacheInductive, PTL DEF Spec
=============================================================================
