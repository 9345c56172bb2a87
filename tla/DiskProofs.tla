----------------------------- MODULE DiskProofs -----------------------------
(***************************************************************************)
(* Proofs about the disk driver under load (module Disk), for any number   *)
(* of processes and descriptors: a transfer that virtio_disk_rw() has      *)
(* returned from is complete.                                              *)
(***************************************************************************)
EXTENDS Disk, VirtioInvariant

(* Every process has a buffer and a block of its own, and its request is   *)
(* for them.                                                               *)
Own ==
  /\ buf = [p \in Procs |-> p]
  /\ \A p \in Procs : InFlight(p) => req[head[p]].block = p
Done == \A p \in Procs : pc[p] = "use" => data[p] = disk[p]
IInv == DriverInv /\ Own /\ Done /\ ~panicked
-----------------------------------------------------------------------------
LEMMA OwnFacts ==
  ASSUME IInv
  PROVE  /\ \A p \in Procs : buf[p] = p /\ p \in Bufs /\ p \in Blocks /\ p \in 0 .. NBUF
         /\ Exclusive
<1>1. \A p \in Bufs : p \in 0 .. NBUF
  BY SMT, VirtioConstants DEF Bufs
<1>2. \A p \in Procs : buf[p] = p /\ p \in Bufs /\ p \in Blocks /\ p \in 0 .. NBUF
  BY Zenon, <1>1, DiskConstants DEF IInv, Own
<1>3. Exclusive
  BY Zenon, <1>2 DEF IInv, Own, Exclusive
<1> QED
  BY Zenon, <1>2, <1>3

(* A process that is in flight before a step and after it keeps its        *)
(* request, and one that is done keeps its buffer and its block.           *)
LEMMA QuietStep ==
  ASSUME IInv, DriverInv', buf' = buf, ~panicked',
         \A p \in Procs : InFlight(p)' => InFlight(p) /\ req'[head'[p]].block = req[head[p]].block,
         \A p \in Procs : pc'[p] = "use" => pc[p] = "use" /\ data'[p] = data[p] /\ disk'[p] = disk[p]
  PROVE  IInv'
<1>1. Own'
  BY Zenon DEF IInv, Own
<1>2. Done'
  BY Zenon DEF IInv, Done
<1> QED
  BY Zenon, <1>1, <1>2 DEF IInv

(* bread() or bwrite() calls virtio_disk_rw(). *)
LEMMA CallStep ==
  ASSUME IInv, NEW p \in Procs, Call(p)
  PROVE  IInv'
<1>1. /\ pc[p] = "use" /\ write' = [write EXCEPT ![p] = p \in Writers]
      /\ data' = [data EXCEPT ![p] = 1 - disk[p]] /\ pc' = [pc EXCEPT ![p] = "rw"]
      /\ UNCHANGED <<buf, head, bdisk, disk, free, chain, req, avail, used, panicked>>
  BY Zenon, OwnFacts DEF Call, driver
<1>2. DriverTypes
  BY Zenon DEF IInv, DriverInv
<1>3. p \in Bufs /\ p \in Blocks /\ buf[p] = p
  BY Zenon, OwnFacts
<1>4. DriverTypes'
  <2>1. pc' \in [Procs -> Labels]
    BY Zenon, <1>1, <1>2 DEF DriverTypes, Labels
  <2>2. write' \in [Procs -> BOOLEAN]
    BY SMT, <1>1, <1>2 DEF DriverTypes
  <2>3. disk[p] \in Int
    BY Zenon, <1>2, <1>3 DEF DriverTypes
  <2>4. 1 - disk[p] \in Int
    BY SMT, <2>3
  <2>5. data' \in [Bufs -> Int]
    BY Zenon, <1>1, <1>2, <2>4 DEF DriverTypes
  <2> QED
    BY Zenon, <1>1, <1>2, <2>1, <2>2, <2>5 DEF DriverTypes
<1>5. /\ pc'[p] = "rw"
      /\ \A q \in Procs \ {p} : pc'[q] = pc[q] /\ write'[q] = write[q] /\ data'[q] = data[q]
  <2>1. \A q \in Procs : q \in Bufs
    BY Zenon, OwnFacts
  <2> QED
    BY Zenon, <1>1, <1>2, <2>1 DEF DriverTypes
<1>6. \A q \in Procs :
        /\ InFlight(q)' <=> InFlight(q)
        /\ InFlight(q) => buf'[q] = buf[q] /\ write'[q] = write[q] /\ data'[buf[q]] = data[buf[q]]
        /\ pc'[q] = "iowait" => bdisk[buf[q]]
  <2> SUFFICES ASSUME NEW q \in Procs
               PROVE  /\ InFlight(q)' <=> InFlight(q)
                      /\ InFlight(q) => buf'[q] = buf[q] /\ write'[q] = write[q] /\ data'[buf[q]] = data[buf[q]]
                      /\ pc'[q] = "iowait" => bdisk[buf[q]]
    OBVIOUS
  <2>1. CASE q = p
    BY Zenon, <1>1, <1>5, <2>1 DEF InFlight
  <2>2. CASE q # p
    <3>1. buf[q] = q /\ pc'[q] = pc[q] /\ write'[q] = write[q] /\ data'[q] = data[q]
      BY Zenon, <1>5, <2>2, OwnFacts
    <3>2. pc[q] = "iowait" => bdisk[buf[q]]
      BY Zenon DEF IInv, DriverInv, Rings
    <3> QED
      BY Zenon, <1>1, <3>1, <3>2 DEF InFlight
  <2> QED
    BY Zenon, <2>1, <2>2
<1>7. DriverInv'
  BY Zenon, <1>1, <1>4, <1>6, DriverFrame DEF IInv
<1>8. \A q \in Procs : pc'[q] = "use" => pc[q] = "use" /\ data'[q] = data[q] /\ disk'[q] = disk[q]
  BY Zenon, <1>1, <1>5
<1>9. buf' = buf /\ ~panicked' /\ req' = req /\ head' = head
  BY Zenon, <1>1 DEF IInv
<1> QED
  BY Zenon, <1>6, <1>7, <1>8, <1>9, QuietStep

(* virtio_disk_rw() without a request, or woken too early. *)
LEMMA WaitStep ==
  ASSUME IInv, NEW p \in Procs, RwNoDesc(p) \/ RwAgain(p)
  PROVE  IInv'
<1>1. DriverInv'
  BY Zenon, RwWaits DEF IInv
<1>2. UNCHANGED <<buf, head, req, data, disk, panicked>>
  BY Zenon DEF RwNoDesc, RwAgain, driver
<1>3. pc \in [Procs -> Labels] /\ WakeFree \in [Procs -> Labels]
  BY Zenon DEF IInv, DriverInv, DriverTypes, WakeFree, Labels
<1>4. \A q \in Procs :
        pc'[q] = pc[q] \/ pc'[q] \in {"rw", "nodesc"} \/ (pc[q] = "iodone" /\ pc'[q] = "iowait")
  <2>1. CASE RwNoDesc(p)
    <3>1. \A q \in Procs : WakeFree[q] = pc[q] \/ WakeFree[q] = "rw"
      BY Zenon DEF WakeFree
    <3>2. \E f \in {pc, WakeFree} : pc' = [f EXCEPT ![p] = "nodesc"]
      BY Zenon, <2>1 DEF RwNoDesc
    <3>3. \E f \in {pc, WakeFree} : \A q \in Procs : pc'[q] = f[q] \/ pc'[q] = "nodesc"
      BY Zenon, <1>3, <3>2
    <3> QED
      BY Zenon, <3>1, <3>3
  <2>2. CASE RwAgain(p)
    BY Zenon, <1>3, <2>2 DEF RwAgain
  <2> QED
    BY Zenon, <2>1, <2>2
<1>5. \A q \in Procs : InFlight(q)' => InFlight(q)
  BY Zenon, <1>4 DEF InFlight
<1>6. \A q \in Procs : pc'[q] = "use" => pc[q] = "use"
  BY Zenon, <1>4
<1> QED
  BY Zenon, <1>1, <1>2, <1>5, <1>6, QuietStep DEF IInv

(* virtio_disk_rw() puts its request into the avail ring. *)
LEMMA StartStep ==
  ASSUME CardFacts, IInv, NEW p \in Procs, RwStart(p, p)
  PROVE  IInv'
<1> DEFINE h == Min(free)
<1>1. DriverTypes /\ DriverInv
  BY Zenon DEF IInv, DriverInv
<1>2. Cardinality(free) >= 3 /\ free \in SUBSET Descs
  BY Zenon, <1>1 DEF RwStart, DriverTypes
<1>3. ThreeFree
  <2>1. IsFiniteSet(Descs)
    <3>1. 0 \in Int /\ NUM - 1 \in Int
      BY SMT, VirtioConstants
    <3> QED
      BY Zenon, <3>1 DEF CardFacts, CardInterval, Descs
  <2>2. Cardinality(free) \in Nat
    BY Zenon, <1>2, <2>1 DEF CardFacts, CardSubset, CardType
  <2> QED
    BY Zenon, <1>2, <2>2, AllocThree
<1>4. p \in Blocks /\ buf[p] \in Bufs /\ \A q \in Procs : q # p => buf[q] # buf[p]
  BY Zenon, OwnFacts
<1>5. pc[p] = "rw" /\ ~InFlight(p)
  BY Zenon DEF RwStart, InFlight
<1>6. DriverInv' /\ h \notin Heads
  BY Zenon, <1>1, <1>3, <1>4, <1>5, RwStarts
<1>7. /\ req' = [req EXCEPT ![h] = [buf |-> buf[p], write |-> write[p], block |-> p]]
      /\ head' = [head EXCEPT ![p] = h] /\ pc' = [pc EXCEPT ![p] = "iowait"]
      /\ UNCHANGED <<buf, data, disk, panicked>>
  BY Zenon DEF RwStart
<1>8. h \in Descs
  BY Zenon, <1>2, <1>3 DEF ThreeFree
<1> HIDE DEF h
<1>9. /\ req'[h].block = p /\ head'[p] = h /\ pc'[p] = "iowait"
      /\ \A d \in Descs \ {h} : req'[d] = req[d]
      /\ \A q \in Procs \ {p} : pc'[q] = pc[q] /\ head'[q] = head[q]
  BY Zenon, <1>1, <1>7, <1>8 DEF DriverTypes
<1>10. \A q \in Procs \ {p} : InFlight(q)' =>
         InFlight(q) /\ head[q] \in Descs /\ head[q] # h /\ req[head[q]].block = q
  <2>1. \A q \in Procs \ {p} : InFlight(q)' => InFlight(q)
    BY Zenon, <1>9 DEF InFlight
  <2>2. \A q \in Procs : InFlight(q) => head[q] \in Heads
    BY Zenon, <1>1 DEF DriverInv, Owned
  <2>3. \A q \in Procs : InFlight(q) => req[head[q]].block = q
    BY Zenon DEF IInv, Own
  <2>4. \A d \in Heads : d \in Descs
    BY Zenon DEF Heads
  <2> QED
    BY Zenon, <1>6, <2>1, <2>2, <2>3, <2>4
<1>11. ASSUME NEW q \in Procs, InFlight(q)' PROVE req'[head'[q]].block = q
  <2>1. CASE q = p
    BY Zenon, <1>9, <2>1
  <2>2. CASE q # p
    <3>1. head[q] \in Descs \ {h} /\ req[head[q]].block = q
      BY Zenon, <1>10, <1>11, <2>2
    <3> QED
      BY Zenon, <1>9, <2>2, <3>1
  <2> QED
    BY Zenon, <2>1, <2>2
<1>12. \A q \in Procs : pc'[q] = "use" => pc[q] = "use"
  BY Zenon, <1>9
<1> QED
  BY Zenon, <1>6, <1>7, <1>11, <1>12 DEF IInv, Own, Done

(* virtio_disk_rw() returns. *)
LEMMA ReturnStep ==
  ASSUME IInv, NEW p \in Procs, RwDone(p)
  PROVE  IInv'
<1>1. DriverTypes /\ DriverInv
  BY Zenon DEF IInv, DriverInv
<1>2. /\ DriverInv' /\ (panicked' => panicked)
      /\ data[buf[p]] = disk[req[head[p]].block] /\ head[p] \in Heads
  BY Zenon, <1>1, RwReturns
<1>3. /\ req' = [req EXCEPT ![head[p]] = NoReq] /\ head' = [head EXCEPT ![p] = 0]
      /\ pc' = [WakeFree EXCEPT ![p] = "use"] /\ UNCHANGED <<buf, data, disk>>
      /\ InFlight(p)
  BY Zenon DEF RwDone, InFlight
<1>4. WakeFree \in [Procs -> Labels]
  BY Zenon, <1>1 DEF DriverTypes, WakeFree, Labels
<1>5. /\ pc'[p] = "use"
      /\ \A q \in Procs \ {p} : pc'[q] = WakeFree[q] /\ head'[q] = head[q]
      /\ \A d \in Descs \ {head[p]} : req'[d] = req[d]
  BY Zenon, <1>1, <1>3, <1>4 DEF DriverTypes
<1>6. \A q \in Procs \ {p} : pc'[q] = pc[q] \/ pc'[q] = "rw"
  BY Zenon, <1>5 DEF WakeFree
<1>7. \A q \in Procs : InFlight(q)' => InFlight(q) /\ q # p
  BY Zenon, <1>5, <1>6 DEF InFlight
<1>8. \A q \in Procs : InFlight(q)' => req'[head'[q]].block = q
  <2>1. \A q \in Procs : InFlight(q)' => head[q] \in Descs /\ head[q] # head[p] /\ head'[q] = head[q]
    BY Zenon, <1>1, <1>3, <1>5, <1>7 DEF DriverInv, Owned, Heads
  <2> QED
    BY Zenon, <1>5, <1>7, <2>1 DEF IInv, Own
<1>9. data[p] = disk[p]
  BY Zenon, <1>2, <1>3, OwnFacts DEF IInv, Own
<1>10. \A q \in Procs : pc'[q] = "use" => data'[q] = disk'[q]
  BY Zenon, <1>3, <1>6, <1>9 DEF IInv, Done
<1> QED
  BY Zenon, <1>2, <1>3, <1>8, <1>10 DEF IInv, Own, Done

(* kill() wakes p, which stays in virtio_disk_rw(). *)
LEMMA KillStep ==
  ASSUME IInv, NEW p \in Procs, Kill(p)
  PROVE  IInv'
<1>1. UNCHANGED <<buf, write, head, bdisk, data, disk, free, chain, req, avail, used, panicked>>
  BY Zenon DEF Kill, driver
<1>2. DriverTypes /\ pc \in [Procs -> Labels]
  BY Zenon DEF IInv, DriverInv, DriverTypes
<1>3. /\ pc' \in [Procs -> Labels]
      /\ \/ pc[p] = "iowait" /\ pc'[p] = "iodone"
         \/ pc[p] = "nodesc" /\ pc'[p] = "rw"
      /\ \A q \in Procs \ {p} : pc'[q] = pc[q]
  <2>1. CASE pc[p] = "iowait" /\ pc' = [pc EXCEPT ![p] = "iodone"]
    BY Zenon, <1>2, <2>1 DEF Labels
  <2>2. CASE pc[p] = "nodesc" /\ pc' = [pc EXCEPT ![p] = "rw"]
    BY Zenon, <1>2, <2>2 DEF Labels
  <2> QED
    BY Zenon, <2>1, <2>2 DEF Kill
<1>4. DriverTypes'
  BY Zenon, <1>1, <1>2, <1>3 DEF DriverTypes
<1>5. \A q \in Procs : InFlight(q)' <=> InFlight(q)
  BY Zenon, <1>3 DEF InFlight
<1>6. \A q \in Procs : pc'[q] = "iowait" => bdisk[buf[q]]
  BY Zenon, <1>3 DEF IInv, DriverInv, Rings
<1>7. DriverInv'
  BY Zenon, <1>1, <1>4, <1>5, <1>6, DriverFrame DEF IInv
<1>8. \A q \in Procs : pc'[q] = "use" => pc[q] = "use"
  BY Zenon, <1>3
<1> QED
  BY Zenon, <1>1, <1>5, <1>7, <1>8, QuietStep DEF IInv

(* The device and its interrupt: a process that is done keeps its buffer   *)
(* and its block, for no request is for them.                              *)
LEMMA DriverSteps ==
  ASSUME IInv, Driver
  PROVE  IInv'
<1>1. DriverInv /\ Exclusive
  BY Zenon, OwnFacts DEF IInv
<1>2. CASE Intr
  <2>1. /\ DriverInv' /\ UNCHANGED <<buf, head, data, disk, req, panicked>>
        /\ \A p \in Procs : pc'[p] = pc[p] \/ (pc[p] = "iowait" /\ pc'[p] = "iodone")
    BY Zenon, <1>1, <1>2, IntrAnswers
  <2>2. \A q \in Procs : InFlight(q)' => InFlight(q)
    BY Zenon, <2>1 DEF InFlight
  <2>3. \A q \in Procs : pc'[q] = "use" => pc[q] = "use"
    BY Zenon, <2>1
  <2> QED
    BY Zenon, <2>1, <2>2, <2>3, QuietStep DEF IInv
<1>3. ASSUME NEW h \in Descs, Device(h) PROVE IInv'
  <2>1. DriverInv' /\ req[h].buf \in Bufs /\ req[h].block \in Blocks
    BY Zenon, <1>1, <1>3, DeviceAnswers
  <2>2. PICK p \in Procs : InFlight(p) /\ head[p] = h
    BY Zenon, <1>1, <1>3, DeviceAnswers
  <2>3. req[h].buf = p /\ req[h].block = p
    BY Zenon, <1>1, <2>2, OwnFacts DEF DriverInv, Owned, IInv, Own
  <2>4. UNCHANGED <<pc, buf, head, req, panicked>>
    BY Zenon, <1>3 DEF Device
  <2>5. \A q \in Procs \ {p} : data'[q] = data[q] /\ disk'[q] = disk[q]
    <3>1. data \in [Bufs -> Int] /\ disk \in [Blocks -> Int] /\ \A q \in Procs : q \in Bufs /\ q \in Blocks
      BY Zenon, <1>1, OwnFacts DEF DriverInv, DriverTypes
    <3> QED
      BY Zenon, <1>3, <2>3, <3>1 DEF Device
  <2>6. \A q \in Procs : pc[q] = "use" => q # p
    BY Zenon, <2>2 DEF InFlight
  <2>7. \A q \in Procs : InFlight(q)' => InFlight(q)
    BY Zenon, <2>4 DEF InFlight
  <2> QED
    BY Zenon, <2>1, <2>4, <2>5, <2>6, <2>7, QuietStep DEF IInv
<1> QED
  BY Zenon, <1>2, <1>3 DEF Driver
-----------------------------------------------------------------------------
INSTANCE FiniteSetTheorems

LEMMA CardFactsHold == CardFacts
<1>1. CardEmpty /\ CardOne /\ CardType
  BY Zenon, FS_EmptySet, FS_Singleton, FS_CardinalityType DEF CardEmpty, CardOne, CardType
<1>2. CardAdd
  BY Zenon, FS_AddElement DEF CardAdd
<1>3. CardRemove
  BY Zenon, FS_RemoveElement DEF CardRemove
<1>4. CardSubset
  BY Zenon, FS_Subset DEF CardSubset
<1>5. CardUnion /\ CardProduct
  BY Zenon, FS_Union, FS_Product DEF CardUnion, CardProduct
<1>6. CardInterval
  BY Zenon, FS_Interval DEF CardInterval
<1>7. CardInjection
  <2>1. \A S, T : \A g \in Injection(S, T) :
          IsFiniteSet(T) => IsFiniteSet(S) /\ Cardinality(S) <= Cardinality(T)
    BY Zenon, FS_Injection
  <2> QED
    BY Zenon, <2>1 DEF CardInjection, OneToOne, Injection, IsInjective
<1>8. NatMin
  <2> SUFFICES ASSUME NEW T \in SUBSET Nat, T # {} PROVE \E x \in T : \A y \in T : x <= y
    BY Zenon DEF NatMin
  <2> DEFINE Less == {ss \in Nat \X Nat : ss[1] < ss[2]}
  <2>1. IsWellFoundedOn(Less, Nat)
    BY Zenon, NatLessThanWellFounded DEF OpToRel
  <2> HIDE DEF Less
  <2>2. PICK x \in T : \A y \in T : ~(<<y, x>> \in Less)
    BY Zenon, <2>1, WFMin
  <2> USE DEF Less
  <2>3. ASSUME NEW y \in T PROVE x <= y
    <3>1. ~(<<y, x>> \in Less)
      BY Zenon, <2>2
    <3> QED
      BY SMT, <3>1
  <2> QED
    BY Zenon, <2>3
<1> QED
  BY Zenon, <1>1, <1>2, <1>3, <1>4, <1>5, <1>6, <1>7, <1>8 DEF CardFacts

(* The invariant holds from virtio_disk_init() on. *)
THEOREM DiskInductive == Spec => []IInv
<1>1. Init => IInv
  <2> SUFFICES ASSUME Init PROVE IInv
    OBVIOUS
  <2>1. /\ DriverInit /\ ~panicked /\ pc = [p \in Procs |-> "use"] /\ buf = [p \in Procs |-> p]
        /\ data = [b \in Bufs |-> 0] /\ disk = [k \in Blocks |-> 0]
    BY Zenon DEF Init
  <2>2. \A p \in Procs : p \in 0 .. NBUF /\ p \in Bufs /\ p \in Blocks
    <3>1. \A b \in Bufs : b \in 0 .. NBUF
      BY SMT, VirtioConstants DEF Bufs
    <3> QED
      BY Zenon, <3>1, DiskConstants
  <2>3. 0 \in Int
    BY SMT
  <2>4. /\ pc \in [Procs -> Labels] /\ buf \in [Procs -> 0 .. NBUF]
        /\ data \in [Bufs -> Int] /\ disk \in [Blocks -> Int]
    BY Zenon, <2>1, <2>2, <2>3 DEF Labels
  <2>5. \A p \in Procs : ~InFlight(p)
    BY Zenon, <2>1 DEF InFlight
  <2>6. DriverInv
    BY Zenon, <2>1, <2>4, <2>5, DriverStarts
  <2>7. \A p \in Procs : data[p] = disk[p]
    BY Zenon, <2>1, <2>2
  <2> QED
    BY Zenon, <2>1, <2>5, <2>6, <2>7 DEF IInv, Own, Done
<1>2. IInv /\ [Next]_vars => IInv'
  <2> SUFFICES ASSUME IInv, [Next]_vars PROVE IInv'
    OBVIOUS
  <2>1. ASSUME NEW p \in Procs, Call(p) PROVE IInv'
    BY Zenon, <2>1, CallStep
  <2>2. ASSUME NEW p \in Procs, RwStep(p) PROVE IInv'
    BY Zenon, <2>2, CardFactsHold, StartStep, WaitStep, ReturnStep DEF RwStep, Rw
  <2>3. ASSUME NEW p \in Procs, Kill(p) PROVE IInv'
    BY Zenon, <2>3, KillStep
  <2>4. CASE DriverStep
    BY Zenon, <2>4, DriverSteps DEF DriverStep
  <2>5. CASE UNCHANGED vars
    <3>1. /\ UNCHANGED <<pc, buf, write, head, bdisk, data, disk, panicked>>
          /\ UNCHANGED <<free, chain, req, avail, used>>
      BY Zenon, <2>5 DEF vars, driver
    <3>2. DriverTypes' /\ \A q \in Procs : InFlight(q)' <=> InFlight(q)
      BY Zenon, <3>1 DEF IInv, DriverInv, DriverTypes, InFlight
    <3>3. \A q \in Procs : pc'[q] = "iowait" => bdisk[buf[q]]
      BY Zenon, <3>1 DEF IInv, DriverInv, Rings
    <3>4. DriverInv'
      BY Zenon, <3>1, <3>2, <3>3, DriverFrame DEF IInv
    <3> QED
      BY Zenon, <3>1, <3>2, <3>4, QuietStep DEF IInv
  <2> QED
    BY Zenon, <2>1, <2>2, <2>3, <2>4, <2>5 DEF Next
<1> QED
  BY <1>1, <1>2, PTL DEF Spec

(* When virtio_disk_rw() returns, the buffer and the block agree, and no   *)
(* descriptor was freed twice: for any number of requests at once, in any  *)
(* order of answers, whatever kill() wakes.                                *)
THEOREM TransfersExact == Spec => []TransferDone
<1>1. IInv => TransferDone
  BY Zenon, OwnFacts DEF IInv, Done, TransferDone
<1> QED
  BY <1>1, DiskInductive, PTL
=============================================================================
