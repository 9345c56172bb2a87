----------------------------- MODULE VirtioDisk -----------------------------
(***************************************************************************)
(* The disk driver of kernel/virtio_disk.c: descriptors, the two rings,    *)
(* the device that answers in any order, and its interrupt.  The module    *)
(* has no Next of its own: module Bcache composes its actions with the     *)
(* buffer cache, and module Disk runs it with more requests at once.       *)
(*                                                                         *)
(* A section under vdisk_lock is one step, except for the loop of          *)
(* virtio_disk_intr(), during which the device may complete more.          *)
(***************************************************************************)
EXTENDS Integers, Sequences, FiniteSets, FiniteSetsExt

CONSTANTS
  Procs,   \* processes
  NBUF,    \* number of struct buf
  Blocks,  \* blocks of the disk
  NUM      \* number of descriptors

ASSUME VirtioConstants ==
  NBUF \in Nat \ {0} /\ NUM \in Nat /\ NUM >= 3 /\ IsFiniteSet(Procs)

VARIABLES
  pc,       \* where each process is
  buf,      \* the struct buf it works on
  write,    \* virtio_disk_rw(): its argument write
  head,     \* virtio_disk_rw(): its local idx[0]
  bdisk,    \* b->disk: the disk owns the buffer
  data,     \* b->data
  disk,     \* the blocks on the disk
  free,     \* descriptors with disk.free[i]
  chain,    \* desc[].next: the descriptors of the request with this head
  req,      \* ops[] and info[]: what the request with this head asks for
  avail,    \* heads in the avail ring that the device has not answered
  used,     \* heads in the used ring between used_idx and used->idx
  irq,      \* the device asks for an interrupt
  intr,     \* virtio_disk_intr() runs and holds vdisk_lock
  panicked

driver == <<free, chain, req, avail, used, irq, intr>>

Bufs == 1 .. NBUF
Descs == 0 .. NUM - 1
NoReq == [buf |-> 0, write |-> FALSE, block |-> 0]

(* virtio_disk_init(). *)
DriverInit ==
  /\ bdisk = [b \in Bufs |-> FALSE]
  /\ free = Descs
  /\ chain = [d \in Descs |-> {}]
  /\ req = [d \in Descs |-> NoReq]
  /\ avail = {} /\ used = <<>>
  /\ irq = FALSE /\ intr = FALSE
  /\ write = [p \in Procs |-> FALSE]
  /\ head = [p \in Procs |-> 0]

(* wakeup(&disk.free[0]). *)
WakeFree == [q \in Procs |-> IF pc[q] = "nodesc" THEN "rw" ELSE pc[q]]
(* wakeup(b). *)
WakeBuf(b) == [q \in Procs |-> IF pc[q] = "iowait" /\ buf[q] = b THEN "iodone" ELSE pc[q]]
-----------------------------------------------------------------------------
(* alloc3_desc(): alloc_desc() three times, each the first that is free. *)
alloc3_desc ==
  LET i == Min(free)
      j == Min(free \ {i})
  IN {i, j, Min(free \ {i, j})}

(* virtio_disk_rw(): three descriptors are free; the request is put into   *)
(* the avail ring, and the process sleeps on the buffer.                   *)
RwStart(p, block) ==
  LET h == Min(free)
      three == alloc3_desc
  IN
  /\ pc[p] = "rw" /\ ~intr /\ Cardinality(free) >= 3
  /\ free' = free \ three
  /\ chain' = [chain EXCEPT ![h] = three]
  /\ req' = [req EXCEPT ![h] = [buf |-> buf[p], write |-> write[p], block |-> block]]
  /\ bdisk' = [bdisk EXCEPT ![buf[p]] = TRUE]
  /\ avail' = avail \cup {h}
  /\ head' = [head EXCEPT ![p] = h]
  /\ pc' = [pc EXCEPT ![p] = "iowait"]
  /\ UNCHANGED <<buf, write, data, disk, used, irq, intr, panicked>>

(* virtio_disk_rw(): alloc3_desc() fails.  It gives back what it got, and  *)
(* free_desc() wakes the others that wait, before p sleeps.                *)
RwNoDesc(p) ==
  /\ pc[p] = "rw" /\ ~intr /\ Cardinality(free) < 3
  /\ pc' = [IF free # {} THEN WakeFree ELSE pc EXCEPT ![p] = "nodesc"]
  /\ UNCHANGED <<buf, write, head, bdisk, data, disk, driver, panicked>>

(* virtio_disk_rw(): woken, but b->disk is still set. *)
RwAgain(p) ==
  /\ pc[p] = "iodone" /\ ~intr /\ bdisk[buf[p]]
  /\ pc' = [pc EXCEPT ![p] = "iowait"]
  /\ UNCHANGED <<buf, write, head, bdisk, data, disk, driver, panicked>>

(* Mutant: free_chain() frees the first two descriptors only. *)
RwDoneLeaks(p) ==
  LET h == head[p] IN
  /\ pc[p] = "iodone" /\ ~intr /\ ~bdisk[buf[p]]
  /\ panicked' = (panicked \/ chain[h] \cap free # {})
  /\ req' = [req EXCEPT ![h] = NoReq]
  /\ free' = free \cup (chain[h] \ {Max(chain[h])})
  /\ chain' = [chain EXCEPT ![h] = {}]
  /\ pc' = [WakeFree EXCEPT ![p] = "use"]
  /\ head' = [head EXCEPT ![p] = 0]
  /\ UNCHANGED <<buf, write, bdisk, data, disk, avail, used, irq, intr>>

(* Mutant: virtio_disk_rw() tests b->disk once, with if instead of while. *)
RwDoneIf(p) ==
  LET h == head[p] IN
  /\ pc[p] = "iodone" /\ ~intr
  /\ panicked' = (panicked \/ chain[h] \cap free # {})
  /\ req' = [req EXCEPT ![h] = NoReq]
  /\ free' = free \cup chain[h]
  /\ chain' = [chain EXCEPT ![h] = {}]
  /\ pc' = [WakeFree EXCEPT ![p] = "use"]
  /\ head' = [head EXCEPT ![p] = 0]
  /\ UNCHANGED <<buf, write, bdisk, data, disk, avail, used, irq, intr>>

(* virtio_disk_rw(): the request is done; free_chain() wakes whoever waits *)
(* for descriptors, and panics if one of them is free already.             *)
RwDone(p) ==
  LET h == head[p] IN
  /\ pc[p] = "iodone" /\ ~intr /\ ~bdisk[buf[p]]
  /\ panicked' = (panicked \/ chain[h] \cap free # {})
  /\ req' = [req EXCEPT ![h] = NoReq]
  /\ free' = free \cup chain[h]
  /\ chain' = [chain EXCEPT ![h] = {}]
  /\ pc' = [WakeFree EXCEPT ![p] = "use"]
  /\ head' = [head EXCEPT ![p] = 0]
  /\ UNCHANGED <<buf, write, bdisk, data, disk, avail, used, irq, intr>>
-----------------------------------------------------------------------------
(* The device answers request h of the avail ring, in any order: it moves  *)
(* the data, puts h into the used ring and asks for an interrupt.          *)
Device(h) ==
  LET r == req[h] IN
  /\ h \in avail
  /\ IF r.write
     THEN disk' = [disk EXCEPT ![r.block] = data[r.buf]] /\ UNCHANGED data
     ELSE data' = [data EXCEPT ![r.buf] = disk[r.block]] /\ UNCHANGED disk
  /\ avail' = avail \ {h}
  /\ used' = Append(used, h)
  /\ irq' = TRUE
  /\ UNCHANGED <<pc, buf, write, head, bdisk, free, chain, req, intr, panicked>>

(* virtio_disk_intr(): acquire(&disk.vdisk_lock), acknowledge. *)
IntrStart ==
  /\ irq /\ ~intr
  /\ irq' = FALSE /\ intr' = TRUE
  /\ UNCHANGED <<pc, buf, write, head, bdisk, data, disk, free, chain, req, avail, used, panicked>>

(* Mutant: virtio_disk_intr() handles one entry per interrupt. *)
IntrEntryOnce ==
  LET b == req[Head(used)].buf IN
  /\ intr /\ used # <<>>
  /\ bdisk' = [bdisk EXCEPT ![b] = FALSE]
  /\ pc' = WakeBuf(b)
  /\ used' = Tail(used)
  /\ intr' = FALSE
  /\ UNCHANGED <<buf, write, head, data, disk, free, chain, req, avail, irq, panicked>>

(* virtio_disk_intr(): one entry of the used ring.  Its status is 0, as    *)
(* the device reports no errors.                                           *)
IntrEntry ==
  LET b == req[Head(used)].buf IN
  /\ intr /\ used # <<>>
  /\ bdisk' = [bdisk EXCEPT ![b] = FALSE]
  /\ pc' = WakeBuf(b)
  /\ used' = Tail(used)
  /\ UNCHANGED <<buf, write, head, data, disk, free, chain, req, avail, irq, intr, panicked>>

(* virtio_disk_intr(): used_idx caught up; release(&disk.vdisk_lock). *)
IntrEnd ==
  /\ intr /\ used = <<>>
  /\ intr' = FALSE
  /\ UNCHANGED <<pc, buf, write, head, bdisk, data, disk, free, chain, req, avail, used, irq, panicked>>

Intr == IntrStart \/ IntrEntry \/ IntrEnd
Driver == Intr \/ \E h \in Descs : Device(h)
-----------------------------------------------------------------------------
(* virtio_disk_rw() and virtio_disk_intr(): descriptors are neither lost   *)
(* nor shared, every chain has one process that will free it, and b->disk  *)
(* is set exactly while a request for b is in one of the rings.            *)
RequestsExact ==
  LET heads == {h \in Descs : chain[h] # {}} IN
  /\ Cardinality(free) + 3 * Cardinality(heads) = NUM
  /\ free \cup UNION {chain[h] : h \in heads} = Descs
  /\ \A h \in heads : \E p \in Procs :
       pc[p] \in {"iowait", "iodone"} /\ head[p] = h /\ req[h].buf = buf[p]
  /\ \A b \in Bufs : bdisk[b] <=> \E h \in avail \cup Range(used) : req[h].buf = b

(* A process sleeps on a buffer only while the disk owns it, and on the    *)
(* descriptors only while three are not free.                              *)
DiskSleepersHaveReason ==
  \A p \in Procs :
    /\ pc[p] = "iowait" => bdisk[buf[p]]
    /\ pc[p] = "nodesc" => Cardinality(free) < 3
=============================================================================
