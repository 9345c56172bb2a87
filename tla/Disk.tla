-------------------------------- MODULE Disk --------------------------------
(***************************************************************************)
(* The disk driver under load: every process calls virtio_disk_rw() with a *)
(* buffer and a block of its own, as the sleep locks of the buffer cache   *)
(* (module Bcache) ensure for the time of a transfer.                      *)
(***************************************************************************)
EXTENDS VirtioDisk

CONSTANTS
  Writers,  \* processes that write; the others read
  MaxKills  \* bound: sleeping processes woken by kill()

ASSUME DiskConstants ==
  MaxKills \in Nat /\ Writers \subseteq Procs /\ Procs \subseteq Bufs \cap Blocks

VARIABLE kills

vars == <<pc, buf, write, head, bdisk, data, disk, driver, panicked, kills>>

Init ==
  /\ DriverInit
  /\ pc = [p \in Procs |-> "use"]
  /\ buf = [p \in Procs |-> p]
  /\ data = [b \in Bufs |-> 0]
  /\ disk = [k \in Blocks |-> 0]
  /\ panicked = FALSE
  /\ kills = 0

(* bread() or bwrite() calls virtio_disk_rw(), while the contents of the   *)
(* buffer differ from the block.                                           *)
Call(p) ==
  /\ pc[p] = "use"
  /\ write' = [write EXCEPT ![p] = p \in Writers]
  /\ data' = [data EXCEPT ![buf[p]] = 1 - disk[p]]
  /\ pc' = [pc EXCEPT ![p] = "rw"]
  /\ UNCHANGED <<buf, head, bdisk, disk, driver, panicked, kills>>

Rw(p) == RwStart(p, p) \/ RwNoDesc(p) \/ RwAgain(p) \/ RwDone(p)

(* kill() wakes a process whatever it sleeps on. *)
Kill(p) ==
  /\ kills < MaxKills /\ kills' = kills + 1
  /\ \/ pc[p] = "iowait" /\ pc' = [pc EXCEPT ![p] = "iodone"]
     \/ pc[p] = "nodesc" /\ pc' = [pc EXCEPT ![p] = "rw"]
  /\ UNCHANGED <<buf, write, head, bdisk, data, disk, driver, panicked>>

RwStep(p) == Rw(p) /\ UNCHANGED kills
DriverStep == Driver /\ UNCHANGED kills

Next ==
  \/ \E p \in Procs : Call(p) \/ RwStep(p) \/ Kill(p)
  \/ DriverStep

Spec == Init /\ [][Next]_vars

(* The device answers every request, its interrupt is handled, and a hart  *)
(* that spins for vdisk_lock gets it in the end.                           *)
FairSpec ==
  /\ Spec
  /\ \A p \in Procs : SF_vars(RwStep(p))
  /\ \A h \in Descs : WF_vars(Device(h) /\ UNCHANGED kills)
  /\ WF_vars(Intr /\ UNCHANGED kills)
-----------------------------------------------------------------------------
(* When virtio_disk_rw() returns, the buffer and the block agree: the      *)
(* transfer was neither given up early nor mixed up with another, whatever *)
(* the order of answers, and no descriptor was freed twice.                *)
TransferDone ==
  /\ ~panicked
  /\ \A p \in Procs : pc[p] = "use" => data[buf[p]] = disk[p]

(* A transfer that was started comes to its end, and who waits for         *)
(* descriptors is woken.                                                   *)
TransfersEnd ==
  \A p \in Procs :
    /\ pc[p] = "iowait" ~> pc[p] = "use"
    /\ pc[p] = "nodesc" ~> pc[p] # "nodesc"
=============================================================================
