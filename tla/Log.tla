-------------------------------- MODULE Log --------------------------------
(***************************************************************************)
(* The write-ahead log of kernel/log.c with the part of the buffer cache   *)
(* it relies on (kernel/bio.c): begin_op, log_write, end_op, commit, and   *)
(* recovery after a crash at any point, also during recovery.              *)
(*                                                                         *)
(* A step ends where other threads or a crash can come in between: at the  *)
(* release of log.lock and at every block written to the disk.             *)
(***************************************************************************)
EXTENDS Integers, Sequences, FiniteSets, Functions

CONSTANTS
  Procs,       \* processes that make file system calls
  BlocksOf,    \* the home blocks the system calls of a process write
  MAXOPBLOCKS, \* max # of blocks any FS op writes
  LOGSIZE,     \* max data blocks in on-disk log
  LogArea,     \* sb.nlog: blocks of the log on disk, its header included
  OpBlocks,    \* the most blocks a system call really writes
  MaxOps,      \* bound: system calls started
  MaxCrashes   \* bound: crashes

ASSUME LogConstants ==
  /\ IsFiniteSet(Procs)
  /\ MAXOPBLOCKS \in Nat \ {0}
  /\ LOGSIZE \in Nat /\ LogArea \in Nat /\ OpBlocks \in Nat
  /\ MaxOps \in Nat /\ MaxCrashes \in Nat

(* kernel/param.h: LOGSIZE is MAXOPBLOCKS*3, mkfs makes the log LOGSIZE    *)
(* blocks long, and no call writes as many as MAXOPBLOCKS: filewrite()     *)
(* splits a write so that it stays below.                                  *)
ASSUME LogRoom ==
  /\ OpBlocks < MAXOPBLOCKS
  /\ 2 * MAXOPBLOCKS <= LOGSIZE /\ LOGSIZE <= LogArea

VARIABLES
  disk,        \* the home blocks on the disk
  logdata,     \* the data blocks of the log on the disk
  hdr,         \* the header block on the disk: block numbers, n = Len(hdr)
  cache,       \* buffer cache: the data of a cached home block, or Absent
  pinned,      \* home blocks whose buffer log_write() pinned
  lh,          \* log.lh
  outstanding, committing,   \* fields of struct log
  op,          \* where each process is in its system call
  wrote,       \* history: the blocks its system call wrote
  tail,        \* local of write_log() and install_trans()
  kernel,      \* what the machine does: runs, or a step of recovery
  id,          \* the number of its system call: the value it writes
  ops,         \* system calls started
  crashes, panicked

log  == <<lh, outstanding, committing>>
disks == <<disk, logdata, hdr>>
bufs == <<cache, pinned>>
vars == <<disks, bufs, log, op, wrote, tail, kernel, id, ops, crashes, panicked>>

Blocks == UNION Range(BlocksOf)
Vals == 0 .. MaxOps
Absent == -1

(* mkfs: an empty log; the machine has recovered from it. *)
Init ==
  /\ disk = [b \in Blocks |-> 0]
  /\ logdata = [i \in 1 .. LOGSIZE |-> 0]
  /\ hdr = <<>>
  /\ cache = [b \in Blocks |-> Absent] /\ pinned = {}
  /\ lh = <<>> /\ outstanding = 0 /\ committing = FALSE
  /\ op = [p \in Procs |-> "idle"]
  /\ wrote = [p \in Procs |-> {}]
  /\ tail = 1
  /\ kernel = "up"
  /\ id = [p \in Procs |-> 0]
  /\ ops = 0 /\ crashes = 0 /\ panicked = FALSE

Running(p, l) == kernel = "up" /\ ~panicked /\ op[p] = l
Goto(p, l) == op' = [op EXCEPT ![p] = l]
(* bread(): from the cache, or from the disk. *)
Bread(b) == IF cache[b] # Absent THEN cache[b] ELSE disk[b]
(* wakeup(&log). *)
WakeAll == [p \in Procs |-> IF op[p] = "asleep" THEN "begin" ELSE op[p]]
-----------------------------------------------------------------------------
(* A file system call starts. *)
Call(p) ==
  /\ Running(p, "idle") /\ ops < MaxOps
  /\ ops' = ops + 1
  /\ id' = [id EXCEPT ![p] = ops + 1]
  /\ Goto(p, "begin")
  /\ UNCHANGED <<disks, bufs, log, wrote, tail, kernel, crashes, panicked>>

(* Mutant: only this call's blocks are reserved, not those of the others. *)
NoRoomForOne == Len(lh) + MAXOPBLOCKS > LOGSIZE

NoRoom == Len(lh) + (outstanding + 1) * MAXOPBLOCKS > LOGSIZE

(* begin_op(): a commit is running or the log might run out: sleep. *)
BeginSleep(p) ==
  /\ Running(p, "begin") /\ (committing \/ NoRoom)
  /\ Goto(p, "asleep")
  /\ UNCHANGED <<disks, bufs, log, wrote, tail, kernel, id, ops, crashes, panicked>>

(* begin_op(): the call joins the transaction. *)
BeginOp(p) ==
  /\ Running(p, "begin") /\ ~committing /\ ~NoRoom
  /\ outstanding' = outstanding + 1
  /\ wrote' = [wrote EXCEPT ![p] = {}]
  /\ Goto(p, "in")
  /\ UNCHANGED <<disks, bufs, lh, committing, tail, kernel, id, ops, crashes, panicked>>

(* Mutant: log_write() does not pin the buffer. *)
LogWriteNoPin(p, b) ==
  /\ Running(p, "in") /\ b \in BlocksOf[p] /\ Cardinality(wrote[p] \cup {b}) <= OpBlocks
  /\ cache' = [cache EXCEPT ![b] = id[p]]
  /\ wrote' = [wrote EXCEPT ![p] = @ \cup {b}]
  /\ lh' = IF b \in Range(lh) THEN lh ELSE Append(lh, b)
  /\ UNCHANGED <<disks, pinned, outstanding, committing, op, tail, kernel, id, ops, crashes, panicked>>

(* bread(), modify, log_write(), brelse(): record the block, or find it    *)
(* recorded already (absorption), and pin its buffer.                      *)
LogWrite(p, b) ==
  /\ Running(p, "in") /\ b \in BlocksOf[p] /\ Cardinality(wrote[p] \cup {b}) <= OpBlocks
  /\ cache' = [cache EXCEPT ![b] = id[p]]
  /\ wrote' = [wrote EXCEPT ![p] = @ \cup {b}]
  /\ IF Len(lh) >= LOGSIZE \/ Len(lh) >= LogArea - 1 \/ outstanding < 1
     THEN panicked' = TRUE /\ UNCHANGED <<lh, pinned>>
     ELSE /\ lh' = IF b \in Range(lh) THEN lh ELSE Append(lh, b)
          /\ pinned' = pinned \cup {b}
          /\ UNCHANGED panicked
  /\ UNCHANGED <<disks, outstanding, committing, op, tail, kernel, id, ops, crashes>>

(* end_op() of a call that is not the last: space was freed, wake begin_op. *)
EndOp(p) ==
  /\ Running(p, "in") /\ outstanding > 1
  /\ outstanding' = outstanding - 1
  /\ panicked' = committing
  /\ op' = [WakeAll EXCEPT ![p] = "idle"]
  /\ UNCHANGED <<disks, bufs, lh, committing, wrote, tail, kernel, id, ops, crashes>>

(* Mutant: the last call returns without commit(). *)
EndLastOpNoCommit(p) ==
  /\ Running(p, "in") /\ outstanding = 1
  /\ outstanding' = 0
  /\ panicked' = committing
  /\ committing' = TRUE
  /\ Goto(p, "done")
  /\ tail' = 1
  /\ UNCHANGED <<disks, bufs, lh, wrote, kernel, id, ops, crashes>>

(* end_op() of the last call: commit(), which does nothing if n = 0. *)
EndLastOp(p) ==
  /\ Running(p, "in") /\ outstanding = 1
  /\ outstanding' = 0
  /\ panicked' = committing
  /\ committing' = TRUE
  /\ Goto(p, IF lh = <<>> THEN "done" ELSE "writelog")
  /\ tail' = 1
  /\ UNCHANGED <<disks, bufs, lh, wrote, kernel, id, ops, crashes>>
-----------------------------------------------------------------------------
(* write_log(): one block from the cache to the log. *)
WriteLog(p) ==
  /\ Running(p, "writelog") /\ tail <= Len(lh)
  /\ logdata' = [logdata EXCEPT ![tail] = Bread(lh[tail])]
  /\ cache' = [cache EXCEPT ![lh[tail]] = Bread(lh[tail])]
  /\ tail' = tail + 1
  /\ UNCHANGED <<disk, hdr, pinned, log, op, wrote, kernel, id, ops, crashes, panicked>>

(* write_head(): the commit point. *)
WriteHead(p) ==
  /\ Running(p, "writelog") /\ tail > Len(lh)
  /\ hdr' = lh
  /\ tail' = 1
  /\ Goto(p, "install")
  /\ UNCHANGED <<disk, logdata, bufs, log, wrote, kernel, id, ops, crashes, panicked>>

(* install_trans(0): one block from the log to its home; unpin it. *)
Install(p) ==
  /\ Running(p, "install") /\ tail <= Len(lh)
  /\ disk' = [disk EXCEPT ![lh[tail]] = logdata[tail]]
  /\ cache' = [cache EXCEPT ![lh[tail]] = logdata[tail]]
  /\ pinned' = pinned \ {lh[tail]}
  /\ tail' = tail + 1
  /\ UNCHANGED <<logdata, hdr, log, op, wrote, kernel, id, ops, crashes, panicked>>

(* log.lh.n = 0; write_head(): erase the transaction. *)
ClearHead(p) ==
  /\ Running(p, "install") /\ tail > Len(lh)
  /\ lh' = <<>> /\ hdr' = <<>>
  /\ tail' = 1
  /\ Goto(p, "done")
  /\ UNCHANGED <<disk, logdata, bufs, outstanding, committing, wrote, kernel, id, ops, crashes, panicked>>

(* Mutant: end_op() does not wake the calls that wait in begin_op(). *)
EndCommitNoWakeup(p) ==
  /\ Running(p, "done")
  /\ committing' = FALSE
  /\ Goto(p, "idle")
  /\ UNCHANGED <<disks, bufs, lh, outstanding, wrote, tail, kernel, id, ops, crashes, panicked>>

(* end_op(): commit() returned; wake whoever waits in begin_op(). *)
EndCommit(p) ==
  /\ Running(p, "done")
  /\ committing' = FALSE
  /\ op' = [WakeAll EXCEPT ![p] = "idle"]
  /\ UNCHANGED <<disks, bufs, lh, outstanding, wrote, tail, kernel, id, ops, crashes, panicked>>

(* bget() recycles the buffer of a block that nobody uses. *)
Evict(b) ==
  /\ kernel = "up" /\ ~panicked /\ cache[b] # Absent /\ b \notin pinned
  /\ cache' = [cache EXCEPT ![b] = Absent]
  /\ UNCHANGED <<disks, pinned, log, op, wrote, tail, kernel, id, ops, crashes, panicked>>
-----------------------------------------------------------------------------
(* Power fails: only the disk survives. *)
Crash ==
  /\ crashes < MaxCrashes
  /\ crashes' = crashes + 1
  /\ cache' = [b \in Blocks |-> Absent] /\ pinned' = {}
  /\ lh' = <<>> /\ outstanding' = 0 /\ committing' = FALSE
  /\ op' = [p \in Procs |-> "idle"]
  /\ wrote' = [p \in Procs |-> {}]
  /\ tail' = 1
  /\ kernel' = "readhead" /\ panicked' = FALSE
  /\ UNCHANGED <<disks, id, ops>>

(* recover_from_log(): read_head(). *)
ReadHead ==
  /\ kernel = "readhead"
  /\ lh' = hdr
  /\ kernel' = "recover"
  /\ UNCHANGED <<disks, bufs, outstanding, committing, op, wrote, tail, id, ops, crashes, panicked>>

(* recover_from_log(): install_trans(1), one block. *)
Recover ==
  /\ kernel = "recover" /\ tail <= Len(lh)
  /\ disk' = [disk EXCEPT ![lh[tail]] = logdata[tail]]
  /\ cache' = [cache EXCEPT ![lh[tail]] = logdata[tail]]
  /\ tail' = tail + 1
  /\ UNCHANGED <<logdata, hdr, pinned, log, op, wrote, kernel, id, ops, crashes, panicked>>

(* recover_from_log(): log.lh.n = 0; write_head(). *)
RecoverDone ==
  /\ kernel = "recover" /\ tail > Len(lh)
  /\ lh' = <<>> /\ hdr' = <<>>
  /\ tail' = 1
  /\ kernel' = "up"
  /\ UNCHANGED <<disk, logdata, bufs, outstanding, committing, op, wrote, id, ops, crashes, panicked>>
-----------------------------------------------------------------------------
Commit(p) == WriteLog(p) \/ WriteHead(p) \/ Install(p) \/ ClearHead(p) \/ EndCommit(p)
End(p) == EndOp(p) \/ EndLastOp(p)
Recovery == ReadHead \/ Recover \/ RecoverDone

Next ==
  \/ \E p \in Procs : Call(p) \/ BeginSleep(p) \/ BeginOp(p) \/ End(p) \/ Commit(p)
  \/ \E p \in Procs, b \in Blocks : LogWrite(p, b)
  \/ \E b \in Blocks : Evict(b)
  \/ Crash \/ Recovery

Spec == Init /\ [][Next]_vars

-----------------------------------------------------------------------------
(* The disk as recover_from_log() would leave it. *)
Recovered ==
  [b \in Blocks |-> IF b \in Range(hdr)
                    THEN logdata[CHOOSE i \in DOMAIN hdr : hdr[i] = b]
                    ELSE disk[b]]

(* What a system call reads. *)
Current == IF kernel = "up" THEN [b \in Blocks |-> Bread(b)] ELSE Recovered

(* Crash atomicity: a restart finds all of a system call or nothing of it. *)
(* The log implements module AtomicDisk, whatever is evicted from the      *)
(* cache and wherever the power fails, in commit() or in recovery.         *)
Abstract == INSTANCE AtomicDisk WITH durable <- Recovered, current <- Current, busy <- outstanding
ImplementsAtomicDisk == Abstract!Spec

(* Once end_op() of the last call has returned, nothing can be lost any    *)
(* more: what a restart would find is what system calls see.               *)
SyncedWhenIdle == kernel = "up" /\ outstanding = 0 /\ ~committing => Recovered = Current

(* The space begin_op() reserves is enough, and no call is in the          *)
(* transaction while it is committed: neither log_write() nor end_op()     *)
(* panics.                                                                 *)
NoPanic == ~panicked

(* No wakeup is lost: while a call sleeps in begin_op() another one is in  *)
(* the transaction or commits it, and its end_op() will wake the sleeper.  *)
SleepersHaveReason ==
  \A p \in Procs : op[p] = "asleep" =>
    \E q \in Procs : op[q] \in {"in", "writelog", "install", "done"}
=============================================================================
