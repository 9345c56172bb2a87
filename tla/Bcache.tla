------------------------------- MODULE Bcache -------------------------------
(***************************************************************************)
(* The buffer cache of kernel/bio.c over the disk driver, with the sleep   *)
(* locks of kernel/sleeplock.c: bread, bwrite, brelse, bpin and bunpin by  *)
(* several processes, each with one buffer at a time.                      *)
(***************************************************************************)
EXTENDS VirtioDisk, TLC

CONSTANTS
  MaxPins,   \* the most blocks the log pins
  MaxWrites, \* bound: modifications of a buffer
  MaxKills   \* bound: sleeping processes woken by kill()

NULL == "nobody"
NoBlock == 0

ASSUME BcacheConstants ==
  /\ MaxPins \in Nat /\ MaxWrites \in Nat /\ MaxKills \in Nat
  /\ NULL \notin Procs /\ NoBlock \notin Blocks

VARIABLES
  bno,      \* b->blockno, or NoBlock
  valid,    \* b->valid
  refcnt,   \* b->refcnt
  slock,    \* b->lock: the process that holds the sleep lock, or NULL
  lru,      \* the list of all buffers, head.next first
  pins,     \* blocks the log pinned
  want,     \* the block a process asked for
  latest,   \* history: the last value stored in a buffer of the block
  writes, kills

cache == <<bno, valid, refcnt, slock, lru, pins, want>>
bounds == <<latest, writes, kills>>
vars == <<pc, buf, write, head, bdisk, data, disk, driver, panicked, cache, bounds>>

(* binit(): every buffer is unused. *)
Init ==
  /\ DriverInit
  /\ pc = [p \in Procs |-> "idle"]
  /\ buf = [p \in Procs |-> 0]
  /\ want = [p \in Procs |-> NoBlock]
  /\ data = [b \in Bufs |-> 0]
  /\ disk = [k \in Blocks |-> 0]
  /\ bno = [b \in Bufs |-> NoBlock]
  /\ valid = [b \in Bufs |-> FALSE]
  /\ refcnt = [b \in Bufs |-> 0]
  /\ slock = [b \in Bufs |-> NULL]
  /\ lru = [i \in Bufs |-> NBUF + 1 - i]
  /\ pins = {}
  /\ latest = [k \in Blocks |-> 0]
  /\ writes = 0 /\ kills = 0
  /\ panicked = FALSE

At(p, l) == pc[p] = l
Goto(p, l) == pc' = [pc EXCEPT ![p] = l]
-----------------------------------------------------------------------------
(* A process calls bread(k). *)
Bread(p, k) ==
  /\ At(p, "idle")
  /\ want' = [want EXCEPT ![p] = k]
  /\ Goto(p, "bget")
  /\ UNCHANGED <<buf, write, head, bdisk, data, disk, driver, panicked,
                 bno, valid, refcnt, slock, lru, pins, bounds>>

Cached(k) == {b \in Bufs : bno[b] = k}
Unused == {b \in Bufs : refcnt[b] = 0}

(* Mutant: bget() takes a cached buffer without counting the reference. *)
BgetHitNoRef(p) ==
  /\ At(p, "bget")
  /\ \E b \in Cached(want[p]) : buf' = [buf EXCEPT ![p] = b]
  /\ Goto(p, "lock")
  /\ UNCHANGED <<write, head, bdisk, data, disk, driver, panicked, cache, bounds>>

(* bget(): the block is cached. *)
BgetHit(p) ==
  /\ At(p, "bget")
  /\ \E b \in Cached(want[p]) :
       /\ refcnt' = [refcnt EXCEPT ![b] = @ + 1]
       /\ buf' = [buf EXCEPT ![p] = b]
  /\ Goto(p, "lock")
  /\ UNCHANGED <<write, head, bdisk, data, disk, driver, panicked,
                 bno, valid, slock, lru, pins, want, bounds>>

(* Mutant: bget() recycles the last buffer of the list, also one in use. *)
BgetMissTakesUsed(p) ==
  /\ At(p, "bget") /\ Cached(want[p]) = {}
  /\ IF Unused = {}
     THEN panicked' = TRUE /\ UNCHANGED <<pc, buf, bno, valid, refcnt>>
     ELSE LET b == lru[NBUF] IN
          /\ bno' = [bno EXCEPT ![b] = want[p]]
          /\ valid' = [valid EXCEPT ![b] = FALSE]
          /\ refcnt' = [refcnt EXCEPT ![b] = @ + 1]
          /\ buf' = [buf EXCEPT ![p] = b]
          /\ Goto(p, "lock")
          /\ UNCHANGED panicked
  /\ UNCHANGED <<write, head, bdisk, data, disk, driver, slock, lru, pins, want, bounds>>

(* bget(): not cached; the least recently used unused buffer is recycled,  *)
(* and there is a panic when all are in use.                               *)
BgetMiss(p) ==
  /\ At(p, "bget") /\ Cached(want[p]) = {}
  /\ IF Unused = {}
     THEN panicked' = TRUE /\ UNCHANGED <<pc, buf, bno, valid, refcnt>>
     ELSE LET b == lru[Max({i \in DOMAIN lru : lru[i] \in Unused})] IN
          /\ bno' = [bno EXCEPT ![b] = want[p]]
          /\ valid' = [valid EXCEPT ![b] = FALSE]
          /\ refcnt' = [refcnt EXCEPT ![b] = 1]
          /\ buf' = [buf EXCEPT ![p] = b]
          /\ Goto(p, "lock")
          /\ UNCHANGED panicked
  /\ UNCHANGED <<write, head, bdisk, data, disk, driver, slock, lru, pins, want, bounds>>

(* acquiresleep(): the lock is free; bread() reads the block if it must.   *)
AcquireSleep(p) ==
  /\ At(p, "lock") /\ slock[buf[p]] = NULL
  /\ slock' = [slock EXCEPT ![buf[p]] = p]
  /\ IF valid[buf[p]]
     THEN Goto(p, "use") /\ UNCHANGED write
     ELSE Goto(p, "rw") /\ write' = [write EXCEPT ![p] = FALSE]
  /\ UNCHANGED <<buf, head, bdisk, data, disk, driver, panicked,
                 bno, valid, refcnt, lru, pins, want, bounds>>

(* acquiresleep(): sleep until releasesleep(). *)
AcquireWait(p) ==
  /\ At(p, "lock") /\ slock[buf[p]] # NULL
  /\ Goto(p, "locksleep")
  /\ UNCHANGED <<buf, write, head, bdisk, data, disk, driver, panicked, cache, bounds>>

(* virtio_disk_rw() for p. *)
Rw(p) ==
  \/ (RwStart(p, bno[buf[p]]) \/ RwNoDesc(p) \/ RwAgain(p)) /\ UNCHANGED <<cache, bounds>>
  \/ /\ RwDone(p)
     /\ valid' = [valid EXCEPT ![buf[p]] = TRUE]
     /\ UNCHANGED <<bno, refcnt, slock, lru, pins, want, bounds>>
-----------------------------------------------------------------------------
(* The holder of b changes its data. *)
Store(b) ==
  /\ writes < MaxWrites
  /\ writes' = writes + 1
  /\ data' = [data EXCEPT ![b] = writes + 1]
  /\ latest' = [latest EXCEPT ![bno[b]] = writes + 1]

(* The holder changes the data and calls log_write(), which pins the       *)
(* buffer of a block that is not in the transaction yet.                   *)
Bpin(p) ==
  LET b == buf[p] IN
  /\ At(p, "use")
  /\ bno[b] \in pins \/ Cardinality(pins) < MaxPins
  /\ Store(b)
  /\ refcnt' = [refcnt EXCEPT ![b] = IF bno[b] \in pins THEN @ ELSE @ + 1]
  /\ pins' = pins \cup {bno[b]}
  /\ UNCHANGED <<pc, buf, write, head, bdisk, disk, driver, panicked,
                 bno, valid, slock, lru, want, kills>>

(* The holder calls bwrite(): on what install_trans() finds pinned, or on  *)
(* what write_log() and write_head() have just changed.                    *)
Bwrite(p) ==
  LET b == buf[p] IN
  /\ At(p, "use")
  /\ \/ bno[b] \in pins /\ disk[bno[b]] # data[b] /\ UNCHANGED <<data, latest, writes>>
     \/ bno[b] \notin pins /\ Store(b)
  /\ write' = [write EXCEPT ![p] = TRUE]
  /\ Goto(p, "rw")
  /\ UNCHANGED <<buf, head, bdisk, disk, driver, panicked, cache, kills>>

(* install_trans(): the block was written home; bunpin(). *)
Bunpin(p) ==
  LET b == buf[p] IN
  /\ At(p, "use") /\ bno[b] \in pins /\ disk[bno[b]] = data[b]
  /\ refcnt' = [refcnt EXCEPT ![b] = @ - 1]
  /\ pins' = pins \ {bno[b]}
  /\ UNCHANGED <<pc, buf, write, head, bdisk, data, disk, driver, panicked,
                 bno, valid, slock, lru, want, bounds>>

(* Mutant: releasesleep() forgets to wake the sleepers. *)
ReleaseSleepNoWakeup(p) ==
  LET b == buf[p] IN
  /\ At(p, "use")
  /\ slock' = [slock EXCEPT ![b] = NULL]
  /\ Goto(p, "rel")
  /\ UNCHANGED <<buf, write, head, bdisk, data, disk, driver, panicked,
                 bno, valid, refcnt, lru, pins, want, bounds>>

(* brelse(): releasesleep() wakes whoever waits for the lock. *)
ReleaseSleep(p) ==
  LET b == buf[p] IN
  /\ At(p, "use")
  /\ slock' = [slock EXCEPT ![b] = NULL]
  /\ pc' = [q \in Procs |-> IF q = p THEN "rel"
                            ELSE IF pc[q] = "locksleep" /\ buf[q] = b THEN "lock" ELSE pc[q]]
  /\ UNCHANGED <<buf, write, head, bdisk, data, disk, driver, panicked,
                 bno, valid, refcnt, lru, pins, want, bounds>>

(* brelse() takes b out of the list and puts it behind its head. *)
MoveToFront(b) ==
  LET i == CHOOSE i \in Bufs : lru[i] = b IN
  [j \in Bufs |-> IF j = 1 THEN b ELSE IF j <= i THEN lru[j - 1] ELSE lru[j]]

(* brelse(): the reference is dropped; an unused buffer becomes the most   *)
(* recently used one.                                                      *)
Brelse(p) ==
  LET b == buf[p] IN
  /\ At(p, "rel")
  /\ refcnt' = [refcnt EXCEPT ![b] = @ - 1]
  /\ lru' = IF refcnt[b] = 1 THEN MoveToFront(b) ELSE lru
  /\ Goto(p, "idle")
  /\ buf' = [buf EXCEPT ![p] = 0]
  /\ want' = [want EXCEPT ![p] = NoBlock]
  /\ write' = [write EXCEPT ![p] = FALSE]
  /\ UNCHANGED <<head, bdisk, data, disk, driver, panicked,
                 bno, valid, slock, pins, bounds>>

(* kill() wakes a process whatever it sleeps on. *)
Kill(p) ==
  /\ kills < MaxKills /\ kills' = kills + 1
  /\ \/ At(p, "iowait") /\ Goto(p, "iodone")
     \/ At(p, "nodesc") /\ Goto(p, "rw")
     \/ At(p, "locksleep") /\ Goto(p, "lock")
  /\ UNCHANGED <<buf, write, head, bdisk, data, disk, driver, panicked, cache, latest, writes>>
-----------------------------------------------------------------------------
(* A process that is not asleep and is inside bread() or bwrite(). *)
Work(p) ==
  BgetHit(p) \/ BgetMiss(p) \/ AcquireSleep(p) \/ AcquireWait(p)
    \/ Rw(p) \/ Brelse(p)
Hold(p) == Bpin(p) \/ Bwrite(p) \/ Bunpin(p) \/ ReleaseSleep(p)

(* The processes, and the blocks, play the same part. *)
Symmetric == Permutations(Procs) \cup Permutations(Blocks)

(* The for(;;) of panic(), with bcache.lock held. *)
Halted == panicked /\ UNCHANGED vars

Next ==
  \/ /\ ~panicked
     /\ \/ \E p \in Procs, k \in Blocks : Bread(p, k)
        \/ \E p \in Procs : Work(p) \/ Hold(p) \/ Kill(p)
        \/ Driver /\ UNCHANGED <<cache, bounds>>
  \/ Halted

Spec == Init /\ [][Next]_vars
-----------------------------------------------------------------------------
(* The processes between bget() and brelse(). *)
Referring == {p \in Procs : buf[p] # 0}

(* bget() searches and recycles under one lock: a block is never cached in *)
(* two buffers, and refcnt counts exactly the processes between bget() and *)
(* brelse() and the pin of the log.  So bget() panics only when processes  *)
(* and pins really have all the buffers, and nothing else panics.          *)
RefcntExact ==
  /\ \A b, c \in Bufs : bno[b] = bno[c] /\ bno[b] # NoBlock => b = c
  /\ \A b \in Bufs :
       refcnt[b] = Cardinality({p \in Procs : buf[p] = b}) + (IF bno[b] \in pins THEN 1 ELSE 0)
  /\ panicked => Cardinality(Referring) + Cardinality(pins) >= NBUF

(* Whoever bread() returned to holds the sleep lock of a buffer of the     *)
(* block asked for, with what was last stored in that block, although the  *)
(* buffer may have been recycled, written back and read again since.       *)
HolderSeesLatest ==
  \A p \in Procs : At(p, "use") =>
    LET b == buf[p] IN
    slock[b] = p /\ valid[b] /\ bno[b] = want[p] /\ data[b] = latest[want[p]]

(* No wakeup is lost although b->disk, the descriptors and the sleep lock  *)
(* change under three locks, and kill() wakes sleepers early: who sleeps   *)
(* has a reason to.                                                        *)
SleepersHaveReason ==
  /\ DiskSleepersHaveReason
  /\ \A p \in Procs : At(p, "locksleep") => slock[buf[p]] # NULL
=============================================================================
