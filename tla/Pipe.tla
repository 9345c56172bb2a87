-------------------------------- MODULE Pipe --------------------------------
(***************************************************************************)
(* The struct pipe of kernel/pipe.c: a ring with two counters that wrap.   *)
(* The module defines what the sections under pi->lock do to it and to the *)
(* sleepers; module Files calls them through the file table.  There is     *)
(* memory for one pipe, so that kalloc() fails while it is in use.  The    *)
(* code never looks at a byte, so that the bytes can be told apart each is *)
(* the value of nwrite at which it was written.                            *)
(***************************************************************************)
EXTENDS Integers, Sequences

CONSTANTS
  Procs,     \* processes 0 .. n, 0 is init
  PIPESIZE,  \* size of the ring
  UintRange  \* number of values of a uint

ASSUME PipeConstants ==
  /\ PIPESIZE \in Nat \ {0}
  /\ UintRange \in Nat /\ UintRange > PIPESIZE
  /\ UintRange % PIPESIZE = 0

VARIABLES
  pc,        \* where each process is
  killed,    \* p->killed
  inuse,     \* the page of the pipe is allocated
  data,      \* pi->data
  nread, nwrite, readopen, writeopen,
  plock,     \* the writer that holds pi->lock between two bytes, or NULL
  left,      \* pipewrite(), piperead(): bytes still asked for, n - i
  unwoken    \* history: a killed writer left bytes without a wakeup

NULL == -1
ring == <<data, nread, nwrite>>
ends == <<inuse, readopen, writeopen>>
pipe == <<ends, ring, plock, left, unwoken>>

Count == (nwrite - nread) % UintRange
Slot(n) == n % PIPESIZE
Goto(p, l) == pc' = [pc EXCEPT ![p] = l]

(* wakeup(&pi->nread) and wakeup(&pi->nwrite), then p goes on at l. *)
WakeReaders(p, l) ==
  /\ pc' = [[q \in Procs |-> IF pc[q] = "rsleep" THEN "read" ELSE pc[q]] EXCEPT ![p] = l]
  /\ unwoken' = FALSE
WakeWriters(p, l) ==
  /\ pc' = [[q \in Procs |-> IF pc[q] = "wsleep" THEN "write" ELSE pc[q]] EXCEPT ![p] = l]
  /\ UNCHANGED unwoken

(* kfree() fills the page with junk. *)
Junk == [i \in 0 .. PIPESIZE - 1 |-> 0]
Kfree == nread' = 0 /\ nwrite' = 0 /\ data' = Junk

PipeInit ==
  /\ inuse = FALSE /\ readopen = FALSE /\ writeopen = FALSE
  /\ data = Junk
  /\ nread = 0 /\ nwrite = 0
  /\ plock = NULL
  /\ left = [p \in Procs |-> 0]
  /\ unwoken = FALSE

(* pipealloc(): the pipe after kalloc(). *)
PipeNew ==
  /\ inuse' = TRUE /\ readopen' = TRUE /\ writeopen' = TRUE
  /\ nread' = 0 /\ nwrite' = 0
  /\ unwoken' = FALSE
  /\ UNCHANGED <<data, plock, left>>

(* Mutant: pipeclose() of the write end does not wake the readers. *)
PipeCloseNoWakeup(p, end) ==
  /\ plock = NULL
  /\ writeopen' = (writeopen /\ end # "w")
  /\ readopen' = (readopen /\ end # "r")
  /\ inuse' = (readopen' \/ writeopen')
  /\ IF end = "w" THEN Goto(p, "close") /\ UNCHANGED unwoken ELSE WakeWriters(p, "close")
  /\ IF inuse' THEN UNCHANGED ring ELSE Kfree
  /\ UNCHANGED <<plock, left>>

(* pipeclose(pi, writable): the last end frees the page. *)
PipeClose(p, end) ==
  /\ plock = NULL
  /\ writeopen' = (writeopen /\ end # "w")
  /\ readopen' = (readopen /\ end # "r")
  /\ inuse' = (readopen' \/ writeopen')
  /\ IF end = "w" THEN WakeReaders(p, "close") ELSE WakeWriters(p, "close")
  /\ IF inuse' THEN UNCHANGED ring ELSE Kfree
  /\ UNCHANGED <<plock, left>>
-----------------------------------------------------------------------------
(* pipewrite(): acquire(&pi->lock). *)
WriteLock(p) ==
  /\ pc[p] = "write" /\ plock = NULL
  /\ plock' = p
  /\ Goto(p, "whold")
  /\ UNCHANGED <<killed, ends, ring, left, unwoken>>

Leave(p) == plock' = NULL /\ left' = [left EXCEPT ![p] = 0]
Refused(p) == ~readopen \/ killed[p]
Full == nwrite = (nread + PIPESIZE) % UintRange

(* pipewrite(): no reader is left, or p was killed.  The readers are not   *)
(* woken for the bytes written since the lock was taken.                   *)
WriteRefused(p) ==
  /\ pc[p] = "whold" /\ left[p] > 0 /\ Refused(p)
  /\ Leave(p)
  /\ unwoken' = (Count > 0)
  /\ Goto(p, "user")
  /\ UNCHANGED <<killed, ends, ring>>

(* pipewrite(): the ring is full; wake the readers and sleep. *)
WriteSleep(p) ==
  /\ pc[p] = "whold" /\ left[p] > 0 /\ ~Refused(p) /\ Full
  /\ plock' = NULL
  /\ WakeReaders(p, "wsleep")
  /\ UNCHANGED <<killed, ends, ring, left>>

(* Mutant: pipewrite() takes the byte behind the one it means. *)
WriteByteOffByOne(p) ==
  /\ pc[p] = "whold" /\ left[p] > 0 /\ ~Refused(p) /\ ~Full
  /\ data' = [data EXCEPT ![Slot(nwrite + 1)] = nwrite]
  /\ nwrite' = (nwrite + 1) % UintRange
  /\ left' = [left EXCEPT ![p] = @ - 1]
  /\ UNCHANGED <<pc, killed, ends, nread, plock, unwoken>>

(* pipewrite(): one byte. *)
WriteByte(p) ==
  /\ pc[p] = "whold" /\ left[p] > 0 /\ ~Refused(p) /\ ~Full
  /\ data' = [data EXCEPT ![Slot(nwrite)] = nwrite]
  /\ nwrite' = (nwrite + 1) % UintRange
  /\ left' = [left EXCEPT ![p] = @ - 1]
  /\ UNCHANGED <<pc, killed, ends, nread, plock, unwoken>>

(* pipewrite(): all is written, or copyin() fails. *)
WriteEnd(p) ==
  /\ pc[p] = "whold"
  /\ left[p] = 0 \/ (~Refused(p) /\ ~Full)
  /\ Leave(p)
  /\ WakeReaders(p, "user")
  /\ UNCHANGED <<killed, ends, ring>>
-----------------------------------------------------------------------------
(* piperead(): the ring is empty and a write end is open. *)
ReadWait(p) ==
  /\ pc[p] = "read" /\ plock = NULL
  /\ nread = nwrite /\ writeopen
  /\ IF killed[p]
     THEN Goto(p, "user") /\ left' = [left EXCEPT ![p] = 0]
     ELSE Goto(p, "rsleep") /\ UNCHANGED left
  /\ unwoken' = FALSE
  /\ UNCHANGED <<killed, ends, ring, plock>>

(* piperead(): take k bytes: all that were asked for and are there, or up  *)
(* to the byte whose copyout() fails, which is lost.                       *)
ReadTake(p, k) ==
  /\ pc[p] = "read" /\ plock = NULL
  /\ nread # nwrite \/ ~writeopen
  /\ k <= left[p] /\ k <= Count
  /\ k > 0 \/ Count = 0
  /\ nread' = (nread + k) % UintRange
  /\ left' = [left EXCEPT ![p] = 0]
  /\ WakeWriters(p, "user")
  /\ UNCHANGED <<killed, ends, data, nwrite, plock>>

PipeStep(p) ==
  \/ WriteLock(p) \/ WriteRefused(p) \/ WriteSleep(p) \/ WriteByte(p) \/ WriteEnd(p)
  \/ ReadWait(p)
  \/ \E k \in 0 .. PIPESIZE : ReadTake(p, k)
=============================================================================
