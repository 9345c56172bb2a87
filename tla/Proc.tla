-------------------------------- MODULE Proc --------------------------------
(***************************************************************************)
(* The process table of kernel/proc.c: fork, exit, wait/waitx, kill,       *)
(* sleep and wakeup, run by the kernel threads of NPROC slots.             *)
(*                                                                         *)
(* A step is one section of code executed under one p->lock (acquire to    *)
(* release, or acquire to the swtch that hands the lock to scheduler()).   *)
(* No thread of this module holds a p->lock while it waits for anything,   *)
(* so p->lock itself is not a variable; wait_lock, which is held across    *)
(* several such sections, is.  Which RUNNABLE process a CPU picks is left  *)
(* open here and is the subject of module Scheduler.                       *)
(***************************************************************************)
EXTENDS Integers, FiniteSets

CONSTANTS
  NPROC,      \* number of slots of proc[]
  NCPU,       \* number of harts that run scheduler()
  MaxPid,     \* bound: no fork once nextpid would pass it
  KillArgs,   \* the pids user programs pass to kill()
  Preempt,    \* TRUE: the build defines RR or MLFQ, the timer calls yield()
  IdleWait,   \* TRUE: programs also call wait() when they have no child
  CopyFaults  \* which pointers given to wait()/waitx() may fail copyout()

ASSUME ProcConstants ==
  /\ NPROC \in Nat \ {0}
  /\ NCPU \in Nat \ {0}
  /\ MaxPid \in Nat
  /\ KillArgs \subseteq Nat
  /\ Preempt \in BOOLEAN
  /\ IdleWait \in BOOLEAN
  /\ CopyFaults \subseteq {"status", "times"}

VARIABLES
  state,     \* p->state
  chan,      \* p->chan: the slot whose address is slept on, or NULL
  killed,    \* p->killed
  pid,       \* p->pid
  parent,    \* p->parent
  wait_lock, \* the slot whose thread holds wait_lock, or NULL
  nextpid,   \* nextpid
  pc,        \* where the kernel thread of the slot is
  idx,       \* its cursor in a loop over proc[]
  w,         \* its cursor in the loop of wakeup()
  np,        \* fork(): the slot allocproc() returned
  arg,       \* kill(): the pid asked for
  panicked,  \* panic() was called: every hart stops
  asked      \* history: pids that were killed by kill() or by a fault

table  == <<state, chan, killed, pid, parent>>
thread == <<pc, idx, w, np, arg>>
vars == <<table, wait_lock, nextpid, thread, panicked, asked>>

Slots == 0 .. NPROC - 1
NULL == -1
initproc == 0
Live == {"RUNNABLE", "RUNNING", "SLEEPING"}
States == Live \cup {"UNUSED", "USED", "ZOMBIE"}
Labels == {"user", "alloc", "setparent", "setrunnable",
           "exit", "reparent", "wakeinit", "wakeparent", "zombie",
           "wait", "waitscan", "waitsleep", "kill"}
(* In acquire(&wait_lock): push_off() has turned the interrupts off.       *)
Acquiring == {"setparent", "exit", "wait"}
-----------------------------------------------------------------------------
(* userinit(): init occupies the first slot and is RUNNABLE. *)
Init ==
  /\ state = [p \in Slots |-> IF p = initproc THEN "RUNNABLE" ELSE "UNUSED"]
  /\ chan = [p \in Slots |-> NULL]
  /\ killed = [p \in Slots |-> FALSE]
  /\ pid = [p \in Slots |-> IF p = initproc THEN 1 ELSE 0]
  /\ parent = [p \in Slots |-> NULL]
  /\ wait_lock = NULL
  /\ nextpid = 2
  /\ pc = [p \in Slots |-> "user"]
  /\ idx = [p \in Slots |-> 0]
  /\ w = [p \in Slots |-> 0]
  /\ np = [p \in Slots |-> NULL]
  /\ arg = [p \in Slots |-> 0]
  /\ panicked = FALSE
  /\ asked = {}

(* The thread of p executes and is at label l. *)
At(p, l) == state[p] = "RUNNING" /\ pc[p] = l
Goto(p, l) == pc' = [pc EXCEPT ![p] = l]
SetIdx(p, n) == idx' = [idx EXCEPT ![p] = n]
(* Return to user mode: the locals of the system call are gone. *)
Return(p) == Goto(p, "user") /\ SetIdx(p, 0)

(* acquire and release of wait_lock. *)
AcquireWait(p) == wait_lock = NULL /\ wait_lock' = p
ReleaseWait == wait_lock' = NULL

(* Mutant: freeproc() forgets p->killed. *)
FreeProcKeepsKilled(q) ==
  /\ state' = [state EXCEPT ![q] = "UNUSED"]
  /\ chan' = [chan EXCEPT ![q] = NULL]
  /\ pid' = [pid EXCEPT ![q] = 0]
  /\ parent' = [parent EXCEPT ![q] = NULL]
  /\ UNCHANGED killed

(* freeproc(q): the slot is cleared. *)
FreeProc(q) ==
  /\ state' = [state EXCEPT ![q] = "UNUSED"]
  /\ chan' = [chan EXCEPT ![q] = NULL]
  /\ killed' = [killed EXCEPT ![q] = FALSE]
  /\ pid' = [pid EXCEPT ![q] = 0]
  /\ parent' = [parent EXCEPT ![q] = NULL]
-----------------------------------------------------------------------------
(* scheduler() runs p; p's thread returns from sched() and, if it was in   *)
(* sleep(), clears p->chan, then releases p->lock.                         *)
Dispatch(p) ==
  /\ state[p] = "RUNNABLE"
  /\ Cardinality({q \in Slots : state[q] = "RUNNING"}) < NCPU
  /\ state' = [state EXCEPT ![p] = "RUNNING"]
  /\ chan' = [chan EXCEPT ![p] = NULL]
  /\ UNCHANGED <<killed, pid, parent, wait_lock, nextpid, thread, panicked, asked>>

(* yield() from a timer interrupt: in user code after the p->killed check  *)
(* of usertrap(), or in kernel code that holds no spinlock (kerneltrap()). *)
Yield(p) ==
  /\ Preempt
  /\ state[p] = "RUNNING" /\ wait_lock # p /\ pc[p] \notin Acquiring
  /\ pc[p] = "user" => ~killed[p]
  /\ state' = [state EXCEPT ![p] = "RUNNABLE"]
  /\ UNCHANGED <<chan, killed, pid, parent, wait_lock, nextpid, thread, panicked, asked>>
-----------------------------------------------------------------------------
(* fork(): usertrap() lets a system call start unless p->killed. *)
ForkCall(p) ==
  /\ At(p, "user") /\ ~killed[p]
  /\ nextpid + Cardinality({q \in Slots : pc[q] = "alloc"}) <= MaxPid
  /\ Goto(p, "alloc") /\ SetIdx(p, 0)
  /\ UNCHANGED <<table, wait_lock, nextpid, w, np, arg, panicked, asked>>

(* allocproc(): the slot under the cursor is taken; try the next one, or   *)
(* fail when there is none.                                                *)
AllocSkip(p) ==
  /\ At(p, "alloc") /\ state[idx[p]] # "UNUSED"
  /\ IF idx[p] + 1 < NPROC
     THEN SetIdx(p, idx[p] + 1) /\ UNCHANGED pc
     ELSE Return(p)
  /\ UNCHANGED <<table, wait_lock, nextpid, w, np, arg, panicked, asked>>

(* Mutant: allocpid() does not advance nextpid. *)
AllocFoundSamePid(p) ==
  LET q == idx[p] IN
  /\ At(p, "alloc") /\ state[q] = "UNUSED"
  /\ state' = [state EXCEPT ![q] = "USED"]
  /\ pid' = [pid EXCEPT ![q] = nextpid]
  /\ np' = [np EXCEPT ![p] = q]
  /\ Goto(p, "setparent") /\ SetIdx(p, 0)
  /\ UNCHANGED <<chan, killed, parent, wait_lock, nextpid, w, arg, panicked, asked>>

(* allocproc() found a slot and fork() copied the parent into it; the      *)
(* child will start in forkret() and return to user mode.                  *)
AllocFound(p) ==
  LET q == idx[p] IN
  /\ At(p, "alloc") /\ state[q] = "UNUSED"
  /\ state' = [state EXCEPT ![q] = "USED"]
  /\ pid' = [pid EXCEPT ![q] = nextpid]
  /\ nextpid' = nextpid + 1
  /\ np' = [np EXCEPT ![p] = q]
  /\ Goto(p, "setparent") /\ SetIdx(p, 0)
  /\ UNCHANGED <<chan, killed, parent, wait_lock, w, arg, panicked, asked>>

(* allocproc() found a slot, but kalloc(), proc_pagetable() or uvmcopy()   *)
(* failed: the slot is freed again; the pid is spent.                      *)
AllocFail(p) ==
  /\ At(p, "alloc") /\ state[idx[p]] = "UNUSED"
  /\ FreeProc(idx[p])
  /\ nextpid' = nextpid + 1
  /\ Return(p)
  /\ UNCHANGED <<wait_lock, w, np, arg, panicked, asked>>

(* fork(): np->parent = p, under wait_lock. *)
ForkSetParent(p) ==
  /\ At(p, "setparent") /\ wait_lock = NULL
  /\ parent' = [parent EXCEPT ![np[p]] = p]
  /\ Goto(p, "setrunnable")
  /\ UNCHANGED <<state, chan, killed, pid, wait_lock, nextpid, idx, w, np, arg, panicked, asked>>

(* fork(): the child becomes RUNNABLE, fork() returns its pid. *)
ForkSetRunnable(p) ==
  /\ At(p, "setrunnable")
  /\ state' = [state EXCEPT ![np[p]] = "RUNNABLE"]
  /\ np' = [np EXCEPT ![p] = NULL]
  /\ Return(p)
  /\ UNCHANGED <<chan, killed, pid, parent, wait_lock, nextpid, w, arg, panicked, asked>>
-----------------------------------------------------------------------------
(* exit(), from the system call of a process other than init (user/init.c  *)
(* never calls it while its wait() succeeds).                              *)
ExitCall(p) ==
  /\ At(p, "user") /\ p # initproc
  /\ Goto(p, "exit")
  /\ UNCHANGED <<table, wait_lock, nextpid, idx, w, np, arg, panicked, asked>>

(* usertrap(): an unexpected trap sets p->killed, then exit(-1). *)
Fault(p) ==
  /\ At(p, "user") /\ p # initproc
  /\ killed' = [killed EXCEPT ![p] = TRUE]
  /\ asked' = asked \cup {pid[p]}
  /\ Goto(p, "exit")
  /\ UNCHANGED <<state, chan, pid, parent, wait_lock, nextpid, idx, w, np, arg, panicked>>

(* usertrap(): p->killed is seen on entry to or on return from the kernel. *)
KilledExit(p) ==
  /\ At(p, "user") /\ killed[p]
  /\ Goto(p, "exit")
  /\ UNCHANGED <<table, wait_lock, nextpid, idx, w, np, arg, panicked, asked>>

(* exit(): panic("init exiting"). *)
ExitPanic(p) ==
  /\ At(p, "exit") /\ p = initproc
  /\ panicked' = TRUE
  /\ UNCHANGED <<table, wait_lock, nextpid, thread, asked>>

(* Mutant: exit() does not call reparent(). *)
ExitLockNoReparent(p) ==
  /\ At(p, "exit") /\ p # initproc
  /\ AcquireWait(p)
  /\ Goto(p, "wakeparent")
  /\ UNCHANGED <<table, nextpid, idx, w, np, arg, panicked, asked>>

(* exit(): acquire(&wait_lock), then reparent(p). *)
ExitLock(p) ==
  /\ At(p, "exit") /\ p # initproc
  /\ AcquireWait(p)
  /\ Goto(p, "reparent") /\ SetIdx(p, 0)
  /\ UNCHANGED <<table, nextpid, w, np, arg, panicked, asked>>

(* reparent(): a child of p is handed to init, and init is woken. *)
ReparentChild(p) ==
  /\ At(p, "reparent") /\ idx[p] < NPROC /\ parent[idx[p]] = p
  /\ parent' = [parent EXCEPT ![idx[p]] = initproc]
  /\ Goto(p, "wakeinit")
  /\ UNCHANGED <<state, chan, killed, pid, wait_lock, nextpid, idx, w, np, arg, panicked, asked>>

(* reparent(): not a child of p. *)
ReparentSkip(p) ==
  /\ At(p, "reparent") /\ idx[p] < NPROC /\ parent[idx[p]] # p
  /\ SetIdx(p, idx[p] + 1)
  /\ UNCHANGED <<table, wait_lock, nextpid, pc, w, np, arg, panicked, asked>>

(* Mutant: exit() does not wake its parent. *)
ReparentDoneNoWakeup(p) ==
  /\ At(p, "reparent") /\ idx[p] = NPROC
  /\ Goto(p, "zombie") /\ SetIdx(p, 0)
  /\ UNCHANGED <<table, wait_lock, nextpid, w, np, arg, panicked, asked>>

(* exit(): reparent() returned; wakeup(p->parent) is next. *)
ReparentDone(p) ==
  /\ At(p, "reparent") /\ idx[p] = NPROC
  /\ Goto(p, "wakeparent") /\ SetIdx(p, 0)
  /\ UNCHANGED <<table, wait_lock, nextpid, w, np, arg, panicked, asked>>

(* The channel that the wakeup() in progress was given. *)
WakeChan(p) == IF pc[p] = "wakeinit" THEN initproc ELSE parent[p]

(* wakeup(chan): one slot of the loop; the caller's own slot is skipped. *)
WakeupSlot(p) ==
  LET q == w[p] IN
  /\ At(p, "wakeinit") \/ At(p, "wakeparent")
  /\ q < NPROC
  /\ IF q # p /\ state[q] = "SLEEPING" /\ chan[q] = WakeChan(p)
     THEN state' = [state EXCEPT ![q] = "RUNNABLE"]
     ELSE UNCHANGED state
  /\ w' = [w EXCEPT ![p] = q + 1]
  /\ UNCHANGED <<chan, killed, pid, parent, wait_lock, nextpid, pc, idx, np, arg, panicked, asked>>

(* wakeup() returns to reparent() or to exit(). *)
WakeupDone(p) ==
  /\ At(p, "wakeinit") \/ At(p, "wakeparent")
  /\ w[p] = NPROC
  /\ w' = [w EXCEPT ![p] = 0]
  /\ IF pc[p] = "wakeinit"
     THEN Goto(p, "reparent") /\ SetIdx(p, idx[p] + 1)
     ELSE Goto(p, "zombie") /\ UNCHANGED idx
  /\ UNCHANGED <<table, wait_lock, nextpid, np, arg, panicked, asked>>

(* exit(): ZOMBIE under p->lock, wait_lock released, sched() never returns. *)
ExitZombie(p) ==
  /\ At(p, "zombie")
  /\ state' = [state EXCEPT ![p] = "ZOMBIE"]
  /\ ReleaseWait
  /\ Goto(p, "user")
  /\ UNCHANGED <<chan, killed, pid, parent, nextpid, idx, w, np, arg, panicked, asked>>
-----------------------------------------------------------------------------
HaveKids(p) == \E q \in Slots : parent[q] = p

(* wait() or waitx(): they share this loop. *)
WaitCall(p) ==
  /\ At(p, "user") /\ ~killed[p]
  /\ IdleWait \/ HaveKids(p)
  /\ Goto(p, "wait")
  /\ UNCHANGED <<table, wait_lock, nextpid, idx, w, np, arg, panicked, asked>>

(* acquire(&wait_lock), on entry and on return from sleep(). *)
WaitLock(p) ==
  /\ At(p, "wait")
  /\ AcquireWait(p)
  /\ Goto(p, "waitscan") /\ SetIdx(p, 0)
  /\ UNCHANGED <<table, nextpid, w, np, arg, panicked, asked>>

(* One slot of the scan that is not a ZOMBIE child. *)
WaitSkip(p) ==
  /\ At(p, "waitscan") /\ idx[p] < NPROC
  /\ ~(parent[idx[p]] = p /\ state[idx[p]] = "ZOMBIE")
  /\ SetIdx(p, idx[p] + 1)
  /\ UNCHANGED <<table, wait_lock, nextpid, pc, w, np, arg, panicked, asked>>

ZombieFound(p) ==
  /\ At(p, "waitscan") /\ idx[p] < NPROC
  /\ parent[idx[p]] = p /\ state[idx[p]] = "ZOMBIE"

(* Mutant: wait() returns the pid without freeproc(). *)
WaitReapNoFree(p) ==
  /\ ZombieFound(p)
  /\ ReleaseWait
  /\ Return(p)
  /\ UNCHANGED <<table, nextpid, w, np, arg, panicked, asked>>

(* The exit status is copied out, the child is freed, its pid returned. *)
WaitReap(p) ==
  /\ ZombieFound(p)
  /\ FreeProc(idx[p])
  /\ ReleaseWait
  /\ Return(p)
  /\ UNCHANGED <<nextpid, w, np, arg, panicked, asked>>

(* copyout() of the exit status fails: -1, and the child stays a ZOMBIE.   *)
(* Not for init, which calls wait(0) and so never copies out.              *)
WaitCopyoutFails(p) ==
  /\ "status" \in CopyFaults /\ p # initproc
  /\ ZombieFound(p)
  /\ ReleaseWait
  /\ Return(p)
  /\ UNCHANGED <<table, nextpid, w, np, arg, panicked, asked>>

(* sys_waitx(): the child is freed, then copyout() of rtime or wtime fails *)
(* and the parent gets -1.                                                 *)
WaitxTimesFail(p) ==
  /\ "times" \in CopyFaults /\ p # initproc
  /\ ZombieFound(p)
  /\ FreeProc(idx[p])
  /\ ReleaseWait
  /\ Return(p)
  /\ UNCHANGED <<nextpid, w, np, arg, panicked, asked>>

(* No child, or p was killed: -1. *)
WaitNone(p) ==
  /\ At(p, "waitscan") /\ idx[p] = NPROC
  /\ ~HaveKids(p) \/ killed[p]
  /\ ReleaseWait
  /\ Return(p)
  /\ UNCHANGED <<table, nextpid, w, np, arg, panicked, asked>>

(* Mutant: wait() does not test p->killed before it sleeps. *)
WaitDecideIgnoresKilled(p) ==
  /\ At(p, "waitscan") /\ idx[p] = NPROC
  /\ HaveKids(p)
  /\ Goto(p, "waitsleep") /\ SetIdx(p, 0)
  /\ UNCHANGED <<table, wait_lock, nextpid, w, np, arg, panicked, asked>>

(* Children, none of them a ZOMBIE, p->killed not set: go on to sleep(). *)
WaitDecide(p) ==
  /\ At(p, "waitscan") /\ idx[p] = NPROC
  /\ HaveKids(p) /\ ~killed[p]
  /\ Goto(p, "waitsleep") /\ SetIdx(p, 0)
  /\ UNCHANGED <<table, wait_lock, nextpid, w, np, arg, panicked, asked>>

(* sleep(p, &wait_lock): p->lock is taken before wait_lock is released and *)
(* kept until the context is saved; afterwards wait_lock is taken again.   *)
WaitSleep(p) ==
  /\ At(p, "waitsleep")
  /\ ReleaseWait
  /\ chan' = [chan EXCEPT ![p] = p]
  /\ state' = [state EXCEPT ![p] = "SLEEPING"]
  /\ Goto(p, "wait")
  /\ UNCHANGED <<killed, pid, parent, nextpid, idx, w, np, arg, panicked, asked>>
-----------------------------------------------------------------------------
(* kill(n); user/init.c never calls it. *)
KillCall(p) ==
  /\ At(p, "user") /\ ~killed[p] /\ p # initproc
  /\ \E n \in KillArgs : arg' = [arg EXCEPT ![p] = n]
  /\ Goto(p, "kill") /\ SetIdx(p, 0)
  /\ UNCHANGED <<table, wait_lock, nextpid, w, np, panicked, asked>>

(* kill(): the slot under the cursor has another pid. *)
KillSkip(p) ==
  /\ At(p, "kill") /\ pid[idx[p]] # arg[p]
  /\ IF idx[p] + 1 < NPROC
     THEN SetIdx(p, idx[p] + 1) /\ UNCHANGED <<pc, arg>>
     ELSE Return(p) /\ arg' = [arg EXCEPT ![p] = 0]
  /\ UNCHANGED <<table, wait_lock, nextpid, w, np, panicked, asked>>

(* Mutant: kill() makes its target RUNNABLE whatever it was doing. *)
KillFoundAlwaysRunnable(p) ==
  LET q == idx[p] IN
  /\ At(p, "kill") /\ pid[q] = arg[p]
  /\ killed' = [killed EXCEPT ![q] = TRUE]
  /\ state' = [state EXCEPT ![q] = "RUNNABLE"]
  /\ asked' = asked \cup {arg[p]}
  /\ arg' = [arg EXCEPT ![p] = 0]
  /\ Return(p)
  /\ UNCHANGED <<chan, pid, parent, wait_lock, nextpid, w, np, panicked>>

(* kill(): mark the slot that has the pid, and wake it if it sleeps. *)
KillFound(p) ==
  LET q == idx[p] IN
  /\ At(p, "kill") /\ pid[q] = arg[p]
  /\ killed' = [killed EXCEPT ![q] = TRUE]
  /\ state' = [state EXCEPT ![q] = IF @ = "SLEEPING" THEN "RUNNABLE" ELSE @]
  /\ asked' = asked \cup {arg[p]}
  /\ arg' = [arg EXCEPT ![p] = 0]
  /\ Return(p)
  /\ UNCHANGED <<chan, pid, parent, wait_lock, nextpid, w, np, panicked>>
-----------------------------------------------------------------------------
(* What a program may choose to do next. *)
Program(p) == ForkCall(p) \/ ExitCall(p) \/ Fault(p) \/ WaitCall(p) \/ KillCall(p)

(* What the kernel does next on behalf of p. *)
ForkStep(p) == AllocSkip(p) \/ AllocFound(p) \/ AllocFail(p)
                 \/ ForkSetParent(p) \/ ForkSetRunnable(p)
ExitStep(p) == KilledExit(p) \/ ExitPanic(p) \/ ExitLock(p)
                 \/ ReparentChild(p) \/ ReparentSkip(p) \/ ReparentDone(p)
                 \/ WakeupSlot(p) \/ WakeupDone(p) \/ ExitZombie(p)
WaitStep(p) == WaitLock(p) \/ WaitSkip(p) \/ WaitReap(p) \/ WaitCopyoutFails(p)
                 \/ WaitxTimesFail(p) \/ WaitNone(p) \/ WaitDecide(p) \/ WaitSleep(p)
KillStep(p) == KillSkip(p) \/ KillFound(p)
Kernel(p) == ForkStep(p) \/ ExitStep(p) \/ WaitStep(p) \/ KillStep(p)

Run ==
  /\ ~panicked
  /\ \E p \in Slots : Dispatch(p) \/ Yield(p) \/ Program(p) \/ Kernel(p)

(* The for(;;) of panic(). *)
Halt == panicked /\ UNCHANGED vars

Next == Run \/ Halt

Spec == Init /\ [][Next]_vars

(* An idle hart's scheduler() finds a RUNNABLE process, a thread in the    *)
(* kernel goes on however often the timer preempts it (a slice is long     *)
(* enough for a step), and user/init.c returns to wait() for ever.         *)
FairSpec ==
  /\ Spec
  /\ \A p \in Slots : WF_vars(~panicked /\ Dispatch(p)) /\ SF_vars(~panicked /\ Kernel(p))
  /\ SF_vars(~panicked /\ WaitCall(initproc))
-----------------------------------------------------------------------------
(* Every variable has its type. *)
TypeOK ==
  /\ state \in [Slots -> States]
  /\ chan \in [Slots -> Slots \cup {NULL}]
  /\ killed \in [Slots -> BOOLEAN]
  /\ pid \in [Slots -> Nat]
  /\ parent \in [Slots -> Slots \cup {NULL}]
  /\ wait_lock \in Slots \cup {NULL}
  /\ nextpid \in Nat \ {0}
  /\ pc \in [Slots -> Labels]
  /\ idx \in [Slots -> 0 .. NPROC]
  /\ w \in [Slots -> 0 .. NPROC]
  /\ np \in [Slots -> Slots \cup {NULL}]
  /\ arg \in [Slots -> Nat]
  /\ panicked \in BOOLEAN
  /\ asked \subseteq Nat

(* A slot never points to a dead parent: exit() hands its children to init *)
(* before it becomes a ZOMBIE, and fork() can only publish a parent that   *)
(* still runs, so wait() of some live process will find every child.       *)
ParentAlive ==
  \A p \in Slots : parent[p] # NULL =>
    state[p] # "UNUSED" /\ state[parent[p]] \in Live

(* Nobody sleeps in wait() with a ZOMBIE child once wait_lock is free: the *)
(* wakeup() of exit() comes before the ZOMBIE state is set, and only       *)
(* wait_lock, held over both, keeps the parent from missing it.            *)
NoMissedZombie ==
  wait_lock = NULL =>
    \A p, q \in Slots :
      ~(state[p] = "SLEEPING" /\ chan[p] = p /\ parent[q] = p /\ state[q] = "ZOMBIE")

(* kill() and setpriority() find a process by pid: slots in use have a pid *)
(* of their own, already handed out, whatever forks run at the same time.  *)
PidsDistinct ==
  \A p \in Slots :
    /\ state[p] # "UNUSED" => pid[p] \in 1 .. nextpid - 1
    /\ \A q \in Slots : state[p] # "UNUSED" /\ pid[q] = pid[p] => q = p

(* A process is killed only if kill() was called with its pid or it        *)
(* faulted: p->killed never survives into the next process of the slot.    *)
KilledWasAsked ==
  \A p \in Slots : killed[p] /\ state[p] # "UNUSED" => pid[p] \in asked

(* Every orphan that exits is reaped by init: reparent() and exit() wake   *)
(* it, whatever it was doing when the orphan arrived, unless init itself   *)
(* is killed, which panics.                                                *)
OrphansReaped ==
  \A p \in Slots :
    (state[p] = "ZOMBIE" /\ parent[p] = initproc) ~> (state[p] = "UNUSED" \/ panicked)

(* A killed process dies, even one that waits for a child that never       *)
(* exits, unless kill() ran between wait()'s test of p->killed and sleep().*)
KilledStops ==
  \A p \in Slots :
    (killed[p] /\ state[p] \in {"RUNNABLE", "RUNNING"} /\ pc[p] # "waitsleep")
      ~> (state[p] \in {"ZOMBIE", "UNUSED"} \/ panicked)

(* fork, exit, wait, kill, sleep and wakeup change process states only as  *)
(* module ProcStates permits.                                              *)
Lifecycle == INSTANCE ProcStates
ImplementsProcStates == Lifecycle!Spec
=============================================================================
