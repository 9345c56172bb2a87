----------------------------- MODULE Scheduler -----------------------------
(***************************************************************************)
(* The harts: scheduler(), sched(), yield(), sleep()/wakeup() with their   *)
(* p->lock, the clock interrupt with update_time(), setpriority(), and the *)
(* time accounting of fork(), exit() and waitx() in kernel/proc.c,         *)
(* kernel/trap.c and kernel/sysproc.c.                                     *)
(*                                                                         *)
(* A p->lock is a variable here: scheduler() keeps the lock of its best    *)
(* candidate while it takes the locks of the later slots, and the lock of  *)
(* a process is passed through swtch.  A section of code that takes a      *)
(* lock and releases it again, with nothing in between that can block, is  *)
(* one step.  Nobody is killed here and no fork() fails: module Proc does. *)
(***************************************************************************)
EXTENDS Pbs

CONSTANTS
  NPROC,    \* number of slots of proc[]
  NCPU,     \* number of harts
  Prios,    \* the priorities setpriority() is called with
  SleepFor, \* the argument of sys_sleep()
  Preempt,  \* TRUE: the build defines RR or MLFQ, the timer calls yield()
  Ops,      \* the operations the programs use
  MaxTicks, \* bound: the clock stops there
  MaxRuns   \* bound: a process dispatched so often does not give up the CPU again

OpNames == {"fork", "exit", "waitx", "io", "sleep", "setpriority"}

ASSUME SchedulerConstants ==
  /\ NPROC \in Nat \ {0}
  /\ NCPU \in Nat \ {0}
  /\ Prios \subseteq Int
  /\ SleepFor \in Nat
  /\ Preempt \in BOOLEAN
  /\ Ops \subseteq OpNames
  /\ MaxTicks \in Nat
  /\ MaxRuns \in Nat

VARIABLES
  state, priority, run_time, sleep_time, total_run_time, n_runs,
  create_time, exit_time,        \* fields of struct proc
  chan,      \* p->chan: "ticks", "io" or "none"
  cont,      \* where the thread of the slot goes on when it is resumed
  ticks0,    \* sys_sleep(): its local ticks0
  np,        \* fork(): its local np
  lock,      \* p->lock: the hart that holds it, or NULL
  ticks, tickslock,
  hpc,       \* where the hart is
  cproc,     \* c->proc
  idx,       \* scheduler(): the cursor p
  best, best_dp,                 \* scheduler(): its locals
  clk, ci,   \* clock interrupt on hart 0: phase, and cursor of its loops
  seen       \* history: the ranks of the candidates of this scan

times == <<run_time, sleep_time, total_run_time, n_runs, create_time, exit_time>>
procs == <<state, priority, times, chan, cont, ticks0, np>>
hart  == <<hpc, cproc, idx, best, best_dp, seen>>
clock == <<ticks, tickslock, clk, ci>>
vars  == <<procs, lock, hart, clock>>

Slots == 0 .. NPROC - 1
Harts == 0 .. NCPU - 1
NULL == -1
-----------------------------------------------------------------------------
(* userinit() ran on hart 0; every hart enters scheduler(). *)
Init ==
  /\ state = [p \in Slots |-> IF p = 0 THEN "RUNNABLE" ELSE "UNUSED"]
  /\ priority = [p \in Slots |-> IF p = 0 THEN 60 ELSE 0]
  /\ run_time = [p \in Slots |-> 0]
  /\ sleep_time = [p \in Slots |-> 0]
  /\ total_run_time = [p \in Slots |-> 0]
  /\ n_runs = [p \in Slots |-> 0]
  /\ create_time = [p \in Slots |-> 0]
  /\ exit_time = [p \in Slots |-> 0]
  /\ chan = [p \in Slots |-> "none"]
  /\ cont = [p \in Slots |-> "run"]
  /\ ticks0 = [p \in Slots |-> 0]
  /\ np = [p \in Slots |-> NULL]
  /\ lock = [p \in Slots |-> NULL]
  /\ ticks = 0 /\ tickslock = NULL
  /\ hpc = [c \in Harts |-> "scan"]
  /\ cproc = [c \in Harts |-> NULL]
  /\ idx = [c \in Harts |-> 0]
  /\ best = [c \in Harts |-> NULL]
  /\ best_dp = [c \in Harts |-> 0]
  /\ clk = "off" /\ ci = 0
  /\ seen = [c \in Harts |-> {}]

(* Hart c is at label l and not inside its clock interrupt. *)
At(c, l) == hpc[c] = l /\ (c = 0 => clk = "off")
Goto(c, l) == hpc' = [hpc EXCEPT ![c] = l]
Acquire(p, c) == lock[p] = NULL /\ lock' = [lock EXCEPT ![p] = c]
-----------------------------------------------------------------------------
(* scheduler(): the loop that looks for the best candidate. *)
DP(p) == DynamicPriority(priority[p], run_time[p], sleep_time[p])
RankOf(p) == Rank(DP(p), n_runs[p], create_time[p])
BestRank(c) == Rank(best_dp[c], n_runs[best[c]], create_time[best[c]])
Choose(c, p) == best[c] # NULL => Better(RankOf(p), BestRank(c))

Scanning(c) == At(c, "scan") /\ idx[c] < NPROC /\ lock[idx[c]] = NULL
Advance(c) == idx' = [idx EXCEPT ![c] = @ + 1]

(* The slot is not RUNNABLE. *)
ScanSkip(c) ==
  /\ Scanning(c) /\ state[idx[c]] # "RUNNABLE"
  /\ Advance(c)
  /\ UNCHANGED <<procs, lock, hpc, cproc, best, best_dp, seen, clock>>

(* Mutant: the scan starts again when a better candidate was found. *)
ScanChooseRestart(c) ==
  LET p == idx[c] IN
  /\ Scanning(c) /\ state[p] = "RUNNABLE" /\ Choose(c, p)
  /\ lock' = [q \in Slots |-> IF q = p THEN c ELSE IF q = best[c] THEN NULL ELSE lock[q]]
  /\ best' = [best EXCEPT ![c] = p]
  /\ best_dp' = [best_dp EXCEPT ![c] = DP(p)]
  /\ seen' = [seen EXCEPT ![c] = @ \cup {RankOf(p)}]
  /\ idx' = [idx EXCEPT ![c] = 0]
  /\ UNCHANGED <<procs, hpc, cproc, clock>>

(* The slot becomes the best so far: its lock is kept, the lock of the one *)
(* it replaces is released.                                                *)
ScanChoose(c) ==
  LET p == idx[c] IN
  /\ Scanning(c) /\ state[p] = "RUNNABLE" /\ Choose(c, p)
  /\ lock' = [q \in Slots |-> IF q = p THEN c ELSE IF q = best[c] THEN NULL ELSE lock[q]]
  /\ best' = [best EXCEPT ![c] = p]
  /\ best_dp' = [best_dp EXCEPT ![c] = DP(p)]
  /\ seen' = [seen EXCEPT ![c] = @ \cup {RankOf(p)}]
  /\ Advance(c)
  /\ UNCHANGED <<procs, hpc, cproc, clock>>

(* The slot is RUNNABLE and no better. *)
ScanReject(c) ==
  LET p == idx[c] IN
  /\ Scanning(c) /\ state[p] = "RUNNABLE" /\ ~Choose(c, p)
  /\ seen' = [seen EXCEPT ![c] = @ \cup {RankOf(p)}]
  /\ Advance(c)
  /\ UNCHANGED <<procs, lock, hpc, cproc, best, best_dp, clock>>

(* Nothing RUNNABLE was seen: start again. *)
ScanAgain(c) ==
  /\ At(c, "scan") /\ idx[c] = NPROC /\ best[c] = NULL
  /\ idx' = [idx EXCEPT ![c] = 0]
  /\ UNCHANGED <<procs, lock, hpc, cproc, best, best_dp, seen, clock>>

(* Run the best: c->proc = best, swtch into its context, lock still held. *)
Dispatch(c) ==
  LET p == best[c] IN
  /\ At(c, "scan") /\ idx[c] = NPROC /\ p # NULL
  /\ state' = [state EXCEPT ![p] = "RUNNING"]
  /\ run_time' = [run_time EXCEPT ![p] = 0]
  /\ sleep_time' = [sleep_time EXCEPT ![p] = 0]
  /\ n_runs' = [n_runs EXCEPT ![p] = @ + 1]
  /\ cproc' = [cproc EXCEPT ![c] = p]
  /\ Goto(c, "resume")
  /\ idx' = [idx EXCEPT ![c] = 0]
  /\ seen' = [seen EXCEPT ![c] = {}]
  /\ UNCHANGED <<priority, total_run_time, create_time, exit_time, chan, cont, ticks0, np,
                 lock, best, best_dp, clock>>

(* The thread returns from sched() into yield(), sleep() or forkret() and  *)
(* releases the p->lock that scheduler() took; sleep() clears p->chan.     *)
Resume(c) ==
  LET p == cproc[c] IN
  /\ At(c, "resume")
  /\ lock' = [lock EXCEPT ![p] = NULL]
  /\ chan' = [chan EXCEPT ![p] = "none"]
  /\ Goto(c, cont[p])
  /\ UNCHANGED <<state, priority, times, cont, ticks0, np, cproc, idx, best, best_dp, seen,
                 clock>>

(* sched(): the context of the process is saved, scheduler() goes on with  *)
(* c->proc = 0, release(&best->lock), and starts a new scan.               *)
SwtchBack(c) ==
  /\ At(c, "swtch")
  /\ cproc' = [cproc EXCEPT ![c] = NULL]
  /\ lock' = [lock EXCEPT ![best[c]] = NULL]
  /\ best' = [best EXCEPT ![c] = NULL]
  /\ best_dp' = [best_dp EXCEPT ![c] = 0]
  /\ Goto(c, "scan")
  /\ UNCHANGED <<procs, idx, seen, clock>>
-----------------------------------------------------------------------------
(* The process on hart c; it is in user mode or in a system call, without  *)
(* a spinlock, when the hart is at "run".                                  *)
Me(c) == cproc[c]
CanGiveUp(c) == n_runs[Me(c)] < MaxRuns

(* Mutant: sched() is entered without p->lock. *)
SchedNoLock(c, s, l) ==
  /\ state' = [state EXCEPT ![Me(c)] = s]
  /\ cont' = [cont EXCEPT ![Me(c)] = l]
  /\ Goto(c, "swtch")
  /\ UNCHANGED lock

(* acquire(&p->lock); p->state = s; sched(): up to the swtch.  The thread  *)
(* will go on at label l.                                                  *)
Sched(c, s, l) ==
  /\ Acquire(Me(c), c)
  /\ state' = [state EXCEPT ![Me(c)] = s]
  /\ cont' = [cont EXCEPT ![Me(c)] = l]
  /\ Goto(c, "swtch")

(* yield(), called by the timer interrupt when the build preempts. *)
TimerYield(c) ==
  /\ Preempt
  /\ \E l \in {"run", "relock", "yield", "fork"} : At(c, l) /\ Sched(c, "RUNNABLE", l)
  /\ CanGiveUp(c)
  /\ UNCHANGED <<priority, times, chan, ticks0, np, cproc, idx, best, best_dp, seen, clock>>

(* yield(), called by setpriority(). *)
Yield(c) ==
  /\ At(c, "yield")
  /\ Sched(c, "RUNNABLE", "run")
  /\ UNCHANGED <<priority, times, chan, ticks0, np, cproc, idx, best, best_dp, seen, clock>>

(* sleep() on the channel of a device, a pipe, a buffer, ... *)
IoSleep(c) ==
  /\ "io" \in Ops /\ At(c, "run") /\ CanGiveUp(c)
  /\ Sched(c, "SLEEPING", "run")
  /\ chan' = [chan EXCEPT ![Me(c)] = "io"]
  /\ UNCHANGED <<priority, times, ticks0, np, cproc, idx, best, best_dp, seen, clock>>

(* wakeup() of that channel reaches slot p. *)
IoWakeup(p) ==
  /\ lock[p] = NULL /\ state[p] = "SLEEPING" /\ chan[p] = "io"
  /\ state' = [state EXCEPT ![p] = "RUNNABLE"]
  /\ UNCHANGED <<priority, times, chan, cont, ticks0, np, lock, hart, clock>>

(* Mutant: exit() frees its own slot instead of leaving a ZOMBIE. *)
ExitFrees(c) ==
  /\ "exit" \in Ops /\ At(c, "run") /\ Me(c) # 0
  /\ Sched(c, "UNUSED", "run")
  /\ exit_time' = [exit_time EXCEPT ![Me(c)] = ticks]
  /\ UNCHANGED <<priority, run_time, sleep_time, total_run_time, n_runs, create_time,
                 chan, ticks0, np, cproc, idx, best, best_dp, seen, clock>>

(* exit(), its part under p->lock. *)
Exit(c) ==
  /\ "exit" \in Ops /\ At(c, "run") /\ Me(c) # 0
  /\ Sched(c, "ZOMBIE", "run")
  /\ exit_time' = [exit_time EXCEPT ![Me(c)] = ticks]
  /\ UNCHANGED <<priority, run_time, sleep_time, total_run_time, n_runs, create_time,
                 chan, ticks0, np, cproc, idx, best, best_dp, seen, clock>>

(* Mutant: allocproc() does not clear total_run_time. *)
AllocProcKeepsTotal(c, q) ==
  /\ "fork" \in Ops /\ At(c, "run") /\ lock[q] = NULL /\ state[q] = "UNUSED"
  /\ state' = [state EXCEPT ![q] = "USED"]
  /\ priority' = [priority EXCEPT ![q] = 60]
  /\ run_time' = [run_time EXCEPT ![q] = 0]
  /\ sleep_time' = [sleep_time EXCEPT ![q] = 0]
  /\ n_runs' = [n_runs EXCEPT ![q] = 0]
  /\ create_time' = [create_time EXCEPT ![q] = ticks]
  /\ exit_time' = [exit_time EXCEPT ![q] = 0]
  /\ cont' = [cont EXCEPT ![q] = "run"]
  /\ np' = [np EXCEPT ![Me(c)] = q]
  /\ Goto(c, "fork")
  /\ UNCHANGED <<total_run_time, chan, ticks0, lock, cproc, idx, best, best_dp, seen, clock>>

(* fork(): allocproc() takes a free slot (not always the first: slots it   *)
(* passed may have become free since); the times start at zero.            *)
AllocProc(c, q) ==
  /\ "fork" \in Ops /\ At(c, "run") /\ lock[q] = NULL /\ state[q] = "UNUSED"
  /\ state' = [state EXCEPT ![q] = "USED"]
  /\ priority' = [priority EXCEPT ![q] = 60]
  /\ run_time' = [run_time EXCEPT ![q] = 0]
  /\ sleep_time' = [sleep_time EXCEPT ![q] = 0]
  /\ total_run_time' = [total_run_time EXCEPT ![q] = 0]
  /\ n_runs' = [n_runs EXCEPT ![q] = 0]
  /\ create_time' = [create_time EXCEPT ![q] = ticks]
  /\ exit_time' = [exit_time EXCEPT ![q] = 0]
  /\ cont' = [cont EXCEPT ![q] = "run"]
  /\ np' = [np EXCEPT ![Me(c)] = q]
  /\ Goto(c, "fork")
  /\ UNCHANGED <<chan, ticks0, lock, cproc, idx, best, best_dp, seen, clock>>

(* fork(): the child becomes RUNNABLE. *)
ForkRunnable(c) ==
  LET q == np[Me(c)] IN
  /\ At(c, "fork") /\ lock[q] = NULL
  /\ state' = [state EXCEPT ![q] = "RUNNABLE"]
  /\ np' = [np EXCEPT ![Me(c)] = NULL]
  /\ Goto(c, "run")
  /\ UNCHANGED <<priority, times, chan, cont, ticks0, lock, cproc, idx, best, best_dp, seen,
                 clock>>

(* The times waitx() reports of a ZOMBIE child, before it frees it. *)
rtime(q) == run_time[q]
wtime(q) == exit_time[q] - create_time[q] - run_time[q]

Waitx(c, q) ==
  /\ "waitx" \in Ops /\ At(c, "run") /\ lock[q] = NULL /\ state[q] = "ZOMBIE"
  /\ state' = [state EXCEPT ![q] = "UNUSED"]
  /\ UNCHANGED <<priority, times, chan, cont, ticks0, np, lock, hart, clock>>

(* setpriority(): the times that nice is computed from start again; the    *)
(* caller yields if the process got a better priority.  Pid 0 finds the    *)
(* first free slot.                                                        *)
SetPriority(c, q, v) ==
  /\ "setpriority" \in Ops /\ At(c, "run") /\ CanGiveUp(c)
  /\ lock[q] = NULL
  /\ state[q] = "UNUSED" => \A r \in 0 .. q - 1 : state[r] # "UNUSED"
  /\ priority' = [priority EXCEPT ![q] = v]
  /\ run_time' = [run_time EXCEPT ![q] = 0]
  /\ sleep_time' = [sleep_time EXCEPT ![q] = 0]
  /\ Goto(c, IF v < priority[q] THEN "yield" ELSE "run")
  /\ UNCHANGED <<state, total_run_time, n_runs, create_time, exit_time, chan, cont, ticks0, np,
                 lock, cproc, idx, best, best_dp, seen, clock>>
-----------------------------------------------------------------------------
(* sys_sleep(): acquire(&tickslock); ticks0 = ticks. *)
SysSleep(c) ==
  /\ "sleep" \in Ops /\ At(c, "run") /\ CanGiveUp(c)
  /\ tickslock = NULL /\ tickslock' = c
  /\ ticks0' = [ticks0 EXCEPT ![Me(c)] = ticks]
  /\ Goto(c, "test")
  /\ UNCHANGED <<state, priority, times, chan, cont, np, lock, cproc, idx, best, best_dp, seen,
                 ticks, clk, ci>>

(* ticks - ticks0 < n: go on to sleep(), still with tickslock. *)
SysSleepMore(c) ==
  /\ At(c, "test") /\ ticks - ticks0[Me(c)] < SleepFor
  /\ Goto(c, "sleep")
  /\ UNCHANGED <<procs, lock, cproc, idx, best, best_dp, seen, clock>>

(* sleep(&ticks, &tickslock): p->lock is taken before tickslock is released. *)
TicksSleep(c) ==
  /\ At(c, "sleep")
  /\ Sched(c, "SLEEPING", "relock")
  /\ chan' = [chan EXCEPT ![Me(c)] = "ticks"]
  /\ tickslock' = NULL
  /\ UNCHANGED <<priority, times, ticks0, np, cproc, idx, best, best_dp, seen,
                 ticks, clk, ci>>

(* The time is over: release(&tickslock). *)
SysSleepDone(c) ==
  /\ At(c, "test") /\ ticks - ticks0[Me(c)] >= SleepFor
  /\ tickslock' = NULL
  /\ Goto(c, "run")
  /\ UNCHANGED <<procs, lock, cproc, idx, best, best_dp, seen, ticks, clk, ci>>

(* sleep() returns after acquire(&tickslock). *)
Relock(c) ==
  /\ At(c, "relock")
  /\ tickslock = NULL /\ tickslock' = c
  /\ Goto(c, "test")
  /\ UNCHANGED <<procs, lock, cproc, idx, best, best_dp, seen, ticks, clk, ci>>
-----------------------------------------------------------------------------
(* Hart 0 takes interrupts when it holds no spinlock. *)
Interruptible ==
  \/ At(0, "run") \/ At(0, "relock") \/ At(0, "yield") \/ At(0, "fork")
  \/ At(0, "scan") /\ best[0] = NULL

(* Mutant: clockintr() does not take tickslock. *)
ClockTickNoLock ==
  /\ Interruptible /\ ticks < MaxTicks
  /\ ticks' = ticks + 1
  /\ clk' = "update" /\ ci' = 0
  /\ UNCHANGED <<procs, lock, hart, tickslock>>

(* clockintr(): acquire(&tickslock); ticks++. *)
ClockTick ==
  /\ Interruptible /\ ticks < MaxTicks
  /\ tickslock = NULL /\ tickslock' = 0
  /\ ticks' = ticks + 1
  /\ clk' = "update" /\ ci' = 0
  /\ UNCHANGED <<procs, lock, hart>>

(* update_time(): one slot of its loop. *)
UpdateTime ==
  /\ clk = "update" /\ lock[ci] = NULL
  /\ run_time' = [run_time EXCEPT ![ci] = IF state[ci] = "RUNNING" THEN @ + 1 ELSE @]
  /\ total_run_time' = [total_run_time EXCEPT ![ci] = IF state[ci] = "RUNNING" THEN @ + 1 ELSE @]
  /\ sleep_time' = [sleep_time EXCEPT ![ci] = IF state[ci] = "SLEEPING" THEN @ + 1 ELSE @]
  /\ IF ci + 1 < NPROC THEN ci' = ci + 1 /\ UNCHANGED clk ELSE ci' = 0 /\ clk' = "wakeup"
  /\ UNCHANGED <<state, priority, n_runs, create_time, exit_time, chan, cont, ticks0, np,
                 lock, hart, ticks, tickslock>>

(* wakeup(&ticks): one slot of its loop; myproc() is skipped. *)
ClockWakeup ==
  /\ clk = "wakeup" /\ ci < NPROC
  /\ ci = cproc[0] \/ lock[ci] = NULL
  /\ IF ci # cproc[0] /\ state[ci] = "SLEEPING" /\ chan[ci] = "ticks"
     THEN state' = [state EXCEPT ![ci] = "RUNNABLE"]
     ELSE UNCHANGED state
  /\ ci' = ci + 1
  /\ UNCHANGED <<priority, times, chan, cont, ticks0, np, lock, hart, ticks, tickslock, clk>>

(* clockintr(): release(&tickslock). *)
ClockDone ==
  /\ clk = "wakeup" /\ ci = NPROC
  /\ tickslock' = NULL
  /\ clk' = "off" /\ ci' = 0
  /\ UNCHANGED <<procs, lock, hart, ticks>>
-----------------------------------------------------------------------------
SchedulerLoop(c) ==
  ScanSkip(c) \/ ScanChoose(c) \/ ScanReject(c) \/ ScanAgain(c)
    \/ Dispatch(c) \/ Resume(c) \/ SwtchBack(c)
Process(c) ==
  \/ TimerYield(c) \/ Yield(c) \/ IoSleep(c) \/ Exit(c)
  \/ SysSleep(c) \/ SysSleepMore(c) \/ TicksSleep(c) \/ SysSleepDone(c) \/ Relock(c) \/ ForkRunnable(c)
  \/ \E q \in Slots : AllocProc(c, q) \/ Waitx(c, q)
  \/ \E q \in Slots, v \in Prios : SetPriority(c, q, v)
Clock == ClockTick \/ UpdateTime \/ ClockWakeup \/ ClockDone

Next ==
  \/ \E c \in Harts : SchedulerLoop(c) \/ Process(c)
  \/ \E p \in Slots : IoWakeup(p)
  \/ Clock

Spec == Init /\ [][Next]_vars
-----------------------------------------------------------------------------
(* No kernel stack is used by two harts: a process that gave up the CPU is *)
(* not dispatched elsewhere, and no dead or free slot is on a hart, until  *)
(* swtch has saved its context, because p->lock is held until then.        *)
OneStack ==
  /\ \A c, d \in Harts : cproc[c] # NULL /\ cproc[c] = cproc[d] => c = d
  /\ \A c \in Harts : cproc[c] # NULL =>
       \/ state[cproc[c]] = "RUNNING"
       \/ hpc[c] = "swtch" /\ lock[cproc[c]] = c
  /\ \A p \in Slots : state[p] = "RUNNING" => \E c \in Harts : cproc[c] = p

(* The candidate whose lock scheduler() keeps is still RUNNABLE with the   *)
(* dp it was chosen for, between 0 and 100 whatever priority a program set, *)
(* and no RUNNABLE slot of this scan beats it: lower dp first, then fewer  *)
(* n_runs, then the older create_time.                                     *)
BestIsMin ==
  \A c \in Harts : best[c] # NULL /\ hpc[c] = "scan" =>
    LET b == BestRank(c) IN
    /\ state[best[c]] = "RUNNABLE" /\ lock[best[c]] = c
    /\ b = RankOf(best[c]) /\ b \in seen[c] /\ b.dp \in 0 .. 100
    /\ \A r \in seen[c] :
         /\ b.dp <= r.dp
         /\ r.dp = b.dp => b.n_runs <= r.n_runs
         /\ r.dp = b.dp /\ r.n_runs = b.n_runs => b.create_time <= r.create_time

(* Hart c spins in acquire() for a lock that hart d holds. *)
SpinsOn(c, d) ==
  LET wants == CASE c = 0 /\ clk # "off" -> IF ci < NPROC THEN lock[ci] ELSE NULL
                 [] At(c, "scan") -> IF idx[c] < NPROC THEN lock[idx[c]] ELSE NULL
                 [] At(c, "yield") \/ At(c, "sleep") -> lock[Me(c)]
                 [] At(c, "fork") -> lock[np[Me(c)]]
                 [] At(c, "relock") -> tickslock
                 [] OTHER -> NULL
  IN wants = d

(* No set of harts spins on each other: scheduler() takes the locks of     *)
(* several slots only in the order of proc[], and whoever holds tickslock  *)
(* waits only for a p->lock.                                               *)
NoSpinCycle ==
  \A S \in SUBSET Harts : S # {} => \E c \in S : \A d \in S : ~SpinsOn(c, d)

(* When no clock interrupt is at work, nobody sleeps in sys_sleep() longer *)
(* than it asked for: the test of ticks and sleep() are one section under  *)
(* tickslock, which clockintr() holds over ticks++ and wakeup().           *)
NoOversleep ==
  tickslock = NULL =>
    \A p \in Slots : state[p] = "SLEEPING" /\ chan[p] = "ticks" => ticks - ticks0[p] < SleepFor

(* update_time() and fork() are not atomic, so a process created during a  *)
(* tick can be charged for it; it is never charged for more than that, and *)
(* the times waitx() reports are at most the time the child ran and at     *)
(* least a wait of -1.                                                     *)
ChargedAtMostOneExtra ==
  /\ \A p \in Slots : state[p] # "UNUSED" =>
       total_run_time[p] <= ticks - create_time[p] + 1
  /\ \A p \in Slots : state[p] = "ZOMBIE" /\ lock[p] = NULL =>
       wtime(p) >= -1 /\ rtime(p) <= total_run_time[p]

(* The harts change process states only as module ProcStates permits. *)
Lifecycle == INSTANCE ProcStates
ImplementsProcStates == Lifecycle!Spec
=============================================================================
