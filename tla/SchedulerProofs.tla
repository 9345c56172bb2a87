-------------------------- MODULE SchedulerProofs ---------------------------
(***************************************************************************)
(* What is proved of module Scheduler for any number of slots and harts:   *)
(* an inductive invariant, IInv (types, who holds which p->lock, the slots *)
(* fork() has allocated, tickslock, the sleepers, the time accounting, the *)
(* scan), and the theorems that follow from it.                            *)
(***************************************************************************)
EXTENDS Scheduler, TLAPS

States == {"UNUSED", "USED", "SLEEPING", "RUNNABLE", "RUNNING", "ZOMBIE"}
Conts == {"run", "relock", "yield", "fork"}
Labels == {"scan", "resume", "swtch", "test", "sleep"} \cup Conts
Ranks == [dp : 0 .. 100, n_runs : Nat, create_time : Nat]

ProcTypes ==
  /\ state \in [Slots -> States] /\ priority \in [Slots -> Int]
  /\ chan \in [Slots -> {"ticks", "io", "none"}] /\ cont \in [Slots -> Conts]
  /\ np \in [Slots -> Slots \cup {NULL}] /\ lock \in [Slots -> Harts \cup {NULL}]

TimeTypes ==
  /\ run_time \in [Slots -> Nat] /\ sleep_time \in [Slots -> Nat]
  /\ total_run_time \in [Slots -> Nat] /\ n_runs \in [Slots -> Nat]
  /\ create_time \in [Slots -> Nat] /\ exit_time \in [Slots -> Nat]
  /\ ticks0 \in [Slots -> Nat] /\ ticks \in Nat

HartTypes ==
  /\ hpc \in [Harts -> Labels] /\ cproc \in [Harts -> Slots \cup {NULL}]
  /\ idx \in [Harts -> 0 .. NPROC] /\ best \in [Harts -> Slots \cup {NULL}]
  /\ best_dp \in [Harts -> 0 .. 100] /\ seen \in [Harts -> SUBSET Ranks]
  /\ clk \in {"off", "update", "wakeup"} /\ ci \in 0 .. NPROC
  /\ tickslock \in Harts \cup {NULL}

(* A hart in its scheduler thread has no process; otherwise its process is *)
(* the one scheduler() chose.                                              *)
Current ==
  \A c \in Harts :
    /\ hpc[c] = "scan" => cproc[c] = NULL
    /\ hpc[c] # "scan" => cproc[c] \in Slots /\ best[c] = cproc[c]

(* Which hart holds a p->lock between two steps: the one whose scheduler() *)
(* keeps it for its best candidate, or passes it through swtch.            *)
Holds(c, p) == best[c] = p /\ hpc[c] \in {"scan", "resume", "swtch"}
Held == \A c \in Harts, p \in Slots : lock[p] = c <=> Holds(c, p)

(* The candidate stays RUNNABLE, and lies behind the cursor. *)
Candidate ==
  \A c \in Harts : hpc[c] = "scan" /\ best[c] # NULL =>
    state[best[c]] = "RUNNABLE" /\ best[c] < idx[c]

(* A process is RUNNING exactly while a hart executes it, and one hart     *)
(* only does.                                                              *)
OneHart ==
  /\ \A c \in Harts : hpc[c] \notin {"scan", "swtch"} => state[cproc[c]] = "RUNNING"
  /\ \A c, d \in Harts : cproc[c] # NULL /\ cproc[c] = cproc[d] => c = d
  /\ \A p \in Slots : state[p] = "RUNNING" => \E c \in Harts : cproc[c] = p /\ hpc[c] # "swtch"

(* The process is past its resumption: the hart's label says where it is,  *)
(* cont says where it was before.                                          *)
Executes(c, p) == cproc[c] = p /\ hpc[c] \notin {"scan", "resume", "swtch"}

(* Between allocproc() and RUNNABLE a fork() has a USED slot to itself,    *)
(* also when the timer preempts it in between.                             *)
AtLabel ==
  \A c \in Harts, p \in Slots : Executes(c, p) => (np[p] # NULL <=> hpc[c] = "fork")
AtCont ==
  \A p \in Slots : (\A c \in Harts : ~Executes(c, p)) => (np[p] # NULL <=> cont[p] = "fork")
NewIsUsed == \A p \in Slots : np[p] # NULL => state[np[p]] = "USED"
NewIsOwn == \A p, q \in Slots : np[p] # NULL /\ np[p] = np[q] => p = q
FreshRuns == \A p \in Slots : state[p] \in {"UNUSED", "USED", "ZOMBIE"} => cont[p] = "run"
ForkOwns == AtLabel /\ AtCont /\ NewIsUsed /\ NewIsOwn /\ FreshRuns

(* tickslock: held over the clock interrupt, which comes only where hart 0 *)
(* holds no lock, and over the test and the sleep of sys_sleep().          *)
TicksLock ==
  /\ clk # "off" => /\ tickslock = 0
                    /\ hpc[0] \in Conts \/ (hpc[0] = "scan" /\ best[0] = NULL)
  /\ clk = "update" => ci < NPROC
  /\ \A c \in Harts : hpc[c] \in {"test", "sleep"} => tickslock = c
  /\ tickslock # NULL /\ (tickslock = 0 => clk = "off") => hpc[tickslock] \in {"test", "sleep"}

(* Who sleeps in sys_sleep() still has to, or the wakeup() of this tick is *)
(* going to reach it.                                                      *)
Sleepers ==
  /\ \A c \in Harts : hpc[c] = "sleep" => ticks - ticks0[cproc[c]] < SleepFor
  /\ \A p \in Slots : state[p] = "SLEEPING" /\ chan[p] = "ticks" =>
       \/ ticks - ticks0[p] < SleepFor
       \/ clk = "update"
       \/ clk = "wakeup" /\ ci <= p

(* A slot is charged once a tick, and may be charged for the tick in which *)
(* it was allocated.                                                       *)
Uncharged(p) == clk = "update" /\ ci <= p
Charged ==
  /\ \A p \in Slots : run_time[p] <= total_run_time[p]
  /\ \A p \in Slots : state[p] # "UNUSED" =>
       total_run_time[p] <= ticks - create_time[p] + (IF Uncharged(p) THEN 0 ELSE 1)
  /\ \A p \in Slots : state[p] = "ZOMBIE" =>
       total_run_time[p] <= exit_time[p] - create_time[p] + 1

(* What the scan has seen is no better than its candidate, whose rank      *)
(* nobody changes while scheduler() keeps its lock.                        *)
Scan ==
  \A c \in Harts :
    /\ hpc[c] # "scan" \/ best[c] = NULL => seen[c] = {}
    /\ hpc[c] = "scan" /\ best[c] # NULL =>
         /\ best_dp[c] = DP(best[c])
         /\ RankOf(best[c]) \in seen[c]
         /\ \A r \in seen[c] : ~Better(r, RankOf(best[c]))

IInv ==
  /\ ProcTypes /\ TimeTypes /\ HartTypes
  /\ Current /\ Held /\ Candidate /\ OneHart /\ ForkOwns
  /\ TicksLock /\ Sleepers /\ Charged /\ Scan
-----------------------------------------------------------------------------
(* The constants: which values the slots and the harts exclude. *)
LEMMA Constants ==
  /\ NULL \notin Slots /\ NULL \notin Harts /\ 0 \in Slots /\ 0 \in Harts
  /\ \A i \in 0 .. NPROC : i < NPROC => i \in Slots /\ i + 1 \in 0 .. NPROC
  /\ 0 \in 0 .. NPROC /\ Slots \subseteq Int
  /\ \A p \in Slots : p \in Nat /\ p < NPROC /\ p + 1 \in 0 .. NPROC
  /\ NPROC \in Nat /\ SleepFor \in Nat /\ Prios \subseteq Int
BY SMT, SchedulerConstants DEF Slots, Harts, NULL

(* The dynamic priority of scheduler() lies between 0 and 100 for every    *)
(* int a program may pass to setpriority().                                *)
LEMMA DynamicPriorityRange ==
  ASSUME NEW prio \in Int, NEW run \in Nat, NEW slept \in Nat
  PROVE  DynamicPriority(prio, run, slept) \in 0 .. 100
<1>1. Nice(run, slept) \in Int
  BY SMT DEF Nice
<1>2. ASSUME NEW x \in Int, NEW w \in Nat \ {0}
      PROVE  ((x + w) % (2 * w)) - w \in Int
  BY SMT
<1>3. ASSUME NEW x \in Int PROVE ToInt(x) \in Int
  BY <1>2, IntBitsAssumption, Zenon DEF ToInt
<1>4. ASSUME NEW x \in Int PROVE Clamp(x) \in 0 .. 100
  BY SMT DEF Clamp
<1>5. prio - Nice(run, slept) + 5 \in Int
  BY SMT, <1>1
<1> QED
  BY Zenon, <1>3, <1>4, <1>5 DEF DynamicPriority

(* The rank scheduler() computes of a slot. *)
LEMMA RankTypes ==
  ASSUME ProcTypes, TimeTypes, NEW p \in Slots
  PROVE  DP(p) \in 0 .. 100 /\ RankOf(p) \in Ranks
<1>1. DP(p) \in 0 .. 100
  <2>1. priority[p] \in Int /\ run_time[p] \in Nat /\ sleep_time[p] \in Nat
    BY Zenon DEF ProcTypes, TimeTypes
  <2> QED
    BY Zenon, <2>1, DynamicPriorityRange DEF DP
<1>2. n_runs[p] \in Nat /\ create_time[p] \in Nat
  BY Zenon DEF TimeTypes
<1> QED
  BY <1>1, <1>2 DEF RankOf, Rank, Ranks
-----------------------------------------------------------------------------
(* What the steps do to the harts and the locks: hart c goes on to label l *)
(* with the process it runs, the process gives up the CPU, or the step is  *)
(* one of scheduler().  A step that is none of them leaves all of that     *)
(* alone.                                                                  *)
OnCpu == Conts \cup {"test", "sleep"}

Quiet == UNCHANGED <<hpc, cproc, best, lock>>

Works(c, l) ==
  /\ hpc[c] \in OnCpu /\ Goto(c, l)
  /\ UNCHANGED <<cproc, best, lock>>

GivesUp(c, s, l) ==
  /\ hpc[c] \in OnCpu /\ Sched(c, s, l)
  /\ l = "fork" <=> hpc[c] = "fork"
  /\ s = "ZOMBIE" => l = "run"
  /\ UNCHANGED <<np, cproc, best>>

(* A slot whose lock is free changes its state, and is not RUNNING before  *)
(* or after.                                                               *)
Touch(p, s) ==
  /\ lock[p] = NULL /\ state[p] # "RUNNING" /\ s # "RUNNING"
  /\ state' = [state EXCEPT ![p] = s]

Touches == UNCHANGED state \/ \E p \in Slots, s \in States : Touch(p, s)

LEMMA ClockShapes ==
  ASSUME ProcTypes, HartTypes, TicksLock, OneHart, Current, Clock
  PROVE  Quiet /\ Touches
<1> USE DEF Quiet, Touches, procs, times, hart, clock
<1>1. CASE ClockTick
  BY Zenon, <1>1 DEF ClockTick
<1>2. CASE UpdateTime
  BY Zenon, <1>2 DEF UpdateTime
<1>3. CASE ClockWakeup
  <2>1. CASE UNCHANGED state
    BY Zenon, <2>1, <1>3 DEF ClockWakeup
  <2>2. CASE ~UNCHANGED state
    <3>1. /\ state' = [state EXCEPT ![ci] = "RUNNABLE"] /\ state[ci] = "SLEEPING"
          /\ ci < NPROC /\ lock[ci] = NULL
      BY Zenon, <2>2, <1>3 DEF ClockWakeup
    <3>2. ci \in Slots
      BY Zenon, <3>1, Constants DEF HartTypes
    <3> QED
      BY Zenon, <1>3, <3>1, <3>2 DEF ClockWakeup, Touch, States
  <2> QED
    BY Zenon, <2>1, <2>2
<1>4. CASE ClockDone
  BY Zenon, <1>4 DEF ClockDone
<1> QED
  BY Zenon, <1>1, <1>2, <1>3, <1>4 DEF Clock

(* The callers of sched(). *)
LEMMA SchedCalls ==
  ASSUME NEW c \in Harts, TimerYield(c) \/ Yield(c) \/ IoSleep(c) \/ Exit(c) \/ TicksSleep(c)
  PROVE  \E s \in {"RUNNABLE", "SLEEPING", "ZOMBIE"}, l \in Conts : GivesUp(c, s, l)
<1>1. CASE TimerYield(c)
  <2>1. PICK l \in Conts : At(c, l) /\ Sched(c, "RUNNABLE", l)
    BY Zenon, <1>1 DEF TimerYield, Conts
  <2> QED
    BY Zenon, <1>1, <2>1 DEF TimerYield, GivesUp, At, OnCpu
<1>2. CASE Yield(c)
  BY Zenon, <1>2 DEF Yield, GivesUp, At, OnCpu, Conts
<1>3. CASE IoSleep(c)
  BY Zenon, <1>3 DEF IoSleep, GivesUp, At, OnCpu, Conts
<1>4. CASE Exit(c)
  BY Zenon, <1>4 DEF Exit, GivesUp, At, OnCpu, Conts
<1>5. CASE TicksSleep(c)
  BY Zenon, <1>5 DEF TicksSleep, GivesUp, At, OnCpu, Conts
<1> QED
  BY Zenon, <1>1, <1>2, <1>3, <1>4, <1>5

LEMMA ProcessShapes ==
  ASSUME ProcTypes, HartTypes, TicksLock, OneHart, Current, ForkOwns, NEW c \in Harts, Process(c)
  PROVE  \/ Quiet /\ Touches
         \/ \E l \in OnCpu : Works(c, l) /\ Touches
         \/ \E s \in {"RUNNABLE", "SLEEPING", "ZOMBIE"}, l \in Conts : GivesUp(c, s, l)
<1> USE DEF Quiet, Touches, procs, times, hart, clock, OnCpu, Conts
<1>1. CASE SysSleep(c)
  BY Zenon, <1>1 DEF SysSleep, Works, At
<1>2. CASE SysSleepMore(c)
  BY Zenon, <1>2 DEF SysSleepMore, Works, At
<1>3. CASE SysSleepDone(c)
  BY Zenon, <1>3 DEF SysSleepDone, Works, At
<1>4. CASE Relock(c)
  BY Zenon, <1>4 DEF Relock, Works, At
<1>5. CASE ForkRunnable(c)
  <2>1. Works(c, "run")
    BY Zenon, <1>5 DEF ForkRunnable, Works, At
  <2>2. cproc[c] \in Slots /\ Executes(c, cproc[c]) /\ hpc[c] = "fork"
    BY Zenon, <1>5 DEF Current, ForkRunnable, At, Executes
  <2>3. np[cproc[c]] # NULL
    BY Zenon, <2>2 DEF ForkOwns, AtLabel
  <2>4. np[cproc[c]] \in Slots /\ state[np[cproc[c]]] = "USED"
    BY Zenon, <2>2, <2>3 DEF ForkOwns, NewIsUsed, ProcTypes
  <2>5. Touch(np[cproc[c]], "RUNNABLE")
    BY Zenon, <1>5, <2>4 DEF ForkRunnable, Touch, Me
  <2> QED
    BY Zenon, <2>1, <2>4, <2>5 DEF States
<1>6. ASSUME NEW q \in Slots, AllocProc(c, q) PROVE Works(c, "fork") /\ Touch(q, "USED")
  BY Zenon, <1>6 DEF AllocProc, Works, Touch, At
<1>7. ASSUME NEW q \in Slots, Waitx(c, q) PROVE Quiet /\ Touch(q, "UNUSED")
  BY Zenon, <1>7 DEF Waitx, Touch, At
<1>8. ASSUME NEW q \in Slots, NEW v \in Prios, SetPriority(c, q, v)
       PROVE  Works(c, IF v < priority[q] THEN "yield" ELSE "run") /\ UNCHANGED state
  BY Zenon, <1>8 DEF SetPriority, Works, At
<1> QED
  BY Zenon, <1>1, <1>2, <1>3, <1>4, <1>5, <1>6, <1>7, <1>8, SchedCalls DEF Process, States

(* Every step has one of these shapes. *)
LEMMA Shapes ==
  ASSUME IInv, Next
  PROVE  \/ Quiet /\ Touches
         \/ \E c \in Harts, l \in OnCpu : Works(c, l) /\ Touches
         \/ \E c \in Harts, s \in {"RUNNABLE", "SLEEPING", "ZOMBIE"}, l \in Conts : GivesUp(c, s, l)
         \/ \E c \in Harts : ScanChoose(c) \/ Dispatch(c) \/ Resume(c) \/ SwtchBack(c)
<1> USE DEF Quiet, Touches, procs, times, hart, clock
<1>1. CASE Clock
  BY Zenon, <1>1, ClockShapes DEF IInv
<1>2. ASSUME NEW p \in Slots, IoWakeup(p) PROVE Quiet /\ Touch(p, "RUNNABLE")
  BY Zenon, <1>2 DEF IoWakeup, Touch
<1>3. ASSUME NEW c \in Harts, Process(c)
      PROVE  \/ Quiet /\ Touches
             \/ \E l \in OnCpu : Works(c, l) /\ Touches
             \/ \E s \in {"RUNNABLE", "SLEEPING", "ZOMBIE"}, l \in Conts : GivesUp(c, s, l)
  BY Zenon, <1>3, ProcessShapes DEF IInv
<1>4. ASSUME NEW c \in Harts, ScanSkip(c) \/ ScanReject(c) \/ ScanAgain(c)
      PROVE  Quiet /\ UNCHANGED state
  BY Zenon, <1>4 DEF ScanSkip, ScanReject, ScanAgain
<1>5. "RUNNABLE" \in States
  BY Zenon DEF States
<1>6. CASE \E p \in Slots : IoWakeup(p)
  BY Zenon, <1>2, <1>5, <1>6
<1>7. CASE \E c \in Harts : Process(c)
  BY Zenon, <1>3, <1>7
<1>8. CASE \E c \in Harts : SchedulerLoop(c)
  BY Zenon, <1>4, <1>8 DEF SchedulerLoop
<1> QED
  BY Zenon, <1>1, <1>6, <1>7, <1>8 DEF Next
-----------------------------------------------------------------------------
(* Facts of one state that most steps below use. *)
LEMMA HartFacts ==
  ASSUME IInv, NEW c \in Harts
  PROVE  /\ hpc[c] \in OnCpu => /\ cproc[c] \in Slots /\ best[c] = cproc[c]
                                /\ state[cproc[c]] = "RUNNING"
         /\ hpc[c] \in {"resume", "swtch"} => /\ cproc[c] \in Slots /\ best[c] = cproc[c]
                                              /\ lock[cproc[c]] = c
         /\ hpc[c] = "scan" /\ best[c] # NULL => best[c] \in Slots /\ lock[best[c]] = c
<1>1. CASE hpc[c] \in OnCpu
  <2>1. hpc[c] \notin {"scan", "resume", "swtch"}
    BY Zenon, <1>1 DEF OnCpu, Conts
  <2>2. cproc[c] \in Slots /\ best[c] = cproc[c]
    BY Zenon, <2>1 DEF IInv, Current
  <2>3. state[cproc[c]] = "RUNNING"
    BY Zenon, <2>1 DEF IInv, OneHart
  <2> QED
    BY Zenon, <2>1, <2>2, <2>3
<1>2. CASE hpc[c] \in {"resume", "swtch"}
  <2>1. cproc[c] \in Slots /\ best[c] = cproc[c]
    BY Zenon, <1>2 DEF IInv, Current
  <2>2. lock[cproc[c]] = c
    BY Zenon, <1>2, <2>1 DEF IInv, Held, Holds
  <2>3. hpc[c] \notin OnCpu
    BY Zenon, <1>2 DEF OnCpu, Conts
  <2> QED
    BY Zenon, <1>2, <2>1, <2>2, <2>3
<1>3. CASE hpc[c] = "scan"
  <2>1. hpc[c] \notin OnCpu
    BY Zenon, <1>3 DEF OnCpu, Conts
  <2>2. best[c] # NULL => best[c] \in Slots
    BY Zenon DEF IInv, HartTypes
  <2> QED
    BY Zenon, <1>3, <2>1, <2>2 DEF IInv, Held, Holds
<1> QED
  BY Zenon, <1>1, <1>2, <1>3 DEF IInv, HartTypes, Labels, OnCpu

LEMMA CurrentStep ==
  ASSUME IInv, Next
  PROVE  Current'
<1> USE Constants DEF IInv, HartTypes, Current
<1>1. CASE Quiet
  BY Zenon, <1>1 DEF Quiet
<1>2. ASSUME NEW c \in Harts, NEW l \in OnCpu, Works(c, l) PROVE Current'
  BY Zenon, <1>2 DEF Works, Goto, OnCpu, Conts
<1>3. ASSUME NEW c \in Harts, NEW s, NEW l \in Conts, GivesUp(c, s, l) PROVE Current'
  BY Zenon, <1>3 DEF GivesUp, Sched, Goto, OnCpu, Conts
<1>4. ASSUME NEW c \in Harts, ScanChoose(c) PROVE Current'
  BY Zenon, <1>4 DEF ScanChoose, Scanning, At
<1>5. ASSUME NEW c \in Harts, Dispatch(c) PROVE Current'
  BY Zenon, <1>5 DEF Dispatch, Goto
<1>6. ASSUME NEW c \in Harts, Resume(c) PROVE Current'
  BY Zenon, <1>6 DEF Resume, Goto, At, ProcTypes, Conts
<1>7. ASSUME NEW c \in Harts, SwtchBack(c) PROVE Current'
  BY Zenon, <1>7 DEF SwtchBack, Goto
<1> QED
  BY Zenon, Shapes, <1>1, <1>2, <1>3, <1>4, <1>5, <1>6, <1>7

LEMMA HeldStep ==
  ASSUME IInv, Next
  PROVE  Held'
<1>0. Held /\ HartTypes /\ ProcTypes
  BY Zenon DEF IInv
<1>a. hpc \in [Harts -> Labels]
  BY Zenon, <1>0 DEF HartTypes
<1>1. CASE Quiet
  <2>1. hpc' = hpc /\ best' = best /\ lock' = lock
    BY Zenon, <1>1 DEF Quiet
  <2>2. ASSUME NEW d \in Harts, NEW p \in Slots PROVE Holds(d, p)' <=> Holds(d, p)
    BY Zenon, <2>1 DEF Holds
  <2> QED
    BY Zenon, <1>0, <2>1, <2>2 DEF Held
<1>2. ASSUME NEW c \in Harts, NEW l \in OnCpu, Works(c, l) PROVE Held'
  <2>1. /\ hpc[c] \notin {"scan", "resume", "swtch"} /\ l \notin {"scan", "resume", "swtch"}
        /\ hpc' = [hpc EXCEPT ![c] = l] /\ UNCHANGED <<best, lock>>
    BY Zenon, <1>2 DEF Works, Goto, OnCpu, Conts
  <2>2. ASSUME NEW d \in Harts, NEW p \in Slots PROVE Holds(d, p)' <=> Holds(d, p)
    BY Zenon, <1>a, <2>1 DEF Holds
  <2> QED
    BY Zenon, <1>0, <2>1, <2>2 DEF Held
<1>3. ASSUME NEW c \in Harts, Dispatch(c) PROVE Held'
  <2>1. hpc[c] = "scan" /\ hpc' = [hpc EXCEPT ![c] = "resume"] /\ UNCHANGED <<best, lock>>
    BY Zenon, <1>3 DEF Dispatch, Goto, At
  <2>2. ASSUME NEW d \in Harts, NEW p \in Slots PROVE Holds(d, p)' <=> Holds(d, p)
    BY Zenon, <1>a, <2>1 DEF Holds
  <2> QED
    BY Zenon, <1>0, <2>1, <2>2 DEF Held
<1> USE <1>0, Constants DEF HartTypes, ProcTypes, Held, Holds
<1>4. ASSUME NEW c \in Harts, NEW s, NEW l \in Conts, GivesUp(c, s, l) PROVE Held'
  <2>1. cproc[c] \in Slots /\ best[c] = cproc[c] /\ lock[cproc[c]] = NULL
    BY Zenon, <1>4, HartFacts DEF GivesUp, Sched, Acquire, Me
  <2>2. /\ lock' = [lock EXCEPT ![cproc[c]] = c] /\ hpc' = [hpc EXCEPT ![c] = "swtch"]
        /\ UNCHANGED best /\ hpc[c] \in OnCpu
    BY Zenon, <1>4 DEF GivesUp, Sched, Acquire, Me, Goto
  <2> QED
    BY <2>1, <2>2 DEF OnCpu, Conts
<1>5. ASSUME NEW c \in Harts, ScanChoose(c) PROVE Held'
  <2>1. /\ idx[c] \in Slots /\ lock[idx[c]] = NULL /\ hpc[c] = "scan"
        /\ best' = [best EXCEPT ![c] = idx[c]] /\ UNCHANGED hpc
        /\ lock' = [q \in Slots |-> IF q = idx[c] THEN c ELSE IF q = best[c] THEN NULL ELSE lock[q]]
    BY Zenon, <1>5 DEF ScanChoose, Scanning, At
  <2> QED
    BY <2>1
<1>6. ASSUME NEW c \in Harts, Resume(c) PROVE Held'
  <2>1. /\ cproc[c] \in Slots /\ best[c] = cproc[c] /\ hpc[c] = "resume" /\ cont[cproc[c]] \in Conts
        /\ lock' = [lock EXCEPT ![cproc[c]] = NULL] /\ UNCHANGED best
        /\ hpc' = [hpc EXCEPT ![c] = cont[cproc[c]]]
    BY Zenon, <1>6, HartFacts DEF Resume, At, Goto
  <2> QED
    BY <2>1 DEF Conts
<1>7. ASSUME NEW c \in Harts, SwtchBack(c) PROVE Held'
  <2>1. /\ best[c] \in Slots /\ hpc[c] = "swtch"
        /\ lock' = [lock EXCEPT ![best[c]] = NULL] /\ best' = [best EXCEPT ![c] = NULL]
        /\ hpc' = [hpc EXCEPT ![c] = "scan"]
    BY Zenon, <1>7, HartFacts DEF SwtchBack, At, Goto
  <2> QED
    BY <2>1
<1> QED
  BY Zenon, Shapes, <1>1, <1>2, <1>3, <1>4, <1>5, <1>6, <1>7

(* The cursor moves only in the steps of the scan. *)
LEMMA CursorSteps ==
  ASSUME Next
  PROVE  \/ UNCHANGED idx
         \/ \E c \in Harts : /\ idx' = [idx EXCEPT ![c] = @ + 1] /\ idx[c] < NPROC
                             /\ ScanSkip(c) \/ ScanChoose(c) \/ ScanReject(c)
         \/ \E c \in Harts : idx' = [idx EXCEPT ![c] = 0] /\ (ScanAgain(c) \/ Dispatch(c))
<1>1. CASE Clock \/ \E p \in Slots : IoWakeup(p)
  BY Zenon, <1>1 DEF Clock, ClockTick, UpdateTime, ClockWakeup, ClockDone, IoWakeup, hart
<1>2. ASSUME NEW c \in Harts, Process(c) PROVE UNCHANGED idx
  BY Zenon, <1>2 DEF Process, TimerYield, Yield, IoSleep, Exit, SysSleep, SysSleepMore, TicksSleep,
     SysSleepDone, Relock, ForkRunnable, AllocProc, Waitx, SetPriority, hart
<1>3. ASSUME NEW c \in Harts, ScanSkip(c) \/ ScanChoose(c) \/ ScanReject(c)
      PROVE  idx' = [idx EXCEPT ![c] = @ + 1] /\ idx[c] < NPROC
  BY Zenon, <1>3 DEF ScanSkip, ScanChoose, ScanReject, Advance, Scanning
<1>4. ASSUME NEW c \in Harts, ScanAgain(c) \/ Dispatch(c)
      PROVE  idx' = [idx EXCEPT ![c] = 0]
  BY Zenon, <1>4 DEF ScanAgain, Dispatch
<1>5. ASSUME NEW c \in Harts, Resume(c) \/ SwtchBack(c) PROVE UNCHANGED idx
  BY Zenon, <1>5 DEF Resume, SwtchBack
<1>6. ASSUME NEW c \in Harts, SchedulerLoop(c)
      PROVE  \/ ScanSkip(c) \/ ScanChoose(c) \/ ScanReject(c)
             \/ ScanAgain(c) \/ Dispatch(c)
             \/ Resume(c) \/ SwtchBack(c)
  BY Zenon, <1>6 DEF SchedulerLoop
<1>7. CASE \E c \in Harts : SchedulerLoop(c)
  BY Zenon, <1>3, <1>4, <1>5, <1>6, <1>7
<1> QED
  BY Zenon, <1>1, <1>2, <1>7 DEF Next

(* The candidate of a scan is the one before the step, with the state it   *)
(* had, unless the step chose it: its lock is held.                        *)
LEMMA CandidateKept ==
  ASSUME IInv, Next, NEW d \in Harts, hpc'[d] = "scan", best'[d] # NULL
  PROVE  \/ ScanChoose(d)
         \/ /\ hpc[d] = "scan" /\ best'[d] = best[d] /\ best[d] \in Slots
            /\ lock[best[d]] = d /\ state'[best[d]] = state[best[d]]
<1>0. hpc \in [Harts -> Labels] /\ best \in [Harts -> Slots \cup {NULL}] /\ state \in [Slots -> States]
  BY Zenon DEF IInv, HartTypes, ProcTypes
<1> SUFFICES ASSUME ~ScanChoose(d)
             PROVE  /\ hpc[d] = "scan" /\ best'[d] = best[d]
                    /\ best[d] \in Slots /\ lock[best[d]] = d => state'[best[d]] = state[best[d]]
  BY Zenon, HartFacts
<1>1. CASE Touches /\ (Quiet \/ \E c \in Harts, l \in OnCpu : Works(c, l))
  <2>1. hpc[d] = "scan" /\ best'[d] = best[d]
    <3>1. CASE Quiet
      BY Zenon, <3>1 DEF Quiet
    <3>2. ASSUME NEW c \in Harts, NEW l \in OnCpu, Works(c, l)
          PROVE  hpc[d] = "scan" /\ best'[d] = best[d]
      BY Zenon, <1>0, <3>2 DEF Works, Goto, OnCpu, Conts
    <3> QED
      BY Zenon, <1>1, <3>1, <3>2
  <2>2. ASSUME NEW p \in Slots, NEW s, Touch(p, s), best[d] \in Slots, lock[best[d]] = d
        PROVE state'[best[d]] = state[best[d]]
    BY Zenon, <2>2, <1>0, Constants DEF Touch
  <2> QED
    BY Zenon, <1>1, <2>1, <2>2 DEF Touches
<1>2. ASSUME NEW c \in Harts, NEW s, NEW l, GivesUp(c, s, l)
      PROVE  /\ hpc[d] = "scan" /\ best'[d] = best[d]
             /\ best[d] \in Slots /\ lock[best[d]] = d => state'[best[d]] = state[best[d]]
  <2>1. /\ cproc[c] \in Slots /\ lock[cproc[c]] = NULL /\ hpc' = [hpc EXCEPT ![c] = "swtch"]
        /\ UNCHANGED best /\ state' = [state EXCEPT ![cproc[c]] = s]
    BY Zenon, <1>2, HartFacts DEF GivesUp, Sched, Acquire, Me, Goto
  <2>2. hpc[d] = "scan" /\ best'[d] = best[d]
    BY Zenon, <1>0, <2>1
  <2> QED
    BY Zenon, <1>0, <2>1, <2>2, Constants
<1>3. ASSUME NEW c \in Harts, ScanChoose(c)
      PROVE  /\ hpc[d] = "scan" /\ best'[d] = best[d]
             /\ UNCHANGED state
  BY Zenon, <1>0, <1>3 DEF ScanChoose, procs
<1>4. ASSUME NEW c \in Harts, Dispatch(c)
      PROVE  /\ hpc[d] = "scan" /\ best'[d] = best[d]
             /\ best[d] \in Slots /\ lock[best[d]] = d => state'[best[d]] = state[best[d]]
  <2>1. /\ best[c] \in Slots /\ lock[best[c]] = c /\ hpc' = [hpc EXCEPT ![c] = "resume"]
        /\ UNCHANGED best /\ state' = [state EXCEPT ![best[c]] = "RUNNING"]
    BY Zenon, <1>4, HartFacts DEF Dispatch, At, Goto
  <2>2. hpc[d] = "scan" /\ best'[d] = best[d] /\ c # d
    BY Zenon, <1>0, <2>1
  <2> QED
    BY Zenon, <1>0, <2>1, <2>2
<1>5. ASSUME NEW c \in Harts, Resume(c)
      PROVE  /\ hpc[d] = "scan" /\ best'[d] = best[d]
             /\ UNCHANGED state
  <2>1. cont[cproc[c]] # "scan"
    BY Zenon, <1>5, HartFacts DEF Resume, At, IInv, ProcTypes, Conts
  <2> QED
    BY Zenon, <1>0, <1>5, <2>1 DEF Resume, Goto
<1>6. ASSUME NEW c \in Harts, SwtchBack(c)
      PROVE  /\ hpc[d] = "scan" /\ best'[d] = best[d]
             /\ UNCHANGED state
  BY Zenon, <1>0, <1>6 DEF SwtchBack, Goto, procs
<1> QED
  BY Zenon, Shapes, <1>1, <1>2, <1>3, <1>4, <1>5, <1>6

LEMMA CandidateStep ==
  ASSUME IInv, Next
  PROVE  Candidate'
<1>0. Candidate /\ best \in [Harts -> Slots \cup {NULL}] /\ idx \in [Harts -> 0 .. NPROC]
  BY Zenon DEF IInv, HartTypes
<1> SUFFICES ASSUME NEW d \in Harts, hpc'[d] = "scan", best'[d] # NULL
             PROVE  state'[best'[d]] = "RUNNABLE" /\ best'[d] < idx'[d]
  BY Zenon DEF Candidate
<1>1. CASE ScanChoose(d)
  <2>1. /\ best' = [best EXCEPT ![d] = idx[d]] /\ idx' = [idx EXCEPT ![d] = @ + 1]
        /\ state[idx[d]] = "RUNNABLE" /\ UNCHANGED state
    BY Zenon, <1>1 DEF ScanChoose, procs, Advance
  <2>2. best'[d] = idx[d] /\ idx'[d] = idx[d] + 1 /\ idx[d] \in Int
    BY SMT, <1>0, <2>1
  <2> QED
    BY <2>1, <2>2
<1>2. CASE ~ScanChoose(d)
  <2>1. /\ hpc[d] = "scan" /\ best'[d] = best[d] /\ best[d] \in Slots
        /\ state'[best[d]] = state[best[d]]
    BY Zenon, <1>2, CandidateKept
  <2>2. state'[best'[d]] = "RUNNABLE" /\ best[d] < idx[d]
    BY Zenon, <1>0, <2>1 DEF Candidate
  <2>3. ASSUME NEW c \in Harts, ScanAgain(c) \/ Dispatch(c) PROVE c # d
    <3>1. CASE ScanAgain(c)
      BY Zenon, <3>1, <2>1, Constants DEF ScanAgain
    <3>2. CASE Dispatch(c)
      <4>1. hpc' = [hpc EXCEPT ![c] = "resume"] /\ hpc \in [Harts -> Labels]
        BY Zenon, <3>2 DEF Dispatch, Goto, IInv, HartTypes
      <4> QED
        BY Zenon, <4>1
    <3> QED
      BY Zenon, <2>3, <3>1, <3>2
  <2>4. \/ idx'[d] = idx[d]
        \/ idx'[d] = idx[d] + 1
    <3>1. ASSUME NEW c \in Harts, idx' = [idx EXCEPT ![c] = @ + 1]
          PROVE  idx'[d] = idx[d] \/ idx'[d] = idx[d] + 1
      BY Zenon, <3>1, <1>0
    <3>2. ASSUME NEW c \in Harts, c # d, idx' = [idx EXCEPT ![c] = 0]
          PROVE  idx'[d] = idx[d]
      BY Zenon, <3>2, <1>0
    <3> QED
      BY Zenon, CursorSteps, <2>3, <3>1, <3>2
  <2>5. idx[d] \in 0 .. NPROC /\ best[d] \in Int /\ NPROC \in Nat
    BY Zenon, <1>0, <2>1, Constants
  <2> QED
    BY SMT, <2>1, <2>2, <2>4, <2>5
<1> QED
  BY Zenon, <1>1, <1>2

LEMMA OneHartStep ==
  ASSUME IInv, Next
  PROVE  OneHart'
<1>0. /\ OneHart /\ hpc \in [Harts -> Labels] /\ cproc \in [Harts -> Slots \cup {NULL}]
      /\ state \in [Slots -> States]
  BY Zenon DEF IInv, HartTypes, ProcTypes
<1>a. ASSUME Touches, NEW p \in Slots PROVE state'[p] = "RUNNING" <=> state[p] = "RUNNING"
  BY Zenon, <1>0, <1>a DEF Touches, Touch
<1>b. ASSUME UNCHANGED cproc,
             \A p \in Slots : state'[p] = "RUNNING" <=> state[p] = "RUNNING",
             \A d \in Harts : hpc'[d] = "swtch" <=> hpc[d] = "swtch",
             \A d \in Harts : hpc'[d] = "scan" <=> hpc[d] = "scan"
      PROVE  OneHart'
  <2>1. ASSUME NEW d \in Harts, hpc'[d] \notin {"scan", "swtch"} PROVE state'[cproc'[d]] = "RUNNING"
    <3>1. hpc[d] \notin {"scan", "swtch"}
      BY Zenon, <1>b, <2>1
    <3>2. cproc[d] \in Slots
      BY Zenon, <3>1 DEF IInv, Current
    <3> QED
      BY Zenon, <1>0, <1>b, <3>1, <3>2 DEF OneHart
  <2>2. ASSUME NEW p \in Slots, state'[p] = "RUNNING"
        PROVE  \E d \in Harts : cproc'[d] = p /\ hpc'[d] # "swtch"
    BY Zenon, <1>0, <1>b, <2>2 DEF OneHart
  <2>3. ASSUME NEW d \in Harts, NEW e \in Harts, cproc'[d] # NULL, cproc'[d] = cproc'[e] PROVE d = e
    BY Zenon, <1>0, <1>b, <2>3 DEF OneHart
  <2> QED
    BY Zenon, <2>1, <2>2, <2>3 DEF OneHart
<1>1. CASE Quiet /\ Touches
  BY Zenon, <1>1, <1>a, <1>b DEF Quiet
<1>2. ASSUME NEW c \in Harts, NEW l \in OnCpu, Works(c, l), Touches PROVE OneHart'
  <2>1. /\ hpc[c] \notin {"scan", "swtch"} /\ l \notin {"scan", "swtch"}
        /\ hpc' = [hpc EXCEPT ![c] = l] /\ UNCHANGED cproc
    BY Zenon, <1>2 DEF Works, Goto, OnCpu, Conts
  <2>2. \A d \in Harts : hpc'[d] = "swtch" <=> hpc[d] = "swtch"
    BY Zenon, <1>0, <2>1
  <2>3. \A d \in Harts : hpc'[d] = "scan" <=> hpc[d] = "scan"
    BY Zenon, <1>0, <2>1
  <2> QED
    BY Zenon, <1>a, <1>b, <1>2, <2>1, <2>2, <2>3
<1>3. ASSUME NEW c \in Harts, NEW s \in {"RUNNABLE", "SLEEPING", "ZOMBIE"}, NEW l, GivesUp(c, s, l)
      PROVE  OneHart'
  <2>1. /\ cproc[c] \in Slots /\ hpc' = [hpc EXCEPT ![c] = "swtch"] /\ UNCHANGED cproc
        /\ state' = [state EXCEPT ![cproc[c]] = s]
    BY Zenon, <1>3, HartFacts DEF GivesUp, Sched, Me, Goto
  <2>2. ASSUME NEW d \in Harts, hpc'[d] \notin {"scan", "swtch"} PROVE state'[cproc'[d]] = "RUNNING"
    <3>1. d # c /\ hpc[d] \notin {"scan", "swtch"}
      BY Zenon, <1>0, <2>1, <2>2
    <3>2. cproc[d] \in Slots /\ cproc[d] # NULL
      BY Zenon, <3>1, Constants DEF IInv, Current
    <3>3. cproc[d] # cproc[c] /\ state[cproc[d]] = "RUNNING"
      BY Zenon, <1>0, <3>1, <3>2 DEF OneHart
    <3> QED
      BY Zenon, <1>0, <2>1, <3>2, <3>3
  <2>3. ASSUME NEW p \in Slots, state'[p] = "RUNNING"
        PROVE  \E d \in Harts : cproc'[d] = p /\ hpc'[d] # "swtch"
    <3>1. p # cproc[c] /\ state[p] = "RUNNING"
      BY Zenon, <1>0, <2>1, <2>3
    <3>2. PICK d \in Harts : cproc[d] = p /\ hpc[d] # "swtch"
      BY Zenon, <1>0, <3>1 DEF OneHart
    <3> QED
      BY Zenon, <1>0, <2>1, <3>1, <3>2
  <2>4. \A d, e \in Harts : cproc'[d] # NULL /\ cproc'[d] = cproc'[e] => d = e
    BY Zenon, <1>0, <2>1 DEF OneHart
  <2> QED
    BY Zenon, <2>2, <2>3, <2>4 DEF OneHart
<1>4. ASSUME NEW c \in Harts, ScanChoose(c) PROVE OneHart'
  BY Zenon, <1>b, <1>4 DEF ScanChoose, procs
<1>5. ASSUME NEW c \in Harts, Dispatch(c) PROVE OneHart'
  <2>1. /\ best[c] \in Slots /\ lock[best[c]] = c /\ state[best[c]] = "RUNNABLE" /\ hpc[c] = "scan"
        /\ hpc' = [hpc EXCEPT ![c] = "resume"] /\ cproc' = [cproc EXCEPT ![c] = best[c]]
        /\ state' = [state EXCEPT ![best[c]] = "RUNNING"]
    BY Zenon, <1>5, HartFacts DEF Dispatch, At, Goto, IInv, Candidate
  <2>2. ASSUME NEW d \in Harts PROVE cproc[d] # best[c]
    <3>1. CASE hpc[d] = "scan"
      BY Zenon, <3>1, <2>1, Constants DEF IInv, Current
    <3>2. CASE hpc[d] = "swtch"
      <4>1. cproc[d] \in Slots /\ lock[cproc[d]] = d
        BY Zenon, <3>2, HartFacts
      <4> QED
        BY Zenon, <3>2, <4>1, <2>1
    <3>3. CASE hpc[d] \notin {"scan", "swtch"}
      BY Zenon, <3>3, <2>1, <1>0 DEF OneHart
    <3> QED
      BY Zenon, <3>1, <3>2, <3>3
  <2>3. ASSUME NEW d \in Harts, hpc'[d] \notin {"scan", "swtch"} PROVE state'[cproc'[d]] = "RUNNING"
    <3>1. CASE d = c
      BY Zenon, <1>0, <2>1, <3>1
    <3>2. CASE d # c
      <4>1. hpc[d] \notin {"scan", "swtch"} /\ cproc'[d] = cproc[d]
        BY Zenon, <1>0, <2>1, <2>3, <3>2
      <4>2. cproc[d] \in Slots /\ state[cproc[d]] = "RUNNING"
        BY Zenon, <1>0, <4>1 DEF OneHart, IInv, Current
      <4> QED
        BY Zenon, <1>0, <2>1, <2>2, <4>1, <4>2
    <3> QED
      BY Zenon, <3>1, <3>2
  <2>4. ASSUME NEW p \in Slots, state'[p] = "RUNNING"
        PROVE  \E d \in Harts : cproc'[d] = p /\ hpc'[d] # "swtch"
    <3>1. CASE p = best[c]
      BY Zenon, <1>0, <2>1, <3>1
    <3>2. CASE p # best[c]
      <4>1. state[p] = "RUNNING"
        BY Zenon, <1>0, <2>1, <2>4, <3>2
      <4>2. PICK d \in Harts : cproc[d] = p /\ hpc[d] # "swtch"
        BY Zenon, <1>0, <4>1 DEF OneHart
      <4>3. d # c
        BY Zenon, <2>1, <4>2, Constants DEF IInv, Current
      <4> QED
        BY Zenon, <1>0, <2>1, <4>2, <4>3
    <3> QED
      BY Zenon, <3>1, <3>2
  <2>5. ASSUME NEW d \in Harts, NEW e \in Harts, cproc'[d] # NULL, cproc'[d] = cproc'[e] PROVE d = e
    BY Zenon, <1>0, <2>1, <2>2, <2>5 DEF OneHart
  <2> QED
    BY Zenon, <2>3, <2>4, <2>5 DEF OneHart
<1>6. ASSUME NEW c \in Harts, Resume(c) PROVE OneHart'
  <2>1. cproc[c] \in Slots /\ hpc[c] = "resume"
    BY Zenon, <1>6, HartFacts DEF Resume, At
  <2>2. cont[cproc[c]] \notin {"scan", "swtch"}
    BY Zenon, <2>1 DEF IInv, ProcTypes, Conts
  <2>3. \A d \in Harts : hpc'[d] = "swtch" <=> hpc[d] = "swtch"
    BY Zenon, <1>0, <1>6, <2>1, <2>2 DEF Resume, Goto
  <2>4. \A d \in Harts : hpc'[d] = "scan" <=> hpc[d] = "scan"
    BY Zenon, <1>0, <1>6, <2>1, <2>2 DEF Resume, Goto
  <2> QED
    BY Zenon, <1>b, <1>6, <2>3, <2>4 DEF Resume
<1>7. ASSUME NEW c \in Harts, SwtchBack(c) PROVE OneHart'
  <2>1. /\ hpc[c] = "swtch" /\ hpc' = [hpc EXCEPT ![c] = "scan"]
        /\ cproc' = [cproc EXCEPT ![c] = NULL] /\ UNCHANGED state
    BY Zenon, <1>7 DEF SwtchBack, At, Goto, procs
  <2>2. ASSUME NEW d \in Harts, hpc'[d] \notin {"scan", "swtch"} PROVE state'[cproc'[d]] = "RUNNING"
    BY Zenon, <1>0, <2>1, <2>2 DEF OneHart
  <2>3. ASSUME NEW p \in Slots, state'[p] = "RUNNING"
        PROVE  \E d \in Harts : cproc'[d] = p /\ hpc'[d] # "swtch"
    <3>1. PICK d \in Harts : cproc[d] = p /\ hpc[d] # "swtch"
      BY Zenon, <1>0, <2>1, <2>3 DEF OneHart
    <3> QED
      BY Zenon, <1>0, <2>1, <3>1
  <2>4. ASSUME NEW d \in Harts, NEW e \in Harts, cproc'[d] # NULL, cproc'[d] = cproc'[e] PROVE d = e
    BY Zenon, <1>0, <2>1, <2>4 DEF OneHart
  <2> QED
    BY Zenon, <2>2, <2>3, <2>4 DEF OneHart
<1> QED
  BY Zenon, Shapes, <1>1, <1>2, <1>3, <1>4, <1>5, <1>6, <1>7
-----------------------------------------------------------------------------
(* Sched() on hart c, for the types. *)
LEMMA SchedTypes ==
  ASSUME IInv, NEW c \in Harts, hpc[c] \in OnCpu, NEW s \in States, NEW l \in Conts, Sched(c, s, l)
  PROVE  /\ state' \in [Slots -> States] /\ cont' \in [Slots -> Conts]
         /\ lock' \in [Slots -> Harts \cup {NULL}] /\ hpc' \in [Harts -> Labels]
         /\ cproc[c] \in Slots
<1>1. cproc[c] \in Slots
  BY Zenon, HartFacts
<1> QED
  BY Zenon, <1>1 DEF IInv, ProcTypes, HartTypes, Sched, Acquire, Goto, Me, Labels

LEMMA ProcTypesStep ==
  ASSUME IInv, Next
  PROVE  ProcTypes'
<1>0. ProcTypes /\ HartTypes
  BY Zenon DEF IInv
<1> USE DEF ProcTypes
<1>1. CASE UNCHANGED <<state, priority, chan, cont, np, lock>>
  BY Zenon, <1>0, <1>1
<1>2. CASE Clock
  <2>1. CASE ClockTick \/ UpdateTime \/ ClockDone
    BY Zenon, <1>1, <2>1 DEF ClockTick, UpdateTime, ClockDone, procs, times
  <2>2. CASE ClockWakeup
    BY Zenon, <1>0, <2>2 DEF ClockWakeup, States
  <2> QED
    BY Zenon, <1>2, <2>1, <2>2 DEF Clock
<1>3. ASSUME NEW p \in Slots, IoWakeup(p) PROVE ProcTypes'
  BY Zenon, <1>0, <1>3 DEF IoWakeup, States
<1>4. ASSUME NEW c \in Harts, SchedulerLoop(c) PROVE ProcTypes'
  <2>1. CASE ScanSkip(c) \/ ScanReject(c) \/ ScanAgain(c)
    BY Zenon, <1>1, <2>1 DEF ScanSkip, ScanReject, ScanAgain, procs, times
  <2>2. CASE ScanChoose(c)
    <3>1. \A q \in Slots : lock'[q] \in Harts \cup {NULL}
      BY Zenon, <1>0, <2>2 DEF ScanChoose
    <3>2. lock' \in [Slots -> Harts \cup {NULL}]
      BY Zenon, <2>2, <3>1 DEF ScanChoose
    <3> QED
      BY Zenon, <1>0, <2>2, <3>2 DEF ScanChoose, procs, times
  <2>3. CASE Dispatch(c)
    BY Zenon, <1>0, <2>3 DEF Dispatch, States
  <2>4. CASE Resume(c)
    BY Zenon, <1>0, <2>4 DEF Resume
  <2>5. CASE SwtchBack(c)
    BY Zenon, <1>0, <2>5 DEF SwtchBack, procs
  <2> QED
    BY Zenon, <1>4, <2>1, <2>2, <2>3, <2>4, <2>5 DEF SchedulerLoop
<1>5. ASSUME NEW c \in Harts, Process(c) PROVE ProcTypes'
  <2>a. "RUNNABLE" \in States /\ "SLEEPING" \in States /\ "ZOMBIE" \in States
    BY Zenon DEF States
  <2>b. Conts = {"run", "relock", "yield", "fork"} /\ OnCpu = Conts \cup {"test", "sleep"}
    BY Zenon DEF OnCpu, Conts
  <2>1. CASE TimerYield(c)
    <3>1. PICK l \in Conts : At(c, l) /\ Sched(c, "RUNNABLE", l)
      BY Zenon, <2>1, <2>b DEF TimerYield
    <3> QED
      BY Zenon, <1>0, <2>1, <2>a, <2>b, <3>1, SchedTypes DEF TimerYield, At
  <2>2. CASE Yield(c)
    BY Zenon, <1>0, <2>2, <2>a, <2>b, SchedTypes DEF Yield, At
  <2>3. CASE IoSleep(c)
    BY Zenon, <1>0, <2>3, <2>a, <2>b, SchedTypes DEF IoSleep, At, Me
  <2>4. CASE Exit(c)
    BY Zenon, <1>0, <2>4, <2>a, <2>b, SchedTypes DEF Exit, At
  <2>5. CASE SysSleep(c) \/ SysSleepMore(c) \/ SysSleepDone(c) \/ Relock(c)
    BY Zenon, <1>1, <2>5 DEF SysSleep, SysSleepMore, SysSleepDone, Relock, procs, times
  <2>6. CASE TicksSleep(c)
    BY Zenon, <1>0, <2>6, <2>a, <2>b, SchedTypes DEF TicksSleep, At, Me
  <2>7. CASE ForkRunnable(c)
    BY Zenon, <1>0, <2>7 DEF ForkRunnable, States
  <2>8. ASSUME NEW q \in Slots, AllocProc(c, q) PROVE ProcTypes'
    <3>1. 60 \in Int
      BY SMT
    <3> QED
      BY Zenon, <1>0, <2>8, <3>1 DEF AllocProc, States, Conts
  <2>9. ASSUME NEW q \in Slots, Waitx(c, q) PROVE ProcTypes'
    BY Zenon, <1>0, <2>9 DEF Waitx, States
  <2>10. ASSUME NEW q \in Slots, NEW v \in Prios, SetPriority(c, q, v) PROVE ProcTypes'
    BY Zenon, <1>0, <2>10, Constants DEF SetPriority
  <2> QED
    BY Zenon, <1>5, <2>1, <2>2, <2>3, <2>4, <2>5, <2>6, <2>7, <2>8, <2>9, <2>10 DEF Process
<1> QED
  BY Zenon, <1>2, <1>3, <1>4, <1>5 DEF Next

(* Which steps change a time, and how. *)
LEMMA TimeSteps ==
  ASSUME Next
  PROVE  \/ UNCHANGED <<times, ticks0, ticks, priority>>
         \/ ClockTick \/ UpdateTime
         \/ \E c \in Harts : Dispatch(c) \/ Exit(c) \/ SysSleep(c)
         \/ \E c \in Harts, q \in Slots : AllocProc(c, q)
         \/ \E c \in Harts, q \in Slots, v \in Prios : SetPriority(c, q, v)
<1> USE DEF procs, clock
<1>1. CASE Clock \/ \E p \in Slots : IoWakeup(p)
  BY Zenon, <1>1 DEF Clock, ClockWakeup, ClockDone, IoWakeup
<1>2. ASSUME NEW c \in Harts, SchedulerLoop(c)
      PROVE  UNCHANGED <<times, ticks0, ticks, priority>> \/ Dispatch(c)
  BY Zenon, <1>2 DEF SchedulerLoop, ScanSkip, ScanChoose, ScanReject, ScanAgain, Resume, SwtchBack
<1>3. ASSUME NEW c \in Harts, Process(c)
      PROVE  \/ UNCHANGED <<times, ticks0, ticks, priority>> \/ Exit(c) \/ SysSleep(c)
             \/ \E q \in Slots : AllocProc(c, q)
             \/ \E q \in Slots, v \in Prios : SetPriority(c, q, v)
  BY Zenon, <1>3 DEF Process, TimerYield, Yield, IoSleep, SysSleepMore, TicksSleep, SysSleepDone,
     Relock, ForkRunnable, Waitx
<1> QED
  BY Zenon, <1>1, <1>2, <1>3 DEF Next

LEMMA TimeTypesStep ==
  ASSUME IInv, Next
  PROVE  TimeTypes'
<1>0. TimeTypes /\ 0 \in Nat /\ \A n \in Nat : n + 1 \in Nat
  BY SMT DEF IInv
<1> USE <1>0 DEF TimeTypes
<1>1. CASE UNCHANGED <<times, ticks0, ticks, priority>>
  BY Zenon, <1>1 DEF times
<1>2. CASE ClockTick
  BY Zenon, <1>2 DEF ClockTick, procs, times
<1>3. CASE UpdateTime
  <2>1. ci \in Slots
    BY Zenon, <1>3, Constants DEF UpdateTime, IInv, TicksLock, HartTypes
  <2> QED
    BY Zenon, <1>3, <2>1 DEF UpdateTime, hart
<1>4. ASSUME NEW c \in Harts, Dispatch(c) PROVE TimeTypes'
  <2>1. best[c] \in Slots
    BY Zenon, <1>4, Constants, HartFacts DEF Dispatch, At
  <2> QED
    BY Zenon, <1>4, <2>1 DEF Dispatch, clock
<1>5. ASSUME NEW c \in Harts, Exit(c) PROVE TimeTypes'
  BY Zenon, <1>5 DEF Exit, clock
<1>6. ASSUME NEW c \in Harts, SysSleep(c) PROVE TimeTypes'
  BY Zenon, <1>6 DEF SysSleep, times
<1>7. ASSUME NEW c \in Harts, NEW q \in Slots, AllocProc(c, q) PROVE TimeTypes'
  BY Zenon, <1>7 DEF AllocProc, clock
<1>8. ASSUME NEW c \in Harts, NEW q \in Slots, NEW v \in Prios, SetPriority(c, q, v) PROVE TimeTypes'
  BY Zenon, <1>8 DEF SetPriority, clock
<1> QED
  BY Zenon, TimeSteps, <1>1, <1>2, <1>3, <1>4, <1>5, <1>6, <1>7, <1>8

LEMMA HartTypesStep ==
  ASSUME IInv, Next
  PROVE  HartTypes'
<1>0. HartTypes /\ ProcTypes
  BY Zenon DEF IInv
<1> USE DEF HartTypes
<1>1. hpc' \in [Harts -> Labels] /\ cproc' \in [Harts -> Slots \cup {NULL}]
  <2> USE <1>0
  <2>1. CASE Quiet
    BY Zenon, <2>1 DEF Quiet
  <2>2. ASSUME NEW c \in Harts, NEW l \in OnCpu, Works(c, l)
        PROVE  hpc' \in [Harts -> Labels] /\ UNCHANGED cproc
    BY Zenon, <2>2 DEF Works, Goto, OnCpu, Labels
  <2>3. ASSUME NEW c \in Harts, NEW s, NEW l, GivesUp(c, s, l)
        PROVE  hpc' \in [Harts -> Labels] /\ UNCHANGED cproc
    BY Zenon, <2>3 DEF GivesUp, Sched, Goto, Labels
  <2>4. ASSUME NEW c \in Harts, ScanChoose(c) PROVE UNCHANGED <<hpc, cproc>>
    BY Zenon, <2>4 DEF ScanChoose
  <2>5. ASSUME NEW c \in Harts, Dispatch(c)
        PROVE  hpc' \in [Harts -> Labels] /\ cproc' \in [Harts -> Slots \cup {NULL}]
    BY Zenon, <2>5 DEF Dispatch, Goto, Labels
  <2>6. ASSUME NEW c \in Harts, Resume(c)
        PROVE  hpc' \in [Harts -> Labels] /\ UNCHANGED cproc
    <3>1. cont[cproc[c]] \in Labels
      BY Zenon, <2>6, HartFacts DEF Resume, At, ProcTypes, Labels
    <3> QED
      BY Zenon, <2>6, <3>1 DEF Resume, Goto
  <2>7. ASSUME NEW c \in Harts, SwtchBack(c)
        PROVE  hpc' \in [Harts -> Labels] /\ cproc' \in [Harts -> Slots \cup {NULL}]
    BY Zenon, <2>7 DEF SwtchBack, Goto, Labels
  <2> QED
    BY Zenon, Shapes, <2>1, <2>2, <2>3, <2>4, <2>5, <2>6, <2>7
<1>2. idx' \in [Harts -> 0 .. NPROC]
  <2>1. ASSUME NEW c \in Harts, idx' = [idx EXCEPT ![c] = @ + 1], idx[c] < NPROC
        PROVE  idx' \in [Harts -> 0 .. NPROC]
    BY Zenon, <1>0, <2>1, Constants
  <2>2. ASSUME NEW c \in Harts, idx' = [idx EXCEPT ![c] = 0]
        PROVE  idx' \in [Harts -> 0 .. NPROC]
    BY Zenon, <1>0, <2>2, Constants
  <2> QED
    BY Zenon, <1>0, CursorSteps, <2>1, <2>2
<1>3. /\ best' \in [Harts -> Slots \cup {NULL}] /\ best_dp' \in [Harts -> 0 .. 100]
      /\ seen' \in [Harts -> SUBSET Ranks]
  <2>1. CASE UNCHANGED <<best, best_dp, seen>>
    BY Zenon, <1>0, <2>1
  <2>2. ASSUME NEW c \in Harts, ScanChoose(c) \/ ScanReject(c)
        PROVE  /\ best' \in [Harts -> Slots \cup {NULL}] /\ best_dp' \in [Harts -> 0 .. 100]
               /\ seen' \in [Harts -> SUBSET Ranks]
    <3>1. idx[c] \in Slots
      BY Zenon, <1>0, <2>2, Constants DEF ScanChoose, ScanReject, Scanning
    <3>2. DP(idx[c]) \in 0 .. 100 /\ RankOf(idx[c]) \in Ranks
      BY Zenon, <3>1, RankTypes DEF IInv
    <3>3. seen' = [seen EXCEPT ![c] = @ \cup {RankOf(idx[c])}]
      BY Zenon, <2>2 DEF ScanChoose, ScanReject
    <3>4. seen' \in [Harts -> SUBSET Ranks]
      BY SMT, <1>0, <3>2, <3>3
    <3>5. CASE ScanChoose(c)
      BY Zenon, <1>0, <3>1, <3>2, <3>4, <3>5 DEF ScanChoose
    <3>6. CASE ScanReject(c)
      BY Zenon, <1>0, <3>4, <3>6 DEF ScanReject
    <3> QED
      BY Zenon, <2>2, <3>5, <3>6
  <2>3. ASSUME NEW c \in Harts, Dispatch(c) \/ SwtchBack(c)
        PROVE  /\ best' \in [Harts -> Slots \cup {NULL}] /\ best_dp' \in [Harts -> 0 .. 100]
               /\ seen' \in [Harts -> SUBSET Ranks]
    <3>1. 0 \in 0 .. 100
      BY SMT
    <3>2. {} \in SUBSET Ranks
      BY SMT
    <3>3. CASE Dispatch(c)
      BY Zenon, <1>0, <3>2, <3>3 DEF Dispatch
    <3>4. CASE SwtchBack(c)
      BY Zenon, <1>0, <3>1, <3>4 DEF SwtchBack
    <3> QED
      BY Zenon, <2>3, <3>3, <3>4
  <2>4. ASSUME NEW c \in Harts, SchedulerLoop(c)
        PROVE  /\ best' \in [Harts -> Slots \cup {NULL}] /\ best_dp' \in [Harts -> 0 .. 100]
               /\ seen' \in [Harts -> SUBSET Ranks]
    BY Zenon, <2>1, <2>2, <2>3, <2>4 DEF SchedulerLoop, ScanSkip, ScanAgain, Resume
  <2>5. ASSUME NEW c \in Harts, Process(c) PROVE UNCHANGED <<best, best_dp, seen>>
    BY Zenon, <2>5 DEF Process, TimerYield, Yield, IoSleep, Exit, SysSleep, SysSleepMore, TicksSleep,
       SysSleepDone, Relock, ForkRunnable, AllocProc, Waitx, SetPriority, hart
  <2>6. CASE Clock \/ \E p \in Slots : IoWakeup(p)
    BY Zenon, <2>1, <2>6 DEF Clock, ClockTick, UpdateTime, ClockWakeup, ClockDone, IoWakeup, hart
  <2> QED
    BY Zenon, <2>1, <2>4, <2>5, <2>6 DEF Next
<1>4. /\ clk' \in {"off", "update", "wakeup"} /\ ci' \in 0 .. NPROC
      /\ tickslock' \in Harts \cup {NULL}
  <2>1. ASSUME NEW c \in Harts, SchedulerLoop(c) PROVE UNCHANGED <<clk, ci, tickslock>>
    BY Zenon, <2>1 DEF SchedulerLoop, ScanSkip, ScanChoose, ScanReject, ScanAgain, Dispatch, Resume,
       SwtchBack, clock
  <2>2. ASSUME NEW c \in Harts, Process(c) PROVE UNCHANGED <<clk, ci>> /\ tickslock' \in Harts \cup {NULL}
    BY Zenon, <1>0, <2>2 DEF Process, TimerYield, Yield, IoSleep, Exit, SysSleep, SysSleepMore, TicksSleep,
       SysSleepDone, Relock, ForkRunnable, AllocProc, Waitx, SetPriority, clock
  <2>3. CASE ClockTick \/ ClockDone
    BY Zenon, <2>3, Constants DEF ClockTick, ClockDone
  <2>4. CASE UpdateTime
    <3>1. ci \in Slots
      BY Zenon, <1>0, <2>4, Constants DEF UpdateTime, IInv, TicksLock
    <3> QED
      <4>1. /\ ci' = ci + 1 \/ ci' = 0
            /\ clk' = clk \/ clk' = "wakeup"
            /\ UNCHANGED tickslock
        BY Zenon, <2>4 DEF UpdateTime
      <4> QED
        BY Zenon, <1>0, <3>1, <4>1, Constants
  <2>5. CASE ClockWakeup
    BY Zenon, <1>0, <2>5, Constants DEF ClockWakeup
  <2>6. CASE \E p \in Slots : IoWakeup(p)
    BY Zenon, <1>0, <2>6 DEF IoWakeup, clock
  <2> QED
    BY Zenon, <1>0, <2>1, <2>2, <2>3, <2>4, <2>5, <2>6 DEF Next, Clock
<1> QED
  BY Zenon, <1>1, <1>2, <1>3, <1>4
-----------------------------------------------------------------------------
(* Steps that neither allocate a slot nor publish one: a slot may become   *)
(* RUNNABLE, or UNUSED after it was a ZOMBIE.                              *)
Ages(p) ==
  \/ state'[p] = state[p]
  \/ state[p] # "USED" /\ state'[p] \in {"RUNNABLE", "RUNNING"}
  \/ state[p] = "ZOMBIE" /\ state'[p] = "UNUSED"

NoFork == UNCHANGED <<np, cont>> /\ \A p \in Slots : Ages(p)

LEMMA ForkShapes ==
  ASSUME IInv, Next
  PROVE  \/ Quiet /\ NoFork
         \/ \E c \in Harts, l \in OnCpu \ {"fork"} : Works(c, l) /\ hpc[c] # "fork" /\ NoFork
         \/ \E c \in Harts, s \in {"RUNNABLE", "SLEEPING", "ZOMBIE"}, l \in Conts : GivesUp(c, s, l)
         \/ \E c \in Harts : Resume(c) /\ NoFork
         \/ \E c \in Harts : (ScanChoose(c) \/ Dispatch(c) \/ SwtchBack(c)) /\ NoFork
         \/ \E c \in Harts, q \in Slots : AllocProc(c, q)
         \/ \E c \in Harts : ForkRunnable(c)
<1>0. state \in [Slots -> States]
  BY Zenon DEF IInv, ProcTypes
<1> USE DEF procs, hart
<1>1. CASE ClockTick \/ UpdateTime \/ ClockDone
  BY Zenon, <1>1 DEF ClockTick, UpdateTime, ClockDone, Quiet, NoFork, Ages
<1>2. CASE ClockWakeup
  <2>1. ASSUME NEW p \in Slots PROVE Ages(p)
    BY Zenon, <1>0, <1>2 DEF ClockWakeup, Ages
  <2> QED
    BY Zenon, <1>2, <2>1 DEF ClockWakeup, Quiet, NoFork
<1>3. ASSUME NEW p \in Slots, IoWakeup(p) PROVE Quiet /\ NoFork
  <2>1. ASSUME NEW q \in Slots PROVE Ages(q)
    BY Zenon, <1>0, <1>3 DEF IoWakeup, Ages
  <2> QED
    BY Zenon, <1>3, <2>1 DEF IoWakeup, Quiet, NoFork
<1>4. ASSUME NEW c \in Harts, ScanSkip(c) \/ ScanReject(c) \/ ScanAgain(c) PROVE Quiet /\ NoFork
  BY Zenon, <1>4 DEF ScanSkip, ScanReject, ScanAgain, Quiet, NoFork, Ages
<1>5. ASSUME NEW c \in Harts, ScanChoose(c) \/ Resume(c) \/ SwtchBack(c) PROVE NoFork
  BY Zenon, <1>5 DEF ScanChoose, Resume, SwtchBack, NoFork, Ages
<1>6. ASSUME NEW c \in Harts, Dispatch(c) PROVE NoFork
  <2>1. state[best[c]] # "USED"
    BY Zenon, <1>6 DEF Dispatch, At, IInv, Candidate
  <2>2. ASSUME NEW q \in Slots PROVE Ages(q)
    BY Zenon, <1>0, <1>6, <2>1 DEF Dispatch, Ages
  <2> QED
    BY Zenon, <1>6, <2>2 DEF Dispatch, NoFork
<1>7. ASSUME NEW c \in Harts, NEW q \in Slots, Waitx(c, q) PROVE Quiet /\ NoFork
  <2>1. ASSUME NEW p \in Slots PROVE Ages(p)
    BY Zenon, <1>0, <1>7 DEF Waitx, Ages
  <2> QED
    BY Zenon, <1>7, <2>1 DEF Waitx, Quiet, NoFork
<1>8. ASSUME NEW c \in Harts, SysSleep(c) \/ SysSleepMore(c) \/ SysSleepDone(c) \/ Relock(c)
      PROVE  \E l \in OnCpu \ {"fork"} : Works(c, l) /\ hpc[c] # "fork" /\ NoFork
  <2>1. NoFork
    BY Zenon, <1>8 DEF SysSleep, SysSleepMore, SysSleepDone, Relock, NoFork, Ages
  <2>2. /\ hpc[c] \in OnCpu \ {"fork"} /\ UNCHANGED <<cproc, best, lock>>
        /\ Goto(c, "test") \/ Goto(c, "sleep") \/ Goto(c, "run")
    BY Zenon, <1>8 DEF SysSleep, SysSleepMore, SysSleepDone, Relock, At, OnCpu, Conts
  <2> QED
    BY Zenon, <2>1, <2>2 DEF Works, OnCpu, Conts
<1>9. ASSUME NEW c \in Harts, NEW q \in Slots, NEW v \in Prios, SetPriority(c, q, v)
      PROVE  \E l \in OnCpu \ {"fork"} : Works(c, l) /\ hpc[c] # "fork" /\ NoFork
  <2>1. NoFork
    BY Zenon, <1>9 DEF SetPriority, NoFork, Ages
  <2>2. /\ hpc[c] \in OnCpu \ {"fork"} /\ UNCHANGED <<cproc, best, lock>>
        /\ Goto(c, "yield") \/ Goto(c, "run")
    BY Zenon, <1>9 DEF SetPriority, At, OnCpu, Conts
  <2> QED
    BY Zenon, <2>1, <2>2 DEF Works, OnCpu, Conts
<1>10. CASE \E c \in Harts : SchedulerLoop(c)
  BY Zenon, <1>10, <1>4, <1>5, <1>6 DEF SchedulerLoop
<1>11. CASE \E c \in Harts : Process(c)
  BY Zenon, <1>11, <1>7, <1>8, <1>9, SchedCalls DEF Process
<1> QED
  BY Zenon, <1>1, <1>2, <1>3, <1>10, <1>11 DEF Next, Clock

(* Steps after which the harts execute the processes they executed before. *)
LEMMA ForkOwnsFrame ==
  ASSUME IInv, NoFork,
         \A d \in Harts, p \in Slots : Executes(d, p)' <=> Executes(d, p),
         \A d \in Harts, p \in Slots : Executes(d, p) => (hpc'[d] = "fork" <=> hpc[d] = "fork")
  PROVE  ForkOwns'
<1>0. /\ AtLabel /\ AtCont /\ NewIsUsed /\ NewIsOwn /\ FreshRuns
      /\ np \in [Slots -> Slots \cup {NULL}] /\ state \in [Slots -> States]
  BY Zenon DEF IInv, ForkOwns, ProcTypes
<1>1. ASSUME NEW d \in Harts, NEW p \in Slots, Executes(d, p)'
      PROVE  np'[p] # NULL <=> hpc'[d] = "fork"
  BY Zenon, <1>0, <1>1 DEF AtLabel, NoFork
<1>2. ASSUME NEW p \in Slots, \A d \in Harts : ~Executes(d, p)'
      PROVE  np'[p] # NULL <=> cont'[p] = "fork"
  BY Zenon, <1>0, <1>2 DEF AtCont, NoFork
<1>3. ASSUME NEW p \in Slots, np'[p] # NULL PROVE state'[np'[p]] = "USED"
  <2>1. np'[p] = np[p] /\ np[p] \in Slots /\ state[np[p]] = "USED"
    BY Zenon, <1>0, <1>3 DEF NewIsUsed, NoFork
  <2> QED
    BY Zenon, <2>1 DEF NoFork, Ages
<1>4. ASSUME NEW p \in Slots, NEW q \in Slots, np'[p] # NULL, np'[p] = np'[q] PROVE p = q
  BY Zenon, <1>0, <1>4 DEF NewIsOwn, NoFork
<1>5. ASSUME NEW p \in Slots, state'[p] \in {"UNUSED", "USED", "ZOMBIE"} PROVE cont'[p] = "run"
  <2>1. state[p] \in {"UNUSED", "USED", "ZOMBIE"}
    BY Zenon, <1>5 DEF NoFork, Ages
  <2> QED
    BY Zenon, <1>0, <2>1 DEF FreshRuns, NoFork
<1> QED
  BY Zenon, <1>1, <1>2, <1>3, <1>4, <1>5 DEF ForkOwns, AtLabel, AtCont, NewIsUsed, NewIsOwn, FreshRuns

LEMMA ForkOwnsStep ==
  ASSUME IInv, Next
  PROVE  ForkOwns'
<1>0. /\ AtLabel /\ AtCont /\ NewIsUsed /\ NewIsOwn /\ FreshRuns
      /\ hpc \in [Harts -> Labels] /\ cproc \in [Harts -> Slots \cup {NULL}]
      /\ np \in [Slots -> Slots \cup {NULL}] /\ state \in [Slots -> States]
      /\ cont \in [Slots -> Conts]
  BY Zenon DEF IInv, ForkOwns, ProcTypes, HartTypes
<1>1. CASE Quiet /\ NoFork
  <2>1. \A d \in Harts, p \in Slots : Executes(d, p)' <=> Executes(d, p)
    BY Zenon, <1>1 DEF Quiet, Executes
  <2> QED
    BY Zenon, <1>1, <2>1, ForkOwnsFrame DEF Quiet
<1>2. ASSUME NEW c \in Harts, NEW l \in OnCpu \ {"fork"}, Works(c, l), hpc[c] # "fork", NoFork
      PROVE  ForkOwns'
  <2>1. /\ hpc[c] \notin {"scan", "resume", "swtch"} /\ l \notin {"scan", "resume", "swtch"}
        /\ hpc' = [hpc EXCEPT ![c] = l] /\ UNCHANGED cproc
    BY Zenon, <1>2 DEF Works, Goto, OnCpu, Conts
  <2>2. \A d \in Harts, p \in Slots : Executes(d, p)' <=> Executes(d, p)
    BY Zenon, <1>0, <2>1 DEF Executes
  <2>3. \A d \in Harts : hpc'[d] = "fork" <=> hpc[d] = "fork"
    BY Zenon, <1>0, <1>2, <2>1
  <2> QED
    BY Zenon, <1>2, <2>2, <2>3, ForkOwnsFrame
<1>3. ASSUME NEW c \in Harts, ScanChoose(c) \/ Dispatch(c) \/ SwtchBack(c), NoFork
      PROVE  ForkOwns'
  <2>1. /\ hpc[c] \in {"scan", "swtch"} /\ \A d \in Harts \ {c} : cproc'[d] = cproc[d]
        /\ \A d \in Harts \ {c} : hpc'[d] = hpc[d]
        /\ hpc'[c] \in {"scan", "resume"}
    BY Zenon, <1>0, <1>3 DEF ScanChoose, Scanning, Dispatch, SwtchBack, At, Goto
  <2>2. \A d \in Harts, p \in Slots : Executes(d, p)' <=> Executes(d, p)
    BY Zenon, <2>1 DEF Executes
  <2>3. \A d \in Harts, p \in Slots : Executes(d, p) => hpc'[d] = hpc[d]
    BY Zenon, <2>1 DEF Executes
  <2> QED
    BY Zenon, <1>3, <2>2, <2>3, ForkOwnsFrame
<1>a. ASSUME NEW c \in Harts, NEW d \in Harts, cproc[c] \in Slots, cproc[d] = cproc[c] PROVE d = c
  BY Zenon, <1>a, Constants DEF IInv, OneHart
<1>4. ASSUME NEW c \in Harts, NEW s \in {"RUNNABLE", "SLEEPING", "ZOMBIE"}, NEW l \in Conts,
             GivesUp(c, s, l)
      PROVE  ForkOwns'
  <2>1. /\ cproc[c] \in Slots /\ state[cproc[c]] = "RUNNING" /\ hpc' = [hpc EXCEPT ![c] = "swtch"]
        /\ UNCHANGED <<np, cproc>> /\ state' = [state EXCEPT ![cproc[c]] = s]
        /\ cont' = [cont EXCEPT ![cproc[c]] = l]
        /\ l = "fork" <=> hpc[c] = "fork"
        /\ s = "ZOMBIE" => l = "run"
    BY Zenon, <1>4, HartFacts DEF GivesUp, Sched, Me, Goto
  <2>2. Executes(c, cproc[c])
    BY Zenon, <1>4 DEF GivesUp, OnCpu, Conts, Executes
  <2>3. ASSUME NEW d \in Harts, NEW p \in Slots, Executes(d, p)'
        PROVE  np'[p] # NULL <=> hpc'[d] = "fork"
    <3>1. d # c /\ Executes(d, p)
      BY Zenon, <1>0, <2>1, <2>3 DEF Executes
    <3> QED
      BY Zenon, <1>0, <2>1, <3>1 DEF AtLabel
  <2>4. ASSUME NEW p \in Slots, \A d \in Harts : ~Executes(d, p)'
        PROVE  np'[p] # NULL <=> cont'[p] = "fork"
    <3>1. CASE p = cproc[c]
      <4>1. np[p] # NULL <=> hpc[c] = "fork"
        BY Zenon, <1>0, <2>1, <2>2, <3>1 DEF AtLabel
      <4> QED
        BY Zenon, <1>0, <2>1, <3>1, <4>1
    <3>2. CASE p # cproc[c]
      <4>1. \A d \in Harts : ~Executes(d, p)
        BY Zenon, <1>0, <2>1, <2>4, <3>2 DEF Executes
      <4> QED
        BY Zenon, <1>0, <2>1, <3>2, <4>1 DEF AtCont
    <3> QED
      BY Zenon, <3>1, <3>2
  <2>5. ASSUME NEW p \in Slots, np'[p] # NULL PROVE state'[np'[p]] = "USED"
    <3>1. np'[p] = np[p] /\ np[p] \in Slots /\ state[np[p]] = "USED"
      BY Zenon, <1>0, <2>1, <2>5 DEF NewIsUsed
    <3> QED
      BY Zenon, <1>0, <2>1, <3>1
  <2>6. ASSUME NEW p \in Slots, NEW q \in Slots, np'[p] # NULL, np'[p] = np'[q] PROVE p = q
    BY Zenon, <1>0, <2>1, <2>6 DEF NewIsOwn
  <2>7. ASSUME NEW p \in Slots, state'[p] \in {"UNUSED", "USED", "ZOMBIE"} PROVE cont'[p] = "run"
    BY Zenon, <1>0, <2>1, <2>7 DEF FreshRuns
  <2> QED
    BY Zenon, <2>3, <2>4, <2>5, <2>6, <2>7 DEF ForkOwns, AtLabel, AtCont, NewIsUsed, NewIsOwn, FreshRuns
<1>5. ASSUME NEW c \in Harts, Resume(c), NoFork PROVE ForkOwns'
  <2>1. /\ cproc[c] \in Slots /\ hpc[c] = "resume" /\ UNCHANGED <<np, cproc, state, cont>>
        /\ hpc' = [hpc EXCEPT ![c] = cont[cproc[c]]]
    BY Zenon, <1>5, HartFacts DEF Resume, At, Goto
  <2>2. \A d \in Harts : ~Executes(d, cproc[c])
    BY Zenon, <1>a, <2>1 DEF Executes
  <2>3. ASSUME NEW d \in Harts, NEW p \in Slots, Executes(d, p)'
        PROVE  np'[p] # NULL <=> hpc'[d] = "fork"
    <3>1. CASE d = c
      BY Zenon, <1>0, <2>1, <2>2, <2>3, <3>1 DEF AtCont, Executes
    <3>2. CASE d # c
      <4>1. Executes(d, p) /\ hpc'[d] = hpc[d]
        BY Zenon, <1>0, <2>1, <2>3, <3>2 DEF Executes
      <4> QED
        BY Zenon, <1>0, <2>1, <4>1 DEF AtLabel
    <3> QED
      BY Zenon, <3>1, <3>2
  <2>4. ASSUME NEW p \in Slots, \A d \in Harts : ~Executes(d, p)'
        PROVE  np'[p] # NULL <=> cont'[p] = "fork"
    <3>1. ASSUME NEW d \in Harts PROVE ~Executes(d, p)
      BY Zenon, <1>0, <2>1, <2>2, <2>4 DEF Executes
    <3> QED
      BY Zenon, <1>0, <2>1, <3>1 DEF AtCont
  <2> QED
    <3>1. NewIsUsed' /\ NewIsOwn' /\ FreshRuns'
      BY Zenon, <1>0, <2>1 DEF NewIsUsed, NewIsOwn, FreshRuns
    <3> QED
      BY Zenon, <2>3, <2>4, <3>1 DEF ForkOwns, AtLabel, AtCont
<1>6. ASSUME NEW c \in Harts, NEW q \in Slots, AllocProc(c, q) PROVE ForkOwns'
  <2>1. /\ cproc[c] \in Slots /\ state[cproc[c]] = "RUNNING" /\ hpc[c] = "run"
        /\ hpc' = [hpc EXCEPT ![c] = "fork"] /\ UNCHANGED cproc
        /\ np' = [np EXCEPT ![cproc[c]] = q] /\ cont' = [cont EXCEPT ![q] = "run"]
        /\ state[q] = "UNUSED" /\ state' = [state EXCEPT ![q] = "USED"]
    BY Zenon, <1>6, HartFacts DEF AllocProc, At, Goto, Me, OnCpu, Conts
  <2>2. cont[q] = "run" /\ UNCHANGED cont
    <3>1. cont[q] = "run"
      BY Zenon, <1>0, <2>1 DEF FreshRuns
    <3> QED
      BY SMT, <1>0, <2>1, <3>1
  <2>3. \A d \in Harts, p \in Slots : Executes(d, p)' <=> Executes(d, p)
    BY Zenon, <1>0, <2>1 DEF Executes
  <2>4. ASSUME NEW d \in Harts, NEW p \in Slots, Executes(d, p)'
        PROVE  np'[p] # NULL <=> hpc'[d] = "fork"
    <3>1. CASE d = c
      <4>1. p = cproc[c] /\ np'[p] = q
        BY Zenon, <1>0, <2>1, <2>4, <3>1 DEF Executes
      <4> QED
        BY Zenon, <1>0, <2>1, <3>1, <4>1, Constants
    <3>2. CASE d # c
      <4>1. Executes(d, p) /\ hpc'[d] = hpc[d] /\ p # cproc[c]
        BY Zenon, <1>0, <1>a, <2>1, <2>4, <3>2 DEF Executes
      <4>2. np'[p] = np[p]
        BY Zenon, <1>0, <2>1, <4>1
      <4> QED
        BY Zenon, <1>0, <4>1, <4>2 DEF AtLabel
    <3> QED
      BY Zenon, <3>1, <3>2
  <2>5. ASSUME NEW p \in Slots, \A d \in Harts : ~Executes(d, p)'
        PROVE  np'[p] # NULL <=> cont'[p] = "fork"
    <3>1. \A d \in Harts : ~Executes(d, p)
      BY Zenon, <2>3, <2>5
    <3>2. p # cproc[c]
      BY Zenon, <2>1, <3>1 DEF Executes
    <3> QED
      BY Zenon, <1>0, <2>1, <2>2, <3>1, <3>2 DEF AtCont
  <2>6. ASSUME NEW p \in Slots, np'[p] # NULL
        PROVE  state'[np'[p]] = "USED" /\ (p # cproc[c] => np'[p] = np[p] /\ np[p] # q)
    <3>1. CASE p = cproc[c]
      BY Zenon, <1>0, <2>1, <3>1
    <3>2. CASE p # cproc[c]
      <4>1. np'[p] = np[p] /\ np[p] \in Slots
        BY Zenon, <1>0, <2>1, <2>6, <3>2
      <4>2. state[np[p]] = "USED"
        BY Zenon, <1>0, <2>6, <4>1 DEF NewIsUsed
      <4> QED
        BY Zenon, <1>0, <2>1, <4>1, <4>2
    <3> QED
      BY Zenon, <3>1, <3>2
  <2>7. ASSUME NEW p \in Slots, NEW r \in Slots, np'[p] # NULL, np'[p] = np'[r] PROVE p = r
    <3>1. np'[cproc[c]] = q
      BY Zenon, <1>0, <2>1
    <3>2. CASE p = cproc[c] \/ r = cproc[c]
      BY Zenon, <2>6, <2>7, <3>1, <3>2
    <3>3. CASE p # cproc[c] /\ r # cproc[c]
      <4>1. np'[p] = np[p] /\ np'[r] = np[r]
        BY Zenon, <2>6, <2>7, <3>3
      <4> QED
        BY Zenon, <1>0, <2>7, <4>1 DEF NewIsOwn
    <3> QED
      BY Zenon, <3>2, <3>3
  <2>8. ASSUME NEW p \in Slots, state'[p] \in {"UNUSED", "USED", "ZOMBIE"} PROVE cont'[p] = "run"
    BY Zenon, <1>0, <2>1, <2>2, <2>8 DEF FreshRuns
  <2> QED
    BY Zenon, <2>4, <2>5, <2>6, <2>7, <2>8 DEF ForkOwns, AtLabel, AtCont, NewIsUsed, NewIsOwn, FreshRuns
<1>7. ASSUME NEW c \in Harts, ForkRunnable(c) PROVE ForkOwns'
  <2>1. /\ cproc[c] \in Slots /\ hpc[c] = "fork"
        /\ hpc' = [hpc EXCEPT ![c] = "run"] /\ UNCHANGED <<cproc, cont>>
        /\ np' = [np EXCEPT ![cproc[c]] = NULL]
        /\ state' = [state EXCEPT ![np[cproc[c]]] = "RUNNABLE"]
    BY Zenon, <1>7, HartFacts DEF ForkRunnable, At, Goto, Me, OnCpu, Conts
  <2>2. \A d \in Harts, p \in Slots : Executes(d, p)' <=> Executes(d, p)
    BY Zenon, <1>0, <2>1 DEF Executes
  <2>3. Executes(c, cproc[c]) /\ np[cproc[c]] # NULL /\ np[cproc[c]] \in Slots
    BY Zenon, <1>0, <2>1 DEF Executes, AtLabel
  <2>4. ASSUME NEW d \in Harts, NEW p \in Slots, Executes(d, p)'
        PROVE  np'[p] # NULL <=> hpc'[d] = "fork"
    <3>1. CASE d = c
      <4>1. p = cproc[c] /\ np'[p] = NULL /\ hpc'[d] = "run"
        BY Zenon, <1>0, <2>1, <2>4, <3>1 DEF Executes
      <4> QED
        BY Zenon, <4>1
    <3>2. CASE d # c
      <4>1. Executes(d, p) /\ hpc'[d] = hpc[d] /\ p # cproc[c]
        BY Zenon, <1>0, <1>a, <2>1, <2>4, <3>2 DEF Executes
      <4>2. np'[p] = np[p]
        BY Zenon, <1>0, <2>1, <4>1
      <4> QED
        BY Zenon, <1>0, <4>1, <4>2 DEF AtLabel
    <3> QED
      BY Zenon, <3>1, <3>2
  <2>5. ASSUME NEW p \in Slots, \A d \in Harts : ~Executes(d, p)'
        PROVE  np'[p] # NULL <=> cont'[p] = "fork"
    <3>1. \A d \in Harts : ~Executes(d, p)
      BY Zenon, <2>2, <2>5
    <3>2. p # cproc[c]
      BY Zenon, <2>3, <3>1
    <3> QED
      BY Zenon, <1>0, <2>1, <3>1, <3>2 DEF AtCont
  <2>6. ASSUME NEW p \in Slots, np'[p] # NULL
        PROVE  p # cproc[c] /\ np'[p] = np[p] /\ state'[np'[p]] = "USED"
    <3>1. p # cproc[c] /\ np'[p] = np[p] /\ np[p] \in Slots
      BY Zenon, <1>0, <2>1, <2>6
    <3>2. np[p] # np[cproc[c]] /\ state[np[p]] = "USED"
      BY Zenon, <1>0, <2>1, <2>3, <2>6, <3>1 DEF NewIsUsed, NewIsOwn
    <3> QED
      BY Zenon, <1>0, <2>1, <2>3, <3>1, <3>2
  <2>7. ASSUME NEW p \in Slots, NEW r \in Slots, np'[p] # NULL, np'[p] = np'[r] PROVE p = r
    <3>1. np'[p] = np[p] /\ np'[r] = np[r]
      BY Zenon, <2>6, <2>7
    <3> QED
      BY Zenon, <1>0, <2>7, <3>1 DEF NewIsOwn
  <2>8. ASSUME NEW p \in Slots, state'[p] \in {"UNUSED", "USED", "ZOMBIE"} PROVE cont'[p] = "run"
    BY Zenon, <1>0, <2>1, <2>3, <2>8 DEF FreshRuns
  <2> QED
    BY Zenon, <2>4, <2>5, <2>6, <2>7, <2>8 DEF ForkOwns, AtLabel, AtCont, NewIsUsed, NewIsOwn, FreshRuns
<1> QED
  BY Zenon, ForkShapes, <1>1, <1>2, <1>3, <1>4, <1>5, <1>6, <1>7
-----------------------------------------------------------------------------
Move(p, from, to) == state[p] = from /\ state' = [state EXCEPT ![p] = to]

(* Every change of a p->state, and the step that makes it where that       *)
(* matters below.                                                          *)
LEMMA StateSteps ==
  ASSUME IInv, Next
  PROVE  \/ UNCHANGED state
         \/ \E p \in Slots :
              \/ Move(p, "UNUSED", "USED") /\ \E c \in Harts : AllocProc(c, p)
              \/ Move(p, "ZOMBIE", "UNUSED")
              \/ Move(p, "USED", "RUNNABLE")
              \/ Move(p, "RUNNABLE", "RUNNING") /\ \E c \in Harts : Dispatch(c)
              \/ Move(p, "RUNNING", "RUNNABLE")
              \/ /\ Move(p, "RUNNING", "SLEEPING")
                 /\ \E c \in Harts : p = cproc[c] /\ (IoSleep(c) \/ TicksSleep(c))
              \/ Move(p, "SLEEPING", "RUNNABLE")
              \/ Move(p, "RUNNING", "ZOMBIE") /\ \E c \in Harts : p = cproc[c] /\ Exit(c)
<1> USE DEF Move, procs
<1>1. CASE ClockTick \/ UpdateTime \/ ClockDone
  BY Zenon, <1>1 DEF ClockTick, UpdateTime, ClockDone
<1>2. CASE ClockWakeup
  <2>1. ci \in Slots
    BY Zenon, <1>2, Constants DEF ClockWakeup, IInv, HartTypes
  <2> QED
    BY Zenon, <1>2, <2>1 DEF ClockWakeup
<1>3. ASSUME NEW p \in Slots, IoWakeup(p) PROVE Move(p, "SLEEPING", "RUNNABLE")
  BY Zenon, <1>3 DEF IoWakeup
<1>4. ASSUME NEW c \in Harts, SchedulerLoop(c), ~Dispatch(c) PROVE UNCHANGED state
  BY Zenon, <1>4 DEF SchedulerLoop, ScanSkip, ScanChoose, ScanReject, ScanAgain, Resume, SwtchBack
<1>5. ASSUME NEW c \in Harts, Dispatch(c)
      PROVE  best[c] \in Slots /\ Move(best[c], "RUNNABLE", "RUNNING")
  <2>1. best[c] \in Slots /\ state[best[c]] = "RUNNABLE"
    BY Zenon, <1>5, HartFacts DEF Dispatch, At, IInv, Candidate
  <2> QED
    BY Zenon, <1>5, <2>1 DEF Dispatch
<1>6. ASSUME NEW c \in Harts, hpc[c] \in OnCpu PROVE cproc[c] \in Slots /\ state[cproc[c]] = "RUNNING"
  BY Zenon, <1>6, HartFacts
<1>7. ASSUME NEW c \in Harts, TimerYield(c) \/ Yield(c)
      PROVE  cproc[c] \in Slots /\ Move(cproc[c], "RUNNING", "RUNNABLE")
  BY Zenon, <1>6, <1>7 DEF TimerYield, Yield, At, Sched, Me, OnCpu, Conts
<1>8. ASSUME NEW c \in Harts, IoSleep(c) \/ TicksSleep(c)
      PROVE  cproc[c] \in Slots /\ Move(cproc[c], "RUNNING", "SLEEPING")
  BY Zenon, <1>6, <1>8 DEF IoSleep, TicksSleep, At, Sched, Me, OnCpu, Conts
<1>9. ASSUME NEW c \in Harts, Exit(c)
      PROVE  cproc[c] \in Slots /\ Move(cproc[c], "RUNNING", "ZOMBIE")
  BY Zenon, <1>6, <1>9 DEF Exit, At, Sched, Me, OnCpu, Conts
<1>10. ASSUME NEW c \in Harts, SysSleep(c) \/ SysSleepMore(c) \/ SysSleepDone(c) \/ Relock(c)
       PROVE  UNCHANGED state
  BY Zenon, <1>10 DEF SysSleep, SysSleepMore, SysSleepDone, Relock
<1>11. ASSUME NEW c \in Harts, ForkRunnable(c)
       PROVE  np[cproc[c]] \in Slots /\ Move(np[cproc[c]], "USED", "RUNNABLE")
  <2>1. cproc[c] \in Slots /\ Executes(c, cproc[c]) /\ hpc[c] = "fork"
    BY Zenon, <1>6, <1>11 DEF ForkRunnable, At, Executes, OnCpu, Conts
  <2>2. np[cproc[c]] # NULL
    BY Zenon, <2>1 DEF IInv, ForkOwns, AtLabel
  <2>3. np[cproc[c]] \in Slots /\ state[np[cproc[c]]] = "USED"
    BY Zenon, <2>1, <2>2 DEF IInv, ProcTypes, ForkOwns, NewIsUsed
  <2> QED
    BY Zenon, <1>11, <2>3 DEF ForkRunnable, Me
<1>12. ASSUME NEW c \in Harts, NEW q \in Slots, AllocProc(c, q) PROVE Move(q, "UNUSED", "USED")
  BY Zenon, <1>12 DEF AllocProc
<1>13. ASSUME NEW c \in Harts, NEW q \in Slots, Waitx(c, q) PROVE Move(q, "ZOMBIE", "UNUSED")
  BY Zenon, <1>13 DEF Waitx
<1>14. ASSUME NEW c \in Harts, NEW q \in Slots, NEW v \in Prios, SetPriority(c, q, v)
       PROVE  UNCHANGED state
  BY Zenon, <1>14 DEF SetPriority
<1> HIDE DEF Move
<1>15. CASE \E c \in Harts : Process(c)
  BY Zenon, <1>15, <1>7, <1>8, <1>9, <1>10, <1>11, <1>12, <1>13, <1>14 DEF Process
<1>16. CASE \E c \in Harts : SchedulerLoop(c)
  BY Zenon, <1>16, <1>4, <1>5
<1> QED
  BY Zenon, <1>1, <1>2, <1>3, <1>15, <1>16 DEF Next, Clock, Move
-----------------------------------------------------------------------------
(* What the steps do to tickslock.  Hart 0 does nothing else during its    *)
(* clock interrupt.                                                        *)
InSleep == {"test", "sleep"}

Local(c) ==
  /\ c = 0 => clk = "off"
  /\ UNCHANGED <<clk, ci, ticks>>
  /\ \A d \in Harts \ {c} : hpc'[d] = hpc[d] /\ best'[d] = best[d]

Keeps(c) == UNCHANGED tickslock /\ (hpc'[c] \in InSleep <=> hpc[c] \in InSleep)
Takes(c) == tickslock = NULL /\ tickslock' = c /\ hpc'[c] = "test"
Gives(c) == hpc[c] \in InSleep /\ tickslock' = NULL /\ hpc'[c] \in {"swtch", "run"}

LEMMA TicksLockSteps ==
  ASSUME IInv, Next
  PROVE  \/ Clock
         \/ UNCHANGED <<hart, clock>>
         \/ \E c \in Harts : Local(c) /\ (Keeps(c) \/ Takes(c) \/ Gives(c))
<1>0. hpc \in [Harts -> Labels] /\ best \in [Harts -> Slots \cup {NULL}]
  BY Zenon DEF IInv, HartTypes
<1> USE DEF clock, At, Goto
<1>1. ASSUME NEW p \in Slots, IoWakeup(p) PROVE UNCHANGED <<hart, clock>>
  BY Zenon, <1>1 DEF IoWakeup
<1>2. ASSUME NEW c \in Harts, ScanSkip(c) \/ ScanReject(c) \/ ScanAgain(c) PROVE Local(c) /\ Keeps(c)
  BY Zenon, <1>0, <1>2 DEF ScanSkip, ScanReject, ScanAgain, Scanning, Local, Keeps, InSleep
<1>3. ASSUME NEW c \in Harts, ScanChoose(c) \/ Dispatch(c) PROVE Local(c) /\ Keeps(c)
  BY Zenon, <1>0, <1>3 DEF ScanChoose, Dispatch, Scanning, Local, Keeps, InSleep
<1>4. ASSUME NEW c \in Harts, Resume(c) PROVE Local(c) /\ Keeps(c)
  <2>1. cont[cproc[c]] \in Conts
    BY Zenon, <1>4, HartFacts DEF Resume, IInv, ProcTypes
  <2> QED
    BY Zenon, <1>0, <1>4, <2>1 DEF Resume, Local, Keeps, InSleep, Conts
<1>5. ASSUME NEW c \in Harts, SwtchBack(c) PROVE Local(c) /\ Keeps(c)
  BY Zenon, <1>0, <1>5 DEF SwtchBack, Local, Keeps, InSleep
<1>6. ASSUME NEW c \in Harts, TimerYield(c) PROVE Local(c) /\ Keeps(c)
  BY Zenon, <1>0, <1>6 DEF TimerYield, Sched, Local, Keeps, InSleep
<1>7. ASSUME NEW c \in Harts, Yield(c) \/ IoSleep(c) \/ Exit(c) PROVE Local(c) /\ Keeps(c)
  BY Zenon, <1>0, <1>7 DEF Yield, IoSleep, Exit, Sched, Local, Keeps, InSleep
<1>8. ASSUME NEW c \in Harts, SysSleep(c) \/ Relock(c) PROVE Local(c) /\ Takes(c)
  BY Zenon, <1>0, <1>8 DEF SysSleep, Relock, Local, Takes
<1>9. ASSUME NEW c \in Harts, SysSleepMore(c) PROVE Local(c) /\ Keeps(c)
  BY Zenon, <1>0, <1>9 DEF SysSleepMore, Local, Keeps, InSleep
<1>10. ASSUME NEW c \in Harts, TicksSleep(c) \/ SysSleepDone(c) PROVE Local(c) /\ Gives(c)
  BY Zenon, <1>0, <1>10 DEF TicksSleep, SysSleepDone, Sched, Local, Gives, InSleep
<1>11. ASSUME NEW c \in Harts, ForkRunnable(c) PROVE Local(c) /\ Keeps(c)
  BY Zenon, <1>0, <1>11 DEF ForkRunnable, Local, Keeps, InSleep
<1>12. ASSUME NEW c \in Harts, NEW q \in Slots, AllocProc(c, q) PROVE Local(c) /\ Keeps(c)
  BY Zenon, <1>0, <1>12 DEF AllocProc, Local, Keeps, InSleep
<1>13. ASSUME NEW c \in Harts, NEW q \in Slots, Waitx(c, q) PROVE Local(c) /\ Keeps(c)
  BY Zenon, <1>0, <1>13 DEF Waitx, hart, Local, Keeps, InSleep
<1>14. ASSUME NEW c \in Harts, NEW q \in Slots, NEW v \in Prios, SetPriority(c, q, v)
       PROVE  Local(c) /\ Keeps(c)
  BY Zenon, <1>0, <1>14 DEF SetPriority, Local, Keeps, InSleep
<1>15. CASE \E c \in Harts : SchedulerLoop(c)
  BY Zenon, <1>15, <1>2, <1>3, <1>4, <1>5 DEF SchedulerLoop
<1>16. CASE \E c \in Harts : Process(c)
  BY Zenon, <1>16, <1>6, <1>7, <1>8, <1>9, <1>10, <1>11, <1>12, <1>13, <1>14 DEF Process
<1> QED
  BY Zenon, <1>1, <1>15, <1>16 DEF Next

LEMMA TicksLockStep ==
  ASSUME IInv, Next
  PROVE  TicksLock'
<1>0. /\ TicksLock /\ hpc \in [Harts -> Labels] /\ tickslock \in Harts \cup {NULL}
      /\ ci \in 0 .. NPROC /\ 0 \in Harts /\ NULL \notin Harts
  BY Zenon, Constants DEF IInv, HartTypes
<1>1. CASE UNCHANGED <<hart, clock>>
  BY Zenon, <1>0, <1>1 DEF TicksLock, hart, clock
<1>2. CASE Clock
  <2>1. UNCHANGED <<hpc, best>>
    BY Zenon, <1>2 DEF Clock, ClockTick, UpdateTime, ClockWakeup, ClockDone, hart
  <2>2. CASE ClockTick
    <3>1. /\ tickslock = NULL /\ tickslock' = 0 /\ clk' = "update" /\ ci' = 0
          /\ hpc[0] \in Conts \/ (hpc[0] = "scan" /\ best[0] = NULL)
      BY Zenon, <2>2 DEF ClockTick, Interruptible, At, Conts
    <3>2. ci' < NPROC
      BY SMT, <3>1, SchedulerConstants
    <3>3. \A c \in Harts : hpc[c] \notin {"test", "sleep"}
      BY Zenon, <1>0, <3>1 DEF TicksLock
    <3> QED
      BY Zenon, <2>1, <3>1, <3>2, <3>3 DEF TicksLock
  <2>3. CASE UpdateTime
    <3>1. /\ clk = "update" /\ tickslock' = tickslock
          /\ (clk' = "update" /\ ci' = ci + 1 /\ ci + 1 < NPROC) \/ clk' = "wakeup"
      BY Zenon, <2>3 DEF UpdateTime
    <3> QED
      BY Zenon, <1>0, <2>1, <3>1 DEF TicksLock
  <2>4. CASE ClockWakeup
    <3>1. clk = "wakeup" /\ UNCHANGED <<clk, tickslock>>
      BY Zenon, <2>4 DEF ClockWakeup
    <3> QED
      BY Zenon, <1>0, <2>1, <3>1 DEF TicksLock
  <2>5. CASE ClockDone
    <3>1. clk = "wakeup" /\ clk' = "off" /\ tickslock' = NULL
      BY Zenon, <2>5 DEF ClockDone
    <3>2. tickslock = 0 /\ hpc[0] \notin {"test", "sleep"}
      BY Zenon, <1>0, <3>1 DEF TicksLock, Conts
    <3>3. \A c \in Harts : hpc[c] \notin {"test", "sleep"}
      BY Zenon, <1>0, <3>2 DEF TicksLock
    <3> QED
      BY Zenon, <2>1, <3>1, <3>3 DEF TicksLock
  <2> QED
    BY Zenon, <1>2, <2>2, <2>3, <2>4, <2>5 DEF Clock
<1>3. ASSUME NEW c \in Harts, Local(c), Keeps(c) \/ Takes(c) \/ Gives(c) PROVE TicksLock'
  <2>1. /\ c = 0 => clk = "off"
        /\ UNCHANGED <<clk, ci>>
        /\ \A d \in Harts \ {c} : hpc'[d] = hpc[d] /\ best'[d] = best[d]
    BY Zenon, <1>3 DEF Local
  <2>2. CASE Keeps(c)
    <3>1. \A d \in Harts : hpc'[d] \in {"test", "sleep"} <=> hpc[d] \in {"test", "sleep"}
      BY Zenon, <2>1, <2>2 DEF Keeps, InSleep
    <3>2. UNCHANGED tickslock
      BY Zenon, <2>2 DEF Keeps
    <3> QED
      BY Zenon, <1>0, <2>1, <3>1, <3>2 DEF TicksLock
  <2>3. CASE Takes(c)
    <3>1. tickslock = NULL /\ tickslock' = c /\ hpc'[c] = "test"
      BY Zenon, <2>3 DEF Takes
    <3>2. clk = "off" /\ \A d \in Harts : hpc[d] \notin {"test", "sleep"}
      BY Zenon, <1>0, <3>1 DEF TicksLock
    <3> QED
      BY Zenon, <2>1, <3>1, <3>2 DEF TicksLock
  <2>4. CASE Gives(c)
    <3>1. hpc[c] \in {"test", "sleep"} /\ tickslock' = NULL /\ hpc'[c] \in {"swtch", "run"}
      BY Zenon, <2>4 DEF Gives, InSleep
    <3>2. tickslock = c
      BY Zenon, <1>0, <3>1 DEF TicksLock
    <3>3. clk = "off" /\ \A d \in Harts \ {c} : hpc[d] \notin {"test", "sleep"}
      BY Zenon, <1>0, <2>1, <3>2 DEF TicksLock
    <3> QED
      BY Zenon, <2>1, <3>1, <3>3 DEF TicksLock
  <2> QED
    BY Zenon, <1>3, <2>2, <2>3, <2>4
<1> QED
  BY Zenon, TicksLockSteps, <1>1, <1>2, <1>3

(* A slot that sleeps in sys_sleep() after a step did so before it, or     *)
(* just called sleep().                                                    *)
LEMMA SleeperSteps ==
  ASSUME IInv, Next, NEW p \in Slots, state'[p] = "SLEEPING", chan'[p] = "ticks"
  PROVE  \/ state[p] = "SLEEPING" /\ chan[p] = "ticks" /\ ticks0'[p] = ticks0[p]
         \/ \E c \in Harts : TicksSleep(c) /\ p = cproc[c]
<1>0. state \in [Slots -> States] /\ chan \in [Slots -> {"ticks", "io", "none"}]
      /\ ticks0 \in [Slots -> Nat]
  BY Zenon DEF IInv, ProcTypes, TimeTypes
<1>1. CASE state[p] # "SLEEPING"
  <2>1. \E c \in Harts : p = cproc[c] /\ (IoSleep(c) \/ TicksSleep(c))
    BY Zenon, <1>0, <1>1, StateSteps DEF Move
  <2>2. ASSUME NEW c \in Harts, p = cproc[c], IoSleep(c) PROVE FALSE
    BY Zenon, <1>0, <2>2 DEF IoSleep, Me
  <2> QED
    BY Zenon, <2>1, <2>2
<1>2. CASE state[p] = "SLEEPING"
  <2>1. ASSUME NEW c \in Harts, hpc[c] \notin {"scan", "swtch"} PROVE cproc[c] # p
    BY Zenon, <1>2, <2>1 DEF IInv, OneHart
  <2>2. chan'[p] = chan[p]
    <3>1. CASE UNCHANGED chan
      BY Zenon, <3>1
    <3>2. ASSUME NEW c \in Harts, IoSleep(c) \/ TicksSleep(c) \/ Resume(c) PROVE chan'[p] = chan[p]
      <4>1. hpc[c] \notin {"scan", "swtch"}
        BY Zenon, <3>2 DEF IoSleep, TicksSleep, Resume, At
      <4> QED
        BY Zenon, <1>0, <2>1, <3>2, <4>1 DEF IoSleep, TicksSleep, Resume, Me
    <3>3. CASE Clock \/ \E q \in Slots : IoWakeup(q)
      BY Zenon, <3>1, <3>3 DEF Clock, ClockTick, UpdateTime, ClockWakeup, ClockDone, IoWakeup, procs
    <3>4. ASSUME NEW c \in Harts, SchedulerLoop(c) PROVE UNCHANGED chan \/ Resume(c)
      BY Zenon, <3>4 DEF SchedulerLoop, ScanSkip, ScanChoose, ScanReject, ScanAgain, Dispatch,
         SwtchBack, procs
    <3>5. ASSUME NEW c \in Harts, Process(c) PROVE UNCHANGED chan \/ IoSleep(c) \/ TicksSleep(c)
      BY Zenon, <3>5 DEF Process, TimerYield, Yield, Exit, SysSleep, SysSleepMore, SysSleepDone,
         Relock, ForkRunnable, AllocProc, Waitx, SetPriority, procs
    <3> QED
      BY Zenon, <3>1, <3>2, <3>3, <3>4, <3>5 DEF Next
  <2>3. ticks0'[p] = ticks0[p]
    <3>1. ASSUME NEW c \in Harts, SysSleep(c) PROVE ticks0'[p] = ticks0[p]
      <4>1. cproc[c] # p
        BY Zenon, <2>1, <3>1 DEF SysSleep, At
      <4> QED
        BY Zenon, <1>0, <3>1, <4>1 DEF SysSleep, Me
    <3>2. CASE ~\E c \in Harts : SysSleep(c)
      BY Zenon, <3>2, TimeSteps DEF ClockTick, UpdateTime, Dispatch, Exit, AllocProc, SetPriority, procs
    <3> QED
      BY Zenon, <3>1, <3>2
  <2> QED
    BY Zenon, <1>2, <2>2, <2>3
<1> QED
  BY Zenon, <1>1, <1>2

(* A hart comes to the sleep() of sys_sleep() only by the test of ticks,   *)
(* and stays with its process until it has called sleep().                 *)
LEMMA SleepLabel ==
  ASSUME IInv, Next, NEW d \in Harts, hpc'[d] = "sleep"
  PROVE  SysSleepMore(d) \/ (hpc[d] = "sleep" /\ cproc'[d] = cproc[d])
<1>0. hpc \in [Harts -> Labels] /\ cproc \in [Harts -> Slots \cup {NULL}]
  BY Zenon DEF IInv, HartTypes
<1> SUFFICES ASSUME ~SysSleepMore(d) PROVE hpc[d] = "sleep" /\ cproc'[d] = cproc[d]
  BY Zenon
<1> USE <1>0 DEF Goto, hart
<1>1. CASE Clock \/ \E p \in Slots : IoWakeup(p)
  BY Zenon, <1>1 DEF Clock, ClockTick, UpdateTime, ClockWakeup, ClockDone, IoWakeup
<1>2. ASSUME NEW c \in Harts, ScanSkip(c) \/ ScanChoose(c) \/ ScanReject(c) \/ ScanAgain(c)
      PROVE  UNCHANGED <<hpc, cproc>>
  BY Zenon, <1>2 DEF ScanSkip, ScanChoose, ScanReject, ScanAgain
<1>3. ASSUME NEW c \in Harts, Dispatch(c) \/ SwtchBack(c)
      PROVE  hpc[d] = "sleep" /\ cproc'[d] = cproc[d]
  BY Zenon, <1>3 DEF Dispatch, SwtchBack
<1>4. ASSUME NEW c \in Harts, Resume(c) PROVE hpc[d] = "sleep" /\ cproc'[d] = cproc[d]
  <2>1. cont[cproc[c]] # "sleep"
    BY Zenon, <1>4, HartFacts DEF Resume, At, IInv, ProcTypes, Conts
  <2> QED
    BY Zenon, <1>4, <2>1 DEF Resume
<1>5. ASSUME NEW c \in Harts, Process(c) PROVE hpc[d] = "sleep" /\ cproc'[d] = cproc[d]
  <2>1. UNCHANGED cproc
    BY Zenon, <1>5 DEF Process, TimerYield, Yield, IoSleep, Exit, SysSleep, SysSleepMore, TicksSleep,
       SysSleepDone, Relock, ForkRunnable, AllocProc, Waitx, SetPriority
  <2>2. ASSUME NEW l \in {"swtch", "test", "run", "fork", "yield"}, hpc' = [hpc EXCEPT ![c] = l]
        PROVE  hpc[d] = "sleep"
    BY Zenon, <2>2
  <2>3. CASE TimerYield(c) \/ Yield(c) \/ IoSleep(c) \/ Exit(c) \/ TicksSleep(c)
    BY Zenon, <2>2, <2>3 DEF TimerYield, Yield, IoSleep, Exit, TicksSleep, Sched
  <2>4. CASE SysSleep(c) \/ SysSleepDone(c) \/ Relock(c) \/ ForkRunnable(c)
    BY Zenon, <2>2, <2>4 DEF SysSleep, SysSleepDone, Relock, ForkRunnable
  <2>5. CASE SysSleepMore(c)
    BY Zenon, <2>5 DEF SysSleepMore
  <2>6. ASSUME NEW q \in Slots, AllocProc(c, q) \/ Waitx(c, q) PROVE hpc[d] = "sleep"
    BY Zenon, <2>2, <2>6 DEF AllocProc, Waitx
  <2>7. ASSUME NEW q \in Slots, NEW v \in Prios, SetPriority(c, q, v) PROVE hpc[d] = "sleep"
    BY Zenon, <2>2, <2>7 DEF SetPriority
  <2> QED
    BY Zenon, <1>5, <2>1, <2>3, <2>4, <2>5, <2>6, <2>7 DEF Process
<1> QED
  BY Zenon, <1>1, <1>2, <1>3, <1>4, <1>5 DEF Next, SchedulerLoop

LEMMA SleepersStep ==
  ASSUME IInv, Next
  PROVE  Sleepers'
<1>0. /\ Sleepers /\ ticks \in Nat /\ ticks0 \in [Slots -> Nat] /\ TicksLock
      /\ NULL \notin Harts /\ 0 \in Harts
  BY Zenon, Constants DEF IInv, TimeTypes
<1>1. ASSUME NEW d \in Harts, hpc'[d] = "sleep" PROVE ticks' - ticks0'[cproc'[d]] < SleepFor
  <2>1. CASE SysSleepMore(d)
    BY Zenon, <2>1 DEF SysSleepMore, Me, procs, clock
  <2>2. CASE hpc[d] = "sleep" /\ cproc'[d] = cproc[d]
    <3>1. tickslock = d
      BY Zenon, <1>0, <2>2 DEF TicksLock
    <3>2. ~ClockTick /\ \A c \in Harts : ~SysSleep(c)
      BY Zenon, <1>0, <3>1 DEF ClockTick, SysSleep
    <3>3. UNCHANGED <<ticks, ticks0>>
      BY Zenon, <3>2, TimeSteps DEF UpdateTime, Dispatch, Exit, AllocProc, SetPriority, clock
    <3> QED
      BY Zenon, <1>0, <2>2, <3>3 DEF Sleepers
  <2> QED
    BY Zenon, <1>1, <2>1, <2>2, SleepLabel
<1>2. ASSUME NEW p \in Slots, state'[p] = "SLEEPING", chan'[p] = "ticks"
      PROVE  \/ ticks' - ticks0'[p] < SleepFor
             \/ clk' = "update"
             \/ clk' = "wakeup" /\ ci' <= p
  <2>1. ASSUME NEW c \in Harts, TicksSleep(c), p = cproc[c] PROVE ticks' - ticks0'[p] < SleepFor
    <3>1. hpc[c] = "sleep" /\ UNCHANGED <<ticks, ticks0>>
      BY Zenon, <2>1 DEF TicksSleep, At
    <3> QED
      BY Zenon, <1>0, <2>1, <3>1 DEF Sleepers
  <2>2. CASE state[p] = "SLEEPING" /\ chan[p] = "ticks" /\ ticks0'[p] = ticks0[p]
    <3>1. \/ ticks - ticks0[p] < SleepFor
          \/ clk = "update"
          \/ clk = "wakeup" /\ ci <= p
      BY Zenon, <1>0, <2>2 DEF Sleepers
    <3>2. CASE UNCHANGED <<ticks, clk, ci>>
      BY Zenon, <2>2, <3>1, <3>2
    <3>3. CASE ClockTick
      BY Zenon, <3>3 DEF ClockTick
    <3>4. CASE UpdateTime
      <4>1. clk' = "update" \/ (clk' = "wakeup" /\ ci' = 0)
        BY Zenon, <3>4 DEF UpdateTime
      <4>2. 0 <= p
        BY SMT DEF Slots
      <4> QED
        BY Zenon, <4>1, <4>2
    <3>5. CASE ClockWakeup
      <4>1. clk = "wakeup" /\ clk' = "wakeup" /\ ci' = ci + 1 /\ UNCHANGED ticks
        BY Zenon, <3>5 DEF ClockWakeup
      <4>2. ci # p
        <5>1. cproc[0] # p
          <6>1. hpc[0] \in Conts \/ hpc[0] = "scan"
            BY Zenon, <1>0, <4>1 DEF TicksLock
          <6>2. CASE hpc[0] = "scan"
            BY Zenon, <6>2, Constants DEF IInv, Current
          <6>3. CASE hpc[0] \in Conts
            <7>1. state[cproc[0]] = "RUNNING"
              BY Zenon, <1>0, <6>3, HartFacts DEF OnCpu
            <7> QED
              BY Zenon, <2>2, <7>1
          <6> QED
            BY Zenon, <6>1, <6>2, <6>3
        <5>2. state \in [Slots -> States]
          BY Zenon DEF IInv, ProcTypes
        <5> QED
          BY Zenon, <1>2, <2>2, <3>5, <5>1, <5>2 DEF ClockWakeup
      <4>3. ci \in Int /\ p \in Int
        <5>1. ci \in 0 .. NPROC /\ NPROC \in Nat /\ p \in Nat
          BY Zenon, Constants DEF IInv, HartTypes
        <5> QED
          BY SMT, <5>1
      <4>4. ci <= p => ci + 1 <= p
        BY SMT, <4>2, <4>3
      <4> QED
        BY Zenon, <2>2, <3>1, <4>1, <4>4
    <3>6. CASE ClockDone
      <4>1. clk = "wakeup" /\ ci = NPROC /\ UNCHANGED ticks
        BY Zenon, <3>6 DEF ClockDone
      <4>2. ~(NPROC <= p)
        BY SMT, SchedulerConstants DEF Slots
      <4> QED
        BY Zenon, <2>2, <3>1, <4>1, <4>2
    <3> QED
      BY Zenon, TicksLockSteps, <3>2, <3>3, <3>4, <3>5, <3>6 DEF Clock, clock, Local
  <2> QED
    BY Zenon, <1>2, <2>1, <2>2, SleeperSteps
<1> QED
  BY Zenon, <1>1, <1>2 DEF Sleepers
-----------------------------------------------------------------------------
(* Where a slot comes to life, and where it dies. *)
LEMMA LifeSteps ==
  ASSUME IInv, Next, NEW p \in Slots
  PROVE  /\ state'[p] # "UNUSED" => state[p] # "UNUSED" \/ \E c \in Harts : AllocProc(c, p)
         /\ state'[p] = "ZOMBIE" => state[p] = "ZOMBIE" \/ \E c \in Harts : p = cproc[c] /\ Exit(c)
<1>0. state \in [Slots -> States]
  BY Zenon DEF IInv, ProcTypes
<1> QED
  BY Zenon, <1>0, StateSteps DEF Move

(* Outside update_time() and allocproc() the total of a slot stays, and    *)
(* its run_time stays or starts again.                                     *)
LEMMA TotalSteps ==
  ASSUME IInv, Next, NEW p \in Slots, ~UpdateTime, \A c \in Harts : ~AllocProc(c, p)
  PROVE  /\ total_run_time'[p] = total_run_time[p] /\ create_time'[p] = create_time[p]
         /\ run_time'[p] = run_time[p] \/ run_time'[p] = 0
<1>0. TimeTypes
  BY Zenon DEF IInv
<1> USE <1>0 DEF TimeTypes, times, procs
<1>1. ASSUME NEW c \in Harts, Dispatch(c) PROVE run_time'[p] = run_time[p] \/ run_time'[p] = 0
  BY Zenon, <1>1 DEF Dispatch
<1>2. ASSUME NEW c \in Harts, NEW q \in Slots, AllocProc(c, q)
      PROVE  /\ total_run_time'[p] = total_run_time[p] /\ create_time'[p] = create_time[p]
             /\ run_time'[p] = run_time[p] \/ run_time'[p] = 0
  BY Zenon, <1>2 DEF AllocProc
<1>3. ASSUME NEW c \in Harts, NEW q \in Slots, NEW v \in Prios, SetPriority(c, q, v)
      PROVE  run_time'[p] = run_time[p] \/ run_time'[p] = 0
  BY Zenon, <1>3 DEF SetPriority
<1>4. ASSUME NEW c \in Harts, NEW q \in Slots, NEW v \in Prios, SetPriority(c, q, v)
      PROVE  UNCHANGED <<total_run_time, create_time>>
  BY Zenon, <1>4 DEF SetPriority
<1>5. ASSUME NEW c \in Harts, Dispatch(c) \/ Exit(c) \/ SysSleep(c)
      PROVE  UNCHANGED <<total_run_time, create_time>>
  BY Zenon, <1>5 DEF Dispatch, Exit, SysSleep
<1>6. ASSUME NEW c \in Harts, Exit(c) \/ SysSleep(c) PROVE UNCHANGED run_time
  BY Zenon, <1>6 DEF Exit, SysSleep
<1>7. CASE ClockTick
  BY Zenon, <1>7 DEF ClockTick
<1>8. CASE UNCHANGED <<times, ticks0, ticks, priority>>
  BY Zenon, <1>8
<1> QED
  BY Zenon, TimeSteps, <1>1, <1>2, <1>3, <1>4, <1>5, <1>6, <1>7, <1>8

(* Outside the clock interrupt, what remains to be charged stays. *)
LEMMA UnchargedSteps ==
  ASSUME IInv, Next, NEW p \in Slots, ~ClockTick, ~UpdateTime
  PROVE  ticks' = ticks /\ (Uncharged(p)' => Uncharged(p))
<1>1. CASE ClockWakeup \/ ClockDone
  BY Zenon, <1>1 DEF ClockWakeup, ClockDone, Uncharged
<1>2. CASE UNCHANGED <<ticks, clk, ci>>
  BY Zenon, <1>2 DEF Uncharged
<1> QED
  BY Zenon, <1>1, <1>2, TicksLockSteps DEF Clock, clock, Local

LEMMA ChargedStep ==
  ASSUME IInv, Next
  PROVE  Charged'
<1>0. /\ Charged /\ ticks \in Nat /\ state \in [Slots -> States]
      /\ run_time \in [Slots -> Nat] /\ total_run_time \in [Slots -> Nat]
      /\ create_time \in [Slots -> Nat] /\ exit_time \in [Slots -> Nat]
  BY Zenon DEF IInv, TimeTypes, ProcTypes
<1>a. ASSUME NEW p \in Slots
      PROVE  /\ run_time[p] \in Nat /\ total_run_time[p] \in Nat /\ create_time[p] \in Nat
             /\ run_time[p] <= total_run_time[p]
             /\ state[p] # "UNUSED" =>
                  /\ total_run_time[p] <= ticks - create_time[p] + 1
                  /\ Uncharged(p) => total_run_time[p] <= ticks - create_time[p]
  <2>1. run_time[p] \in Nat /\ total_run_time[p] \in Nat /\ create_time[p] \in Nat
    BY Zenon, <1>0
  <2>2. run_time[p] <= total_run_time[p]
    BY Zenon, <1>0 DEF Charged
  <2>3. ASSUME state[p] # "UNUSED"
        PROVE  total_run_time[p] <= ticks - create_time[p] + (IF Uncharged(p) THEN 0 ELSE 1)
    BY Zenon, <1>0, <2>3 DEF Charged
  <2>4. CASE Uncharged(p)
    BY SMT, <1>0, <2>1, <2>2, <2>3, <2>4
  <2>5. CASE ~Uncharged(p)
    BY SMT, <1>0, <2>1, <2>2, <2>3, <2>5
  <2> QED
    BY Zenon, <2>4, <2>5
<1>b. ASSUME NEW c \in Harts, NEW p \in Slots, AllocProc(c, p)
      PROVE  /\ run_time'[p] = 0 /\ total_run_time'[p] = 0 /\ create_time'[p] = ticks
             /\ ticks' = ticks /\ state'[p] = "USED"
  BY Zenon, <1>0, <1>b DEF AllocProc, clock
<1>c. ASSUME UpdateTime, NEW p \in Slots
      PROVE  /\ UNCHANGED <<create_time, exit_time, state, ticks>>
             /\ \/ /\ p = ci /\ state[p] = "RUNNING" /\ total_run_time'[p] = total_run_time[p] + 1
                   /\ run_time'[p] = run_time[p] + 1
                \/ total_run_time'[p] = total_run_time[p] /\ run_time'[p] = run_time[p]
  BY Zenon, <1>0, <1>c DEF UpdateTime
<1>1. ASSUME NEW p \in Slots PROVE run_time'[p] <= total_run_time'[p]
  <2>1. CASE \E c \in Harts : AllocProc(c, p)
    BY SMT, <1>b, <2>1
  <2>2. CASE UpdateTime
    BY SMT, <1>a, <1>c, <2>2
  <2>3. CASE ~UpdateTime /\ ~\E c \in Harts : AllocProc(c, p)
    <3>1. total_run_time'[p] = total_run_time[p] /\ (run_time'[p] = run_time[p] \/ run_time'[p] = 0)
      BY Zenon, <2>3, TotalSteps
    <3> QED
      BY SMT, <1>a, <3>1
  <2> QED
    BY Zenon, <2>1, <2>2, <2>3
<1>2. ASSUME NEW p \in Slots, state'[p] # "UNUSED"
      PROVE  total_run_time'[p] <= ticks' - create_time'[p] + (IF Uncharged(p)' THEN 0 ELSE 1)
  <2>1. CASE \E c \in Harts : AllocProc(c, p)
    BY SMT, <1>0, <1>b, <2>1
  <2>2. CASE ~\E c \in Harts : AllocProc(c, p)
    <3>1. state[p] # "UNUSED"
      BY Zenon, <1>2, <2>2, LifeSteps
    <3>2. CASE ClockTick
      <4>1. ticks' = ticks + 1 /\ UNCHANGED <<total_run_time, create_time>>
        BY Zenon, <3>2 DEF ClockTick, procs, times
      <4> QED
        BY SMT, <1>0, <1>a, <3>1, <4>1
    <3>3. CASE UpdateTime
      <4>1. CASE p = ci
        <5>1. Uncharged(p) /\ ~Uncharged(p)'
          <6>1. ci \in Nat
            BY Zenon, <4>1, Constants
          <6>2. clk = "update" /\ (clk' = "wakeup" \/ ci' = ci + 1)
            BY Zenon, <3>3 DEF UpdateTime
          <6> QED
            BY SMT, <4>1, <6>1, <6>2 DEF Uncharged
        <5>2. total_run_time'[p] \in {total_run_time[p], total_run_time[p] + 1}
          BY Zenon, <1>c, <3>3
        <5> QED
          BY SMT, <1>0, <1>a, <1>c, <3>1, <3>3, <5>1, <5>2
      <4>2. CASE p # ci
        <5>1. Uncharged(p)' => Uncharged(p)
          <6>1. ci \in 0 .. NPROC /\ NPROC \in Nat /\ p \in Nat
            BY Zenon, Constants DEF IInv, HartTypes
          <6>2. clk = "update" /\ (clk' = "wakeup" \/ ci' = ci + 1)
            BY Zenon, <3>3 DEF UpdateTime
          <6> QED
            BY SMT, <6>1, <6>2 DEF Uncharged
        <5>2. total_run_time'[p] = total_run_time[p] /\ UNCHANGED <<create_time, ticks>>
          BY Zenon, <1>c, <3>3, <4>2
        <5> QED
          BY SMT, <1>0, <1>a, <3>1, <5>1, <5>2
      <4> QED
        BY Zenon, <4>1, <4>2
    <3>4. CASE ~ClockTick /\ ~UpdateTime
      <4>1. ticks' = ticks /\ (Uncharged(p)' => Uncharged(p))
        BY Zenon, <3>4, UnchargedSteps
      <4>2. total_run_time'[p] = total_run_time[p] /\ create_time'[p] = create_time[p]
        BY Zenon, <2>2, <3>4, TotalSteps
      <4> QED
        BY SMT, <1>0, <1>a, <3>1, <4>1, <4>2
    <3> QED
      BY Zenon, <3>2, <3>3, <3>4
  <2> QED
    BY Zenon, <2>1, <2>2
<1>3. ASSUME NEW p \in Slots, state'[p] = "ZOMBIE"
      PROVE  total_run_time'[p] <= exit_time'[p] - create_time'[p] + 1
  <2>1. ASSUME NEW c \in Harts, p = cproc[c], Exit(c)
        PROVE  total_run_time'[p] <= exit_time'[p] - create_time'[p] + 1
    <3>1. exit_time'[p] = ticks /\ UNCHANGED <<total_run_time, create_time>>
      BY Zenon, <1>0, <2>1 DEF Exit, Me
    <3>2. state[p] = "RUNNING"
      BY Zenon, <2>1, HartFacts DEF Exit, At, OnCpu, Conts
    <3> QED
      BY SMT, <1>a, <3>1, <3>2
  <2>2. CASE state[p] = "ZOMBIE"
    <3>1. total_run_time[p] <= exit_time[p] - create_time[p] + 1
      BY Zenon, <1>0, <2>2 DEF Charged
    <3>2. \A c \in Harts : ~AllocProc(c, p)
      BY Zenon, <2>2 DEF AllocProc
    <3>3. ASSUME NEW c \in Harts, Exit(c) PROVE exit_time'[p] = exit_time[p]
      <4>1. cproc[c] # p
        BY Zenon, <2>2, <3>3, HartFacts DEF Exit, At, OnCpu, Conts
      <4> QED
        BY Zenon, <1>0, <3>3, <4>1 DEF Exit, Me
    <3>4. ASSUME NEW c \in Harts, NEW q \in Slots, AllocProc(c, q) PROVE exit_time'[p] = exit_time[p]
      BY Zenon, <1>0, <3>2, <3>4 DEF AllocProc
    <3>5. exit_time'[p] = exit_time[p]
      <4>1. CASE (\E c \in Harts : Exit(c)) \/ (\E c \in Harts, q \in Slots : AllocProc(c, q))
        BY Zenon, <3>3, <3>4, <4>1
      <4>2. CASE ~((\E c \in Harts : Exit(c)) \/ (\E c \in Harts, q \in Slots : AllocProc(c, q)))
        BY Zenon, <4>2, TimeSteps DEF ClockTick, UpdateTime, Dispatch, SysSleep, SetPriority, procs, times
      <4> QED
        BY Zenon, <4>1, <4>2
    <3>6. total_run_time'[p] = total_run_time[p] /\ create_time'[p] = create_time[p]
      <4>1. CASE UpdateTime
        BY Zenon, <1>c, <2>2, <4>1
      <4>2. CASE ~UpdateTime
        BY Zenon, <3>2, <4>2, TotalSteps
      <4> QED
        BY Zenon, <4>1, <4>2
    <3> QED
      BY Zenon, <3>1, <3>5, <3>6
  <2> QED
    BY Zenon, <1>3, <2>1, <2>2, LifeSteps
<1> QED
  BY Zenon, <1>1, <1>2, <1>3 DEF Charged
-----------------------------------------------------------------------------
(* elegir orders the ranks: it is irreflexive and transitive. *)
LEMMA BetterOrder ==
  ASSUME NEW r \in Ranks, NEW s \in Ranks, NEW t \in Ranks
  PROVE  /\ ~Better(r, r)
         /\ Better(r, s) /\ Better(s, t) => Better(r, t)
<1>1. ASSUME NEW x \in Ranks PROVE x.dp \in Int /\ x.n_runs \in Int /\ x.create_time \in Int
  BY SMT DEF Ranks
<1> QED
  BY SMT, <1>1 DEF Better

(* While a hart keeps the lock of a slot and does not dispatch it, nothing *)
(* that its rank depends on changes.                                       *)
LEMMA RankKept ==
  ASSUME IInv, Next, NEW d \in Harts, NEW p \in Slots, lock[p] = d, ~Dispatch(d)
  PROVE  DP(p)' = DP(p) /\ RankOf(p)' = RankOf(p)
<1>0. /\ run_time \in [Slots -> Nat] /\ sleep_time \in [Slots -> Nat] /\ n_runs \in [Slots -> Nat]
      /\ create_time \in [Slots -> Nat] /\ priority \in [Slots -> Int] /\ NULL \notin Harts
  BY Zenon, Constants DEF IInv, ProcTypes, TimeTypes
<1> DEFINE Same == /\ priority'[p] = priority[p] /\ run_time'[p] = run_time[p]
                   /\ sleep_time'[p] = sleep_time[p] /\ n_runs'[p] = n_runs[p]
                   /\ create_time'[p] = create_time[p]
<1>1. ASSUME UNCHANGED <<times, ticks0, ticks, priority>> \/ ClockTick PROVE Same
  BY Zenon, <1>1 DEF times, ClockTick, procs
<1>2. ASSUME UpdateTime PROVE Same
  BY Zenon, <1>0, <1>2 DEF UpdateTime
<1>3. ASSUME NEW c \in Harts, Dispatch(c) PROVE Same
  <2>5. c # d
    BY Zenon, <1>3
  <2>6. hpc[c] = "scan" /\ best[c] # NULL
    BY Zenon, <1>3 DEF Dispatch, At
  <2>1. best[c] # p
    BY Zenon, <2>5, <2>6, HartFacts
  <2>2. /\ run_time' = [run_time EXCEPT ![best[c]] = 0] /\ sleep_time' = [sleep_time EXCEPT ![best[c]] = 0]
        /\ n_runs' = [n_runs EXCEPT ![best[c]] = @ + 1]
    BY Zenon, <1>3 DEF Dispatch
  <2>3. priority' = priority /\ create_time' = create_time
    BY Zenon, <1>3 DEF Dispatch
  <2>4. run_time'[p] = run_time[p] /\ sleep_time'[p] = sleep_time[p] /\ n_runs'[p] = n_runs[p]
    BY Zenon, <1>0, <2>1, <2>2
  <2> QED
    BY Zenon, <2>3, <2>4
<1>4. ASSUME NEW c \in Harts, Exit(c) \/ SysSleep(c) PROVE Same
  BY Zenon, <1>4 DEF Exit, SysSleep, times
<1>5. ASSUME NEW c \in Harts, NEW q \in Slots, AllocProc(c, q) PROVE Same
  BY Zenon, <1>0, <1>5 DEF AllocProc
<1>6. ASSUME NEW c \in Harts, NEW q \in Slots, NEW v \in Prios, SetPriority(c, q, v) PROVE Same
  BY Zenon, <1>0, <1>6 DEF SetPriority
<1>7. Same
  BY Zenon, TimeSteps, <1>1, <1>2, <1>3, <1>4, <1>5, <1>6
<1> QED
  BY Zenon, <1>7 DEF DP, RankOf

(* What the steps of other harts, and of this hart outside its scan, leave *)
(* to the scan.                                                            *)
LEMMA SeenSteps ==
  ASSUME IInv, Next, NEW d \in Harts
  PROVE  \/ seen'[d] = seen[d] /\ best_dp'[d] = best_dp[d]
         \/ ScanChoose(d) \/ ScanReject(d) \/ Dispatch(d) \/ SwtchBack(d)
<1>0. seen \in [Harts -> SUBSET Ranks] /\ best_dp \in [Harts -> 0 .. 100]
  BY Zenon DEF IInv, HartTypes
<1>1. ASSUME NEW c \in Harts, c # d, ScanChoose(c) \/ ScanReject(c) \/ Dispatch(c) \/ SwtchBack(c)
      PROVE  seen'[d] = seen[d] /\ best_dp'[d] = best_dp[d]
  BY Zenon, <1>0, <1>1 DEF ScanChoose, ScanReject, Dispatch, SwtchBack
<1>2. ASSUME NEW c \in Harts, ScanSkip(c) \/ ScanAgain(c) \/ Resume(c)
      PROVE  UNCHANGED <<seen, best_dp>>
  BY Zenon, <1>2 DEF ScanSkip, ScanAgain, Resume
<1>3. ASSUME NEW c \in Harts, Process(c) PROVE UNCHANGED <<seen, best_dp>>
  BY Zenon, <1>3 DEF Process, TimerYield, Yield, IoSleep, Exit, SysSleep, SysSleepMore, TicksSleep,
     SysSleepDone, Relock, ForkRunnable, AllocProc, Waitx, SetPriority, hart
<1>4. CASE Clock \/ \E p \in Slots : IoWakeup(p)
  BY Zenon, <1>4 DEF Clock, ClockTick, UpdateTime, ClockWakeup, ClockDone, IoWakeup, hart
<1>5. CASE \E c \in Harts : SchedulerLoop(c)
  BY Zenon, <1>1, <1>2, <1>5 DEF SchedulerLoop
<1> QED
  BY Zenon, <1>3, <1>4, <1>5 DEF Next

(* A scan with a candidate ends only by dispatching it. *)
LEMMA ScanGoesOn ==
  ASSUME IInv, Next, NEW d \in Harts, hpc[d] = "scan", ~ScanChoose(d), ~Dispatch(d)
  PROVE  hpc'[d] = "scan" /\ best'[d] = best[d]
<1>0. hpc \in [Harts -> Labels] /\ best \in [Harts -> Slots \cup {NULL}]
  BY Zenon DEF IInv, HartTypes
<1> USE <1>0 DEF Goto, At, OnCpu, Conts
<1>1. CASE Quiet
  BY Zenon, <1>1 DEF Quiet
<1>2. ASSUME NEW c \in Harts, NEW l \in OnCpu, Works(c, l) PROVE hpc'[d] = "scan" /\ best'[d] = best[d]
  BY Zenon, <1>2 DEF Works
<1>3. ASSUME NEW c \in Harts, NEW s, NEW l, GivesUp(c, s, l) PROVE hpc'[d] = "scan" /\ best'[d] = best[d]
  BY Zenon, <1>3 DEF GivesUp, Sched
<1>4. ASSUME NEW c \in Harts, ScanChoose(c) \/ Dispatch(c) PROVE hpc'[d] = "scan" /\ best'[d] = best[d]
  <2>1. c # d
    BY Zenon, <1>4
  <2>2. CASE ScanChoose(c)
    BY Zenon, <2>1, <2>2 DEF ScanChoose
  <2>3. CASE Dispatch(c)
    BY Zenon, <2>1, <2>3 DEF Dispatch
  <2> QED
    BY Zenon, <1>4, <2>2, <2>3
<1>5. ASSUME NEW c \in Harts, Resume(c) \/ SwtchBack(c) PROVE hpc'[d] = "scan" /\ best'[d] = best[d]
  <2>1. c # d
    BY Zenon, <1>5 DEF Resume, SwtchBack
  <2> QED
    BY Zenon, <1>5, <2>1 DEF Resume, SwtchBack
<1> QED
  BY Zenon, Shapes, <1>1, <1>2, <1>3, <1>4, <1>5

LEMMA ScanStep ==
  ASSUME IInv, Next
  PROVE  Scan'
<1>0. /\ Scan /\ hpc \in [Harts -> Labels] /\ best \in [Harts -> Slots \cup {NULL}]
      /\ seen \in [Harts -> SUBSET Ranks] /\ best_dp \in [Harts -> 0 .. 100] /\ NULL \notin Slots
  BY Zenon, Constants DEF IInv, HartTypes
<1> DEFINE Minimal(d, p) ==
      /\ best_dp[d] = DP(p)
      /\ RankOf(p) \in seen[d]
      /\ \A r \in seen[d] : ~Better(r, RankOf(p))
<1>1. ASSUME NEW d \in Harts, hpc[d] = "scan", best[d] # NULL PROVE best[d] \in Slots /\ Minimal(d, best[d])
  BY Zenon, <1>0, <1>1 DEF Scan
<1>2. ASSUME NEW d \in Harts, hpc'[d] # "scan" \/ best'[d] = NULL PROVE seen'[d] = {}
  <2>1. CASE Dispatch(d)
    BY Zenon, <1>0, <2>1 DEF Dispatch
  <2>2. CASE SwtchBack(d)
    <3>1. hpc[d] = "swtch" /\ UNCHANGED seen
      BY Zenon, <2>2 DEF SwtchBack, At
    <3> QED
      BY Zenon, <1>0, <3>1 DEF Scan
  <2>3. ~ScanChoose(d)
    <3>1. ASSUME ScanChoose(d) PROVE hpc'[d] = "scan" /\ best'[d] = idx[d] /\ idx[d] \in Slots
      BY Zenon, <1>0, <3>1, Constants DEF ScanChoose, Scanning, At, IInv, HartTypes
    <3> QED
      BY Zenon, <1>0, <1>2, <3>1
  <2>4. CASE ~Dispatch(d) /\ ~SwtchBack(d)
    <3>1. hpc[d] # "scan" \/ best[d] = NULL
      BY Zenon, <1>2, <2>3, <2>4, ScanGoesOn
    <3>2. ~ScanReject(d)
      BY Zenon, <3>1 DEF ScanReject, Scanning, At, Choose
    <3>3. seen'[d] = seen[d]
      BY Zenon, <2>3, <2>4, <3>2, SeenSteps
    <3> QED
      BY Zenon, <1>0, <3>1, <3>3 DEF Scan
  <2> QED
    BY Zenon, <2>1, <2>2, <2>4
<1>3. ASSUME NEW d \in Harts, ScanChoose(d)
      PROVE  \E p \in Slots : best'[d] = p /\ Minimal(d, p)'
  <2>1. /\ idx[d] \in Slots /\ hpc[d] = "scan" /\ best'[d] = idx[d] /\ best_dp'[d] = DP(idx[d])
        /\ seen'[d] = seen[d] \cup {RankOf(idx[d])} /\ Choose(d, idx[d]) /\ UNCHANGED procs
    BY Zenon, <1>0, <1>3, Constants DEF ScanChoose, Scanning, At, IInv, HartTypes
  <2>2. PICK p \in Slots : p = idx[d]
    BY Zenon, <2>1
  <2>3. DP(p)' = DP(p) /\ RankOf(p)' = RankOf(p)
    BY Zenon, <2>1 DEF procs, times, DP, RankOf
  <2>4. RankOf(p) \in Ranks
    BY Zenon, RankTypes DEF IInv
  <2>5. ASSUME NEW r \in seen[d] PROVE ~Better(r, RankOf(p))
    <3>1. best[d] # NULL
      BY Zenon, <1>0, <2>5 DEF Scan
    <3>2. best[d] \in Slots /\ Minimal(d, best[d])
      BY Zenon, <1>1, <2>1, <3>1
    <3>3. BestRank(d) = RankOf(best[d]) /\ RankOf(best[d]) \in Ranks /\ r \in Ranks
      BY Zenon, <1>0, <2>5, <3>2, RankTypes DEF BestRank, RankOf, IInv
    <3>4. Better(RankOf(p), RankOf(best[d])) /\ ~Better(r, RankOf(best[d]))
      BY Zenon, <2>1, <2>2, <2>5, <3>1, <3>2, <3>3 DEF Choose
    <3> QED
      BY Zenon, <2>4, <3>3, <3>4, BetterOrder
  <2>6. ~Better(RankOf(p), RankOf(p))
    BY Zenon, <2>4, BetterOrder
  <2> QED
    BY Zenon, <2>1, <2>2, <2>3, <2>5, <2>6
<1>4. ASSUME NEW d \in Harts, hpc'[d] = "scan", best'[d] # NULL, ~ScanChoose(d)
      PROVE  \E p \in Slots : best'[d] = p /\ Minimal(d, p)'
  <2>1. hpc[d] = "scan" /\ best'[d] = best[d] /\ best[d] \in Slots /\ lock[best[d]] = d
    BY Zenon, <1>4, CandidateKept
  <2>2. PICK p \in Slots : p = best[d]
    BY Zenon, <2>1
  <2>3. Minimal(d, p)
    BY Zenon, <1>0, <1>1, <2>1, <2>2
  <2>4. ~Dispatch(d) /\ ~SwtchBack(d)
    BY Zenon, <1>0, <1>4, <2>1 DEF Dispatch, SwtchBack, At, Goto
  <2>5. DP(p)' = DP(p) /\ RankOf(p)' = RankOf(p)
    BY Zenon, <2>1, <2>2, <2>4, RankKept
  <2>6. CASE seen'[d] = seen[d] /\ best_dp'[d] = best_dp[d]
    BY Zenon, <2>1, <2>2, <2>3, <2>5, <2>6
  <2>7. CASE ScanReject(d)
    <3>1. /\ seen'[d] = seen[d] \cup {RankOf(idx[d])} /\ best_dp'[d] = best_dp[d]
          /\ ~Better(RankOf(idx[d]), BestRank(d))
      BY Zenon, <1>0, <2>7 DEF ScanReject, Choose
    <3>2. BestRank(d) = RankOf(p)
      BY Zenon, <2>2, <2>3 DEF BestRank, RankOf
    <3> QED
      BY Zenon, <2>1, <2>2, <2>3, <2>5, <3>1, <3>2
  <2> QED
    BY Zenon, <1>4, <2>4, <2>6, <2>7, SeenSteps
<1> QED
  BY Zenon, <1>2, <1>3, <1>4 DEF Scan
-----------------------------------------------------------------------------
(* IInv holds in every reachable state. *)
LEMMA InitInvariant == Init => IInv
<1> SUFFICES ASSUME Init PROVE IInv
  OBVIOUS
<1>0. 0 \in Nat /\ 60 \in Int /\ 0 \in Int /\ 0 \in 0 .. 100
  BY SMT
<1>1. ProcTypes
  BY Zenon, <1>0, Constants DEF Init, ProcTypes, States, Conts
<1>2. TimeTypes
  BY Zenon, <1>0 DEF Init, TimeTypes
<1>3. HartTypes
  <2>1. {} \in SUBSET Ranks
    BY SMT
  <2> QED
    BY Zenon, <1>0, <2>1, Constants DEF Init, HartTypes, Labels
<1>4. Current /\ Held /\ Candidate
  BY Zenon, Constants DEF Init, Current, Held, Holds, Candidate
<1>5. OneHart
  BY Zenon, Constants DEF Init, OneHart
<1>6. ForkOwns
  BY Zenon, Constants DEF Init, ForkOwns, AtLabel, AtCont, NewIsUsed, NewIsOwn, FreshRuns, Executes
<1>7. TicksLock /\ Sleepers
  BY Zenon, Constants DEF Init, TicksLock, Sleepers
<1>8. Charged
  BY SMT DEF Init, Charged, Uncharged
<1>9. Scan
  BY Zenon, Constants DEF Init, Scan
<1> QED
  BY Zenon, <1>1, <1>2, <1>3, <1>4, <1>5, <1>6, <1>7, <1>8, <1>9 DEF IInv

LEMMA Stutter == IInv /\ UNCHANGED vars => IInv'
<1> SUFFICES ASSUME IInv, UNCHANGED vars PROVE IInv'
  OBVIOUS
<1> USE DEF vars, procs, times, hart, clock, IInv
<1>1. ProcTypes' /\ TimeTypes' /\ HartTypes'
  BY Zenon DEF ProcTypes, TimeTypes, HartTypes
<1>2. Current' /\ Held'
  BY Zenon DEF Current, Held, Holds
<1>a. Candidate' /\ OneHart'
  BY Zenon DEF Candidate, OneHart
<1>3. ForkOwns'
  BY Zenon DEF ForkOwns, AtLabel, AtCont, NewIsUsed, NewIsOwn, FreshRuns, Executes
<1>4. TicksLock' /\ Sleepers'
  BY Zenon DEF TicksLock, Sleepers
<1>5. Charged' /\ Scan'
  BY Zenon DEF Charged, Uncharged, Scan, DP, RankOf
<1> QED
  BY Zenon, <1>1, <1>2, <1>a, <1>3, <1>4, <1>5

(* The invariant that the proofs of the theorems below rest on: who holds  *)
(* which lock, who runs what, and how far the times and the scan are.      *)
THEOREM SchedulerInductive == Spec => []IInv
<1>1. IInv /\ [Next]_vars => IInv'
  <2> SUFFICES ASSUME IInv, [Next]_vars PROVE IInv'
    OBVIOUS
  <2>1. CASE Next
    <3>1. ProcTypes' /\ TimeTypes' /\ HartTypes'
      BY Zenon, <2>1, ProcTypesStep, TimeTypesStep, HartTypesStep
    <3>2. Current' /\ Held' /\ Candidate' /\ OneHart' /\ ForkOwns'
      BY Zenon, <2>1, CurrentStep, HeldStep, CandidateStep, OneHartStep, ForkOwnsStep
    <3>3. TicksLock' /\ Sleepers' /\ Charged' /\ Scan'
      BY Zenon, <2>1, TicksLockStep, SleepersStep, ChargedStep, ScanStep
    <3> QED
      BY Zenon, <3>1, <3>2, <3>3 DEF IInv
  <2>2. CASE UNCHANGED vars
    BY Zenon, <2>2, Stutter
  <2> QED
    BY Zenon, <2>1, <2>2
<1> QED
  BY InitInvariant, <1>1, PTL DEF Spec

(* Whatever the harts, the timer and the programs do, no kernel stack is   *)
(* used by two harts: the hand-over of p->lock through swtch in            *)
(* scheduler() and sched() keeps every slot to one hart.                   *)
THEOREM OneHartPerStack == Spec => []OneStack
<1>1. IInv => OneStack
  <2> SUFFICES ASSUME IInv PROVE OneStack
    OBVIOUS
  <2>1. OneHart
    BY Zenon DEF IInv
  <2>2. ASSUME NEW c \in Harts, cproc[c] # NULL
        PROVE  state[cproc[c]] = "RUNNING" \/ (hpc[c] = "swtch" /\ lock[cproc[c]] = c)
    <3>1. hpc[c] # "scan"
      BY Zenon, <2>2 DEF IInv, Current
    <3>2. CASE hpc[c] = "swtch"
      BY Zenon, <3>2, HartFacts
    <3>3. CASE hpc[c] # "swtch"
      BY Zenon, <2>1, <3>1, <3>3 DEF OneHart
    <3> QED
      BY Zenon, <3>2, <3>3
  <2> QED
    BY Zenon, <2>1, <2>2 DEF OneStack, OneHart
<1> QED
  BY SchedulerInductive, <1>1, PTL

(* The candidate that scheduler() is going to dispatch is RUNNABLE and no  *)
(* slot its scan has passed ranks better, for any number of slots, harts   *)
(* and any priorities, although other harts set priorities and the clock   *)
(* charges times meanwhile.                                                *)
THEOREM SchedulerPicksMinimum == Spec => []BestIsMin
<1>1. IInv => BestIsMin
  <2> SUFFICES ASSUME IInv, NEW c \in Harts, best[c] # NULL, hpc[c] = "scan"
               PROVE  /\ state[best[c]] = "RUNNABLE" /\ lock[best[c]] = c
                      /\ BestRank(c) = RankOf(best[c]) /\ BestRank(c) \in seen[c]
                      /\ BestRank(c).dp \in 0 .. 100
                      /\ \A r \in seen[c] :
                           /\ BestRank(c).dp <= r.dp
                           /\ r.dp = BestRank(c).dp => BestRank(c).n_runs <= r.n_runs
                           /\ r.dp = BestRank(c).dp /\ r.n_runs = BestRank(c).n_runs
                                => BestRank(c).create_time <= r.create_time
    BY Zenon DEF BestIsMin
  <2>1. best[c] \in Slots /\ lock[best[c]] = c /\ state[best[c]] = "RUNNABLE"
    BY Zenon, HartFacts DEF IInv, Candidate
  <2>2. /\ best_dp[c] = DP(best[c]) /\ RankOf(best[c]) \in seen[c]
        /\ \A r \in seen[c] : ~Better(r, RankOf(best[c]))
    BY Zenon DEF IInv, Scan
  <2>3. BestRank(c) = RankOf(best[c])
    BY Zenon, <2>2 DEF BestRank, RankOf
  <2>4. RankOf(best[c]) \in Ranks /\ seen[c] \subseteq Ranks
    BY Zenon, <2>1, RankTypes DEF IInv, HartTypes
  <2>5. ASSUME NEW b \in Ranks, NEW r \in Ranks, ~Better(r, b)
        PROVE  /\ b.dp \in 0 .. 100 /\ b.dp <= r.dp
               /\ r.dp = b.dp => b.n_runs <= r.n_runs
               /\ r.dp = b.dp /\ r.n_runs = b.n_runs => b.create_time <= r.create_time
    BY SMT, <2>5 DEF Better, Ranks
  <2> QED
    BY Zenon, <2>1, <2>2, <2>3, <2>4, <2>5
<1> QED
  BY SchedulerInductive, <1>1, PTL

(* No process that sleeps in sys_sleep() is forgotten by the clock: the    *)
(* test of ticks and sleep() are one section under tickslock.              *)
THEOREM NobodyOversleeps == Spec => []NoOversleep
<1>1. IInv => NoOversleep
  <2>1. IInv /\ tickslock = NULL => clk = "off"
    BY Zenon, Constants DEF IInv, TicksLock
  <2> QED
    BY Zenon, <2>1 DEF IInv, Sleepers, NoOversleep
<1> QED
  BY SchedulerInductive, <1>1, PTL

(* update_time() charges a process at most one tick more than have passed  *)
(* since it was created, and waitx() reports a wait of at least -1.        *)
THEOREM TimeAccounting == Spec => []ChargedAtMostOneExtra
<1>1. IInv => ChargedAtMostOneExtra
  <2> SUFFICES ASSUME IInv PROVE ChargedAtMostOneExtra
    OBVIOUS
  <2>1. ASSUME NEW p \in Slots
        PROVE  /\ total_run_time[p] \in Nat /\ create_time[p] \in Nat /\ run_time[p] \in Nat
               /\ exit_time[p] \in Nat /\ ticks \in Nat
    BY Zenon DEF IInv, TimeTypes
  <2>2. Charged
    BY Zenon DEF IInv
  <2>3. ASSUME NEW p \in Slots, state[p] # "UNUSED"
        PROVE  total_run_time[p] <= ticks - create_time[p] + 1
    <3>1. total_run_time[p] <= ticks - create_time[p] + (IF Uncharged(p) THEN 0 ELSE 1)
      BY Zenon, <2>2, <2>3 DEF Charged
    <3> QED
      BY SMT, <2>1, <3>1
  <2>4. ASSUME NEW p \in Slots, state[p] = "ZOMBIE"
        PROVE  wtime(p) >= -1 /\ rtime(p) <= total_run_time[p]
    <3>1. /\ run_time[p] <= total_run_time[p]
          /\ total_run_time[p] <= exit_time[p] - create_time[p] + 1
      BY Zenon, <2>2, <2>4 DEF Charged
    <3> QED
      BY SMT, <2>1, <3>1 DEF wtime, rtime
  <2> QED
    BY Zenon, <2>3, <2>4 DEF ChargedAtMostOneExtra
<1> QED
  BY SchedulerInductive, <1>1, PTL
-----------------------------------------------------------------------------
INSTANCE FiniteSetTheorems

(* A nonempty set of cursors has a largest one. *)
LEMMA Largest ==
  ASSUME NEW T \in SUBSET (0 .. NPROC), T # {}
  PROVE  \E x \in T : \A y \in T : y <= x
<1> DEFINE D == {NPROC - y : y \in T}
<1>0. NPROC \in Nat
  BY Zenon, Constants
<1> DEFINE Less == {ss \in Nat \X Nat : ss[1] < ss[2]}
<1>1. \A y \in T : y \in Nat /\ NPROC - y \in Nat
  BY SMT, <1>0
<1>2. D \subseteq Nat /\ D # {}
  BY Zenon, <1>1
<1>3. IsWellFoundedOn(Less, Nat)
  BY Zenon, NatLessThanWellFounded DEF OpToRel
<1> HIDE DEF Less
<1>4. PICK x \in D : \A y \in D : ~(<<y, x>> \in Less)
  BY Zenon, <1>2, <1>3, WFMin
<1> USE DEF Less
<1>5. PICK t \in T : x = NPROC - t
  BY Zenon, <1>4
<1>6. ASSUME NEW y \in T PROVE y <= t
  <2>1. ~(<<NPROC - y, x>> \in Less)
    BY Zenon, <1>4
  <2> QED
    BY SMT, <1>0, <1>1, <1>5, <2>1
<1> QED
  BY Zenon, <1>5, <1>6

HoldsSlot(c) == \E p \in Slots : lock[p] = c

(* What a hart that spins can hold itself: a p->lock only in scheduler(),  *)
(* where it spins for the lock of a later slot, and tickslock only where   *)
(* it spins for a p->lock.                                                 *)
LEMMA SpinFacts ==
  ASSUME IInv, NEW c \in Harts, NEW d \in Harts, SpinsOn(c, d)
  PROVE  /\ HoldsSlot(d) \/ tickslock = d
         /\ tickslock = c => HoldsSlot(d)
         /\ \A q \in Slots : lock[q] = c => q < idx[c] /\ idx[c] \in Slots /\ lock[idx[c]] = d
<1>0. /\ NULL \notin Harts /\ 0 \in Harts /\ NULL \notin Slots
      /\ \A i \in 0 .. NPROC : i < NPROC => i \in Slots
      /\ ci \in 0 .. NPROC /\ idx \in [Harts -> 0 .. NPROC] /\ TicksLock
  BY Zenon, Constants DEF IInv, HartTypes
<1>1. ASSUME NEW q \in Slots, lock[q] = c PROVE Holds(c, q)
  BY Zenon, <1>1 DEF IInv, Held
<1>2. CASE c = 0 /\ clk # "off"
  <2>0. \A l \in {"scan", "yield", "sleep", "fork", "relock"} : ~At(c, l)
    BY Zenon, <1>2 DEF At
  <2>1. ci \in Slots /\ lock[ci] = d
    BY Zenon, <1>0, <1>2, <2>0 DEF SpinsOn
  <2>2. \A q \in Slots : ~Holds(c, q)
    BY Zenon, <1>0, <1>2 DEF TicksLock, Holds, Conts
  <2> QED
    BY Zenon, <1>1, <2>1, <2>2 DEF HoldsSlot
<1>3. CASE At(c, "scan")
  <2>1. idx[c] \in Slots /\ lock[idx[c]] = d
    BY Zenon, <1>0, <1>3 DEF SpinsOn, At
  <2>2. ASSUME NEW q \in Slots, lock[q] = c PROVE q < idx[c]
    BY Zenon, <1>0, <1>1, <1>3, <2>2 DEF At, IInv, Candidate, Holds
  <2> QED
    BY Zenon, <2>1, <2>2 DEF HoldsSlot
<1>4. CASE \E l \in {"yield", "sleep", "fork"} : At(c, l)
  <2>1. cproc[c] \in Slots /\ Executes(c, cproc[c])
    BY Zenon, <1>4, HartFacts DEF At, OnCpu, Conts, Executes
  <2>2. hpc[c] = "fork" => np[cproc[c]] \in Slots
    BY Zenon, <2>1 DEF IInv, ForkOwns, AtLabel, ProcTypes
  <2>3. PICK p \in Slots : lock[p] = d
    <3>1. CASE At(c, "yield") \/ At(c, "sleep")
      BY Zenon, <2>1, <3>1 DEF SpinsOn, At, Me
    <3>2. CASE At(c, "fork")
      BY Zenon, <2>1, <2>2, <3>2 DEF SpinsOn, At, Me
    <3> QED
      BY Zenon, <1>4, <3>1, <3>2
  <2>4. \A q \in Slots : ~Holds(c, q)
    BY Zenon, <1>4 DEF At, Holds
  <2> QED
    BY Zenon, <1>1, <2>3, <2>4 DEF HoldsSlot
<1>5. CASE At(c, "relock")
  <2>1. tickslock = d
    BY Zenon, <1>5 DEF SpinsOn, At
  <2>2. tickslock # c
    BY Zenon, <1>0, <1>5 DEF At, TicksLock
  <2>3. \A q \in Slots : ~Holds(c, q)
    BY Zenon, <1>5 DEF At, Holds
  <2> QED
    BY Zenon, <1>1, <2>1, <2>2, <2>3
<1>6. ~(c = 0 /\ clk # "off") => \E l \in {"scan", "yield", "sleep", "fork", "relock"} : At(c, l)
  BY Zenon, <1>0 DEF SpinsOn
<1> QED
  BY Zenon, <1>2, <1>3, <1>4, <1>5, <1>6

(* No set of harts spins on each other for ever: scheduler() takes the     *)
(* locks of several slots in the order of proc[] only, and every holder of *)
(* tickslock waits for nothing but a p->lock.                              *)
THEOREM LockOrder == Spec => []NoSpinCycle
<1>1. IInv => NoSpinCycle
  <2> SUFFICES ASSUME IInv, NEW S \in SUBSET Harts, S # {},
                      \A c \in S : \E d \in S : SpinsOn(c, d)
               PROVE  FALSE
    BY Zenon DEF NoSpinCycle
  <2> DEFINE A == {c \in S : HoldsSlot(c)}
             T == {idx[c] : c \in A}
  <2>1. A # {}
    <3>1. PICK c \in S : TRUE
      BY Zenon
    <3>2. PICK d \in S : SpinsOn(c, d)
      BY Zenon, <3>1
    <3>3. PICK e \in S : SpinsOn(d, e)
      BY Zenon, <3>2
    <3>4. HoldsSlot(d) \/ HoldsSlot(e)
      BY Zenon, <3>2, <3>3, SpinFacts
    <3> QED
      BY Zenon, <3>4
  <2>2. ASSUME NEW c \in A PROVE \E d \in A : idx[c] < idx[d]
    <3>1. PICK d \in S : SpinsOn(c, d)
      BY Zenon
    <3>2. idx[c] \in Slots /\ lock[idx[c]] = d
      BY Zenon, <3>1, SpinFacts DEF HoldsSlot
    <3>3. PICK e \in S : SpinsOn(d, e)
      BY Zenon
    <3>4. idx[c] < idx[d]
      BY Zenon, <3>2, <3>3, SpinFacts
    <3> QED
      BY Zenon, <3>2, <3>4 DEF HoldsSlot
  <2>3. T \in SUBSET (0 .. NPROC) /\ T # {}
    <3>1. idx \in [Harts -> 0 .. NPROC]
      BY Zenon DEF IInv, HartTypes
    <3> QED
      BY Zenon, <2>1, <3>1
  <2>4. PICK x \in T : \A y \in T : y <= x
    <3> HIDE DEF T
    <3> QED
      BY Zenon, <2>3, Largest
  <2>5. PICK c \in A : x = idx[c]
    BY Zenon, <2>4
  <2>6. PICK d \in A : idx[c] < idx[d]
    BY Zenon, <2>2
  <2>7. idx[d] <= idx[c]
    BY Zenon, <2>4, <2>5
  <2>8. idx[c] \in 0 .. NPROC /\ idx[d] \in 0 .. NPROC /\ NPROC \in Nat
    BY Zenon, Constants DEF IInv, HartTypes
  <2> QED
    BY SMT, <2>6, <2>7, <2>8
<1> QED
  BY SchedulerInductive, <1>1, PTL

(* While a hart is in scheduler() at most the others run a process. *)
LEMMA RunningBound ==
  ASSUME IInv, NEW c \in Harts, cproc[c] = NULL
  PROVE  Cardinality({q \in Slots : state[q] = "RUNNING"}) < NCPU
<1> DEFINE R == {q \in Slots : state[q] = "RUNNING"}
           f == [q \in R |-> CHOOSE d \in Harts : cproc[d] = q]
<1>1. ASSUME NEW q \in R PROVE f[q] \in Harts /\ cproc[f[q]] = q
  <2>1. \E d \in Harts : cproc[d] = q
    BY Zenon DEF IInv, OneHart
  <2> QED
    BY Zenon, <2>1
<1>2. f \in [R -> Harts \ {c}]
  <2>1. ASSUME NEW q \in R PROVE f[q] # c
    BY Zenon, <1>1, Constants
  <2> QED
    BY Zenon, <1>1, <2>1
<1>3. ASSUME NEW p \in R, NEW q \in R, f[p] = f[q] PROVE p = q
  BY Zenon, <1>1, <1>3
<1>4. f \in Injection(R, Harts \ {c})
  BY Zenon, <1>2, <1>3 DEF Injection, IsInjective
<1>5. IsFiniteSet(Harts) /\ Cardinality(Harts) = NCPU
  <2>1. 0 \in Int /\ NCPU - 1 \in Int /\ ~(0 > NCPU - 1) /\ NCPU - 1 - 0 + 1 = NCPU
    BY SMT, SchedulerConstants
  <2>2. /\ IsFiniteSet(0 .. NCPU - 1)
        /\ Cardinality(0 .. NCPU - 1) = IF 0 > NCPU - 1 THEN 0 ELSE NCPU - 1 - 0 + 1
    BY Zenon, <2>1, FS_Interval
  <2> QED
    BY Zenon, <2>1, <2>2 DEF Harts
<1>6. IsFiniteSet(Harts \ {c}) /\ Cardinality(Harts \ {c}) = NCPU - 1
  BY Zenon, <1>5, FS_RemoveElement
<1>7. Cardinality(R) <= NCPU - 1 /\ IsFiniteSet(R)
  <2>1. \A S, T : \A g \in Injection(S, T) :
          IsFiniteSet(T) => IsFiniteSet(S) /\ Cardinality(S) <= Cardinality(T)
    BY Zenon, FS_Injection
  <2> HIDE DEF f, R
  <2>2. IsFiniteSet(R) /\ Cardinality(R) <= Cardinality(Harts \ {c})
    BY Zenon, <1>4, <1>6, <2>1
  <2> QED
    BY Zenon, <1>6, <2>2
<1>8. Cardinality(R) \in Nat
  <2> HIDE DEF R
  <2> QED
    BY Zenon, <1>7, FS_CardinalityType
<1> QED
  <2> HIDE DEF R
  <2>1. Cardinality(R) < NCPU
    BY SMT, <1>7, <1>8, SchedulerConstants
  <2> QED
    BY Zenon, <2>1 DEF R

(* The harts, with their locks, the swtch and the timer, change process    *)
(* states only as the process table promises, and run no more processes    *)
(* than there are harts: scheduler(), sched(), sleep(), wakeup(), fork(),  *)
(* exit() and waitx() implement module ProcStates.                         *)
THEOREM HartsRefineProcStates == Spec => ImplementsProcStates
<1>1. Init => Lifecycle!Init
  BY Zenon, Constants DEF Init, Lifecycle!Init
<1>2. IInv /\ [Next]_vars => [Lifecycle!Next]_state
  <2> SUFFICES ASSUME IInv, [Next]_vars, ~UNCHANGED state PROVE Lifecycle!Next
    BY Zenon
  <2>1. Next
    BY Zenon DEF vars, procs
  <2>2. ASSUME NEW c \in Harts, Dispatch(c)
        PROVE  Lifecycle!Cardinality({q \in Slots : state[q] = "RUNNING"}) < NCPU
    <3>1. cproc[c] = NULL
      BY Zenon, <2>2 DEF Dispatch, At, IInv, Current
    <3> QED
      BY Zenon, <3>1, RunningBound DEF Cardinality, Lifecycle!Cardinality
  <2> USE DEF Move, Lifecycle!Move
  <2>3. PICK p \in Slots :
          \/ Lifecycle!Alloc(p) \/ Lifecycle!Free(p) \/ Lifecycle!Ready(p) \/ Lifecycle!Run(p)
          \/ Lifecycle!Yield(p) \/ Lifecycle!Sleep(p) \/ Lifecycle!Wakeup(p) \/ Lifecycle!Exit(p)
    BY Zenon, <2>1, <2>2, StateSteps DEF Lifecycle!Alloc, Lifecycle!Free, Lifecycle!Ready,
       Lifecycle!Run, Lifecycle!Yield, Lifecycle!Sleep, Lifecycle!Wakeup, Lifecycle!Exit
  <2> QED
    BY Zenon, <2>3 DEF Lifecycle!Next
<1> QED
  BY SchedulerInductive, <1>1, <1>2, PTL DEF Spec, ImplementsProcStates, Lifecycle!Spec
=============================================================================
