----------------------------- MODULE ProcProofs -----------------------------
(***************************************************************************)
(* What is proved of module Proc for any number of slots and harts, any    *)
(* pids and any faults: an inductive invariant, IInv (types, the labels of *)
(* the threads, wait_lock, the slots that fork() owns, then parents,       *)
(* children and ZOMBIEs), and from it type correctness, ParentAlive,       *)
(* NoMissedZombie, PidsDistinct, KilledWasAsked without kill(0), and that  *)
(* Proc implements ProcStates.                                             *)
(***************************************************************************)
EXTENDS Proc, TLAPS

(* The labels at which a thread holds wait_lock. *)
Locked == {"reparent", "wakeinit", "wakeparent", "zombie", "waitscan", "waitsleep"}

(* A cursor that is used as an index is one. *)
CursorOK == \A p \in Slots : pc[p] \in {"alloc", "kill"} => idx[p] < NPROC

(* A thread in the middle of a system call is alive; init always is, and   *)
(* exit() stops it before it takes wait_lock.                              *)
ThreadAlive ==
  /\ \A p \in Slots : pc[p] # "user" => state[p] \in Live
  /\ state[initproc] \in Live
  /\ pc[initproc] \notin {"reparent", "wakeinit", "wakeparent", "zombie"}

(* wait_lock excludes: a thread at a Locked label owns it, and executes.   *)
LockOwner ==
  \A p \in Slots : pc[p] \in Locked => wait_lock = p /\ state[p] = "RUNNING"

(* Between allocproc() and RUNNABLE the new slot is USED and belongs to    *)
(* one fork().                                                             *)
ForkOwns ==
  /\ \A p \in Slots : pc[p] \in {"setparent", "setrunnable"} =>
       np[p] \in Slots /\ state[np[p]] = "USED"
  /\ \A p, q \in Slots :
       pc[p] \in {"setparent", "setrunnable"} /\ pc[q] \in {"setparent", "setrunnable"}
         /\ np[p] = np[q] => p = q

(* What reparent() has passed is no child of the exiting process any more. *)
Orphaned ==
  \A p \in Slots :
    /\ pc[p] \in {"reparent", "wakeinit"} => \A q \in Slots : q < idx[p] => parent[q] # p
    /\ pc[p] = "wakeinit" => idx[p] < NPROC /\ parent[idx[p]] # p
    /\ pc[p] \in {"wakeparent", "zombie"} => \A q \in Slots : parent[q] # p

(* wakeup() starts at the first slot. *)
WakeupStarts == \A p \in Slots : pc[p] \notin {"wakeinit", "wakeparent"} => w[p] = 0

Asleep(p) == state[p] = "SLEEPING" /\ chan[p] = p

(* Once the wakeup() of exit() has passed the parent, it cannot fall       *)
(* asleep again before the child is a ZOMBIE.                              *)
ParentAwake ==
  \A p \in Slots :
    /\ parent[p] \in Slots
    /\ pc[p] = "zombie" \/ (pc[p] = "wakeparent" /\ parent[p] < w[p])
    => ~Asleep(parent[p])

(* A parent that sleeps over a ZOMBIE child is init, and the wakeup() of   *)
(* reparent() has yet to pass it.                                          *)
Missed ==
  \A p, q \in Slots :
    Asleep(p) /\ parent[q] = p /\ state[q] = "ZOMBIE" =>
      /\ p = initproc
      /\ wait_lock \in Slots /\ pc[wait_lock] = "wakeinit" /\ w[wait_lock] = 0

(* wait() found no ZOMBIE child in the slots it has passed, and none turns *)
(* into one before wait() sleeps.                                          *)
ZombieChild(p, q) == parent[q] = p /\ state[q] = "ZOMBIE"
Scanned ==
  \A p, q \in Slots :
    pc[p] = "waitsleep" \/ (pc[p] = "waitscan" /\ q < idx[p]) => ~ZombieChild(p, q)

(* A free slot has pid 0. *)
FreePid == \A p \in Slots : state[p] = "UNUSED" => pid[p] = 0

IInv ==
  /\ TypeOK /\ CursorOK /\ ThreadAlive /\ LockOwner /\ ForkOwns
  /\ Orphaned /\ ParentAlive /\ WakeupStarts /\ ParentAwake /\ Missed
  /\ Scanned /\ FreePid /\ PidsDistinct
-----------------------------------------------------------------------------
(* What the proofs use of the slot numbers. *)
LEMMA SlotFacts ==
  /\ NPROC \in Nat \ {0}
  /\ KillArgs \subseteq Nat
  /\ initproc \in Slots
  /\ NULL \notin Slots
  /\ 0 \in 0 .. NPROC
  /\ \A n \in 0 .. NPROC : n < NPROC => n \in Slots /\ n + 1 \in 0 .. NPROC
  /\ \A n \in Slots : n \in 0 .. NPROC /\ n \in Nat /\ n < NPROC
BY ProcConstants DEF Slots, NULL, initproc

(* The slots a cursor has passed after one more step. *)
LEMMA NextCursor ==
  \A q \in Slots, n \in 0 .. NPROC : q < n + 1 => q < n \/ q = n
BY ProcConstants DEF Slots

Step(p) == Dispatch(p) \/ Yield(p) \/ Program(p) \/ Kernel(p)

(* The initial state satisfies the invariant. *)
LEMMA InitIInv == Init => IInv
<1> SUFFICES ASSUME Init PROVE IInv
  OBVIOUS
<1> USE SlotFacts DEF Init
<1>1. TypeOK
  <2>1. state \in [Slots -> States] /\ pc \in [Slots -> Labels]
    BY Zenon DEF States, Live, Labels
  <2>2. pid \in [Slots -> Nat] /\ nextpid \in Nat \ {0}
    OBVIOUS
  <2>3. killed \in [Slots -> BOOLEAN] /\ panicked \in BOOLEAN
    OBVIOUS
  <2> QED
    BY Zenon, <2>1, <2>2, <2>3 DEF TypeOK
<1>2. CursorOK /\ ThreadAlive /\ LockOwner /\ ForkOwns /\ Orphaned /\ WakeupStarts
  BY Zenon DEF CursorOK, ThreadAlive, LockOwner, ForkOwns, Orphaned, WakeupStarts, Locked, Live
<1>3. ParentAlive /\ ParentAwake /\ Missed /\ Scanned
  BY Zenon DEF ParentAlive, ParentAwake, Missed, Scanned, Asleep, ZombieChild
<1>4. FreePid /\ PidsDistinct
  BY DEF FreePid, PidsDistinct
<1> QED
  BY Zenon, <1>1, <1>2, <1>3, <1>4 DEF IInv

(* Types: the arithmetic on the cursors stays in range. *)
LEMMA TypeOKStep == ASSUME IInv, NEW p \in Slots, Step(p) PROVE TypeOK'
<1>1. TypeOK /\ CursorOK
  BY Zenon DEF IInv
<1>2. CASE Dispatch(p)
  BY Zenon, <1>1, <1>2, SlotFacts DEF Dispatch, thread, TypeOK, CursorOK, States, Live, Labels
<1>3. CASE Yield(p)
  BY Zenon, <1>1, <1>3, SlotFacts DEF Yield, thread, TypeOK, CursorOK, States, Live, Labels
<1>4. CASE ForkCall(p)
  BY Zenon, <1>1, <1>4, SlotFacts DEF ForkCall, At, Goto, SetIdx, table, TypeOK, CursorOK,
    States, Live, Labels
<1>5. CASE ExitCall(p)
  BY Zenon, <1>1, <1>5, SlotFacts DEF ExitCall, At, Goto, table, TypeOK, CursorOK, States, Live,
    Labels
<1>6. CASE Fault(p)
  <2>1. pid[p] \in Nat
    BY Zenon, <1>1 DEF Fault, At, Goto, TypeOK, CursorOK, States, Live, Labels
  <2> QED
    BY Zenon, <1>1, <1>6, <2>1 DEF Fault, At, Goto, TypeOK, CursorOK, States, Live, Labels
<1>7. CASE WaitCall(p)
  BY Zenon, <1>1, <1>7, SlotFacts DEF WaitCall, At, Goto, table, TypeOK, CursorOK, States, Live,
    Labels
<1>8. CASE KillCall(p)
  BY <1>1, <1>8, SlotFacts DEF KillCall, At, Goto, SetIdx, table, TypeOK, CursorOK,
    States, Live, Labels
<1>9. CASE AllocSkip(p)
  <2>1. pc' \in [Slots -> Labels] /\ idx' \in [Slots -> 0 .. NPROC]
    BY <1>1, <1>9, SlotFacts DEF AllocSkip, At, Goto, Return, SetIdx, table, TypeOK,
      CursorOK, States, Live, Labels
  <2> QED
    BY Zenon, <1>1, <1>9, <2>1 DEF AllocSkip, At, Goto, Return, SetIdx, table, TypeOK, CursorOK,
      States, Live, Labels
<1>10. CASE AllocFound(p)
  BY <1>1, <1>10, SlotFacts DEF AllocFound, At, Goto, SetIdx, TypeOK, CursorOK, States,
    Live, Labels
<1>11. CASE AllocFail(p)
  BY <1>1, <1>11, SlotFacts DEF AllocFail, At, FreeProc, Goto, Return, SetIdx, TypeOK,
    CursorOK, States, Live, Labels
<1>12. CASE ForkSetParent(p)
  BY Zenon, <1>1, <1>12, SlotFacts DEF ForkSetParent, At, Goto, TypeOK, CursorOK, States, Live,
    Labels
<1>13. CASE ForkSetRunnable(p)
  BY Zenon, <1>1, <1>13, SlotFacts DEF ForkSetRunnable, At, Goto, Return, SetIdx, TypeOK,
    CursorOK, States, Live, Labels
<1>14. CASE KilledExit(p)
  BY Zenon, <1>1, <1>14, SlotFacts DEF KilledExit, At, Goto, table, TypeOK, CursorOK, States,
    Live, Labels
<1>15. CASE ExitPanic(p)
  BY Zenon, <1>1, <1>15, SlotFacts DEF ExitPanic, At, table, thread, TypeOK, CursorOK, States,
    Live, Labels
<1>16. CASE ExitLock(p)
  BY Zenon, <1>1, <1>16, SlotFacts DEF ExitLock, AcquireWait, At, Goto, SetIdx, table, TypeOK,
    CursorOK, States, Live, Labels
<1>17. CASE ReparentChild(p)
  BY Zenon, <1>1, <1>17, SlotFacts DEF ReparentChild, At, Goto, TypeOK, CursorOK, States, Live,
    Labels
<1>18. CASE ReparentSkip(p)
  BY Zenon, <1>1, <1>18, SlotFacts DEF ReparentSkip, At, SetIdx, table, TypeOK, CursorOK,
    States, Live, Labels
<1>19. CASE ReparentDone(p)
  BY Zenon, <1>1, <1>19, SlotFacts DEF ReparentDone, At, Goto, SetIdx, table, TypeOK, CursorOK,
    States, Live, Labels
<1>20. CASE WakeupSlot(p)
  BY Zenon, <1>1, <1>20, SlotFacts DEF WakeupSlot, At, WakeChan, TypeOK, CursorOK, States, Live,
    Labels
<1>21. CASE WakeupDone(p)
  <2>1. pc[p] = "wakeinit" => idx[p] + 1 \in 0 .. NPROC
    BY Zenon, <1>1, <1>21, SlotFacts DEF WakeupDone, At, Goto, SetIdx, table, TypeOK, CursorOK,
      States, Live, Labels, IInv, Orphaned
  <2> QED
    BY <1>1, <1>21, <2>1, SlotFacts DEF WakeupDone, At, Goto, SetIdx, table, TypeOK,
      CursorOK, States, Live, Labels
<1>22. CASE ExitZombie(p)
  BY Zenon, <1>1, <1>22, SlotFacts DEF ExitZombie, At, Goto, ReleaseWait, TypeOK, CursorOK,
    States, Live, Labels
<1>23. CASE WaitLock(p)
  BY Zenon, <1>1, <1>23, SlotFacts DEF WaitLock, AcquireWait, At, Goto, SetIdx, table, TypeOK,
    CursorOK, States, Live, Labels
<1>24. CASE WaitSkip(p)
  BY Zenon, <1>1, <1>24, SlotFacts DEF WaitSkip, At, SetIdx, table, TypeOK, CursorOK, States,
    Live, Labels
<1>25. CASE WaitReap(p)
  BY Zenon, <1>1, <1>25, SlotFacts DEF WaitReap, At, FreeProc, Goto, ReleaseWait, Return, SetIdx,
    ZombieFound, TypeOK, CursorOK, States, Live, Labels
<1>26. CASE WaitCopyoutFails(p)
  BY Zenon, <1>1, <1>26, SlotFacts DEF WaitCopyoutFails, At, Goto, ReleaseWait, Return, SetIdx,
    ZombieFound, table, TypeOK, CursorOK, States, Live, Labels
<1>27. CASE WaitxTimesFail(p)
  BY Zenon, <1>1, <1>27, SlotFacts DEF WaitxTimesFail, At, FreeProc, Goto, ReleaseWait, Return, SetIdx,
    ZombieFound, TypeOK, CursorOK, States, Live, Labels
<1>28. CASE WaitNone(p)
  BY Zenon, <1>1, <1>28, SlotFacts DEF WaitNone, At, Goto, ReleaseWait, Return, SetIdx, table,
    TypeOK, CursorOK, States, Live, Labels
<1>29. CASE WaitDecide(p)
  BY Zenon, <1>1, <1>29, SlotFacts DEF WaitDecide, At, Goto, SetIdx, table, TypeOK, CursorOK,
    States, Live, Labels
<1>30. CASE WaitSleep(p)
  BY Zenon, <1>1, <1>30, SlotFacts DEF WaitSleep, At, Goto, ReleaseWait, TypeOK, CursorOK,
    States, Live, Labels
<1>31. CASE KillSkip(p)
  BY <1>1, <1>31, SlotFacts DEF KillSkip, At, Goto, Return, SetIdx, table, TypeOK,
    CursorOK, States, Live, Labels
<1>32. CASE KillFound(p)
  <2>1. arg[p] \in Nat /\ idx[p] \in Slots
    BY Zenon, <1>1, <1>32, SlotFacts DEF KillFound, At, Goto, Return, SetIdx, TypeOK, CursorOK, States,
      Live, Labels
  <2>2. state' \in [Slots -> States]
    BY Zenon, <1>1, <1>32, <2>1 DEF KillFound, At, Goto, Return, SetIdx, TypeOK, CursorOK, States, Live,
      Labels
  <2>3. killed' \in [Slots -> BOOLEAN] /\ asked' \subseteq Nat
    BY Zenon, <1>1, <1>32, <2>1 DEF KillFound, At, Goto, Return, SetIdx, TypeOK, CursorOK, States, Live,
      Labels
  <2>4. pc' \in [Slots -> Labels] /\ idx' \in [Slots -> 0 .. NPROC] /\ arg' \in [Slots -> Nat]
    BY Zenon, <1>1, <1>32, SlotFacts DEF KillFound, At, Goto, Return, SetIdx, TypeOK, CursorOK, States,
      Live, Labels
  <2> QED
    BY Zenon, <1>1, <1>32, <2>2, <2>3, <2>4 DEF KillFound, At, Goto, Return, SetIdx, TypeOK, CursorOK,
      States, Live, Labels
<1> QED
  BY Zenon, <1>2, <1>3, <1>4, <1>5, <1>6, <1>7, <1>8, <1>9, <1>10, <1>11, <1>12, <1>13, <1>14, <1>15,
    <1>16, <1>17, <1>18, <1>19, <1>20, <1>21, <1>22, <1>23, <1>24, <1>25, <1>26, <1>27, <1>28,
    <1>29, <1>30, <1>31, <1>32 DEF Step, Program, Kernel, ForkStep, ExitStep, WaitStep, KillStep

(* allocproc() and kill() leave their loop at the last slot. *)
LEMMA CursorOKStep == ASSUME IInv, NEW p \in Slots, Step(p) PROVE CursorOK'
<1>1. CursorOK /\ TypeOK
  BY Zenon DEF IInv
<1>2. CASE Dispatch(p) \/ Yield(p)
  BY Zenon, <1>1, <1>2, SlotFacts DEF Dispatch, Yield, thread, CursorOK, TypeOK, States, Live, Labels
<1>3. CASE ForkCall(p) \/ ExitCall(p) \/ Fault(p) \/ WaitCall(p) \/ KillCall(p)
  BY <1>1, <1>3, SlotFacts DEF ForkCall, ExitCall, Fault, WaitCall, KillCall, At, Goto, SetIdx,
    CursorOK, TypeOK, States, Live, Labels
<1>4. CASE AllocSkip(p) \/ AllocFound(p) \/ AllocFail(p) \/ ForkSetParent(p) \/ ForkSetRunnable(p)
  BY <1>1, <1>4, SlotFacts DEF AllocSkip, AllocFound, AllocFail, ForkSetParent, ForkSetRunnable,
    At, Goto, Return, SetIdx, CursorOK, TypeOK, States, Live, Labels
<1>5. CASE KilledExit(p) \/ ExitPanic(p) \/ ExitLock(p) \/ ReparentChild(p) \/ ReparentSkip(p) \/
  ReparentDone(p) \/ WakeupSlot(p) \/ WakeupDone(p) \/ ExitZombie(p)
  BY <1>1, <1>5, SlotFacts DEF KilledExit, ExitPanic, ExitLock, ReparentChild, ReparentSkip,
    ReparentDone, WakeupSlot, WakeupDone, ExitZombie, At, Goto, SetIdx, WakeChan, thread,
    CursorOK, TypeOK, States, Live, Labels
<1>6. CASE WaitLock(p) \/ WaitSkip(p) \/ WaitReap(p) \/ WaitCopyoutFails(p) \/ WaitxTimesFail(p)
  \/ WaitNone(p) \/ WaitDecide(p) \/ WaitSleep(p)
  BY <1>1, <1>6, SlotFacts DEF WaitLock, WaitSkip, WaitReap, WaitCopyoutFails, WaitxTimesFail,
    WaitNone, WaitDecide, WaitSleep, At, Goto, Return, SetIdx, ZombieFound, CursorOK, TypeOK,
    States, Live, Labels
<1>7. CASE KillSkip(p) \/ KillFound(p)
  BY <1>1, <1>7, SlotFacts DEF KillSkip, KillFound, At, Goto, Return, SetIdx, CursorOK, TypeOK,
    States, Live, Labels
<1> QED
  BY Zenon, <1>2, <1>3, <1>4, <1>5, <1>6, <1>7 DEF Step, Program, Kernel, ForkStep, ExitStep, WaitStep,
    KillStep

(* Only a live thread is inside a system call; init stays alive. *)
LEMMA ThreadAliveStep == ASSUME IInv, NEW p \in Slots, Step(p) PROVE ThreadAlive'
<1>1. ThreadAlive /\ TypeOK /\ ForkOwns /\ CursorOK
  BY Zenon DEF IInv
<1>2. CASE Dispatch(p) \/ Yield(p)
  BY <1>1, <1>2, SlotFacts DEF Dispatch, Yield, thread, ThreadAlive, TypeOK, ForkOwns, CursorOK,
    Live, States, Labels
<1>3. CASE ForkCall(p) \/ ExitCall(p) \/ Fault(p) \/ WaitCall(p) \/ KillCall(p)
  BY <1>1, <1>3, SlotFacts DEF ForkCall, ExitCall, Fault, WaitCall, KillCall, At, Goto, table,
    ThreadAlive, TypeOK, ForkOwns, CursorOK, Live, States, Labels
<1>4. CASE AllocSkip(p) \/ AllocFound(p) \/ AllocFail(p) \/ ForkSetParent(p) \/ ForkSetRunnable(p)
  BY <1>1, <1>4, SlotFacts DEF AllocSkip, AllocFound, AllocFail, ForkSetParent, ForkSetRunnable,
    At, FreeProc, Goto, Return, table, ThreadAlive, TypeOK, ForkOwns, CursorOK, Live, States,
    Labels
<1>5. CASE KilledExit(p) \/ ExitPanic(p) \/ ExitLock(p) \/ ReparentChild(p) \/ ReparentSkip(p) \/
  ReparentDone(p) \/ WakeupSlot(p) \/ WakeupDone(p) \/ ExitZombie(p)
  BY <1>1, <1>5, SlotFacts DEF KilledExit, ExitPanic, ExitLock, ReparentChild, ReparentSkip,
    ReparentDone, WakeupSlot, WakeupDone, ExitZombie, At, Goto, WakeChan, table, thread,
    ThreadAlive, TypeOK, ForkOwns, CursorOK, Live, States, Labels
<1>6. CASE WaitLock(p) \/ WaitSkip(p) \/ WaitReap(p) \/ WaitCopyoutFails(p) \/ WaitxTimesFail(p)
  \/ WaitNone(p) \/ WaitDecide(p) \/ WaitSleep(p)
  BY <1>1, <1>6, SlotFacts DEF WaitLock, WaitSkip, WaitReap, WaitCopyoutFails, WaitxTimesFail,
    WaitNone, WaitDecide, WaitSleep, At, FreeProc, Goto, Return, ZombieFound, table, ThreadAlive,
    TypeOK, ForkOwns, CursorOK, Live, States, Labels
<1>7. CASE KillSkip(p) \/ KillFound(p)
  BY <1>1, <1>7, SlotFacts DEF KillSkip, KillFound, At, Goto, Return, table, ThreadAlive, TypeOK,
    ForkOwns, CursorOK, Live, States, Labels
<1> QED
  BY Zenon, <1>2, <1>3, <1>4, <1>5, <1>6, <1>7 DEF Step, Program, Kernel, ForkStep, ExitStep, WaitStep,
    KillStep

(* wait_lock is taken when free, and no step stops a thread that owns it. *)
LEMMA LockOwnerStep == ASSUME IInv, NEW p \in Slots, Step(p) PROVE LockOwner'
<1>1. LockOwner /\ TypeOK /\ ForkOwns /\ ThreadAlive /\ CursorOK
  BY Zenon DEF IInv
<1>2. CASE Dispatch(p) \/ Yield(p)
  BY <1>1, <1>2, SlotFacts DEF Dispatch, Yield, thread, LockOwner, TypeOK, ForkOwns, ThreadAlive,
    CursorOK, Locked, States, Live, Labels
<1>3. CASE ForkCall(p) \/ ExitCall(p) \/ Fault(p) \/ WaitCall(p) \/ KillCall(p)
  BY <1>1, <1>3, SlotFacts DEF ForkCall, ExitCall, Fault, WaitCall, KillCall, At, Goto, table,
    LockOwner, TypeOK, ForkOwns, ThreadAlive, CursorOK, Locked, States, Live, Labels
<1>4. CASE AllocSkip(p) \/ AllocFound(p) \/ AllocFail(p) \/ ForkSetParent(p) \/ ForkSetRunnable(p)
  BY <1>1, <1>4, SlotFacts DEF AllocSkip, AllocFound, AllocFail, ForkSetParent, ForkSetRunnable,
    At, FreeProc, Goto, Return, table, LockOwner, TypeOK, ForkOwns, ThreadAlive, CursorOK, Locked,
    States, Live, Labels
<1>5. CASE KilledExit(p) \/ ExitPanic(p) \/ ExitLock(p) \/ ReparentChild(p) \/ ReparentSkip(p) \/
  ReparentDone(p) \/ WakeupSlot(p) \/ WakeupDone(p) \/ ExitZombie(p)
  BY <1>1, <1>5, SlotFacts DEF KilledExit, ExitPanic, ExitLock, ReparentChild, ReparentSkip,
    ReparentDone, WakeupSlot, WakeupDone, ExitZombie, AcquireWait, At, Goto, ReleaseWait,
    WakeChan, table, thread, LockOwner, TypeOK, ForkOwns, ThreadAlive, CursorOK, Locked, States,
    Live, Labels
<1>6. CASE WaitLock(p) \/ WaitSkip(p) \/ WaitReap(p) \/ WaitCopyoutFails(p) \/ WaitxTimesFail(p)
  \/ WaitNone(p) \/ WaitDecide(p) \/ WaitSleep(p)
  BY <1>1, <1>6, SlotFacts DEF WaitLock, WaitSkip, WaitReap, WaitCopyoutFails, WaitxTimesFail,
    WaitNone, WaitDecide, WaitSleep, AcquireWait, At, FreeProc, Goto, ReleaseWait, Return,
    ZombieFound, table, LockOwner, TypeOK, ForkOwns, ThreadAlive, CursorOK, Locked, States, Live,
    Labels
<1>7. CASE KillSkip(p) \/ KillFound(p)
  BY <1>1, <1>7, SlotFacts DEF KillSkip, KillFound, At, Goto, Return, table, LockOwner, TypeOK,
    ForkOwns, ThreadAlive, CursorOK, Locked, States, Live, Labels
<1> QED
  BY Zenon, <1>2, <1>3, <1>4, <1>5, <1>6, <1>7 DEF Step, Program, Kernel, ForkStep, ExitStep, WaitStep,
    KillStep

(* No other thread touches a USED slot. *)
LEMMA ForkOwnsStep == ASSUME IInv, NEW p \in Slots, Step(p) PROVE ForkOwns'
<1>1. ForkOwns /\ TypeOK /\ CursorOK /\ ThreadAlive
  BY Zenon DEF IInv
<1>2. CASE Dispatch(p) \/ Yield(p)
  BY <1>1, <1>2, SlotFacts DEF Dispatch, Yield, thread, ForkOwns, TypeOK, CursorOK, ThreadAlive,
    States, Live, Labels
<1>3. CASE ForkCall(p) \/ ExitCall(p) \/ Fault(p) \/ WaitCall(p) \/ KillCall(p)
  BY <1>1, <1>3, SlotFacts DEF ForkCall, ExitCall, Fault, WaitCall, KillCall, At, Goto, table,
    ForkOwns, TypeOK, CursorOK, ThreadAlive, States, Live, Labels
<1>4. CASE AllocSkip(p) \/ AllocFound(p) \/ AllocFail(p) \/ ForkSetParent(p) \/ ForkSetRunnable(p)
  BY <1>1, <1>4, SlotFacts DEF AllocSkip, AllocFound, AllocFail, ForkSetParent, ForkSetRunnable,
    At, FreeProc, Goto, Return, table, ForkOwns, TypeOK, CursorOK, ThreadAlive, States, Live,
    Labels
<1>5. CASE KilledExit(p) \/ ExitPanic(p) \/ ExitLock(p) \/ ReparentChild(p) \/ ReparentSkip(p) \/
  ReparentDone(p) \/ WakeupSlot(p) \/ WakeupDone(p) \/ ExitZombie(p)
  BY <1>1, <1>5, SlotFacts DEF KilledExit, ExitPanic, ExitLock, ReparentChild, ReparentSkip,
    ReparentDone, WakeupSlot, WakeupDone, ExitZombie, At, Goto, WakeChan, table, thread, ForkOwns,
    TypeOK, CursorOK, ThreadAlive, States, Live, Labels
<1>6. CASE WaitLock(p) \/ WaitSkip(p) \/ WaitReap(p) \/ WaitCopyoutFails(p) \/ WaitxTimesFail(p)
  \/ WaitNone(p) \/ WaitDecide(p) \/ WaitSleep(p)
  BY <1>1, <1>6, SlotFacts DEF WaitLock, WaitSkip, WaitReap, WaitCopyoutFails, WaitxTimesFail,
    WaitNone, WaitDecide, WaitSleep, At, FreeProc, Goto, Return, ZombieFound, table, ForkOwns,
    TypeOK, CursorOK, ThreadAlive, States, Live, Labels
<1>7. CASE KillSkip(p) \/ KillFound(p)
  BY <1>1, <1>7, SlotFacts DEF KillSkip, KillFound, At, Goto, Return, table, ForkOwns, TypeOK,
    CursorOK, ThreadAlive, States, Live, Labels
<1> QED
  BY Zenon, <1>2, <1>3, <1>4, <1>5, <1>6, <1>7 DEF Step, Program, Kernel, ForkStep, ExitStep, WaitStep,
    KillStep

(* wakeup() resets its cursor. *)
LEMMA WakeupStartsStep == ASSUME IInv, NEW p \in Slots, Step(p) PROVE WakeupStarts'
<1>1. WakeupStarts /\ TypeOK
  BY Zenon DEF IInv
<1>2. CASE Dispatch(p) \/ Yield(p)
  BY Zenon, <1>1, <1>2, SlotFacts DEF Dispatch, Yield, thread, WakeupStarts, TypeOK, States, Live, Labels
<1>3. CASE ForkCall(p) \/ ExitCall(p) \/ Fault(p) \/ WaitCall(p) \/ KillCall(p)
  BY Zenon, <1>1, <1>3, SlotFacts DEF ForkCall, ExitCall, Fault, WaitCall, KillCall, At, Goto,
    WakeupStarts, TypeOK, States, Live, Labels
<1>4. CASE AllocSkip(p) \/ AllocFound(p) \/ AllocFail(p) \/ ForkSetParent(p) \/ ForkSetRunnable(p)
  BY <1>1, <1>4, SlotFacts DEF AllocSkip, AllocFound, AllocFail, ForkSetParent, ForkSetRunnable,
    At, Goto, Return, WakeupStarts, TypeOK, States, Live, Labels
<1>5. CASE KilledExit(p) \/ ExitPanic(p) \/ ExitLock(p) \/ ReparentChild(p) \/ ReparentSkip(p) \/
  ReparentDone(p) \/ WakeupSlot(p) \/ WakeupDone(p) \/ ExitZombie(p)
  BY <1>1, <1>5, SlotFacts DEF KilledExit, ExitPanic, ExitLock, ReparentChild, ReparentSkip,
    ReparentDone, WakeupSlot, WakeupDone, ExitZombie, At, Goto, WakeChan, thread, WakeupStarts,
    TypeOK, States, Live, Labels
<1>6. CASE WaitLock(p) \/ WaitSkip(p) \/ WaitReap(p) \/ WaitCopyoutFails(p) \/ WaitxTimesFail(p)
  \/ WaitNone(p) \/ WaitDecide(p) \/ WaitSleep(p)
  BY <1>1, <1>6, SlotFacts DEF WaitLock, WaitSkip, WaitReap, WaitCopyoutFails, WaitxTimesFail,
    WaitNone, WaitDecide, WaitSleep, At, Goto, Return, ZombieFound, WakeupStarts, TypeOK, States,
    Live, Labels
<1>7. CASE KillSkip(p) \/ KillFound(p)
  BY Zenon, <1>1, <1>7, SlotFacts DEF KillSkip, KillFound, At, Goto, Return, WakeupStarts, TypeOK,
    States, Live, Labels
<1> QED
  BY Zenon, <1>2, <1>3, <1>4, <1>5, <1>6, <1>7 DEF Step, Program, Kernel, ForkStep, ExitStep, WaitStep,
    KillStep
-----------------------------------------------------------------------------
(* reparent() passes every slot, and nobody else can add a child meanwhile. *)
LEMMA OrphanedStep == ASSUME IInv, NEW p \in Slots, Step(p) PROVE Orphaned'
<1>1. Orphaned /\ TypeOK /\ LockOwner /\ ThreadAlive /\ ForkOwns
  BY Zenon DEF IInv
<1>2. CASE Dispatch(p) \/ Yield(p)
  BY <1>1, <1>2, SlotFacts DEF Dispatch, Yield, thread, Orphaned, TypeOK, LockOwner, ThreadAlive,
    ForkOwns, States, Live, Labels, Locked
<1>3. CASE ForkCall(p) \/ ExitCall(p) \/ Fault(p) \/ WaitCall(p) \/ KillCall(p)
  BY <1>1, <1>3, SlotFacts DEF ForkCall, ExitCall, Fault, WaitCall, KillCall, At, Goto, SetIdx,
    table, Orphaned, TypeOK, LockOwner, ThreadAlive, ForkOwns, States, Live, Labels, Locked
<1>4. CASE AllocSkip(p) \/ AllocFound(p) \/ AllocFail(p) \/ ForkSetParent(p) \/ ForkSetRunnable(p)
  BY <1>1, <1>4, SlotFacts DEF AllocSkip, AllocFound, AllocFail, ForkSetParent, ForkSetRunnable,
    At, FreeProc, Goto, Return, SetIdx, table, Orphaned, TypeOK, LockOwner, ThreadAlive, ForkOwns,
    States, Live, Labels, Locked
<1>5. CASE KilledExit(p)
  BY <1>1, <1>5, SlotFacts DEF KilledExit, At, Goto, table, Orphaned, TypeOK, LockOwner,
    ThreadAlive, ForkOwns, States, Live, Labels, Locked
<1>6. CASE ExitPanic(p)
  BY <1>1, <1>6, SlotFacts DEF ExitPanic, At, table, thread, Orphaned, TypeOK, LockOwner,
    ThreadAlive, ForkOwns, States, Live, Labels, Locked
<1>7. CASE ExitLock(p)
  BY <1>1, <1>7, SlotFacts DEF ExitLock, At, Goto, SetIdx, table, Orphaned, TypeOK, LockOwner,
    ThreadAlive, ForkOwns, States, Live, Labels, Locked
<1>8. CASE ReparentChild(p)
  BY <1>1, <1>8, SlotFacts DEF ReparentChild, At, Goto, Orphaned, TypeOK, LockOwner, ThreadAlive,
    ForkOwns, States, Live, Labels, Locked
<1>9. CASE ReparentSkip(p)
  <2>1. \A q \in Slots : q < idx[p] + 1 => q < idx[p] \/ q = idx[p]
    BY <1>1, NextCursor DEF ReparentSkip, At, SetIdx, table, Orphaned, TypeOK, LockOwner,
      ThreadAlive, ForkOwns, States, Live, Labels, Locked
  <2> QED
    BY <1>1, <1>9, <2>1, SlotFacts DEF ReparentSkip, At, SetIdx, table, Orphaned, TypeOK,
      LockOwner, ThreadAlive, ForkOwns, States, Live, Labels, Locked
<1>10. CASE ReparentDone(p)
  BY <1>1, <1>10, SlotFacts DEF ReparentDone, At, Goto, SetIdx, table, Orphaned, TypeOK,
    LockOwner, ThreadAlive, ForkOwns, States, Live, Labels, Locked
<1>11. CASE WakeupSlot(p)
  BY <1>1, <1>11, SlotFacts DEF WakeupSlot, At, WakeChan, Orphaned, TypeOK, LockOwner,
    ThreadAlive, ForkOwns, States, Live, Labels, Locked
<1>12. CASE WakeupDone(p)
  <2>1. CASE pc[p] = "wakeinit"
    BY <1>1, <1>12, <2>1, SlotFacts DEF WakeupDone, At, Goto, SetIdx, table, Orphaned, TypeOK,
      LockOwner, ThreadAlive, ForkOwns, States, Live, Labels, Locked
  <2>2. CASE pc[p] = "wakeparent"
    BY <1>1, <1>12, <2>2, SlotFacts DEF WakeupDone, At, Goto, table, Orphaned, TypeOK,
      LockOwner, ThreadAlive, ForkOwns, States, Live, Labels, Locked
  <2> QED
    BY Zenon, <1>12, <2>1, <2>2 DEF WakeupDone, At
<1>13. CASE ExitZombie(p)
  BY <1>1, <1>13, SlotFacts DEF ExitZombie, At, Goto, Orphaned, TypeOK, LockOwner, ThreadAlive,
    ForkOwns, States, Live, Labels, Locked
<1>14. CASE WaitLock(p) \/ WaitSkip(p) \/ WaitReap(p) \/ WaitCopyoutFails(p) \/ WaitxTimesFail(p)
  \/ WaitNone(p) \/ WaitDecide(p) \/ WaitSleep(p)
  BY <1>1, <1>14, SlotFacts DEF WaitLock, WaitSkip, WaitReap, WaitCopyoutFails, WaitxTimesFail,
    WaitNone, WaitDecide, WaitSleep, At, FreeProc, Goto, Return, SetIdx, ZombieFound, table,
    Orphaned, TypeOK, LockOwner, ThreadAlive, ForkOwns, States, Live, Labels, Locked
<1>15. CASE KillSkip(p) \/ KillFound(p)
  BY <1>1, <1>15, SlotFacts DEF KillSkip, KillFound, At, Goto, Return, SetIdx, table, Orphaned,
    TypeOK, LockOwner, ThreadAlive, ForkOwns, States, Live, Labels, Locked
<1> QED
  BY Zenon, <1>2, <1>3, <1>4, <1>5, <1>6, <1>7, <1>8, <1>9, <1>10, <1>11, <1>12, <1>13, <1>14, <1>15 DEF
    Step, Program, Kernel, ForkStep, ExitStep, WaitStep, KillStep

(* A process that dies has no child left, a slot that is freed is no parent. *)
LEMMA ParentAliveStep == ASSUME IInv, NEW p \in Slots, Step(p) PROVE ParentAlive'
<1>1. ParentAlive /\ TypeOK /\ Orphaned /\ ThreadAlive /\ ForkOwns /\ CursorOK
  BY Zenon DEF IInv
<1>2. CASE Dispatch(p) \/ Yield(p)
  BY <1>1, <1>2, SlotFacts DEF Dispatch, Yield, ParentAlive, TypeOK, Orphaned, ThreadAlive,
    ForkOwns, CursorOK, Live, States, Labels
<1>3. CASE ForkCall(p) \/ ExitCall(p) \/ Fault(p) \/ WaitCall(p) \/ KillCall(p)
  BY Zenon, <1>1, <1>3, SlotFacts DEF ForkCall, ExitCall, Fault, WaitCall, KillCall, At, table,
    ParentAlive, TypeOK, Orphaned, ThreadAlive, ForkOwns, CursorOK, Live, States, Labels
<1>4. CASE AllocSkip(p) \/ AllocFound(p) \/ AllocFail(p) \/ ForkSetParent(p) \/ ForkSetRunnable(p)
  BY <1>1, <1>4, SlotFacts DEF AllocSkip, AllocFound, AllocFail, ForkSetParent, ForkSetRunnable,
    At, FreeProc, table, ParentAlive, TypeOK, Orphaned, ThreadAlive, ForkOwns, CursorOK, Live,
    States, Labels
<1>5. CASE KilledExit(p) \/ ExitPanic(p) \/ ExitLock(p) \/ ReparentChild(p) \/ ReparentSkip(p) \/
  ReparentDone(p) \/ WakeupSlot(p) \/ WakeupDone(p) \/ ExitZombie(p)
  BY <1>1, <1>5, SlotFacts DEF KilledExit, ExitPanic, ExitLock, ReparentChild, ReparentSkip,
    ReparentDone, WakeupSlot, WakeupDone, ExitZombie, At, WakeChan, table, ParentAlive, TypeOK,
    Orphaned, ThreadAlive, ForkOwns, CursorOK, Live, States, Labels
<1>6. CASE WaitLock(p)
  BY Zenon, <1>1, <1>6, SlotFacts DEF WaitLock, At, table, ParentAlive, TypeOK, Orphaned, ThreadAlive,
    ForkOwns, CursorOK, Live, States, Labels
<1>7. CASE WaitSkip(p)
  BY Zenon, <1>1, <1>7, SlotFacts DEF WaitSkip, At, table, ParentAlive, TypeOK, Orphaned, ThreadAlive,
    ForkOwns, CursorOK, Live, States, Labels
<1>8. CASE WaitReap(p)
  BY <1>1, <1>8, SlotFacts DEF WaitReap, At, FreeProc, ZombieFound, ParentAlive, TypeOK, Orphaned,
    ThreadAlive, ForkOwns, CursorOK, Live, States, Labels
<1>9. CASE WaitCopyoutFails(p)
  BY Zenon, <1>1, <1>9, SlotFacts DEF WaitCopyoutFails, At, ZombieFound, table, ParentAlive, TypeOK,
    Orphaned, ThreadAlive, ForkOwns, CursorOK, Live, States, Labels
<1>10. CASE WaitxTimesFail(p)
  BY <1>1, <1>10, SlotFacts DEF WaitxTimesFail, At, FreeProc, ZombieFound, ParentAlive, TypeOK,
    Orphaned, ThreadAlive, ForkOwns, CursorOK, Live, States, Labels
<1>11. CASE WaitNone(p)
  BY Zenon, <1>1, <1>11, SlotFacts DEF WaitNone, At, table, ParentAlive, TypeOK, Orphaned, ThreadAlive,
    ForkOwns, CursorOK, Live, States, Labels
<1>12. CASE WaitDecide(p)
  BY Zenon, <1>1, <1>12, SlotFacts DEF WaitDecide, At, table, ParentAlive, TypeOK, Orphaned, ThreadAlive,
    ForkOwns, CursorOK, Live, States, Labels
<1>13. CASE WaitSleep(p)
  BY <1>1, <1>13, SlotFacts DEF WaitSleep, At, ParentAlive, TypeOK, Orphaned, ThreadAlive,
    ForkOwns, CursorOK, Live, States, Labels
<1>14. CASE KillSkip(p) \/ KillFound(p)
  BY <1>1, <1>14, SlotFacts DEF KillSkip, KillFound, At, table, ParentAlive, TypeOK, Orphaned,
    ThreadAlive, ForkOwns, CursorOK, Live, States, Labels
<1> QED
  BY Zenon, <1>2, <1>3, <1>4, <1>5, <1>6, <1>7, <1>8, <1>9, <1>10, <1>11, <1>12, <1>13, <1>14 DEF Step,
    Program, Kernel, ForkStep, ExitStep, WaitStep, KillStep

(* The parent would need wait_lock to sleep again. *)
LEMMA ParentAwakeStep == ASSUME IInv, NEW p \in Slots, Step(p) PROVE ParentAwake'
<1>1. ParentAwake /\ TypeOK /\ LockOwner /\ WakeupStarts /\ ThreadAlive /\ ForkOwns /\ CursorOK
  BY Zenon DEF IInv
<1>2. CASE Dispatch(p) \/ Yield(p)
  BY <1>1, <1>2, SlotFacts DEF Dispatch, Yield, thread, ParentAwake, TypeOK, LockOwner,
    WakeupStarts, ThreadAlive, ForkOwns, CursorOK, Asleep, States, Live, Labels, Locked
<1>3. CASE ForkCall(p) \/ ExitCall(p) \/ Fault(p) \/ WaitCall(p) \/ KillCall(p)
  BY <1>1, <1>3, SlotFacts DEF ForkCall, ExitCall, Fault, WaitCall, KillCall, At, Goto, table,
    ParentAwake, TypeOK, LockOwner, WakeupStarts, ThreadAlive, ForkOwns, CursorOK, Asleep, States,
    Live, Labels, Locked
<1>4. CASE AllocSkip(p) \/ AllocFound(p) \/ AllocFail(p) \/ ForkSetParent(p) \/ ForkSetRunnable(p)
  BY <1>1, <1>4, SlotFacts DEF AllocSkip, AllocFound, AllocFail, ForkSetParent, ForkSetRunnable,
    At, FreeProc, Goto, Return, table, ParentAwake, TypeOK, LockOwner, WakeupStarts, ThreadAlive,
    ForkOwns, CursorOK, Asleep, States, Live, Labels, Locked
<1>5. CASE KilledExit(p)
  BY <1>1, <1>5, SlotFacts DEF KilledExit, At, Goto, table, ParentAwake, TypeOK, LockOwner,
    WakeupStarts, ThreadAlive, ForkOwns, CursorOK, Asleep, States, Live, Labels, Locked
<1>6. CASE ExitPanic(p)
  BY <1>1, <1>6, SlotFacts DEF ExitPanic, At, table, thread, ParentAwake, TypeOK, LockOwner,
    WakeupStarts, ThreadAlive, ForkOwns, CursorOK, Asleep, States, Live, Labels, Locked
<1>7. CASE ExitLock(p)
  BY <1>1, <1>7, SlotFacts DEF ExitLock, At, Goto, table, ParentAwake, TypeOK, LockOwner,
    WakeupStarts, ThreadAlive, ForkOwns, CursorOK, Asleep, States, Live, Labels, Locked
<1>8. CASE ReparentChild(p)
  BY <1>1, <1>8, SlotFacts DEF ReparentChild, At, Goto, ParentAwake, TypeOK, LockOwner,
    WakeupStarts, ThreadAlive, ForkOwns, CursorOK, Asleep, States, Live, Labels, Locked
<1>9. CASE ReparentSkip(p)
  BY <1>1, <1>9, SlotFacts DEF ReparentSkip, At, table, ParentAwake, TypeOK, LockOwner,
    WakeupStarts, ThreadAlive, ForkOwns, CursorOK, Asleep, States, Live, Labels, Locked
<1>10. CASE ReparentDone(p)
  BY <1>1, <1>10, SlotFacts DEF ReparentDone, At, Goto, table, ParentAwake, TypeOK, LockOwner,
    WakeupStarts, ThreadAlive, ForkOwns, CursorOK, Asleep, States, Live, Labels, Locked
<1>11. CASE WakeupSlot(p)
  BY <1>1, <1>11, SlotFacts DEF WakeupSlot, At, WakeChan, ParentAwake, TypeOK, LockOwner,
    WakeupStarts, ThreadAlive, ForkOwns, CursorOK, Asleep, States, Live, Labels, Locked
<1>12. CASE WakeupDone(p)
  BY <1>1, <1>12, SlotFacts DEF WakeupDone, At, Goto, table, ParentAwake, TypeOK, LockOwner,
    WakeupStarts, ThreadAlive, ForkOwns, CursorOK, Asleep, States, Live, Labels, Locked
<1>13. CASE ExitZombie(p)
  BY <1>1, <1>13, SlotFacts DEF ExitZombie, At, Goto, ParentAwake, TypeOK, LockOwner,
    WakeupStarts, ThreadAlive, ForkOwns, CursorOK, Asleep, States, Live, Labels, Locked
<1>14. CASE WaitLock(p) \/ WaitSkip(p) \/ WaitReap(p) \/ WaitCopyoutFails(p) \/ WaitxTimesFail(p)
  \/ WaitNone(p) \/ WaitDecide(p) \/ WaitSleep(p)
  BY <1>1, <1>14, SlotFacts DEF WaitLock, WaitSkip, WaitReap, WaitCopyoutFails, WaitxTimesFail,
    WaitNone, WaitDecide, WaitSleep, At, FreeProc, Goto, Return, ZombieFound, table, ParentAwake,
    TypeOK, LockOwner, WakeupStarts, ThreadAlive, ForkOwns, CursorOK, Asleep, States, Live,
    Labels, Locked
<1>15. CASE KillSkip(p) \/ KillFound(p)
  BY <1>1, <1>15, SlotFacts DEF KillSkip, KillFound, At, Goto, Return, table, ParentAwake, TypeOK,
    LockOwner, WakeupStarts, ThreadAlive, ForkOwns, CursorOK, Asleep, States, Live, Labels, Locked
<1> QED
  BY Zenon, <1>2, <1>3, <1>4, <1>5, <1>6, <1>7, <1>8, <1>9, <1>10, <1>11, <1>12, <1>13, <1>14, <1>15 DEF
    Step, Program, Kernel, ForkStep, ExitStep, WaitStep, KillStep

(* While wait() owns wait_lock, none of its children dies. *)
LEMMA ScannedStep == ASSUME IInv, NEW p \in Slots, Step(p) PROVE Scanned'
<1>1. Scanned /\ TypeOK /\ LockOwner /\ ForkOwns /\ ThreadAlive /\ CursorOK
  BY Zenon DEF IInv
<1>2. CASE Dispatch(p) \/ Yield(p)
  BY <1>1, <1>2, SlotFacts DEF Dispatch, Yield, thread, Scanned, TypeOK, LockOwner, ForkOwns,
    ThreadAlive, CursorOK, ZombieChild, States, Live, Labels, Locked
<1>3. CASE ForkCall(p) \/ ExitCall(p) \/ Fault(p) \/ WaitCall(p) \/ KillCall(p)
  BY <1>1, <1>3, SlotFacts DEF ForkCall, ExitCall, Fault, WaitCall, KillCall, At, Goto, SetIdx,
    table, Scanned, TypeOK, LockOwner, ForkOwns, ThreadAlive, CursorOK, ZombieChild, States, Live,
    Labels, Locked
<1>4. CASE AllocSkip(p) \/ AllocFound(p) \/ AllocFail(p) \/ ForkSetParent(p) \/ ForkSetRunnable(p)
  BY <1>1, <1>4, SlotFacts DEF AllocSkip, AllocFound, AllocFail, ForkSetParent, ForkSetRunnable,
    At, FreeProc, Goto, Return, SetIdx, table, Scanned, TypeOK, LockOwner, ForkOwns, ThreadAlive,
    CursorOK, ZombieChild, States, Live, Labels, Locked
<1>5. CASE KilledExit(p) \/ ExitPanic(p) \/ ExitLock(p) \/ ReparentChild(p) \/ ReparentSkip(p) \/
  ReparentDone(p) \/ WakeupSlot(p) \/ WakeupDone(p) \/ ExitZombie(p)
  BY <1>1, <1>5, SlotFacts DEF KilledExit, ExitPanic, ExitLock, ReparentChild, ReparentSkip,
    ReparentDone, WakeupSlot, WakeupDone, ExitZombie, At, Goto, SetIdx, WakeChan, table, thread,
    Scanned, TypeOK, LockOwner, ForkOwns, ThreadAlive, CursorOK, ZombieChild, States, Live,
    Labels, Locked
<1>6. CASE WaitLock(p) \/ WaitSkip(p) \/ WaitReap(p) \/ WaitCopyoutFails(p) \/ WaitxTimesFail(p)
  \/ WaitNone(p) \/ WaitDecide(p) \/ WaitSleep(p)
  BY <1>1, <1>6, SlotFacts DEF WaitLock, WaitSkip, WaitReap, WaitCopyoutFails, WaitxTimesFail,
    WaitNone, WaitDecide, WaitSleep, At, FreeProc, Goto, Return, SetIdx, ZombieFound, table,
    Scanned, TypeOK, LockOwner, ForkOwns, ThreadAlive, CursorOK, ZombieChild, States, Live,
    Labels, Locked
<1>7. CASE KillSkip(p) \/ KillFound(p)
  BY <1>1, <1>7, SlotFacts DEF KillSkip, KillFound, At, Goto, Return, SetIdx, table, Scanned,
    TypeOK, LockOwner, ForkOwns, ThreadAlive, CursorOK, ZombieChild, States, Live, Labels, Locked
<1> QED
  BY Zenon, <1>2, <1>3, <1>4, <1>5, <1>6, <1>7 DEF Step, Program, Kernel, ForkStep, ExitStep, WaitStep,
    KillStep

(* A ZOMBIE appears only under a parent that is awake, or is handed to an  *)
(* init that is about to be woken.                                         *)
LEMMA MissedStep == ASSUME IInv, NEW p \in Slots, Step(p) PROVE Missed'
<1>1. Missed /\ TypeOK /\ ParentAwake /\ LockOwner /\ Scanned /\ WakeupStarts /\ ThreadAlive /\ ForkOwns /\ CursorOK /\ ParentAlive
  BY Zenon DEF IInv
<1>2. CASE Dispatch(p) \/ Yield(p)
  BY <1>1, <1>2, SlotFacts DEF Dispatch, Yield, thread, Missed, TypeOK, ParentAwake, LockOwner,
    Scanned, WakeupStarts, ThreadAlive, ForkOwns, CursorOK, ParentAlive, Asleep, States, Live,
    Labels, Locked, ZombieChild
<1>3. CASE ForkCall(p) \/ ExitCall(p) \/ Fault(p) \/ WaitCall(p) \/ KillCall(p)
  BY <1>1, <1>3, SlotFacts DEF ForkCall, ExitCall, Fault, WaitCall, KillCall, At, Goto, table,
    Missed, TypeOK, ParentAwake, LockOwner, Scanned, WakeupStarts, ThreadAlive, ForkOwns,
    CursorOK, ParentAlive, Asleep, States, Live, Labels, Locked, ZombieChild
<1>4. CASE AllocSkip(p) \/ AllocFound(p) \/ AllocFail(p) \/ ForkSetParent(p) \/ ForkSetRunnable(p)
  BY <1>1, <1>4, SlotFacts DEF AllocSkip, AllocFound, AllocFail, ForkSetParent, ForkSetRunnable,
    At, FreeProc, Goto, Return, table, Missed, TypeOK, ParentAwake, LockOwner, Scanned,
    WakeupStarts, ThreadAlive, ForkOwns, CursorOK, ParentAlive, Asleep, States, Live, Labels,
    Locked, ZombieChild
<1>5. CASE KilledExit(p)
  BY <1>1, <1>5, SlotFacts DEF KilledExit, At, Goto, table, Missed, TypeOK, ParentAwake,
    LockOwner, Scanned, WakeupStarts, ThreadAlive, ForkOwns, CursorOK, ParentAlive, Asleep,
    States, Live, Labels, Locked, ZombieChild
<1>6. CASE ExitPanic(p)
  BY <1>1, <1>6, SlotFacts DEF ExitPanic, At, table, thread, Missed, TypeOK, ParentAwake,
    LockOwner, Scanned, WakeupStarts, ThreadAlive, ForkOwns, CursorOK, ParentAlive, Asleep,
    States, Live, Labels, Locked, ZombieChild
<1>7. CASE ExitLock(p)
  BY <1>1, <1>7, SlotFacts DEF ExitLock, AcquireWait, At, Goto, table, Missed, TypeOK,
    ParentAwake, LockOwner, Scanned, WakeupStarts, ThreadAlive, ForkOwns, CursorOK, ParentAlive,
    Asleep, States, Live, Labels, Locked, ZombieChild
<1>8. CASE ReparentChild(p)
  BY <1>1, <1>8, SlotFacts DEF ReparentChild, At, Goto, Missed, TypeOK, ParentAwake, LockOwner,
    Scanned, WakeupStarts, ThreadAlive, ForkOwns, CursorOK, ParentAlive, Asleep, States, Live,
    Labels, Locked, ZombieChild
<1>9. CASE ReparentSkip(p)
  BY <1>1, <1>9, SlotFacts DEF ReparentSkip, At, table, Missed, TypeOK, ParentAwake, LockOwner,
    Scanned, WakeupStarts, ThreadAlive, ForkOwns, CursorOK, ParentAlive, Asleep, States, Live,
    Labels, Locked, ZombieChild
<1>10. CASE ReparentDone(p)
  BY <1>1, <1>10, SlotFacts DEF ReparentDone, At, Goto, table, Missed, TypeOK, ParentAwake,
    LockOwner, Scanned, WakeupStarts, ThreadAlive, ForkOwns, CursorOK, ParentAlive, Asleep,
    States, Live, Labels, Locked, ZombieChild
<1>11. CASE WakeupSlot(p)
  <2>1. wait_lock = p /\ p # initproc
    BY Zenon, <1>1, <1>11, SlotFacts DEF WakeupSlot, At, WakeChan, Missed, TypeOK, ParentAwake,
      LockOwner, Scanned, WakeupStarts, ThreadAlive, ForkOwns, CursorOK, ParentAlive, Asleep,
      States, Live, Labels, Locked, ZombieChild
  <2>2. \A q \in Slots : Asleep(q)' => Asleep(q)
    BY <1>1, <1>11 DEF WakeupSlot, At, WakeChan, Missed, TypeOK, ParentAwake, LockOwner, Scanned,
      WakeupStarts, ThreadAlive, ForkOwns, CursorOK, ParentAlive, Asleep, States, Live, Labels,
      Locked, ZombieChild
  <2>3. ASSUME Asleep(initproc), pc[p] = "wakeinit", w[p] = 0 PROVE ~Asleep(initproc)'
    BY <1>1, <1>11, <2>1, <2>3, SlotFacts DEF WakeupSlot, At, WakeChan, Missed, TypeOK,
      ParentAwake, LockOwner, Scanned, WakeupStarts, ThreadAlive, ForkOwns, CursorOK, ParentAlive,
      Asleep, States, Live, Labels, Locked, ZombieChild, initproc
  <2> QED
    BY <1>1, <1>11, <2>1, <2>2, <2>3, SlotFacts DEF WakeupSlot, At, WakeChan, Missed, TypeOK,
      ParentAwake, LockOwner, Scanned, WakeupStarts, ThreadAlive, ForkOwns, CursorOK, ParentAlive,
      Asleep, States, Live, Labels, Locked, ZombieChild
<1>12. CASE WakeupDone(p)
  BY <1>1, <1>12, SlotFacts DEF WakeupDone, At, Goto, table, Missed, TypeOK, ParentAwake,
    LockOwner, Scanned, WakeupStarts, ThreadAlive, ForkOwns, CursorOK, ParentAlive, Asleep,
    States, Live, Labels, Locked, ZombieChild
<1>13. CASE ExitZombie(p)
  BY <1>1, <1>13, SlotFacts DEF ExitZombie, At, Goto, ReleaseWait, Missed, TypeOK, ParentAwake,
    LockOwner, Scanned, WakeupStarts, ThreadAlive, ForkOwns, CursorOK, ParentAlive, Asleep,
    States, Live, Labels, Locked, ZombieChild
<1>14. CASE WaitLock(p) \/ WaitSkip(p) \/ WaitReap(p) \/ WaitCopyoutFails(p) \/ WaitxTimesFail(p)
  \/ WaitNone(p) \/ WaitDecide(p) \/ WaitSleep(p)
  <2>1. CASE WaitLock(p) \/ WaitSkip(p)
    BY <1>1, <2>1, SlotFacts DEF WaitLock, WaitSkip, AcquireWait, At, Goto, table, Missed, TypeOK,
      ParentAwake, LockOwner, Scanned, WakeupStarts,
      ThreadAlive, ForkOwns, CursorOK, ParentAlive, Asleep, States, Live, Labels, Locked, ZombieChild
  <2>2. CASE WaitReap(p)
    BY <1>1, <2>2, SlotFacts DEF WaitReap, FreeProc, ReleaseWait, Return, ZombieFound, At, Goto, table, Missed, TypeOK,
      ParentAwake, LockOwner, Scanned, WakeupStarts,
      ThreadAlive, ForkOwns, CursorOK, ParentAlive, Asleep, States, Live, Labels, Locked, ZombieChild
  <2>3. CASE WaitCopyoutFails(p)
    BY <1>1, <2>3, SlotFacts DEF WaitCopyoutFails, ReleaseWait, Return, ZombieFound, At, Goto, table, Missed, TypeOK,
      ParentAwake, LockOwner, Scanned, WakeupStarts,
      ThreadAlive, ForkOwns, CursorOK, ParentAlive, Asleep, States, Live, Labels, Locked, ZombieChild
  <2>4. CASE WaitxTimesFail(p)
    BY <1>1, <2>4, SlotFacts DEF WaitxTimesFail, FreeProc, ReleaseWait, Return, ZombieFound, At, Goto, table, Missed, TypeOK,
      ParentAwake, LockOwner, Scanned, WakeupStarts,
      ThreadAlive, ForkOwns, CursorOK, ParentAlive, Asleep, States, Live, Labels, Locked, ZombieChild
  <2>5. CASE WaitNone(p) \/ WaitDecide(p)
    BY <1>1, <2>5, SlotFacts DEF WaitNone, WaitDecide, ReleaseWait, Return, ZombieFound, At, Goto, table, Missed, TypeOK,
      ParentAwake, LockOwner, Scanned, WakeupStarts,
      ThreadAlive, ForkOwns, CursorOK, ParentAlive, Asleep, States, Live, Labels, Locked, ZombieChild
  <2>6. CASE WaitSleep(p)
    BY <1>1, <2>6, SlotFacts DEF WaitSleep, ReleaseWait, At, Goto, table, Missed, TypeOK,
      ParentAwake, LockOwner, Scanned, WakeupStarts,
      ThreadAlive, ForkOwns, CursorOK, ParentAlive, Asleep, States, Live, Labels, Locked, ZombieChild
  <2> QED
    BY Zenon, <1>14, <2>1, <2>2, <2>3, <2>4, <2>5, <2>6
<1>15. CASE KillSkip(p) \/ KillFound(p)
  BY <1>1, <1>15, SlotFacts DEF KillSkip, KillFound, At, Goto, Return, table, Missed, TypeOK,
    ParentAwake, LockOwner, Scanned, WakeupStarts, ThreadAlive, ForkOwns, CursorOK, ParentAlive,
    Asleep, States, Live, Labels, Locked, ZombieChild
<1> QED
  BY Zenon, <1>2, <1>3, <1>4, <1>5, <1>6, <1>7, <1>8, <1>9, <1>10, <1>11, <1>12, <1>13, <1>14, <1>15 DEF
    Step, Program, Kernel, ForkStep, ExitStep, WaitStep, KillStep
-----------------------------------------------------------------------------
(* freeproc() clears the pid. *)
LEMMA FreePidStep == ASSUME IInv, NEW p \in Slots, Step(p) PROVE FreePid'
<1>1. FreePid /\ TypeOK /\ CursorOK /\ ForkOwns
  BY Zenon DEF IInv
<1>2. CASE Dispatch(p) \/ Yield(p)
  BY <1>1, <1>2, SlotFacts DEF Dispatch, Yield, FreePid, TypeOK, CursorOK, ForkOwns, States, Live,
    Labels
<1>3. CASE ForkCall(p) \/ ExitCall(p) \/ Fault(p) \/ WaitCall(p) \/ KillCall(p)
  BY Zenon, <1>1, <1>3, SlotFacts DEF ForkCall, ExitCall, Fault, WaitCall, KillCall, At, table, FreePid,
    TypeOK, CursorOK, ForkOwns, States, Live, Labels
<1>4. CASE AllocSkip(p) \/ AllocFound(p) \/ AllocFail(p) \/ ForkSetParent(p) \/ ForkSetRunnable(p)
  BY <1>1, <1>4, SlotFacts DEF AllocSkip, AllocFound, AllocFail, ForkSetParent, ForkSetRunnable,
    At, FreeProc, table, FreePid, TypeOK, CursorOK, ForkOwns, States, Live, Labels
<1>5. CASE KilledExit(p) \/ ExitPanic(p) \/ ExitLock(p) \/ ReparentChild(p) \/ ReparentSkip(p) \/
  ReparentDone(p) \/ WakeupSlot(p) \/ WakeupDone(p) \/ ExitZombie(p)
  BY <1>1, <1>5, SlotFacts DEF KilledExit, ExitPanic, ExitLock, ReparentChild, ReparentSkip,
    ReparentDone, WakeupSlot, WakeupDone, ExitZombie, At, WakeChan, table, FreePid, TypeOK,
    CursorOK, ForkOwns, States, Live, Labels
<1>6. CASE WaitLock(p) \/ WaitSkip(p) \/ WaitReap(p) \/ WaitCopyoutFails(p) \/ WaitxTimesFail(p)
  \/ WaitNone(p) \/ WaitDecide(p) \/ WaitSleep(p)
  BY <1>1, <1>6, SlotFacts DEF WaitLock, WaitSkip, WaitReap, WaitCopyoutFails, WaitxTimesFail,
    WaitNone, WaitDecide, WaitSleep, At, FreeProc, ZombieFound, table, FreePid, TypeOK, CursorOK,
    ForkOwns, States, Live, Labels
<1>7. CASE KillSkip(p) \/ KillFound(p)
  BY <1>1, <1>7, SlotFacts DEF KillSkip, KillFound, At, table, FreePid, TypeOK, CursorOK,
    ForkOwns, States, Live, Labels
<1> QED
  BY Zenon, <1>2, <1>3, <1>4, <1>5, <1>6, <1>7 DEF Step, Program, Kernel, ForkStep, ExitStep, WaitStep,
    KillStep

(* allocpid() hands out a pid above all those in use. *)
LEMMA PidsDistinctStep == ASSUME IInv, NEW p \in Slots, Step(p) PROVE PidsDistinct'
<1>1. PidsDistinct /\ TypeOK /\ CursorOK /\ FreePid /\ ForkOwns
  BY Zenon DEF IInv
<1>2. CASE Dispatch(p) \/ Yield(p)
  BY <1>1, <1>2, SlotFacts DEF Dispatch, Yield, PidsDistinct, TypeOK, CursorOK, FreePid, ForkOwns,
    States, Live, Labels
<1>3. CASE ForkCall(p) \/ ExitCall(p) \/ Fault(p) \/ WaitCall(p) \/ KillCall(p)
  BY <1>1, <1>3, SlotFacts DEF ForkCall, ExitCall, Fault, WaitCall, KillCall, At, table,
    PidsDistinct, TypeOK, CursorOK, FreePid, ForkOwns, States, Live, Labels
<1>4. CASE AllocSkip(p) \/ AllocFound(p) \/ AllocFail(p) \/ ForkSetParent(p) \/ ForkSetRunnable(p)
  BY <1>1, <1>4, SlotFacts DEF AllocSkip, AllocFound, AllocFail, ForkSetParent, ForkSetRunnable,
    At, FreeProc, table, PidsDistinct, TypeOK, CursorOK, FreePid, ForkOwns, States, Live, Labels
<1>5. CASE KilledExit(p) \/ ExitPanic(p) \/ ExitLock(p) \/ ReparentChild(p) \/ ReparentSkip(p) \/
  ReparentDone(p) \/ WakeupSlot(p) \/ WakeupDone(p) \/ ExitZombie(p)
  BY <1>1, <1>5, SlotFacts DEF KilledExit, ExitPanic, ExitLock, ReparentChild, ReparentSkip,
    ReparentDone, WakeupSlot, WakeupDone, ExitZombie, At, WakeChan, table, PidsDistinct, TypeOK,
    CursorOK, FreePid, ForkOwns, States, Live, Labels
<1>6. CASE WaitLock(p) \/ WaitSkip(p) \/ WaitReap(p) \/ WaitCopyoutFails(p) \/ WaitxTimesFail(p)
  \/ WaitNone(p) \/ WaitDecide(p) \/ WaitSleep(p)
  BY <1>1, <1>6, SlotFacts DEF WaitLock, WaitSkip, WaitReap, WaitCopyoutFails, WaitxTimesFail,
    WaitNone, WaitDecide, WaitSleep, At, FreeProc, ZombieFound, table, PidsDistinct, TypeOK,
    CursorOK, FreePid, ForkOwns, States, Live, Labels
<1>7. CASE KillSkip(p) \/ KillFound(p)
  BY <1>1, <1>7, SlotFacts DEF KillSkip, KillFound, At, table, PidsDistinct, TypeOK, CursorOK,
    FreePid, ForkOwns, States, Live, Labels
<1> QED
  BY Zenon, <1>2, <1>3, <1>4, <1>5, <1>6, <1>7 DEF Step, Program, Kernel, ForkStep, ExitStep, WaitStep,
    KillStep
-----------------------------------------------------------------------------
(* The invariant is preserved by every step. *)
LEMMA NextIInv == IInv /\ [Next]_vars => IInv'
<1> SUFFICES ASSUME IInv, [Next]_vars PROVE IInv'
  OBVIOUS
<1>1. CASE Run
  <2>1. PICK p \in Slots : Step(p)
    BY Zenon, <1>1 DEF Run, Step
  <2> QED
    BY Zenon, <2>1, TypeOKStep, CursorOKStep, ThreadAliveStep, LockOwnerStep, ForkOwnsStep, OrphanedStep,
       ParentAliveStep, WakeupStartsStep, ParentAwakeStep, MissedStep, ScannedStep, FreePidStep,
       PidsDistinctStep DEF IInv
<1>2. CASE UNCHANGED vars
  BY <1>2 DEF vars, table, thread, IInv, TypeOK, CursorOK, ThreadAlive, LockOwner, ForkOwns,
     Orphaned, ParentAlive, WakeupStarts, ParentAwake, Asleep, Missed, Scanned, ZombieChild, FreePid,
     PidsDistinct
<1> QED
  BY Zenon, <1>1, <1>2 DEF Next, Halt

(* IInv is an invariant of the process table. *)
THEOREM Inductive == Spec => []IInv
BY InitIInv, NextIInv, PTL DEF Spec

(* Type correctness: no loop over proc[] leaves the table, no slot number   *)
(* or pid is out of range, for any number of slots, harts and pids.        *)
THEOREM TypeCorrect == Spec => []TypeOK
<1>1. IInv => TypeOK
  BY Zenon DEF IInv
<1> QED
  BY <1>1, Inductive, PTL

(* exit() leaves no child behind and fork() publishes no dead parent: the  *)
(* parent of every slot is alive at all times.                             *)
THEOREM ParentsAlive == Spec => []ParentAlive
<1>1. IInv => ParentAlive
  BY Zenon DEF IInv
<1> QED
  BY <1>1, Inductive, PTL

(* exit() wakes its parent before it becomes a ZOMBIE, and still no wait() *)
(* sleeps over a ZOMBIE child: wait_lock covers both.                      *)
THEOREM NoZombieMissed == Spec => []NoMissedZombie
<1>1. IInv => NoMissedZombie
  BY Zenon, SlotFacts DEF IInv, Missed, Asleep, NoMissedZombie
<1> QED
  BY <1>1, Inductive, PTL

(* Two slots in use never have the same pid, however forks interleave. *)
THEOREM PidsUnique == Spec => []PidsDistinct
<1>1. IInv => PidsDistinct
  BY Zenon DEF IInv
<1> QED
  BY <1>1, Inductive, PTL
-----------------------------------------------------------------------------
(* scheduler() dispatches a RUNNABLE process on a free hart. *)
LEMMA DispatchRuns == ASSUME NEW p \in Slots, Dispatch(p) PROVE Lifecycle!Run(p)
BY Zenon DEF Dispatch, Lifecycle!Run, Lifecycle!Move, Cardinality, Lifecycle!Cardinality

(* Every step of the table is a step of one slot along the life of a       *)
(* process, or leaves the states alone.                                    *)
LEMMA StepLifecycle ==
  ASSUME IInv, NEW p \in Slots, Step(p)
  PROVE  (\E q \in Slots : Lifecycle!Alloc(q) \/ Lifecycle!Free(q) \/ Lifecycle!Ready(q)
            \/ Lifecycle!Run(q) \/ Lifecycle!Yield(q) \/ Lifecycle!Sleep(q)
            \/ Lifecycle!Wakeup(q) \/ Lifecycle!Exit(q)) \/ UNCHANGED state
<1>1. TypeOK /\ CursorOK /\ ForkOwns
  BY Zenon DEF IInv
<1> USE <1>1, SlotFacts DEF TypeOK, CursorOK, ForkOwns, At, FreeProc, ZombieFound, table,
      Lifecycle!Move
<1>2. CASE Dispatch(p)
  BY Zenon, <1>2, DispatchRuns
<1>3. CASE Yield(p)
  BY Zenon, <1>3 DEF Yield, Lifecycle!Yield
<1>4. CASE Program(p)
  BY Zenon, <1>4 DEF Program, ForkCall, ExitCall, Fault, WaitCall, KillCall
<1>5. CASE ForkStep(p)
  <2>1. CASE AllocSkip(p) \/ AllocFail(p) \/ ForkSetParent(p)
    BY <2>1 DEF AllocSkip, AllocFail, ForkSetParent
  <2>2. CASE AllocFound(p)
    BY Zenon, <2>2 DEF AllocFound, Lifecycle!Alloc
  <2>3. CASE ForkSetRunnable(p)
    BY Zenon, <2>3 DEF ForkSetRunnable, Lifecycle!Ready
  <2> QED
    BY Zenon, <1>5, <2>1, <2>2, <2>3 DEF ForkStep
<1>6. CASE ExitStep(p)
  <2>1. CASE KilledExit(p) \/ ExitPanic(p) \/ ExitLock(p) \/ ReparentChild(p) \/ ReparentSkip(p)
               \/ ReparentDone(p) \/ WakeupDone(p)
    BY Zenon, <2>1 DEF KilledExit, ExitPanic, ExitLock, ReparentChild, ReparentSkip, ReparentDone, WakeupDone
  <2>2. CASE WakeupSlot(p)
    BY Zenon, <2>2 DEF WakeupSlot, Lifecycle!Wakeup
  <2>3. CASE ExitZombie(p)
    BY Zenon, <2>3 DEF ExitZombie, Lifecycle!Exit
  <2> QED
    BY Zenon, <1>6, <2>1, <2>2, <2>3 DEF ExitStep
<1>7. CASE WaitStep(p)
  <2>1. CASE WaitLock(p) \/ WaitSkip(p) \/ WaitCopyoutFails(p) \/ WaitNone(p) \/ WaitDecide(p)
    BY Zenon, <2>1 DEF WaitLock, WaitSkip, WaitCopyoutFails, WaitNone, WaitDecide
  <2>2. CASE WaitReap(p) \/ WaitxTimesFail(p)
    BY Zenon, <2>2 DEF WaitReap, WaitxTimesFail, Lifecycle!Free
  <2>3. CASE WaitSleep(p)
    BY Zenon, <2>3 DEF WaitSleep, Lifecycle!Sleep
  <2> QED
    BY Zenon, <1>7, <2>1, <2>2, <2>3 DEF WaitStep
<1>8. CASE KillStep(p)
  BY <1>8 DEF KillStep, KillSkip, KillFound, Lifecycle!Wakeup
<1> QED
  BY Zenon, <1>2, <1>3, <1>4, <1>5, <1>6, <1>7, <1>8 DEF Step, Kernel

(* The process table implements ProcStates: a slot changes its state only  *)
(* along the life of a process, whatever kill() and wakeup() race with.    *)
THEOREM LifecycleRefinement == Spec => ImplementsProcStates
<1>1. Init => Lifecycle!Init
  BY Zenon, SlotFacts DEF Init, Lifecycle!Init
<1>2. IInv /\ [Next]_vars => [Lifecycle!Next]_state
  <2> SUFFICES ASSUME IInv, [Next]_vars PROVE [Lifecycle!Next]_state
    OBVIOUS
  <2>1. CASE Run
    BY Zenon, <2>1, StepLifecycle DEF Run, Step, Lifecycle!Next
  <2>2. CASE UNCHANGED vars
    BY Zenon, <2>2 DEF vars, table
  <2> QED
    BY Zenon, <2>1, <2>2 DEF Next, Halt
<1> QED
  BY <1>1, <1>2, Inductive, PTL DEF Spec, ImplementsProcStates, Lifecycle!Spec
-----------------------------------------------------------------------------
(* What kill() marks is a process that has the pid asked for. *)
KillInv ==
  /\ \A p \in Slots : pc[p] = "kill" => arg[p] # 0
  /\ \A p \in Slots : killed[p] => state[p] # "UNUSED" /\ pid[p] \in asked

(* When no program calls kill(0), p->killed is only ever set for a pid     *)
(* that was asked for: allocproc() need not clear it, freeproc() does.     *)
THEOREM KilledOnlyIfAsked == ASSUME 0 \notin KillArgs PROVE Spec => []KilledWasAsked
<1>1. Init => KillInv
  BY Zenon DEF Init, KillInv
<1>2. IInv /\ KillInv /\ [Next]_vars => KillInv'
  <2> SUFFICES ASSUME IInv, KillInv, [Next]_vars PROVE KillInv'
    OBVIOUS
  <2>1. TypeOK /\ CursorOK /\ FreePid /\ ForkOwns
    BY Zenon DEF IInv
  <2> USE <2>1, SlotFacts DEF TypeOK, CursorOK, FreePid, ForkOwns, KillInv, At, Goto, SetIdx, Return,
        FreeProc, ZombieFound, table, thread, Live
  <2>2. CASE Run
    <3>1. PICK p \in Slots : Step(p)
      BY Zenon, <2>2 DEF Run, Step
    <3>2. CASE Dispatch(p) \/ Yield(p)
      BY <3>2 DEF Dispatch, Yield
    <3>3. CASE Program(p)
      <4>1. CASE ForkCall(p) \/ ExitCall(p) \/ WaitCall(p)
        BY <4>1 DEF ForkCall, ExitCall, WaitCall
      <4>2. CASE Fault(p)
        BY <4>2 DEF Fault
      <4>3. CASE KillCall(p)
        BY <4>3 DEF KillCall
      <4> QED
        BY Zenon, <3>3, <4>1, <4>2, <4>3 DEF Program
    <3>4. CASE ForkStep(p)
      <4>1. CASE AllocSkip(p) \/ AllocFail(p)
        BY <4>1 DEF AllocSkip, AllocFail
      <4>2. CASE AllocFound(p)
        BY <4>2 DEF AllocFound
      <4>3. CASE ForkSetParent(p) \/ ForkSetRunnable(p)
        BY <4>3 DEF ForkSetParent, ForkSetRunnable
      <4> QED
        BY Zenon, <3>4, <4>1, <4>2, <4>3 DEF ForkStep
    <3>5. CASE ExitStep(p)
      <4>1. CASE KilledExit(p) \/ ExitPanic(p) \/ ExitLock(p)
        BY <4>1 DEF KilledExit, ExitPanic, ExitLock
      <4>2. CASE ReparentChild(p) \/ ReparentSkip(p) \/ ReparentDone(p)
        BY <4>2 DEF ReparentChild, ReparentSkip, ReparentDone
      <4>3. CASE WakeupSlot(p) \/ WakeupDone(p)
        BY <4>3 DEF WakeupSlot, WakeupDone
      <4>4. CASE ExitZombie(p)
        BY Zenon, <4>4 DEF ExitZombie
      <4> QED
        BY Zenon, <3>5, <4>1, <4>2, <4>3, <4>4 DEF ExitStep
    <3>6. CASE WaitStep(p)
      <4>1. CASE WaitLock(p) \/ WaitSkip(p) \/ WaitNone(p)
        BY <4>1 DEF WaitLock, WaitSkip, WaitNone
      <4>2. CASE WaitDecide(p) \/ WaitSleep(p)
        BY <4>2 DEF WaitDecide, WaitSleep
      <4>3. CASE WaitReap(p) \/ WaitCopyoutFails(p)
        BY <4>3 DEF WaitReap, WaitCopyoutFails
      <4>4. CASE WaitxTimesFail(p)
        BY Zenon, <4>4 DEF WaitxTimesFail
      <4> QED
        BY Zenon, <3>6, <4>1, <4>2, <4>3, <4>4 DEF WaitStep
    <3>7. CASE KillSkip(p)
      BY <3>7 DEF KillSkip
    <3>8. CASE KillFound(p)
      BY Zenon, <3>8 DEF KillFound
    <3> QED
      BY Zenon, <3>1, <3>2, <3>3, <3>4, <3>5, <3>6, <3>7, <3>8 DEF Step, Kernel, KillStep
  <2>3. CASE UNCHANGED vars
    BY Zenon, <2>3 DEF vars
  <2> QED
    BY Zenon, <2>2, <2>3 DEF Next, Halt
<1>3. KillInv => KilledWasAsked
  BY Zenon DEF KillInv, KilledWasAsked
<1> QED
  BY <1>1, <1>2, <1>3, Inductive, PTL DEF Spec
=============================================================================
