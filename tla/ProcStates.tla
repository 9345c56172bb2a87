----------------------------- MODULE ProcStates -----------------------------
(***************************************************************************)
(* What the process table promises, without locks, loops or harts: a slot  *)
(* changes its state only along the life of a process (enum procstate,     *)
(* kernel/proc.h), one slot at a time, and no more processes are RUNNING   *)
(* than there are harts.  Modules Proc and Scheduler implement it.         *)
(***************************************************************************)
EXTENDS Integers, FiniteSets

CONSTANTS Slots, NCPU

VARIABLE state

Init == \E first \in Slots :
  state = [p \in Slots |-> IF p = first THEN "RUNNABLE" ELSE "UNUSED"]

Move(p, from, to) == state[p] = from /\ state' = [state EXCEPT ![p] = to]

Alloc(p)  == Move(p, "UNUSED", "USED")
Free(p)   == Move(p, "ZOMBIE", "UNUSED")
Ready(p)  == Move(p, "USED", "RUNNABLE")
Run(p)    == /\ Cardinality({q \in Slots : state[q] = "RUNNING"}) < NCPU
             /\ Move(p, "RUNNABLE", "RUNNING")
Yield(p)  == Move(p, "RUNNING", "RUNNABLE")
Sleep(p)  == Move(p, "RUNNING", "SLEEPING")
Wakeup(p) == Move(p, "SLEEPING", "RUNNABLE")
Exit(p)   == Move(p, "RUNNING", "ZOMBIE")

Next == \E p \in Slots :
  \/ Alloc(p) \/ Free(p) \/ Ready(p) \/ Run(p)
  \/ Yield(p) \/ Sleep(p) \/ Wakeup(p) \/ Exit(p)

Spec == Init /\ [][Next]_state
=============================================================================
