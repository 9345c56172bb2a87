----------------------------- MODULE AtomicDisk -----------------------------
(***************************************************************************)
(* What the file system log promises (header comment of kernel/log.c): the *)
(* disk, as a restart finds it, only ever jumps from one state between     *)
(* system calls to a later one; a crash loses what came after.             *)
(***************************************************************************)
EXTENDS Integers

CONSTANTS Blocks, Vals

VARIABLES
  durable,  \* the contents of the disk that a restart recovers
  current,  \* the contents that running system calls see
  busy      \* the number of system calls inside begin_op()/end_op()

Init == durable = current /\ current \in [Blocks -> Vals] /\ busy = 0

Begin == busy' = busy + 1 /\ UNCHANGED <<durable, current>>

Write == busy > 0 /\ UNCHANGED <<durable, busy>>
           /\ \E b \in Blocks, v \in Vals : current' = [current EXCEPT ![b] = v]

End == busy > 0 /\ busy' = busy - 1 /\ UNCHANGED <<durable, current>>

Commit == busy = 0 /\ durable' = current /\ UNCHANGED <<current, busy>>

Crash == current' = durable /\ busy' = 0 /\ UNCHANGED durable

Next == Begin \/ Write \/ End \/ Commit \/ Crash

Spec == Init /\ [][Next]_<<durable, current, busy>>
=============================================================================
