---------------------------- MODULE MCScheduler ----------------------------
(***************************************************************************)
(* Model of Scheduler for TLC.                                             *)
(***************************************************************************)
EXTENDS Scheduler

(* setpriority() takes any int; with this one the caller yields, and dp is *)
(* negative before it is limited.                                          *)
SomePrios == {-1}

(* Bound: the clock and sys_sleep(), changed priorities and I/O are not in *)
(* play together.  With the clock there are two processes, and none of     *)
(* them calls sys_sleep() after the last tick.  One process at a time, no  *)
(* free slot, has a priority other than the default.                       *)
Clocked == ticks > 0 \/ clk # "off" \/ tickslock # NULL \/ \E p \in Slots : chan[p] = "ticks"
Changed == {p \in Slots : priority[p] \in SomePrios}
Io == \E p \in Slots : chan[p] = "io"
Bound ==
  /\ Clocked => /\ Changed = {} /\ ~Io
                /\ \A p \in Slots : p > 1 => state[p] = "UNUSED"
                /\ \A p \in Slots : ticks0[p] < MaxTicks
  /\ Changed # {} => ~Io /\ \E p \in Slots : Changed = {p} /\ state[p] # "UNUSED"
=============================================================================
