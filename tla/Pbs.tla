-------------------------------- MODULE Pbs --------------------------------
(***************************************************************************)
(* The arithmetic of the priority based scheduler in scheduler(),          *)
(* kernel/proc.c: nice, the dynamic priority dp, and the order in which    *)
(* candidates are preferred.  Smaller dp is better.                        *)
(***************************************************************************)
EXTENDS Integers

CONSTANT IntBits   \* width of C's int (32 on RISC-V)

ASSUME IntBitsAssumption == IntBits \in Nat \ {0} /\ 2 ^ (IntBits - 1) \in Nat \ {0}

(* Storing a uint64 expression in an int keeps its low IntBits bits. *)
ToInt(x) == ((x + 2 ^ (IntBits - 1)) % (2 * 2 ^ (IntBits - 1))) - 2 ^ (IntBits - 1)

(* nice: 0 for a process that only ran since its last dispatch, 10 for one *)
(* that only slept, 5 when there is nothing to go by.                      *)
Nice(run, sleep) ==
  IF run + sleep > 0 THEN (sleep * 10) \div (run + sleep) ELSE 5

Clamp(x) == IF x < 0 THEN 0 ELSE IF x > 100 THEN 100 ELSE x

(* dp = static - nice + 5, limited to 0..100. *)
DynamicPriority(prio, run, sleep) == Clamp(ToInt(prio - Nice(run, sleep) + 5))

(* What the loop compares: dp, then n_runs, then create_time. *)
Rank(dp, runs, created) == [dp |-> dp, n_runs |-> runs, create_time |-> created]

(* Mutant: on a tie the later slot wins. *)
BetterOnTies(a, b) == a.dp <= b.dp

(* elegir: candidate a replaces the best so far, b. *)
Better(a, b) ==
  \/ a.dp < b.dp
  \/ a.dp = b.dp /\ a.n_runs < b.n_runs
  \/ a.dp = b.dp /\ a.n_runs = b.n_runs /\ a.create_time < b.create_time
=============================================================================
