------------------------------- MODULE MCLog -------------------------------
(***************************************************************************)
(* Model of Log for TLC: three processes whose calls share some blocks.    *)
(***************************************************************************)
EXTENDS Log, TLC

CONSTANTS p1, p2, p3, b1, b2, b3, b4, b5

ThreeProcs == {p1, p2, p3}
Shared == (p1 :> {b1, b2}) @@ (p2 :> {b3, b4}) @@ (p3 :> {b5, b1})

(* States are told apart up to what no later step can see: whether a       *)
(* buffer that is not pinned and equals its block is cached or not, log    *)
(* blocks that neither the header nor a running write_log() refers to, and *)
(* what a call that is over wrote.                                         *)
View ==
  LET writing == \E p \in Procs : op[p] = "writelog"
      n == IF hdr # <<>> THEN Len(hdr) ELSE IF writing THEN tail - 1 ELSE 0
  IN
  <<disk, hdr, lh, outstanding, committing, op, tail, kernel, ops, crashes, panicked, pinned,
    [b \in Blocks |-> IF b \notin pinned /\ cache[b] = disk[b] THEN Absent ELSE cache[b]],
    [i \in 1 .. n |-> logdata[i]],
    [p \in Procs |-> IF op[p] = "in" THEN <<id[p], wrote[p]>>
                     ELSE IF op[p] \in {"begin", "asleep"} THEN <<id[p]>> ELSE <<>>]>>
=============================================================================
