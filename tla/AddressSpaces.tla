--------------------------- MODULE AddressSpaces ----------------------------
(***************************************************************************)
(* What the memory of processes promises: each process has its own         *)
(* sequence of pages.  fork() copies it, sbrk() adds zero pages at its end *)
(* or takes pages from it, exec() replaces it, and a store changes nothing *)
(* but pages of the process that makes it.  A call that fails changes      *)
(* nothing.  What a program image looks like is left open.                 *)
(***************************************************************************)
EXTENDS Integers, Sequences, SequencesExt

CONSTANTS Slots, Contents

VARIABLES
  live,   \* the processes
  image   \* the pages of each, <<>> for the others

vars == <<live, image>>

Init == live = {1} /\ \A p \in Slots : image[p] \in Seq(Contents)

(* The steps relate the images before and after. *)
Fork(p, q, old, new) ==
  /\ p \in live /\ q \notin live /\ live' = live \cup {q}
  /\ new = [old EXCEPT ![q] = old[p]]

Grow(p, old, new) ==
  /\ UNCHANGED live /\ p \in live /\ Len(new[p]) > Len(old[p])
  /\ new = [old EXCEPT ![p] = @ \o [i \in 1 .. Len(new[p]) - Len(@) |-> "zero"]]

Shrink(p, old, new) ==
  /\ UNCHANGED live /\ p \in live /\ Len(new[p]) <= Len(old[p])
  /\ new = [old EXCEPT ![p] = SubSeq(@, 1, Len(new[p]))]

(* The new image ends in a guard page and the stack. *)
Exec(p, old, new) ==
  /\ UNCHANGED live /\ p \in live
  /\ new = [old EXCEPT ![p] = new[p]]
  /\ LET n == Len(new[p]) IN
     /\ n >= 2 /\ new[p][n - 1] = "guard" /\ new[p][n] = "args"
     /\ \A i \in 1 .. n - 2 : new[p][i] \in {"zero", "text"}

(* A store, in order and possibly cut short, to pages that are no guard. *)
Store(p, old, new) ==
  /\ UNCHANGED live /\ p \in live
  /\ \E i, j \in DOMAIN old[p] :
       /\ \A k \in i .. j : old[p][k] # "guard"
       /\ new = [old EXCEPT ![p] = [k \in DOMAIN @ |-> IF k \in i .. j THEN "user" ELSE @[k]]]

Exit(p, old, new) ==
  /\ p \in live /\ live' = live \ {p}
  /\ new = [old EXCEPT ![p] = <<>>]

Next ==
  LET old == image
      new == image'
  IN \E p \in Slots :
       \/ Grow(p, old, new) \/ Shrink(p, old, new) \/ Exec(p, old, new)
       \/ Store(p, old, new) \/ Exit(p, old, new)
       \/ \E q \in Slots : Fork(p, q, old, new)

Spec == Init /\ [][Next]_vars
=============================================================================
