------------------------------ MODULE MCInode -------------------------------
(* Inode with a file that two processes have open together and that others *)
(* open to truncate it, and another file of one of them.                   *)
EXTENDS Inode

CONSTANTS p1, p2, A, B

SomeOpens == {"shared", "again", "own"}
SomeIp == [f \in SomeOpens |-> IF f = "own" THEN B ELSE A]
SomeUsers == [f \in SomeOpens |-> CASE f = "shared" -> {p1, p2} [] f = "own" -> {p2} [] OTHER -> {}]
=============================================================================
