-------------------------------- MODULE Fifo --------------------------------
(***************************************************************************)
(* What a pipe promises: a bounded queue of bytes.  The pipe of            *)
(* kernel/pipe.c implements it (module Files).                             *)
(***************************************************************************)
EXTENDS Integers, Sequences

CONSTANTS Bytes, Capacity

VARIABLE queue  \* bytes written and not yet read

Init == queue = <<>>

Send(b) ==
  /\ Len(queue) < Capacity
  /\ queue' = Append(queue, b)

(* The n oldest bytes go to the reader, or all are dropped with the pipe. *)
Receive(n) == queue' = SubSeq(queue, n + 1, Len(queue))

Next ==
  \/ \E b \in Bytes : Send(b)
  \/ \E n \in 0 .. Len(queue) : Receive(n)

Spec == Init /\ [][Next]_queue
=============================================================================
