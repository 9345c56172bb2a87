----------------------------- MODULE ByteFiles ------------------------------
(***************************************************************************)
(* What read() and write() on files promise: a file is a sequence of bytes *)
(* and an open file an offset in one.  A write() happens in pieces, each   *)
(* at the offset the open file has at that time and in the order of the    *)
(* buffer; a piece moves the offset by its length, so two writers through  *)
(* one open file never overwrite each other.  A piece that fails may have  *)
(* changed bytes after its end that were there before, never the length.   *)
(***************************************************************************)
EXTENDS Integers, Sequences

CONSTANTS Procs, Inodes, Opens, Ip, Piece

VARIABLES
  content,  \* the bytes of each file
  offset,   \* of each open file
  done      \* how much of its buffer each writer has written: <<open file, bytes>>

vars == <<content, offset, done>>

Init == content = [i \in Inodes |-> <<>>] /\ offset = [f \in Opens |-> 0] /\ done = [p \in Procs |-> <<>>]

Begin(p) == \E f \in Opens :
  done[p] = <<>> /\ done' = [done EXCEPT ![p] = <<f, 0>>] /\ UNCHANGED <<content, offset>>

(* k bytes are written, and x more may be there in vain. *)
Write(p, x) ==
  /\ done[p] # <<>>
  /\ LET f == done[p][1]
         k == offset'[f] - offset[f]
         c == content[Ip[f]]
         new == IF offset[f] + k > Len(c) THEN offset[f] + k ELSE Len(c)
     IN /\ k \in 0 .. Piece /\ offset[f] <= Len(c)
        /\ offset' = [offset EXCEPT ![f] = @ + k]
        /\ done' = [done EXCEPT ![p] = IF x = 0 /\ done'[p] # <<>> THEN <<f, done[p][2] + k>> ELSE <<>>]
        /\ content' = [content EXCEPT ![Ip[f]] = [a \in 1 .. new |->
             IF a \in offset[f] + 1 .. offset[f] + k + x THEN <<p, done[p][2] + a - offset[f]>> ELSE c[a]]]

End(p) == done' = [done EXCEPT ![p] = <<>>] /\ UNCHANGED <<content, offset>>

(* read() moves the offset within the file. *)
Read(f) ==
  /\ offset'[f] \in offset[f] .. Len(content[Ip[f]])
  /\ offset' = [offset EXCEPT ![f] = offset'[f]] /\ UNCHANGED <<content, done>>

Open(f, trunc) ==
  /\ offset' = [offset EXCEPT ![f] = 0]
  /\ content' = IF trunc THEN [content EXCEPT ![Ip[f]] = <<>>] ELSE content
  /\ UNCHANGED done

Next ==
  \/ \E p \in Procs : Begin(p) \/ End(p) \/ \E x \in 0 .. Piece : Write(p, x)
  \/ \E f \in Opens : Read(f) \/ Open(f, TRUE) \/ Open(f, FALSE)

Spec == Init /\ [][Next]_vars
=============================================================================
