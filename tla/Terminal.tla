------------------------------ MODULE Terminal ------------------------------
(***************************************************************************)
(* What the console promises.  The line being typed can be edited until a  *)
(* newline, an end-of-file mark or a full buffer makes it ready; readers   *)
(* take what is ready in order, an end-of-file mark is taken by a read()   *)
(* that has no byte yet, and a read() never goes past a newline.  What is  *)
(* written leaves in order, and none of it is lost.                        *)
(***************************************************************************)
EXTENDS Integers, Sequences

CONSTANTS Procs, Chars, Room

VARIABLES
  line,   \* typed, still editable
  ready,  \* typed, not yet read
  got,    \* bytes that the read() of each process has so far
  sent    \* written, not yet transmitted

vars == <<line, ready, got, sent>>

Init == line = <<>> /\ ready = <<>> /\ got = [p \in Procs |-> 0] /\ sent = <<>>

Type ==
  LET old == ready \o line
      new == ready' \o line'
      c   == new[Len(new)]
  IN
  /\ Len(old) < Room /\ Len(new) = Len(old) + 1
  /\ c \in Chars /\ SubSeq(new, 1, Len(old)) = old
  /\ Len(line') = IF c \in {"NL", "EOF"} \/ Len(new) = Room THEN 0 ELSE Len(line) + 1
  /\ UNCHANGED <<got, sent>>

Erase(n) == line' = SubSeq(line, 1, Len(line) - n) /\ UNCHANGED <<ready, got, sent>>

Take(p) ==
  /\ ready # <<>> /\ ready' = Tail(ready)
  /\ CASE ready[1] = "EOF" -> got[p] = 0 /\ UNCHANGED got
       [] ready[1] = "NL"  -> got' = [got EXCEPT ![p] = 0]
       [] OTHER            -> \E n \in {0, got[p] + 1} : got' = [got EXCEPT ![p] = n]
  /\ UNCHANGED <<line, sent>>

Return(p) == got' = [got EXCEPT ![p] = 0] /\ UNCHANGED <<line, ready, sent>>

Write ==
  LET n == Len(sent') IN
  n > 0 /\ sent'[n] \in Chars /\ sent' = Append(sent, sent'[n]) /\ UNCHANGED <<line, ready, got>>
Transmit == sent # <<>> /\ sent' = Tail(sent) /\ UNCHANGED <<line, ready, got>>

Next ==
  \/ Type \/ Erase(1) \/ Erase(Len(line))
  \/ \E p \in Procs : Take(p) \/ Return(p)
  \/ Write \/ Transmit

Spec == Init /\ [][Next]_vars
=============================================================================
