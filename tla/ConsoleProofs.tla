--------------------------- MODULE ConsoleProofs ----------------------------
(***************************************************************************)
(* Proofs about the console (module Console) for any number of harts, any  *)
(* sizes of the rings and any counters that wrap at multiples of them: the *)
(* spin locks with push_off() and pop_off() never panic, whatever is       *)
(* interrupted where, and no wakeup and no interrupt is lost.              *)
(***************************************************************************)
EXTENDS Console, CardFacts, TLAPS

CallLabels == {"read", "sleep", "write", "putc", "start", "send", "printf", "printf'"}
IrqLabels ==
  {"getc", "consoleintr", "start", "send", "printf", "printf'", "echo", "echo'", "complete"}

(* The locks that a frame needs where it is, and how often it has called   *)
(* push_off() without pop_off() there: once for each of them, whether it   *)
(* has it or spins for it, and once in uartputc_sync().                    *)
Needs(pc, irq, l) ==
  \/ l = "cons.lock" /\ pc \in {"read", "sleep", "consoleintr", "echo", "echo'"}
  \/ l = "cons.lock" /\ pc \in {"printf", "printf'"} /\ irq
  \/ l = "uart_tx_lock" /\ pc \in {"putc", "start", "send"}
  \/ l = "pr.lock" /\ pc \in {"printf", "printf'"}
Depth(pc, irq) ==
  CASE pc \in {"write", "getc", "complete"} -> 0
    [] pc = "printf"  -> IF irq THEN 2 ELSE 1
    [] pc = "printf'" -> IF irq THEN 3 ELSE 2
    [] pc = "echo'"   -> 2
    [] OTHER          -> 1

IsRecord(f) == f = [pc |-> f.pc, irq |-> f.irq, want |-> f.want, s |-> f.s, c |-> f.c, n |-> f.n]
IsFrame(f) ==
  /\ IsRecord(f)
  /\ f.want # "none" => f.want \in Locks /\ Needs(f.pc, f.irq, f.want)
CallFrame(f) == IsFrame(f) /\ f.irq = FALSE /\ f.pc \in CallLabels
IrqFrame(f) == IsFrame(f) /\ f.irq = TRUE /\ f.pc \in IrqLabels
AnyFrame(f) == CallFrame(f) \/ IrqFrame(f)

(* A system call that sleeps or was woken up. *)
Sleeper(f, ch) ==
  /\ CallFrame(f) /\ f.want = "none" /\ f.pc \in {"read", "putc"}
  /\ ch \in {"cons.r", "uart_tx_r", "woken"}
  /\ ch = "cons.r" => f.pc = "read"
  /\ ch = "uart_tx_r" => f.pc = "putc"

(* What an interrupt can come upon: the idle loop, or a system call that   *)
(* has interrupts enabled or sleeps.                                       *)
Below(b, ch) ==
  \/ b = <<>> /\ ch = "none"
  \/ b = <<b[1]>> /\ CallFrame(b[1]) /\ b[1].pc = "write" /\ b[1].want = "none" /\ ch = "none"
  \/ b = <<b[1]>> /\ Sleeper(b[1], ch)

(* The struct cpu of a hart after d calls of push_off(), in code that has  *)
(* interrupts on when d is 0, or off.                                      *)
Cpu(d, on) ==
  IF d = 0 THEN [intr |-> on, noff |-> 0, intena |-> FALSE]
  ELSE [intr |-> FALSE, noff |-> d, intena |-> on]

(* What a hart can be doing: nothing, or frame f above b is a system call  *)
(* that sleeps, a system call, an interrupt.                               *)
Idles(s, c, ch) == s = <<>> /\ ch = "none" /\ c = Cpu(0, TRUE)
Sleeps(b, f, c, ch) == b = <<>> /\ Sleeper(f, ch) /\ c = Cpu(0, TRUE)
Works(b, f, c, ch) == b = <<>> /\ CallFrame(f) /\ ch = "none" /\ c = Cpu(Depth(f.pc, FALSE), TRUE)
Handles(b, f, c, ch) == Below(b, ch) /\ IrqFrame(f) /\ c = Cpu(Depth(f.pc, TRUE), FALSE)
Runs(b, f, c, ch) == Works(b, f, c, ch) \/ Handles(b, f, c, ch)
HartOK(s, c, ch) ==
  \/ Idles(s, c, ch)
  \/ s = Push(Head(s), Tail(s)) /\ (Sleeps(Tail(s), Head(s), c, ch) \/ Runs(Tail(s), Head(s), c, ch))

(* The locks a frame has, and a hart has. *)
Holds(f, l) == Needs(f.pc, f.irq, l) /\ f.want # l
Has(s, ch, l) == s # <<>> /\ (Head(s).irq \/ ch = "none") /\ Holds(Head(s), l)

IsMap(f, S) == f = [x \in S |-> f[x]]
HartInv ==
  /\ IsMap(frames, Harts) /\ IsMap(cpu, Harts) /\ IsMap(chan, Harts) /\ IsMap(lock, Locks)
  /\ \A h \in Harts : HartOK(frames[h], cpu[h], chan[h])
  /\ \A h \in Harts, l \in Locks : lock[l] = h <=> Has(frames[h], chan[h], l)
  /\ ~panicked
-----------------------------------------------------------------------------
(* A stack of one or two frames. *)
Base(b) == b = <<>> \/ b = <<b[1]>>

LEMMA StackShapes ==
  ASSUME NEW f, NEW g
  PROVE  /\ Push(f, <<>>) = <<f>> /\ Push(f, <<g>>) = <<f, g>>
         /\ Head(<<f>>) = f /\ Head(<<f, g>>) = f /\ Tail(<<f>>) = <<>> /\ Tail(<<f, g>>) = <<g>>
         /\ <<f>> # <<>> /\ <<f, g>> # <<>>
<1>1. <<f>> \o <<g>> = [i \in 1 .. Len(<<f>>) + Len(<<g>>) |->
                          IF i <= Len(<<f>>) THEN <<f>>[i] ELSE <<g>>[i - Len(<<f>>)]]
  BY SMT
<1>2. <<f>>[1] = f /\ <<g>>[1] = g /\ <<f, g>> = [i \in 1 .. 2 |-> IF i = 1 THEN f ELSE g]
  BY SMT
<1>3. /\ Len(<<f>>) = 1 /\ Len(<<g>>) = 1 /\ 1 + 1 = 2
      /\ \A i \in 1 .. 2 : (i <= 1 <=> i = 1) /\ (i # 1 => i - 1 = 1)
  BY SMT
<1>4. \A i \in 1 .. 2 : (IF i <= 1 THEN <<f>>[i] ELSE <<g>>[i - 1]) = (IF i = 1 THEN f ELSE g)
  BY Zenon, <1>2, <1>3
<1>5. <<f>> \o <<g>> = [i \in 1 .. 2 |-> IF i <= 1 THEN <<f>>[i] ELSE <<g>>[i - 1]]
  BY Zenon, <1>1, <1>3
<1>6. Push(f, <<g>>) = <<f, g>>
  BY Zenon, <1>2, <1>4, <1>5 DEF Push
<1>7. Push(f, <<>>) = <<f>>
  BY SMT DEF Push
<1>8. /\ Head(<<f>>) = f /\ Head(<<f, g>>) = f /\ Tail(<<f>>) = <<>> /\ Tail(<<f, g>>) = <<g>>
      /\ <<f>> # <<>> /\ <<f, g>> # <<>>
  BY SMT
<1> QED
  BY Zenon, <1>6, <1>7, <1>8

(* acquire() marks the running frame. *)
LEMMA Marks ==
  ASSUME NEW f, NEW g, NEW l
  PROVE  /\ [<<f>> EXCEPT ![1].want = l] = <<[f EXCEPT !.want = l]>>
         /\ [<<f, g>> EXCEPT ![1].want = l] = <<[f EXCEPT !.want = l], g>>
BY SMT

LEMMA Stacks ==
  ASSUME NEW b, Base(b), NEW f
  PROVE  Tail(Push(f, b)) = b /\ Head(Push(f, b)) = f /\ Push(f, b) # <<>>
<1>1. CASE b = <<>>
  BY Zenon, <1>1, StackShapes
<1>2. CASE b = <<b[1]>>
  <2> DEFINE g == b[1]
  <2>1. b = <<g>>
    BY Zenon, <1>2
  <2> HIDE DEF g
  <2>2. Push(f, <<g>>) = <<f, g>> /\ Head(<<f, g>>) = f /\ Tail(<<f, g>>) = <<g>> /\ <<f, g>> # <<>>
    BY Zenon, StackShapes
  <2> QED
    BY Zenon, <2>1, <2>2
<1> QED
  BY Zenon, <1>1, <1>2 DEF Base

MarkStack(s, l) == [s EXCEPT ![1].want = l]
MarkFrame(f, l) == [f EXCEPT !.want = l]

LEMMA StackMarks ==
  ASSUME NEW b, Base(b), NEW f, NEW l
  PROVE  MarkStack(Push(f, b), l) = Push(MarkFrame(f, l), b)
<1> DEFINE Mark(s) == MarkStack(s, l)
           m == MarkFrame(f, l)
<1> SUFFICES Mark(Push(f, b)) = Push(m, b)
  OBVIOUS
<1>1. CASE b = <<>>
  <2>1. Mark(<<f>>) = <<m>>
    BY SMT DEF MarkStack, MarkFrame
  <2> HIDE DEF Mark, m
  <2>2. Push(f, <<>>) = <<f>> /\ Push(m, <<>>) = <<m>>
    BY Zenon, StackShapes
  <2> QED
    BY Zenon, <1>1, <2>1, <2>2
<1>2. CASE b = <<b[1]>>
  <2> DEFINE g == b[1]
  <2>1. b = <<g>>
    BY Zenon, <1>2
  <2> HIDE DEF g
  <2>2. Mark(<<f, g>>) = <<m, g>>
    BY Marks DEF MarkStack, MarkFrame
  <2> HIDE DEF Mark, m
  <2>3. Push(f, <<g>>) = <<f, g>> /\ Push(m, <<g>>) = <<m, g>>
    BY Zenon, StackShapes
  <2> QED
    BY Zenon, <2>1, <2>2, <2>3
<1> QED
  BY Zenon, <1>1, <1>2 DEF Base

(* push_off() and pop_off(). *)
LEMMA PushOff ==
  ASSUME NEW d \in Nat, NEW on \in BOOLEAN
  PROVE  push_off(Cpu(d, on)) = Cpu(d + 1, on)
<1>1. d + 1 # 0
  BY SMT
<1> QED
  BY Zenon, <1>1 DEF push_off, Cpu

LEMMA PopOff ==
  ASSUME NEW d \in Nat, NEW on \in BOOLEAN
  PROVE  pop_off(Cpu(d + 1, on)) = Cpu(d, on) /\ ~PopPanics(Cpu(d + 1, on))
<1>1. d + 1 # 0 /\ (d + 1 = 1 <=> d = 0) /\ (d + 1) - 1 = d /\ ~(d + 1 < 1)
  BY SMT
<1> DEFINE c == [intr |-> FALSE, noff |-> d + 1, intena |-> on]
<1>2. Cpu(d + 1, on) = c /\ c.noff = d + 1 /\ c.intr = FALSE /\ c.intena = on
  BY Zenon, <1>1 DEF Cpu
<1>3. ~PopPanics(Cpu(d + 1, on))
  BY Zenon, <1>1, <1>2 DEF PopPanics
<1>4. [c EXCEPT !.noff = @ - 1] = [intr |-> FALSE, noff |-> (d + 1) - 1, intena |-> on]
  <2> DEFINE Count(i, n, o) == [[intr |-> i, noff |-> n, intena |-> o] EXCEPT !.noff = @ - 1]
             Counted(i, n, o) == [intr |-> i, noff |-> n - 1, intena |-> o]
  <2>1. \A i, n, o : Count(i, n, o) = Counted(i, n, o)
    BY SMT
  <2> HIDE DEF Count, Counted
  <2>2. Count(FALSE, d + 1, on) = Counted(FALSE, d + 1, on)
    BY Zenon, <2>1
  <2> QED
    BY Zenon, <2>2 DEF Count, Counted
<1>5. (c.intr \/ c.intena) = on
  BY Zenon, <1>2
<1>6. CASE d = 0
  BY Zenon, <1>1, <1>2, <1>3, <1>5, <1>6 DEF pop_off, Cpu
<1>7. CASE d # 0
  BY Zenon, <1>1, <1>2, <1>3, <1>4, <1>7 DEF pop_off, Cpu
<1> QED
  BY Zenon, <1>6, <1>7

(* F becomes G: S keeps its values, except that x gets v. *)
Only(F, G, S, x, v) == IsMap(G, S) /\ G[x] = v /\ \A y \in S : y # x => G[y] = F[y]

LEMMA MapStep ==
  ASSUME NEW S, NEW F, IsMap(F, S), NEW x \in S, NEW v
  PROVE  Only(F, [F EXCEPT ![x] = v], S, x, v) /\ Only(F, F, S, x, F[x])
<1>1. DOMAIN F = S
  BY Zenon DEF IsMap
<1> QED
  BY Zenon, <1>1 DEF IsMap, Only

LEMMA Depths ==
  /\ \A irq : Depth("write", irq) = 0 /\ Depth("getc", irq) = 0 /\ Depth("complete", irq) = 0
  /\ \A irq : Depth("read", irq) = 1 /\ Depth("sleep", irq) = 1 /\ Depth("consoleintr", irq) = 1
  /\ \A irq : Depth("putc", irq) = 1 /\ Depth("start", irq) = 1 /\ Depth("send", irq) = 1
  /\ \A irq : Depth("echo", irq) = 1 /\ Depth("echo'", irq) = 2
  /\ Depth("printf", FALSE) = 1 /\ Depth("printf'", FALSE) = 2
  /\ Depth("printf", TRUE) = 2 /\ Depth("printf'", TRUE) = 3
BY SMT DEF Depth

LEMMA NeedsNot ==
  \A irq, l : ~Needs("write", irq, l) /\ ~Needs("getc", irq, l) /\ ~Needs("complete", irq, l)
BY Zenon DEF Needs

LEMMA NeedsCons ==
  \A irq, l :
    /\ Needs("read", irq, l) <=> l = "cons.lock"
    /\ Needs("sleep", irq, l) <=> l = "cons.lock"
    /\ Needs("consoleintr", irq, l) <=> l = "cons.lock"
    /\ Needs("echo", irq, l) <=> l = "cons.lock"
    /\ Needs("echo'", irq, l) <=> l = "cons.lock"
BY Zenon DEF Needs

LEMMA NeedsUart ==
  \A irq, l :
    /\ Needs("putc", irq, l) <=> l = "uart_tx_lock"
    /\ Needs("start", irq, l) <=> l = "uart_tx_lock"
    /\ Needs("send", irq, l) <=> l = "uart_tx_lock"
BY Zenon DEF Needs

LEMMA NeedsPr ==
  \A l :
    /\ Needs("printf", FALSE, l) <=> l = "pr.lock"
    /\ Needs("printf'", FALSE, l) <=> l = "pr.lock"
    /\ Needs("printf", TRUE, l) <=> l = "pr.lock" \/ l = "cons.lock"
    /\ Needs("printf'", TRUE, l) <=> l = "pr.lock" \/ l = "cons.lock"
BY Zenon DEF Needs

(* Frame g is like f, but at p. *)
Moved(f, g, p) == IsRecord(g) /\ g.pc = p /\ g.irq = f.irq /\ g.want = f.want

LEMMA Edit ==
  ASSUME NEW f, IsRecord(f), NEW p, NEW x
  PROVE  /\ Moved(f, [f EXCEPT !.pc = p], p) /\ Moved(f, [f EXCEPT !.n = x], f.pc)
         /\ Moved(f, [f EXCEPT !.s = x], f.pc) /\ Moved(f, [f EXCEPT !.c = x], f.pc)
<1>1. Moved(f, [f EXCEPT !.pc = p], p)
  BY SMT DEF Moved, IsRecord
<1>2. Moved(f, [f EXCEPT !.n = x], f.pc)
  BY SMT DEF Moved, IsRecord
<1>3. Moved(f, [f EXCEPT !.s = x], f.pc)
  BY SMT DEF Moved, IsRecord
<1>4. Moved(f, [f EXCEPT !.c = x], f.pc)
  BY SMT DEF Moved, IsRecord
<1> QED
  BY Zenon, <1>1, <1>2, <1>3, <1>4

LEMMA Edits ==
  ASSUME NEW f, IsRecord(f), NEW p, NEW x
  PROVE  Moved(f, [f EXCEPT !.pc = p, !.s = x], p) /\ Moved(f, [f EXCEPT !.pc = p, !.c = x], p)
<1> DEFINE g == [f EXCEPT !.pc = p]
           s == [g EXCEPT !.s = x]
           c == [g EXCEPT !.c = x]
<1>1. s = [f EXCEPT !.pc = p, !.s = x] /\ c = [f EXCEPT !.pc = p, !.c = x]
  BY SMT
<1>2. Moved(f, g, p)
  BY Zenon, Edit
<1> HIDE DEF g
<1>3. IsRecord(g)
  BY Zenon, <1>2 DEF Moved
<1>4. Moved(g, s, g.pc) /\ Moved(g, c, g.pc)
  BY Zenon, <1>3, Edit
<1> HIDE DEF s, c
<1>5. Moved(f, s, p) /\ Moved(f, c, p)
  BY Zenon, <1>2, <1>4 DEF Moved
<1> QED
  BY <1>1, <1>5

(* Frame g is like f, but spins for l, or for nothing. *)
Wanting(f, g, l) == IsRecord(g) /\ g.pc = f.pc /\ g.irq = f.irq /\ g.want = l

LEMMA EditWant ==
  ASSUME NEW f, IsRecord(f), NEW l
  PROVE  Wanting(f, MarkFrame(f, l), l)
BY SMT DEF Wanting, IsRecord, MarkFrame

LEMMA NewFrame ==
  ASSUME NEW p, NEW i
  PROVE  IsRecord(Frame(p, i)) /\ Frame(p, i).pc = p /\ Frame(p, i).irq = i /\ Frame(p, i).want = "none"
BY SMT DEF IsRecord, Frame
-----------------------------------------------------------------------------
(* A process may be woken by what another hart does. *)
Wakes(ch, new) == new = ch \/ (ch # "none" /\ new = "woken")

LEMMA BelowFacts ==
  ASSUME NEW b, NEW ch, Below(b, ch), NEW new, Wakes(ch, new)
  PROVE  Base(b) /\ Below(b, new)
BY Zenon DEF Below, Base, Wakes, Sleeper

LEMMA Woken ==
  ASSUME NEW s, NEW c, NEW ch, HartOK(s, c, ch), NEW new, Wakes(ch, new)
  PROVE  HartOK(s, c, new) /\ \A l : Has(s, new, l) <=> Has(s, ch, l)
<1>1. (new = "none" <=> ch = "none")
  BY Zenon DEF Wakes
<1>2. \A l : Has(s, new, l) <=> Has(s, ch, l)
  BY Zenon, <1>1 DEF Has
<1>3. CASE Idles(s, c, ch)
  BY Zenon, <1>2, <1>3 DEF HartOK, Idles, Wakes
<1>4. CASE /\ s = Push(Head(s), Tail(s))
           /\ Sleeps(Tail(s), Head(s), c, ch) \/ Runs(Tail(s), Head(s), c, ch)
  <2> DEFINE f == Head(s)
             b == Tail(s)
  <2> HIDE DEF f, b
  <2>1. Sleeps(b, f, c, ch) => Sleeps(b, f, c, new)
    BY Zenon DEF Sleeps, Sleeper, Wakes
  <2>2. Works(b, f, c, ch) => Works(b, f, c, new)
    BY Zenon, <1>1 DEF Works
  <2>3. Handles(b, f, c, ch) => Handles(b, f, c, new)
    BY Zenon, BelowFacts DEF Handles
  <2>4. Sleeps(b, f, c, new) \/ Runs(b, f, c, new)
    BY Zenon, <1>4, <2>1, <2>2, <2>3 DEF Runs, f, b
  <2> QED
    BY Zenon, <1>2, <1>4, <2>4 DEF HartOK, f, b
<1> QED
  BY Zenon, <1>3, <1>4 DEF HartOK

(* A step of hart h: it may wake processes, and takes or releases locks    *)
(* for itself only.                                                        *)
ChanStep(h) == IsMap(chan', Harts) /\ \A g \in Harts : g # h => Wakes(chan[g], chan'[g])
LockStep(h) ==
  /\ IsMap(lock', Locks)
  /\ \A g \in Harts, l \in Locks : g # h => (lock'[l] = g <=> lock[l] = g)

LEMMA HartStep ==
  ASSUME HartInv, NEW h \in Harts, NEW s, NEW c,
         Only(frames, frames', Harts, h, s), Only(cpu, cpu', Harts, h, c), ChanStep(h), LockStep(h),
         HartOK(s, c, chan'[h]), \A l \in Locks : lock'[l] = h <=> Has(s, chan'[h], l), ~panicked'
  PROVE  HartInv'
<1>1. \A g \in Harts : HartOK(frames'[g], cpu'[g], chan'[g])
  <2> SUFFICES ASSUME NEW g \in Harts PROVE HartOK(frames'[g], cpu'[g], chan'[g])
    OBVIOUS
  <2>1. CASE g = h
    BY Zenon, <2>1 DEF Only
  <2>2. CASE g # h
    <3>1. HartOK(frames[g], cpu[g], chan[g]) /\ Wakes(chan[g], chan'[g])
      BY Zenon, <2>2 DEF HartInv, ChanStep
    <3>2. HartOK(frames[g], cpu[g], chan'[g])
      BY Zenon, <3>1, Woken
    <3>3. frames'[g] = frames[g] /\ cpu'[g] = cpu[g]
      BY Zenon, <2>2 DEF Only
    <3> QED
      BY Zenon, <3>2, <3>3
  <2> QED
    BY Zenon, <2>1, <2>2
<1>2. \A g \in Harts, l \in Locks : lock'[l] = g <=> Has(frames'[g], chan'[g], l)
  <2> SUFFICES ASSUME NEW g \in Harts, NEW l \in Locks
               PROVE  lock'[l] = g <=> Has(frames'[g], chan'[g], l)
    OBVIOUS
  <2>1. CASE g = h
    BY Zenon, <2>1 DEF Only
  <2>2. CASE g # h
    <3>1. HartOK(frames[g], cpu[g], chan[g]) /\ Wakes(chan[g], chan'[g])
      BY Zenon, <2>2 DEF HartInv, ChanStep
    <3>2. Has(frames[g], chan'[g], l) <=> Has(frames[g], chan[g], l)
      BY Zenon, <3>1, Woken
    <3>3. frames'[g] = frames[g]
      BY Zenon, <2>2 DEF Only
    <3>4. (lock'[l] = g <=> lock[l] = g) /\ (lock[l] = g <=> Has(frames[g], chan[g], l))
      BY Zenon, <2>2 DEF LockStep, HartInv
    <3> QED
      BY Zenon, <3>2, <3>3, <3>4
  <2> QED
    BY Zenon, <2>1, <2>2
<1> QED
  BY Zenon, <1>1, <1>2 DEF HartInv, Only, ChanStep, LockStep

(* A hart that runs: its frame f, above b. *)
RunsAt(h, b, f) ==
  /\ frames[h] = Push(f, b) /\ Base(b) /\ Runs(b, f, cpu[h], chan[h]) /\ AnyFrame(f)
  /\ Top(h) = f /\ Tail(frames[h]) = b
  /\ \A l \in Locks : lock[l] = h <=> Holds(f, l)

LEMMA RunFacts ==
  ASSUME NEW b, NEW f, NEW c, NEW ch, Runs(b, f, c, ch)
  PROVE  /\ Base(b) /\ AnyFrame(f) /\ HartOK(Push(f, b), c, ch)
         /\ \A l : Has(Push(f, b), ch, l) <=> Holds(f, l)
<1>1. Base(b) /\ AnyFrame(f)
  BY Zenon, BelowFacts DEF Runs, Works, Handles, AnyFrame, Base, Wakes
<1>2. Head(Push(f, b)) = f /\ Tail(Push(f, b)) = b /\ Push(f, b) # <<>>
  BY Zenon, <1>1, Stacks
<1>3. f.irq \/ ch = "none"
  BY Zenon DEF Runs, Works, Handles, IrqFrame
<1> QED
  BY Zenon, <1>1, <1>2, <1>3 DEF HartOK, Has

LEMMA Runner ==
  ASSUME HartInv, NEW h \in Harts, Running(h)
  PROVE  RunsAt(h, Tail(frames[h]), Top(h))
<1> DEFINE f == Top(h)
           b == Tail(frames[h])
<1>1. f = Head(frames[h]) /\ frames[h] # <<>> /\ (f.irq \/ chan[h] = "none")
  BY Zenon DEF Running, Top
<1> HIDE DEF f
<1>2. HartOK(frames[h], cpu[h], chan[h])
  BY Zenon DEF HartInv
<1>3. ~Idles(frames[h], cpu[h], chan[h])
  BY Zenon, <1>1 DEF Idles
<1>4. ~Sleeps(b, f, cpu[h], chan[h])
  BY Zenon, <1>1 DEF Sleeps, Sleeper, CallFrame
<1>5. frames[h] = Push(f, b) /\ Runs(b, f, cpu[h], chan[h])
  BY Zenon, <1>1, <1>2, <1>3, <1>4 DEF HartOK
<1> HIDE DEF b
<1>6. Base(b) /\ AnyFrame(f) /\ \A l : Has(Push(f, b), chan[h], l) <=> Holds(f, l)
  BY Zenon, <1>5, RunFacts
<1>7. \A l \in Locks : lock[l] = h <=> Holds(f, l)
  <2>1. \A l \in Locks : lock[l] = h <=> Has(frames[h], chan[h], l)
    BY Zenon DEF HartInv
  <2> QED
    BY Zenon, <1>5, <1>6, <2>1
<1>8. Top(h) = f /\ Tail(frames[h]) = b
  BY Zenon DEF f, b
<1> QED
  BY Zenon, <1>5, <1>6, <1>7, <1>8 DEF RunsAt

(* The frame goes on at a place with the same, one more or one less call   *)
(* of push_off() to undo.                                                  *)
LEMMA Turns ==
  ASSUME NEW b, NEW f, NEW c, NEW ch, Runs(b, f, c, ch), NEW g, AnyFrame(g), g.irq = f.irq
  PROVE  /\ Depth(g.pc, g.irq) = Depth(f.pc, f.irq) => Runs(b, g, c, ch)
         /\ Depth(g.pc, g.irq) = Depth(f.pc, f.irq) + 1 => Runs(b, g, push_off(c), ch)
         /\ Depth(g.pc, g.irq) + 1 = Depth(f.pc, f.irq) => Runs(b, g, pop_off(c), ch) /\ ~PopPanics(c)
<1> DEFINE d == Depth(f.pc, f.irq)
           e == Depth(g.pc, g.irq)
<1>1. d \in Nat /\ e \in Nat
  BY SMT DEF Depth
<1>2. CASE f.irq = TRUE
  <2>1. Below(b, ch) /\ IrqFrame(g) /\ c = Cpu(d, FALSE) /\ e = Depth(g.pc, TRUE)
    BY Zenon, <1>2 DEF Runs, Works, Handles, AnyFrame, CallFrame
  <2> HIDE DEF d
  <2>2. e = d => Runs(b, g, c, ch)
    BY Zenon, <2>1 DEF Runs, Handles
  <2>3. e = d + 1 => Runs(b, g, push_off(c), ch)
    BY Zenon, <1>1, <2>1, PushOff DEF Runs, Handles
  <2>4. e + 1 = d => Runs(b, g, pop_off(c), ch) /\ ~PopPanics(c)
    BY Zenon, <1>1, <2>1, PopOff DEF Runs, Handles
  <2> QED
    BY Zenon, <2>2, <2>3, <2>4 DEF d
<1>3. CASE f.irq = FALSE
  <2>1. b = <<>> /\ ch = "none" /\ CallFrame(g) /\ c = Cpu(d, TRUE) /\ e = Depth(g.pc, FALSE)
    BY Zenon, <1>3 DEF Runs, Works, Handles, AnyFrame, IrqFrame
  <2> HIDE DEF d
  <2>2. e = d => Runs(b, g, c, ch)
    BY Zenon, <2>1 DEF Runs, Works
  <2>3. e = d + 1 => Runs(b, g, push_off(c), ch)
    BY Zenon, <1>1, <2>1, PushOff DEF Runs, Works
  <2>4. e + 1 = d => Runs(b, g, pop_off(c), ch) /\ ~PopPanics(c)
    BY Zenon, <1>1, <2>1, PopOff DEF Runs, Works
  <2> QED
    BY Zenon, <2>2, <2>3, <2>4 DEF d
<1> QED
  BY Zenon, <1>2, <1>3 DEF Runs, Works, Handles, CallFrame, IrqFrame

(* The atomic swap of acquire(), and release(). *)
LEMMA LockSame ==
  ASSUME HartInv, NEW h \in Harts, lock' = lock
  PROVE  LockStep(h)
BY Zenon DEF HartInv, LockStep

LEMMA LockTaken ==
  ASSUME HartInv, NEW h \in Harts, NEW l \in Locks, lock[l] = "free", lock' = [lock EXCEPT ![l] = h]
  PROVE  LockStep(h) /\ \A k \in Locks : lock'[k] = h <=> lock[k] = h \/ k = l
<1>1. Only(lock, lock', Locks, l, h)
  BY Zenon, MapStep DEF HartInv
<1>2. \A g \in Harts : g # "free"
  BY Zenon, ConsoleConstants
<1> QED
  BY Zenon, <1>1, <1>2 DEF Only, LockStep

LEMMA LockReleased ==
  ASSUME HartInv, NEW h \in Harts, NEW l \in Locks, lock[l] = h, release(h, l)
  PROVE  LockStep(h) /\ \A k \in Locks : lock'[k] = h <=> lock[k] = h /\ k # l
<1>1. Only(lock, lock', Locks, l, "free")
  BY Zenon, MapStep DEF HartInv, release
<1>2. \A g \in Harts : g # "free"
  BY Zenon, ConsoleConstants
<1> QED
  BY Zenon, <1>1, <1>2 DEF Only, LockStep

LEMMA ChanSame ==
  ASSUME HartInv, NEW h \in Harts, chan' = chan
  PROVE  ChanStep(h)
BY Zenon DEF HartInv, ChanStep, Wakes

LEMMA ChanSet ==
  ASSUME HartInv, NEW h \in Harts, NEW ch, chan' = [chan EXCEPT ![h] = ch]
  PROVE  ChanStep(h) /\ chan'[h] = ch
<1>1. Only(chan, chan', Harts, h, ch)
  BY Zenon, MapStep DEF HartInv
<1> QED
  BY Zenon, <1>1 DEF Only, ChanStep, Wakes

(* wakeup() by code that runs on hart h. *)
LEMMA ChanWakeup ==
  ASSUME HartInv, NEW h \in Harts, NEW ch \in {"cons.r", "uart_tx_r"}, chan' = wakeup(ch)
  PROVE  ChanStep(h) /\ Wakes(chan[h], chan'[h]) /\ \A g \in Harts : chan'[g] # ch
<1>1. \A g \in Harts : chan'[g] = IF chan[g] = ch THEN "woken" ELSE chan[g]
  BY Zenon DEF wakeup
<1>2. IsMap(chan', Harts)
  BY Zenon DEF wakeup, IsMap
<1>3. ch # "none" /\ ch # "woken"
  BY Zenon
<1> QED
  BY Zenon, <1>1, <1>2, <1>3 DEF ChanStep, Wakes
-----------------------------------------------------------------------------
(* The running frame f becomes g. *)
LEMMA RunStep ==
  ASSUME HartInv, NEW h \in Harts, NEW b, NEW f, RunsAt(h, b, f), NEW g, NEW c, Runs(b, g, c, chan[h]),
         frames' = [frames EXCEPT ![h] = Push(g, b)], Only(cpu, cpu', Harts, h, c),
         ChanStep(h), Wakes(chan[h], chan'[h]), LockStep(h),
         \A l \in Locks : lock'[l] = h <=> Holds(g, l), ~panicked'
  PROVE  HartInv'
<1>1. HartOK(Push(g, b), c, chan[h]) /\ \A l : Has(Push(g, b), chan[h], l) <=> Holds(g, l)
  BY Zenon, RunFacts
<1>2. HartOK(Push(g, b), c, chan'[h]) /\ \A l : Has(Push(g, b), chan'[h], l) <=> Has(Push(g, b), chan[h], l)
  BY Zenon, <1>1, Woken
<1>3. Only(frames, frames', Harts, h, Push(g, b))
  BY Zenon, MapStep DEF HartInv
<1>4. \A l \in Locks : lock'[l] = h <=> Has(Push(g, b), chan'[h], l)
  BY Zenon, <1>1, <1>2
<1> QED
  BY Zenon, <1>2, <1>3, <1>4, HartStep

(* It neither acquires nor releases a lock. *)
LEMMA MoveStep ==
  ASSUME HartInv, NEW h \in Harts, NEW b, NEW f, RunsAt(h, b, f), NEW g, AnyFrame(g), g.irq = f.irq,
         Depth(g.pc, g.irq) = Depth(f.pc, f.irq), \A l \in Locks : Holds(g, l) <=> Holds(f, l),
         frames' = [frames EXCEPT ![h] = Push(g, b)], UNCHANGED <<cpu, lock, panicked>>,
         ChanStep(h), Wakes(chan[h], chan'[h])
  PROVE  HartInv'
<1>1. Runs(b, g, cpu[h], chan[h])
  BY Zenon, Turns DEF RunsAt
<1>2. Only(cpu, cpu', Harts, h, cpu[h])
  BY Zenon, MapStep DEF HartInv
<1>3. LockStep(h) /\ \A l \in Locks : lock'[l] = h <=> Holds(g, l)
  BY Zenon, LockSame DEF RunsAt
<1>4. ~panicked'
  BY Zenon DEF HartInv
<1> QED
  BY Zenon, <1>1, <1>2, <1>3, <1>4, RunStep

(* push_off() and pop_off() in uartputc_sync(). *)
LEMMA PushStep ==
  ASSUME HartInv, NEW h \in Harts, NEW b, NEW f, RunsAt(h, b, f), NEW g, AnyFrame(g), g.irq = f.irq,
         Depth(g.pc, g.irq) = Depth(f.pc, f.irq) + 1, \A l \in Locks : Holds(g, l) <=> Holds(f, l),
         frames' = [frames EXCEPT ![h] = Push(g, b)], cpu' = [cpu EXCEPT ![h] = push_off(cpu[h])],
         ~panicked', UNCHANGED lock, ChanStep(h), Wakes(chan[h], chan'[h])
  PROVE  HartInv'
<1>1. Runs(b, g, push_off(cpu[h]), chan[h])
  BY Zenon, Turns DEF RunsAt
<1>2. Only(cpu, cpu', Harts, h, push_off(cpu[h]))
  BY Zenon, MapStep DEF HartInv
<1>3. LockStep(h) /\ \A l \in Locks : lock'[l] = h <=> Holds(g, l)
  BY Zenon, LockSame DEF RunsAt
<1> QED
  BY Zenon, <1>1, <1>2, <1>3, RunStep

LEMMA PopStep ==
  ASSUME HartInv, NEW h \in Harts, NEW b, NEW f, RunsAt(h, b, f), NEW g, AnyFrame(g), g.irq = f.irq,
         Depth(g.pc, g.irq) + 1 = Depth(f.pc, f.irq), \A l \in Locks : Holds(g, l) <=> Holds(f, l),
         frames' = [frames EXCEPT ![h] = Push(g, b)], cpu' = [cpu EXCEPT ![h] = pop_off(cpu[h])],
         panicked' = PopPanics(cpu[h]), UNCHANGED <<lock, chan>>
  PROVE  HartInv'
<1>1. Runs(b, g, pop_off(cpu[h]), chan[h]) /\ ~PopPanics(cpu[h])
  BY Zenon, Turns DEF RunsAt
<1>2. Only(cpu, cpu', Harts, h, pop_off(cpu[h]))
  BY Zenon, MapStep DEF HartInv
<1>3. LockStep(h) /\ \A l \in Locks : lock'[l] = h <=> Holds(g, l)
  BY Zenon, LockSame DEF RunsAt
<1>4. ChanStep(h) /\ Wakes(chan[h], chan'[h])
  BY Zenon, ChanSame DEF Wakes
<1> QED
  BY Zenon, <1>1, <1>2, <1>3, <1>4, RunStep

(* acquire(): at g, the frame will need lock l too. *)
LEMMA AcquireStep ==
  ASSUME HartInv, NEW h \in Harts, NEW b, NEW f, RunsAt(h, b, f), f.want = "none",
         NEW g, IsRecord(g), g.irq = f.irq, g.pc \in (IF f.irq THEN IrqLabels ELSE CallLabels),
         NEW l \in Locks, ~Needs(f.pc, f.irq, l),
         \A k : Needs(g.pc, g.irq, k) <=> Needs(f.pc, f.irq, k) \/ k = l,
         Depth(g.pc, g.irq) = Depth(f.pc, f.irq) + 1,
         acquire(h, l, Push(g, b)), ChanStep(h), Wakes(chan[h], chan'[h])
  PROVE  HartInv'
<1> DEFINE m == MarkFrame(g, l)
<1>1. Wanting(g, m, l)
  BY Zenon, EditWant
<1>2. frames' = [frames EXCEPT ![h] = Push(m, b)]
  <2>1. MarkStack(Push(g, b), l) = Push(m, b)
    BY Zenon, StackMarks DEF RunsAt
  <2>2. frames' = [frames EXCEPT ![h] = MarkStack(Push(g, b), l)]
    BY Zenon DEF acquire, MarkStack
  <2> QED
    BY Zenon, <2>1, <2>2
<1>3. /\ cpu' = [cpu EXCEPT ![h] = push_off(cpu[h])] /\ panicked' = (lock[l] = h) /\ UNCHANGED lock
  BY Zenon DEF acquire, holding
<1> HIDE DEF m
<1>4. AnyFrame(m) /\ m.irq = f.irq /\ m.pc = g.pc
  <2>1. IsFrame(m)
    BY Zenon, <1>1 DEF IsFrame, Wanting
  <2>2. f.irq = TRUE \/ f.irq = FALSE
    BY Zenon DEF RunsAt, AnyFrame, CallFrame, IrqFrame
  <2>3. m.irq = f.irq /\ m.pc = g.pc
    BY Zenon, <1>1 DEF Wanting
  <2> QED
    BY Zenon, <2>1, <2>2, <2>3 DEF AnyFrame, CallFrame, IrqFrame
<1>5. \A k \in Locks : Holds(m, k) <=> Holds(f, k)
  <2>1. \A k \in Locks : k # "none"
    BY Zenon DEF Locks
  <2>2. m.want = l /\ m.pc = g.pc /\ m.irq = g.irq
    BY Zenon, <1>1 DEF Wanting
  <2> QED
    BY Zenon, <2>1, <2>2 DEF Holds
<1>6. ~panicked'
  BY Zenon, <1>3 DEF RunsAt, Holds
<1> QED
  BY Zenon, <1>2, <1>3, <1>4, <1>5, <1>6, PushStep

(* release(), and the frame goes on at g. *)
LEMMA ReleaseStep ==
  ASSUME HartInv, NEW h \in Harts, NEW b, NEW f, RunsAt(h, b, f), f.want = "none",
         NEW g, AnyFrame(g), g.irq = f.irq, g.want = "none", NEW l \in Locks, Needs(f.pc, f.irq, l),
         \A k : Needs(g.pc, g.irq, k) <=> Needs(f.pc, f.irq, k) /\ k # l,
         Depth(g.pc, g.irq) + 1 = Depth(f.pc, f.irq),
         release(h, l), frames' = [frames EXCEPT ![h] = Push(g, b)], chan' = chan
  PROVE  HartInv'
<1>0. \A k \in Locks : k # "none"
  BY Zenon DEF Locks
<1>1. lock[l] = h
  BY Zenon, <1>0 DEF RunsAt, Holds
<1>2. /\ cpu' = [cpu EXCEPT ![h] = pop_off(cpu[h])]
      /\ panicked' = (lock[l] # h \/ PopPanics(cpu[h]))
  BY Zenon DEF release, holding
<1>3. Runs(b, g, pop_off(cpu[h]), chan[h]) /\ ~PopPanics(cpu[h])
  BY Zenon, Turns DEF RunsAt
<1>4. Only(cpu, cpu', Harts, h, pop_off(cpu[h]))
  BY Zenon, <1>2, MapStep DEF HartInv
<1>5. LockStep(h) /\ \A k \in Locks : lock'[k] = h <=> Holds(g, k)
  <2>1. LockStep(h) /\ \A k \in Locks : lock'[k] = h <=> lock[k] = h /\ k # l
    BY Zenon, <1>1, LockReleased
  <2>2. \A k \in Locks : Holds(g, k) <=> Holds(f, k) /\ k # l
    BY Zenon, <1>0 DEF Holds
  <2>3. \A k \in Locks : lock[k] = h <=> Holds(f, k)
    BY Zenon DEF RunsAt
  <2> QED
    BY Zenon, <2>1, <2>2, <2>3
<1>6. ChanStep(h) /\ Wakes(chan[h], chan'[h])
  BY Zenon, ChanSame DEF Wakes
<1>7. ~panicked'
  BY Zenon, <1>1, <1>2, <1>3
<1> QED
  BY Zenon, <1>3, <1>4, <1>5, <1>6, <1>7, RunStep

(* The hart is idle again, or its process sleeps. *)
LEMMA RestStep ==
  ASSUME HartInv, NEW h \in Harts, NEW s, Only(frames, frames', Harts, h, s),
         \/ Idles(s, Cpu(0, TRUE), chan'[h])
         \/ s = Push(Head(s), Tail(s)) /\ Sleeps(Tail(s), Head(s), Cpu(0, TRUE), chan'[h]),
         Only(cpu, cpu', Harts, h, Cpu(0, TRUE)), ChanStep(h), LockStep(h),
         \A l \in Locks : lock'[l] # h, ~panicked'
  PROVE  HartInv'
<1>1. HartOK(s, Cpu(0, TRUE), chan'[h])
  BY Zenon DEF HartOK
<1>2. \A l : ~Has(s, chan'[h], l)
  BY Zenon DEF Has, Idles, Sleeps, Sleeper, CallFrame
<1> QED
  BY Zenon, <1>1, <1>2, HartStep

(* A system call without interrupts to undo, and with one lock. *)
LEMMA CallDepth ==
  ASSUME HartInv, NEW h \in Harts, NEW b, NEW f, RunsAt(h, b, f), f.irq = FALSE
  PROVE  b = <<>> /\ chan[h] = "none" /\ cpu[h] = Cpu(Depth(f.pc, FALSE), TRUE) /\ CallFrame(f)
BY Zenon DEF RunsAt, Runs, Works, Handles, IrqFrame

LEMMA LastRelease ==
  ASSUME HartInv, NEW h \in Harts, NEW b, NEW f, RunsAt(h, b, f), f.irq = FALSE, f.want = "none",
         NEW l \in Locks, \A k : Needs(f.pc, FALSE, k) <=> k = l, Depth(f.pc, FALSE) = 1, release(h, l)
  PROVE  Only(cpu, cpu', Harts, h, Cpu(0, TRUE)) /\ LockStep(h) /\ (\A k \in Locks : lock'[k] # h) /\ ~panicked'
<1>1. cpu[h] = Cpu(1, TRUE)
  BY Zenon, CallDepth
<1>2. \A k \in Locks : Holds(f, k) <=> k = l
  <2>1. \A k \in Locks : k # "none"
    BY Zenon DEF Locks
  <2> QED
    BY Zenon, <2>1 DEF Holds
<1>3. \A k \in Locks : lock[k] = h <=> k = l
  BY Zenon, <1>2 DEF RunsAt
<1>4. LockStep(h) /\ \A k \in Locks : lock'[k] = h <=> lock[k] = h /\ k # l
  <2>1. lock[l] = h
    BY Zenon, <1>3
  <2> QED
    BY Zenon, <2>1, LockReleased
<1>5. pop_off(Cpu(1, TRUE)) = Cpu(0, TRUE) /\ ~PopPanics(Cpu(1, TRUE))
  <2>1. 0 \in Nat /\ 0 + 1 = 1 /\ TRUE \in BOOLEAN
    BY SMT
  <2> QED
    BY Zenon, <2>1, PopOff
<1>6. cpu' = [cpu EXCEPT ![h] = pop_off(cpu[h])] /\ panicked' = (lock[l] # h \/ PopPanics(cpu[h]))
  BY Zenon DEF release, holding
<1>7. Only(cpu, cpu', Harts, h, pop_off(cpu[h]))
  BY Zenon, <1>6, MapStep DEF HartInv
<1> QED
  BY Zenon, <1>1, <1>3, <1>4, <1>5, <1>6, <1>7

LEMMA ReturnStep ==
  ASSUME HartInv, NEW h \in Harts, NEW b, NEW f, RunsAt(h, b, f), f.irq = FALSE, f.want = "none",
         NEW l \in Locks, \A k : Needs(f.pc, FALSE, k) <=> k = l, Depth(f.pc, FALSE) = 1, release(h, l),
         Return(h), chan' = chan
  PROVE  HartInv'
<1>1. Only(frames, frames', Harts, h, <<>>)
  BY Zenon, MapStep DEF HartInv, Return
<1>2. Only(cpu, cpu', Harts, h, Cpu(0, TRUE)) /\ LockStep(h) /\ (\A k \in Locks : lock'[k] # h) /\ ~panicked'
  BY Zenon, LastRelease
<1>3. ChanStep(h) /\ Idles(<<>>, Cpu(0, TRUE), chan'[h])
  BY Zenon, CallDepth, ChanSame DEF Idles
<1> QED
  BY Zenon, <1>1, <1>2, <1>3, RestStep

(* sleep(). *)
LEMMA SleepStep ==
  ASSUME HartInv, NEW h \in Harts, NEW b, NEW f, RunsAt(h, b, f), f.irq = FALSE, f.want = "none",
         NEW l \in Locks, \A k : Needs(f.pc, FALSE, k) <=> k = l, Depth(f.pc, FALSE) = 1,
         NEW ch, sleep(h, ch, l), NEW g, Sleeper(g, ch), Only(frames, frames', Harts, h, Push(g, b))
  PROVE  HartInv'
<1>1. release(h, l) /\ chan' = [chan EXCEPT ![h] = ch]
  BY Zenon DEF sleep
<1>2. ChanStep(h) /\ chan'[h] = ch
  BY Zenon, <1>1, ChanSet
<1>3. Only(cpu, cpu', Harts, h, Cpu(0, TRUE)) /\ LockStep(h) /\ (\A k \in Locks : lock'[k] # h) /\ ~panicked'
  BY Zenon, <1>1, LastRelease
<1>4. b = <<>> /\ Tail(Push(g, b)) = b /\ Head(Push(g, b)) = g
  BY Zenon, CallDepth, Stacks DEF RunsAt
<1>5. Sleeps(b, g, Cpu(0, TRUE), chan'[h])
  BY Zenon, <1>2, <1>4 DEF Sleeps
<1> QED
  BY Zenon, <1>2, <1>3, <1>4, <1>5, RestStep
-----------------------------------------------------------------------------
(* A hart at place pc. *)
LEMMA AtFacts ==
  ASSUME HartInv, NEW h \in Harts, NEW pc, At(h, pc)
  PROVE  /\ RunsAt(h, Tail(frames[h]), Top(h)) /\ Top(h).pc = pc /\ Top(h).want = "none"
         /\ IsRecord(Top(h)) /\ Top(h).irq \in BOOLEAN
         /\ pc \notin IrqLabels => Top(h).irq = FALSE /\ Tail(frames[h]) = <<>>
         /\ pc \notin CallLabels => Top(h).irq = TRUE
<1>1. RunsAt(h, Tail(frames[h]), Top(h)) /\ Top(h).pc = pc /\ Top(h).want = "none"
  BY Zenon, Runner DEF At
<1>2. AnyFrame(Top(h))
  BY Zenon, <1>1 DEF RunsAt
<1>3. IsRecord(Top(h)) /\ Top(h).irq \in BOOLEAN
  BY Zenon, <1>2 DEF AnyFrame, CallFrame, IrqFrame, IsFrame
<1>4. /\ pc \notin IrqLabels => Top(h).irq = FALSE
      /\ pc \notin CallLabels => Top(h).irq = TRUE
  BY Zenon, <1>1, <1>2 DEF AnyFrame, CallFrame, IrqFrame
<1>5. ASSUME Top(h).irq = FALSE PROVE Tail(frames[h]) = <<>>
  <2> DEFINE b == Tail(frames[h])
             f == Top(h)
  <2> HIDE DEF b, f
  <2>1. RunsAt(h, b, f) /\ f.irq = FALSE
    BY Zenon, <1>1, <1>5 DEF b, f
  <2>2. b = <<>> /\ chan[h] = "none" /\ cpu[h] = Cpu(Depth(f.pc, FALSE), TRUE) /\ CallFrame(f)
    BY Zenon, <2>1, CallDepth
  <2> QED
    BY Zenon, <2>2 DEF b
<1> QED
  BY Zenon, <1>1, <1>3, <1>4, <1>5

(* The frame that goes on at p, where it does not spin. *)
LEMMA Goes ==
  ASSUME NEW f, NEW g, NEW p, f.want = "none", f.irq \in BOOLEAN, Moved(f, g, p),
         f.irq => p \in IrqLabels, ~f.irq => p \in CallLabels
  PROVE  /\ AnyFrame(g) /\ g.irq = f.irq /\ g.pc = p /\ g.want = "none"
         /\ \A l \in Locks : Holds(g, l) <=> Needs(p, f.irq, l)
<1>1. IsFrame(g) /\ g.irq = f.irq /\ g.pc = p /\ g.want = "none"
  BY Zenon DEF Moved, IsFrame
<1>2. AnyFrame(g)
  BY Zenon, <1>1 DEF AnyFrame, CallFrame, IrqFrame
<1>3. \A l \in Locks : l # "none"
  BY Zenon DEF Locks
<1> QED
  BY Zenon, <1>1, <1>2, <1>3 DEF Holds

LEMMA SetFrame ==
  ASSUME NEW h, NEW g, Set(h, g)
  PROVE  frames' = [frames EXCEPT ![h] = Push(g, Tail(frames[h]))]
BY Zenon DEF Set

(* A move between places that need the same locks. *)
LEMMA SetStep ==
  ASSUME HartInv, NEW h \in Harts, NEW pc, At(h, pc), NEW g, NEW p, Moved(Top(h), g, p), Set(h, g),
         Top(h).irq => p \in IrqLabels, ~Top(h).irq => p \in CallLabels,
         Depth(p, Top(h).irq) = Depth(pc, Top(h).irq),
         \A l : Needs(p, Top(h).irq, l) <=> Needs(pc, Top(h).irq, l),
         UNCHANGED <<cpu, lock, panicked>>, ChanStep(h), Wakes(chan[h], chan'[h])
  PROVE  HartInv'
<1> DEFINE f == Top(h)
           b == Tail(frames[h])
<1>1. RunsAt(h, b, f) /\ f.pc = pc /\ f.want = "none" /\ f.irq \in BOOLEAN
  BY Zenon, AtFacts
<1>2. frames' = [frames EXCEPT ![h] = Push(g, b)]
  BY Zenon, SetFrame
<1> HIDE DEF f, b
<1>3. /\ AnyFrame(g) /\ g.irq = f.irq /\ g.pc = p /\ g.want = "none"
      /\ \A l \in Locks : Holds(g, l) <=> Needs(p, f.irq, l)
  BY Zenon, <1>1, Goes DEF f
<1>4. \A l \in Locks : Holds(g, l) <=> Holds(f, l)
  <2>1. \A l \in Locks : l # "none"
    BY Zenon DEF Locks
  <2>2. \A l \in Locks : Holds(f, l) <=> Needs(pc, f.irq, l)
    BY Zenon, <1>1, <2>1 DEF Holds
  <2> QED
    BY Zenon, <1>3, <2>2 DEF f
<1>5. Depth(g.pc, g.irq) = Depth(f.pc, f.irq)
  BY Zenon, <1>1, <1>3 DEF f
<1> QED
  BY Zenon, <1>1, <1>2, <1>3, <1>4, <1>5, MoveStep

(* The swap that ends acquire(). *)
LEMMA SwapHart ==
  ASSUME HartInv, NEW h \in Harts, Swap(h)
  PROVE  HartInv'
<1> DEFINE f == Top(h)
           b == Tail(frames[h])
           l == f.want
           g == MarkFrame(f, "none")
<1>1. RunsAt(h, b, f) /\ l # "none" /\ lock[l] = "free"
  BY Zenon, Runner DEF Swap
<1>2. frames' = [frames EXCEPT ![h] = Push(g, b)]
  BY Zenon, SetFrame DEF Swap, MarkFrame
<1>3. UNCHANGED <<cpu, chan, panicked>> /\ lock' = [lock EXCEPT ![l] = h]
  BY Zenon DEF Swap
<1> HIDE DEF f, b, g
<1>4. AnyFrame(f) /\ IsFrame(f)
  BY Zenon, <1>1 DEF RunsAt, AnyFrame, CallFrame, IrqFrame
<1>5. l \in Locks /\ Needs(f.pc, f.irq, l)
  BY Zenon, <1>1, <1>4 DEF IsFrame
<1>6. Wanting(f, g, "none")
  BY Zenon, <1>4, EditWant DEF IsFrame, g
<1>7. AnyFrame(g) /\ g.irq = f.irq /\ g.pc = f.pc /\ g.want = "none"
  BY Zenon, <1>4, <1>6 DEF Wanting, IsFrame, AnyFrame, CallFrame, IrqFrame
<1>8. LockStep(h) /\ \A k \in Locks : lock'[k] = h <=> lock[k] = h \/ k = l
  <2> HIDE DEF l
  <2> QED
    BY Zenon, <1>1, <1>3, <1>5, LockTaken
<1>9. \A k \in Locks : lock'[k] = h <=> Holds(g, k)
  <2>1. \A k \in Locks : k # "none"
    BY Zenon DEF Locks
  <2>2. \A k \in Locks : Holds(g, k) <=> Needs(f.pc, f.irq, k)
    BY Zenon, <1>7, <2>1 DEF Holds
  <2>3. \A k \in Locks : Needs(f.pc, f.irq, k) <=> Holds(f, k) \/ k = l
    BY Zenon, <1>5 DEF Holds
  <2>4. \A k \in Locks : lock[k] = h <=> Holds(f, k)
    BY Zenon, <1>1 DEF RunsAt
  <2> QED
    BY Zenon, <1>8, <2>2, <2>3, <2>4
<1>10. Runs(b, g, cpu[h], chan[h])
  BY Zenon, <1>1, <1>7, Turns DEF RunsAt
<1>11. Only(cpu, cpu', Harts, h, cpu[h])
  BY Zenon, <1>3, MapStep DEF HartInv
<1>12. ChanStep(h) /\ Wakes(chan[h], chan'[h]) /\ ~panicked'
  BY Zenon, <1>3, ChanSame DEF Wakes, HartInv
<1> QED
  BY Zenon, <1>1, <1>2, <1>8, <1>9, <1>10, <1>11, <1>12, RunStep

(* acquire() by a process whose hart holds no lock: at the start of a      *)
(* system call and at the end of sleep().                                  *)
LEMMA EnterStep ==
  ASSUME HartInv, NEW h \in Harts, cpu[h] = Cpu(0, TRUE), \A k \in Locks : lock[k] # h,
         ChanStep(h), chan'[h] = "none",
         NEW f, IsRecord(f), f.irq = FALSE, f.pc \in CallLabels, Depth(f.pc, FALSE) = 1,
         NEW l \in Locks, \A k : Needs(f.pc, FALSE, k) <=> k = l, acquire(h, l, Push(f, <<>>))
  PROVE  HartInv'
<1> DEFINE m == MarkFrame(f, l)
<1>1. Wanting(f, m, l)
  BY Zenon, EditWant
<1>2. frames' = [frames EXCEPT ![h] = Push(m, <<>>)]
  <2>1. MarkStack(Push(f, <<>>), l) = Push(m, <<>>)
    BY Zenon, StackMarks DEF Base
  <2>2. frames' = [frames EXCEPT ![h] = MarkStack(Push(f, <<>>), l)]
    BY Zenon DEF acquire, MarkStack
  <2> QED
    BY Zenon, <2>1, <2>2
<1>3. /\ cpu' = [cpu EXCEPT ![h] = push_off(cpu[h])] /\ panicked' = (lock[l] = h) /\ UNCHANGED lock
  BY Zenon DEF acquire, holding
<1> HIDE DEF m
<1>4. CallFrame(m) /\ m.pc = f.pc
  BY Zenon, <1>1 DEF Wanting, CallFrame, IsFrame
<1>5. push_off(cpu[h]) = Cpu(1, TRUE)
  <2>1. 0 \in Nat /\ 0 + 1 = 1
    BY SMT
  <2> QED
    BY Zenon, <2>1, PushOff
<1>6. Runs(<<>>, m, Cpu(1, TRUE), chan'[h])
  BY Zenon, <1>4 DEF Runs, Works
<1>7. HartOK(Push(m, <<>>), Cpu(1, TRUE), chan'[h]) /\ \A k : Has(Push(m, <<>>), chan'[h], k) <=> Holds(m, k)
  BY Zenon, <1>6, RunFacts
<1>8. \A k : ~Holds(m, k)
  BY Zenon, <1>1 DEF Wanting, Holds
<1>9. Only(frames, frames', Harts, h, Push(m, <<>>)) /\ Only(cpu, cpu', Harts, h, Cpu(1, TRUE))
  BY Zenon, <1>2, <1>3, <1>5, MapStep DEF HartInv
<1>10. LockStep(h) /\ ~panicked' /\ \A k \in Locks : lock'[k] # h
  BY Zenon, <1>3, LockSame
<1> QED
  BY Zenon, <1>7, <1>8, <1>9, <1>10, HartStep

(* A process that sleeps or was woken up. *)
LEMMA SleeperFacts ==
  ASSUME HartInv, NEW h \in Harts, frames[h] # <<>>, ~Top(h).irq, chan[h] # "none"
  PROVE  /\ frames[h] = Push(Top(h), <<>>) /\ Sleeper(Top(h), chan[h]) /\ cpu[h] = Cpu(0, TRUE)
         /\ \A k \in Locks : lock[k] # h
<1> DEFINE f == Top(h)
           b == Tail(frames[h])
<1>1. HartOK(frames[h], cpu[h], chan[h]) /\ \A k \in Locks : lock[k] = h <=> Has(frames[h], chan[h], k)
  BY Zenon DEF HartInv
<1>2. frames[h] = Push(f, b) /\ (Sleeps(b, f, cpu[h], chan[h]) \/ Runs(b, f, cpu[h], chan[h]))
  BY Zenon, <1>1 DEF HartOK, Idles, Top
<1>3. \A k \in Locks : lock[k] # h
  BY Zenon, <1>1 DEF Has, Top
<1> HIDE DEF f, b
<1>4. ~Runs(b, f, cpu[h], chan[h])
  BY Zenon DEF Runs, Works, Handles, IrqFrame, f
<1>5. frames[h] = Push(f, <<>>) /\ Sleeper(f, chan[h]) /\ cpu[h] = Cpu(0, TRUE)
  BY Zenon, <1>2, <1>4 DEF Sleeps
<1> QED
  BY Zenon, <1>3, <1>5 DEF f

LEMMA ResumeHart ==
  ASSUME HartInv, NEW h \in Harts, Resume(h)
  PROVE  HartInv'
<1> DEFINE f == Top(h)
           l == IF f.pc = "read" THEN "cons.lock" ELSE "uart_tx_lock"
<1>1. /\ frames[h] # <<>> /\ ~f.irq /\ chan[h] = "woken"
      /\ chan' = [chan EXCEPT ![h] = "none"] /\ acquire(h, l, frames[h])
  BY Zenon DEF Resume
<1>2. chan[h] # "none"
  BY Zenon, <1>1
<1>3. /\ frames[h] = Push(f, <<>>) /\ Sleeper(f, chan[h]) /\ cpu[h] = Cpu(0, TRUE)
      /\ \A k \in Locks : lock[k] # h
  BY Zenon, <1>1, <1>2, SleeperFacts
<1>4. l \in Locks
  BY Zenon DEF Locks
<1>5. ChanStep(h) /\ chan'[h] = "none"
  BY Zenon, <1>1, ChanSet
<1> HIDE DEF f
<1>6. IsRecord(f) /\ f.irq = FALSE /\ f.pc \in CallLabels /\ (f.pc = "read" \/ f.pc = "putc")
  BY Zenon, <1>3 DEF Sleeper, CallFrame, IsFrame
<1>7. Depth(f.pc, FALSE) = 1
  BY Zenon, <1>6, Depths
<1>8. \A k : Needs(f.pc, FALSE, k) <=> k = l
  <2>1. "putc" # "read"
    BY SMT
  <2>2. CASE f.pc = "read"
    <3>1. l = "cons.lock"
      BY Zenon, <2>2
    <3> HIDE DEF l
    <3> QED
      BY Zenon, <2>2, <3>1, NeedsCons
  <2>3. CASE f.pc = "putc"
    <3>1. l = "uart_tx_lock"
      BY Zenon, <2>1, <2>3
    <3> HIDE DEF l
    <3> QED
      BY Zenon, <2>3, <3>1, NeedsUart
  <2> QED
    BY Zenon, <1>6, <2>2, <2>3
<1>9. acquire(h, l, Push(f, <<>>))
  BY Zenon, <1>1, <1>3
<1> HIDE DEF l
<1> QED
  BY Zenon, <1>3, <1>4, <1>5, <1>6, <1>7, <1>8, <1>9, EnterStep

LEMMA KillHart ==
  ASSUME HartInv, NEW h \in Harts, Kill(h)
  PROVE  HartInv'
<1> DEFINE ch == IF chan[h] = "none" THEN chan[h] ELSE "woken"
<1>1. chan' = [chan EXCEPT ![h] = ch] /\ UNCHANGED <<lock, cpu, frames, panicked>>
  BY Zenon DEF Kill
<1>2. ChanStep(h) /\ chan'[h] = ch
  BY Zenon, <1>1, ChanSet
<1>3. Wakes(chan[h], chan'[h])
  BY Zenon, <1>2 DEF Wakes
<1> HIDE DEF ch
<1>4. HartOK(frames[h], cpu[h], chan'[h]) /\ \A l : Has(frames[h], chan'[h], l) <=> Has(frames[h], chan[h], l)
  BY Zenon, <1>3, Woken DEF HartInv
<1>5. Only(frames, frames', Harts, h, frames[h]) /\ Only(cpu, cpu', Harts, h, cpu[h])
  BY Zenon, <1>1, MapStep DEF HartInv
<1>6. LockStep(h) /\ ~panicked' /\ \A l \in Locks : lock'[l] = h <=> Has(frames[h], chan'[h], l)
  BY Zenon, <1>1, <1>4, LockSame DEF HartInv
<1> QED
  BY Zenon, <1>2, <1>4, <1>5, <1>6, HartStep

(* The frame with which a system call or a part of an interrupt begins. *)
Fresh(f, p, i) == IsRecord(f) /\ f.pc = p /\ f.irq = i /\ f.want = "none"

LEMMA FirstFrame ==
  ASSUME NEW p, NEW i, NEW x
  PROVE  /\ Fresh(Frame(p, i), p, i)
         /\ Fresh([Frame(p, i) EXCEPT !.s = x], p, i) /\ Fresh([Frame(p, i) EXCEPT !.n = x], p, i)
<1> DEFINE f == Frame(p, i)
<1>1. IsRecord(f) /\ f.pc = p /\ f.irq = i /\ f.want = "none"
  BY Zenon, NewFrame
<1> HIDE DEF f
<1>2. Moved(f, [f EXCEPT !.s = x], f.pc) /\ Moved(f, [f EXCEPT !.n = x], f.pc)
  BY Zenon, <1>1, Edit
<1>3. Fresh(f, p, i) /\ Fresh([f EXCEPT !.s = x], p, i) /\ Fresh([f EXCEPT !.n = x], p, i)
  BY Zenon, <1>1, <1>2 DEF Fresh, Moved
<1> QED
  BY Zenon, <1>3 DEF f

LEMMA IdleFacts ==
  ASSUME HartInv, NEW h \in Harts, frames[h] = <<>>
  PROVE  chan[h] = "none" /\ cpu[h] = Cpu(0, TRUE) /\ \A k \in Locks : lock[k] # h
<1> DEFINE s == frames[h]
<1>1. HartOK(s, cpu[h], chan[h]) /\ \A k \in Locks : lock[k] = h <=> Has(s, chan[h], k)
  BY Zenon DEF HartInv
<1>2. s = <<>>
  BY Zenon
<1> HIDE DEF s
<1>3. \A k \in Locks : lock[k] # h
  BY Zenon, <1>1, <1>2 DEF Has
<1>4. ASSUME Sleeps(Tail(s), Head(s), cpu[h], chan[h]) \/ Runs(Tail(s), Head(s), cpu[h], chan[h]),
             s = Push(Head(s), Tail(s))
      PROVE FALSE
  <2>1. Base(Tail(s))
    BY Zenon, <1>4, RunFacts DEF Sleeps, Base
  <2> QED
    BY Zenon, <1>2, <1>4, <2>1, Stacks
<1> QED
  BY Zenon, <1>1, <1>3, <1>4 DEF HartOK, Idles

LEMMA CallHart ==
  ASSUME HartInv, NEW h \in Harts, NEW op, Call(h, op)
  PROVE  HartInv'
<1>1. frames[h] = <<>> /\ op \in Calls[h] /\ chan' = chan
  BY Zenon DEF Call
<1>2. chan[h] = "none" /\ cpu[h] = Cpu(0, TRUE) /\ \A k \in Locks : lock[k] # h
  BY Zenon, <1>1, IdleFacts
<1>3. ChanStep(h) /\ chan'[h] = "none"
  BY Zenon, <1>1, <1>2, ChanSame
<1>4. op \in {"read", "write", "printf"}
  BY Zenon, <1>1, ConsoleConstants
<1>5. "read" # "printf" /\ "read" # "write" /\ "printf" # "write"
  BY SMT
<1>6. CASE op = "read"
  <2> DEFINE f == [Frame("read", FALSE) EXCEPT !.n = ReadLen]
  <2>1. acquire(h, "cons.lock", <<f>>)
    BY Zenon, <1>5, <1>6 DEF Call
  <2>2. Fresh(f, "read", FALSE)
    BY Zenon, FirstFrame
  <2> HIDE DEF f
  <2>3. IsRecord(f) /\ f.irq = FALSE /\ f.pc = "read"
    BY Zenon, <2>2 DEF Fresh
  <2>4. acquire(h, "cons.lock", Push(f, <<>>))
    BY Zenon, <2>1, StackShapes
  <2>5. "cons.lock" \in Locks /\ "read" \in CallLabels
    BY Zenon DEF Locks, CallLabels
  <2>6. Depth(f.pc, FALSE) = 1 /\ \A k : Needs(f.pc, FALSE, k) <=> k = "cons.lock"
    BY Zenon, <2>3, Depths, NeedsCons
  <2> QED
    BY Zenon, <1>2, <1>3, <2>3, <2>4, <2>5, <2>6, EnterStep
<1>7. CASE op = "printf"
  <2> DEFINE f == [Frame("printf", FALSE) EXCEPT !.s = <<"e">>]
  <2>1. acquire(h, "pr.lock", <<f>>)
    BY Zenon, <1>5, <1>7 DEF Call
  <2>2. Fresh(f, "printf", FALSE)
    BY Zenon, FirstFrame
  <2> HIDE DEF f
  <2>3. IsRecord(f) /\ f.irq = FALSE /\ f.pc = "printf"
    BY Zenon, <2>2 DEF Fresh
  <2>4. acquire(h, "pr.lock", Push(f, <<>>))
    BY Zenon, <2>1, StackShapes
  <2>5. "pr.lock" \in Locks /\ "printf" \in CallLabels
    BY Zenon DEF Locks, CallLabels
  <2>6. Depth(f.pc, FALSE) = 1 /\ \A k : Needs(f.pc, FALSE, k) <=> k = "pr.lock"
    BY Zenon, <2>3, Depths, NeedsPr
  <2> QED
    BY Zenon, <1>2, <1>3, <2>3, <2>4, <2>5, <2>6, EnterStep
<1>8. CASE op = "write"
  <2> DEFINE f == [Frame("write", FALSE) EXCEPT !.s = Data]
  <2>1. frames' = [frames EXCEPT ![h] = <<f>>] /\ UNCHANGED <<lock, cpu, panicked>>
    BY Zenon, <1>5, <1>8 DEF Call
  <2>2. Fresh(f, "write", FALSE)
    BY Zenon, FirstFrame
  <2> HIDE DEF f
  <2>3. IsRecord(f) /\ f.irq = FALSE /\ f.pc = "write" /\ f.want = "none"
    BY Zenon, <2>2 DEF Fresh
  <2>4. CallFrame(f)
    BY Zenon, <2>3 DEF CallFrame, IsFrame, CallLabels
  <2>5. Runs(<<>>, f, cpu[h], chan'[h])
    BY Zenon, <1>2, <1>3, <2>3, <2>4, Depths DEF Runs, Works
  <2>6. HartOK(Push(f, <<>>), cpu[h], chan'[h]) /\ \A k : Has(Push(f, <<>>), chan'[h], k) <=> Holds(f, k)
    BY Zenon, <2>5, RunFacts
  <2>7. \A k : ~Holds(f, k)
    BY Zenon, <2>3, NeedsNot DEF Holds
  <2>8. Only(frames, frames', Harts, h, Push(f, <<>>)) /\ Only(cpu, cpu', Harts, h, cpu[h])
    <3>1. Only(frames, frames', Harts, h, <<f>>) /\ Only(cpu, cpu', Harts, h, cpu[h])
      BY Zenon, <2>1, MapStep DEF HartInv
    <3>2. Push(f, <<>>) = <<f>>
      BY Zenon, StackShapes
    <3> QED
      BY Zenon, <3>1, <3>2
  <2>9. LockStep(h) /\ ~panicked' /\ \A k \in Locks : lock'[k] # h
    BY Zenon, <1>2, <2>1, LockSame DEF HartInv
  <2> QED
    BY Zenon, <1>3, <2>6, <2>7, <2>8, <2>9, HartStep
<1> QED
  BY Zenon, <1>4, <1>6, <1>7, <1>8
-----------------------------------------------------------------------------
(* consoleread() and consolewrite(). *)
LEMMA ReadFacts ==
  ASSUME HartInv, NEW h \in Harts, NEW pc \in {"read", "sleep"}, At(h, pc)
  PROVE  /\ RunsAt(h, <<>>, Top(h)) /\ Tail(frames[h]) = <<>> /\ IsRecord(Top(h)) /\ Top(h).irq = FALSE
         /\ Top(h).want = "none" /\ Top(h).pc = pc
         /\ Depth(Top(h).pc, FALSE) = 1 /\ \A k : Needs(Top(h).pc, FALSE, k) <=> k = "cons.lock"
<1>1. pc \notin IrqLabels
  BY Zenon DEF IrqLabels
<1>2. /\ RunsAt(h, Tail(frames[h]), Top(h)) /\ Top(h).pc = pc /\ Top(h).want = "none" /\ IsRecord(Top(h))
      /\ Top(h).irq = FALSE /\ Tail(frames[h]) = <<>>
  BY Zenon, <1>1, AtFacts
<1>3. Depth(pc, FALSE) = 1 /\ \A k : Needs(pc, FALSE, k) <=> k = "cons.lock"
  BY Zenon, Depths, NeedsCons
<1> QED
  BY Zenon, <1>2, <1>3

LEMMA ReadReturns ==
  ASSUME HartInv, NEW h \in Harts, At(h, "read"), release(h, "cons.lock"), Return(h), chan' = chan
  PROVE  HartInv'
<1> DEFINE f == Top(h)
<1>1. /\ RunsAt(h, <<>>, f) /\ f.irq = FALSE /\ f.want = "none"
      /\ Depth(f.pc, FALSE) = 1 /\ \A k : Needs(f.pc, FALSE, k) <=> k = "cons.lock"
  BY Zenon, ReadFacts
<1>2. "cons.lock" \in Locks
  BY Zenon DEF Locks
<1> HIDE DEF f
<1> QED
  BY Zenon, <1>1, <1>2, ReturnStep

LEMMA ReadGoesOn ==
  ASSUME HartInv, NEW h \in Harts, At(h, "read"), NEW p \in {"read", "sleep"}, NEW g, Moved(Top(h), g, p),
         Set(h, g), UNCHANGED <<cpu, lock, panicked, chan>>
  PROVE  HartInv'
<1>1. Top(h).irq = FALSE /\ p \in CallLabels
  BY Zenon, ReadFacts DEF CallLabels
<1>2. Depth(p, Top(h).irq) = Depth("read", Top(h).irq)
  BY Zenon, Depths
<1>3. \A l : Needs(p, Top(h).irq, l) <=> Needs("read", Top(h).irq, l)
  BY Zenon, NeedsCons
<1>4. ChanStep(h) /\ Wakes(chan[h], chan'[h])
  BY Zenon, ChanSame DEF Wakes
<1>5. UNCHANGED <<cpu, lock, panicked>>
  BY Zenon
<1> QED
  BY Zenon, <1>1, <1>2, <1>3, <1>4, <1>5, SetStep

LEMMA readWaitHart ==
  ASSUME HartInv, NEW h \in Harts, readWait(h)
  PROVE  HartInv'
<1>1. At(h, "read") /\ chan' = chan
  BY Zenon DEF readWait
<1>2. CASE killed[h]
  <2>1. release(h, "cons.lock") /\ Return(h)
    BY Zenon, <1>2 DEF readWait
  <2> QED
    BY Zenon, <1>1, <2>1, ReadReturns
<1>3. CASE ~killed[h]
  <2> DEFINE g == [Top(h) EXCEPT !.pc = "sleep"]
  <2>1. Set(h, g) /\ UNCHANGED <<cpu, lock, panicked, chan>>
    BY Zenon, <1>1, <1>3 DEF readWait, Goto
  <2>2. IsRecord(Top(h))
    BY Zenon, <1>1, ReadFacts
  <2>3. Moved(Top(h), g, "sleep")
    BY Zenon, <2>2, Edit
  <2> HIDE DEF g
  <2> QED
    BY Zenon, <1>1, <2>1, <2>3, ReadGoesOn
<1> QED
  BY Zenon, <1>2, <1>3

LEMMA readSleepHart ==
  ASSUME HartInv, NEW h \in Harts, readSleep(h)
  PROVE  HartInv'
<1> DEFINE f == Top(h)
           g == [f EXCEPT !.pc = "read"]
<1>1. At(h, "sleep") /\ sleep(h, "cons.r", "cons.lock") /\ Set(h, g)
  BY Zenon DEF readSleep, Goto
<1>2. /\ RunsAt(h, <<>>, f) /\ Tail(frames[h]) = <<>> /\ IsRecord(f) /\ f.irq = FALSE /\ f.want = "none"
      /\ Depth(f.pc, FALSE) = 1 /\ \A k : Needs(f.pc, FALSE, k) <=> k = "cons.lock"
  BY Zenon, <1>1, ReadFacts
<1>3. frames' = [frames EXCEPT ![h] = Push(g, <<>>)]
  BY Zenon, <1>1, <1>2, SetFrame
<1> HIDE DEF f
<1>4. Moved(f, g, "read")
  BY Zenon, <1>2, Edit
<1> HIDE DEF g
<1>5. "read" \in CallLabels /\ "cons.lock" \in Locks /\ "cons.r" # "uart_tx_r"
  BY Zenon DEF CallLabels, Locks
<1>6. Sleeper(g, "cons.r")
  BY Zenon, <1>2, <1>4, <1>5 DEF Sleeper, CallFrame, IsFrame, Moved
<1>7. Only(frames, frames', Harts, h, Push(g, <<>>))
  BY Zenon, <1>3, MapStep DEF HartInv
<1> QED
  BY Zenon, <1>1, <1>2, <1>5, <1>6, <1>7, SleepStep

LEMMA readTakeHart ==
  ASSUME HartInv, NEW h \in Harts, readTake(h)
  PROVE  HartInv'
<1> DEFINE f == Top(h)
           g == [f EXCEPT !.n = f.n - 1]
<1>1. At(h, "read") /\ chan' = chan
  BY Zenon DEF readTake
<1>2. \/ release(h, "cons.lock") /\ Return(h)
      \/ Set(h, g) /\ UNCHANGED <<lock, cpu, killed, panicked>>
  BY Zenon DEF readTake
<1>3. CASE release(h, "cons.lock") /\ Return(h)
  BY Zenon, <1>1, <1>3, ReadReturns
<1>4. CASE Set(h, g) /\ UNCHANGED <<lock, cpu, killed, panicked>>
  <2>1. IsRecord(f) /\ f.pc = "read"
    BY Zenon, <1>1, ReadFacts
  <2>2. Moved(f, g, "read")
    <3> HIDE DEF f
    <3> QED
      BY Zenon, <2>1, Edit
  <2>3. UNCHANGED <<cpu, lock, panicked, chan>> /\ Set(h, g)
    BY Zenon, <1>1, <1>4
  <2> HIDE DEF g
  <2> QED
    BY Zenon, <1>1, <2>2, <2>3, ReadGoesOn
<1> QED
  BY Zenon, <1>2, <1>3, <1>4

LEMMA consolewriteHart ==
  ASSUME HartInv, NEW h \in Harts, consolewrite(h)
  PROVE  HartInv'
<1> DEFINE f == Top(h)
           g == [f EXCEPT !.pc = "putc"]
<1>1. At(h, "write") /\ chan' = chan
  BY Zenon DEF consolewrite
<1>2. \/ acquire(h, "uart_tx_lock", <<g>>)
      \/ Return(h) /\ UNCHANGED <<lock, cpu, panicked>>
  BY Zenon DEF consolewrite
<1>3. /\ RunsAt(h, <<>>, f) /\ f.pc = "write" /\ f.want = "none" /\ IsRecord(f) /\ f.irq = FALSE
  <2>1. "write" \notin IrqLabels
    BY Zenon DEF IrqLabels
  <2>2. /\ RunsAt(h, Tail(frames[h]), f) /\ f.pc = "write" /\ f.want = "none" /\ IsRecord(f) /\ f.irq = FALSE
        /\ Tail(frames[h]) = <<>>
    BY Zenon, <1>1, <2>1, AtFacts
  <2> QED
    BY Zenon, <2>2
<1>4. ChanStep(h) /\ Wakes(chan[h], chan'[h])
  BY Zenon, <1>1, ChanSame DEF Wakes
<1> HIDE DEF f
<1>5. CASE acquire(h, "uart_tx_lock", <<g>>)
  <2>m. Moved(f, g, "putc")
    BY Zenon, <1>3, Edit
  <2> HIDE DEF g
  <2>1. IsRecord(g) /\ g.irq = f.irq /\ g.pc = "putc"
    BY Zenon, <2>m DEF Moved
  <2>2. "uart_tx_lock" \in Locks /\ g.pc \in (IF f.irq THEN IrqLabels ELSE CallLabels)
    BY Zenon, <1>3, <2>1 DEF Locks, CallLabels
  <2>3. ~Needs(f.pc, f.irq, "uart_tx_lock")
    BY Zenon, <1>3, NeedsNot
  <2>4. \A k : Needs(g.pc, g.irq, k) <=> Needs(f.pc, f.irq, k) \/ k = "uart_tx_lock"
    BY Zenon, <1>3, <2>1, NeedsNot, NeedsUart
  <2>5. Depth(g.pc, g.irq) = Depth(f.pc, f.irq) + 1
    <3>1. Depth(g.pc, g.irq) = 1 /\ Depth(f.pc, f.irq) = 0
      BY Zenon, <1>3, <2>1, Depths
    <3> QED
      BY SMT, <3>1
  <2>6. acquire(h, "uart_tx_lock", Push(g, <<>>))
    BY Zenon, <1>5, StackShapes
  <2> QED
    BY Zenon, <1>3, <1>4, <2>1, <2>2, <2>3, <2>4, <2>5, <2>6, AcquireStep
<1>6. CASE Return(h) /\ UNCHANGED <<lock, cpu, panicked>>
  <2>1. Only(frames, frames', Harts, h, <<>>) /\ Only(cpu, cpu', Harts, h, cpu[h])
    BY Zenon, <1>6, MapStep DEF HartInv, Return
  <2>2. chan[h] = "none" /\ cpu[h] = Cpu(Depth(f.pc, FALSE), TRUE)
    BY Zenon, <1>3, CallDepth
  <2>3. cpu[h] = Cpu(0, TRUE)
    BY Zenon, <1>3, <2>2, Depths
  <2>4. \A l \in Locks : lock'[l] # h
    <3>1. \A l : ~Holds(f, l)
      BY Zenon, <1>3, NeedsNot DEF Holds
    <3> QED
      BY Zenon, <1>3, <1>6, <3>1 DEF RunsAt
  <2>5. LockStep(h) /\ ~panicked'
    BY Zenon, <1>6, LockSame DEF HartInv
  <2>6. Idles(<<>>, Cpu(0, TRUE), chan'[h])
    BY Zenon, <1>1, <2>2 DEF Idles
  <2> QED
    BY Zenon, <1>4, <2>1, <2>3, <2>4, <2>5, <2>6, RestStep
<1> QED
  BY Zenon, <1>2, <1>5, <1>6
-----------------------------------------------------------------------------
(* uartputc() and uartstart(). *)
LEMMA uartputcHart ==
  ASSUME HartInv, NEW h \in Harts, uartputc(h)
  PROVE  HartInv'
<1> DEFINE f == Top(h)
           full == tx.w = Add64(tx.r, UART_TX_BUF_SIZE)
           g == [f EXCEPT !.pc = "start", !.s = Tail(f.s)]
<1>1. At(h, "putc")
  BY Zenon DEF uartputc
<1>2. /\ RunsAt(h, <<>>, f) /\ f.pc = "putc" /\ f.want = "none" /\ IsRecord(f) /\ f.irq = FALSE
      /\ Tail(frames[h]) = <<>>
  <2>1. "putc" \notin IrqLabels
    BY Zenon DEF IrqLabels
  <2>2. /\ RunsAt(h, Tail(frames[h]), f) /\ f.pc = "putc" /\ f.want = "none" /\ IsRecord(f) /\ f.irq = FALSE
        /\ Tail(frames[h]) = <<>>
    BY Zenon, <1>1, <2>1, AtFacts
  <2> QED
    BY Zenon, <2>2
<1>3. Depth("putc", FALSE) = 1 /\ \A k : Needs("putc", FALSE, k) <=> k = "uart_tx_lock"
  <2>1. Depth("putc", FALSE) = 1
    BY Zenon, Depths
  <2>2. \A k : Needs("putc", FALSE, k) <=> k = "uart_tx_lock"
    BY SMT DEF Needs
  <2> QED
    BY Zenon, <2>1, <2>2
<1>4. "putc" \in CallLabels /\ "start" \in CallLabels /\ "uart_tx_lock" \in Locks /\ "cons.r" # "uart_tx_r"
  BY SMT DEF CallLabels, Locks
<1>5. CASE full
  <2>1. sleep(h, "uart_tx_r", "uart_tx_lock") /\ frames' = frames
    BY Zenon, <1>5 DEF uartputc
  <2>2. frames[h] = Push(f, <<>>)
    BY Zenon, <1>2 DEF RunsAt
  <2> HIDE DEF f
  <2>3. Only(frames, frames', Harts, h, Push(f, <<>>))
    <3>1. Only(frames, frames, Harts, h, frames[h])
      BY Zenon, MapStep DEF HartInv
    <3> QED
      BY Zenon, <2>1, <2>2, <3>1
  <2>4. Sleeper(f, "uart_tx_r")
    <3>1. CallFrame(f)
      BY Zenon, <1>2, <1>4 DEF CallFrame, IsFrame
    <3> QED
      BY Zenon, <1>2, <1>4, <3>1 DEF Sleeper
  <2> QED
    BY Zenon, <1>2, <1>3, <1>4, <2>1, <2>3, <2>4, SleepStep
<1>6. CASE ~full
  <2>1. Set(h, g) /\ UNCHANGED <<lock, cpu, chan, panicked>>
    BY Zenon, <1>6 DEF uartputc
  <2>2. ChanStep(h) /\ Wakes(chan[h], chan'[h]) /\ UNCHANGED <<cpu, lock, panicked>>
    BY Zenon, <2>1, ChanSame DEF Wakes
  <2>3. Moved(f, g, "start")
    <3> HIDE DEF f
    <3> QED
      BY Zenon, <1>2, Edits
  <2>4. Depth("start", f.irq) = Depth("putc", f.irq) /\ \A l : Needs("start", f.irq, l) <=> Needs("putc", f.irq, l)
    BY Zenon, Depths, NeedsUart
  <2> HIDE DEF g
  <2> QED
    BY Zenon, <1>1, <1>2, <1>4, <2>1, <2>2, <2>3, <2>4, SetStep
<1> QED
  BY Zenon, <1>5, <1>6

LEMMA uartstartReturnHart ==
  ASSUME HartInv, NEW h \in Harts, uartstartReturn(h)
  PROVE  HartInv'
<1> DEFINE f == Top(h)
           b == Tail(frames[h])
           p == IF f.irq THEN "complete" ELSE "write"
           g == [f EXCEPT !.pc = p]
<1>1. At(h, "start") /\ release(h, "uart_tx_lock") /\ Set(h, g) /\ chan' = chan
  BY Zenon DEF uartstartReturn, Goto
<1>2. RunsAt(h, b, f) /\ f.pc = "start" /\ f.want = "none" /\ IsRecord(f) /\ f.irq \in BOOLEAN
  BY Zenon, <1>1, AtFacts
<1>3. frames' = [frames EXCEPT ![h] = Push(g, b)]
  BY Zenon, <1>1, SetFrame
<1> HIDE DEF f, b
<1>4. p \in {"write", "complete"} /\ (f.irq => p \in IrqLabels) /\ (~f.irq => p \in CallLabels)
  BY Zenon DEF IrqLabels, CallLabels
<1>5. Moved(f, g, p)
  BY Zenon, <1>2, Edit
<1> HIDE DEF p
<1> HIDE DEF g
<1>6. AnyFrame(g) /\ g.irq = f.irq /\ g.pc = p /\ g.want = "none"
  BY Zenon, <1>2, <1>4, <1>5, Goes
<1>7. Needs(f.pc, f.irq, "uart_tx_lock") /\ "uart_tx_lock" \in Locks
  BY Zenon, <1>2, NeedsUart DEF Locks
<1>8. \A k : Needs(g.pc, g.irq, k) <=> Needs(f.pc, f.irq, k) /\ k # "uart_tx_lock"
  <2>1. \A k : ~Needs(g.pc, g.irq, k)
    BY Zenon, <1>4, <1>6, NeedsNot
  <2>2. \A k : Needs(f.pc, f.irq, k) => k = "uart_tx_lock"
    BY Zenon, <1>2, NeedsUart
  <2> QED
    BY Zenon, <2>1, <2>2
<1>9. Depth(g.pc, g.irq) + 1 = Depth(f.pc, f.irq)
  <2>1. Depth(g.pc, g.irq) = 0 /\ Depth(f.pc, f.irq) = 1
    BY Zenon, <1>2, <1>4, <1>6, Depths
  <2> QED
    BY SMT, <2>1
<1> QED
  BY Zenon, <1>1, <1>2, <1>3, <1>6, <1>7, <1>8, <1>9, ReleaseStep

(* A step of uartstart() that stays in it. *)
LEMMA StartStep ==
  ASSUME HartInv, NEW h \in Harts, NEW pc \in {"start", "send"}, At(h, pc), NEW p \in {"start", "send"},
         NEW x, Set(h, [Top(h) EXCEPT !.pc = p, !.c = x]), UNCHANGED <<lock, cpu, panicked>>,
         ChanStep(h), Wakes(chan[h], chan'[h])
  PROVE  HartInv'
<1> DEFINE f == Top(h)
           g == [f EXCEPT !.pc = p, !.c = x]
<1>1. IsRecord(f) /\ f.irq \in BOOLEAN
  BY Zenon, AtFacts
<1>2. Moved(f, g, p)
  <2> HIDE DEF f
  <2> QED
    BY Zenon, <1>1, Edits
<1>3. p \in IrqLabels /\ p \in CallLabels
  BY Zenon DEF IrqLabels, CallLabels
<1>4. Depth(p, f.irq) = Depth(pc, f.irq)
  BY Zenon, Depths
<1>5. \A l : Needs(p, f.irq, l) <=> Needs(pc, f.irq, l)
  BY Zenon, NeedsUart
<1>6. UNCHANGED <<cpu, lock, panicked>> /\ Set(h, g)
  BY Zenon
<1> HIDE DEF g
<1> QED
  BY Zenon, <1>2, <1>3, <1>4, <1>5, <1>6, SetStep

LEMMA uartstartHart ==
  ASSUME HartInv, NEW h \in Harts, uartstart(h)
  PROVE  HartInv'
<1> DEFINE x == tx.buf[tx.r % UART_TX_BUF_SIZE]
<1>1. /\ At(h, "start") /\ Set(h, [Top(h) EXCEPT !.pc = "send", !.c = x])
      /\ chan' = wakeup("uart_tx_r") /\ UNCHANGED <<lock, cpu, panicked>>
  BY Zenon DEF uartstart
<1>2. ChanStep(h) /\ Wakes(chan[h], chan'[h])
  BY Zenon, <1>1, ChanWakeup
<1> HIDE DEF x
<1> QED
  BY Zenon, <1>1, <1>2, StartStep

LEMMA uartstartSendHart ==
  ASSUME HartInv, NEW h \in Harts, uartstartSend(h)
  PROVE  HartInv'
<1>1. /\ At(h, "send") /\ Set(h, [Top(h) EXCEPT !.pc = "start", !.c = "NUL"])
      /\ chan' = chan /\ UNCHANGED <<lock, cpu, panicked>>
  BY Zenon DEF uartstartSend
<1>2. ChanStep(h) /\ Wakes(chan[h], chan'[h])
  BY Zenon, <1>1, ChanSame DEF Wakes
<1> QED
  BY Zenon, <1>1, <1>2, StartStep
-----------------------------------------------------------------------------
(* uartputc_sync(), where the frame goes on at q from p or at p from q. *)
SyncPair(p, q, irq) ==
  /\ irq => p \in IrqLabels /\ q \in IrqLabels
  /\ (~irq /\ (p \in CallLabels \/ q \in CallLabels)) => p \in CallLabels /\ q \in CallLabels
  /\ Depth(q, irq) = Depth(p, irq) + 1
  /\ \A l : Needs(q, irq, l) <=> Needs(p, irq, l)

LEMMA SyncLabels ==
  ASSUME NEW p, NEW q, \/ p = "printf" /\ q = "printf'"
                       \/ p = "echo" /\ q = "echo'",
         NEW irq \in BOOLEAN
  PROVE  SyncPair(p, q, irq)
<1>1. CASE p = "printf" /\ q = "printf'"
  <2>1. Depth(q, irq) = Depth(p, irq) + 1
    BY SMT, <1>1 DEF Depth
  <2> QED
    BY Zenon, <1>1, <2>1 DEF SyncPair, IrqLabels, CallLabels, Needs
<1>2. CASE p = "echo" /\ q = "echo'"
  <2>1. Depth(q, irq) = Depth(p, irq) + 1
    BY SMT, <1>2 DEF Depth
  <2>2. p \in IrqLabels /\ q \in IrqLabels /\ p \notin CallLabels /\ q \notin CallLabels
    BY Zenon, <1>2 DEF IrqLabels, CallLabels
  <2>3. \A l : Needs(q, irq, l) <=> Needs(p, irq, l)
    BY Zenon, <1>2, NeedsCons
  <2> QED
    BY Zenon, <2>1, <2>2, <2>3 DEF SyncPair
<1> QED
  BY Zenon, <1>1, <1>2

(* What such a step does to the frame. *)
LEMMA SyncFrame ==
  ASSUME HartInv, NEW h \in Harts, NEW pc, At(h, pc), NEW q, NEW g, Moved(Top(h), g, q),
         Top(h).irq => q \in IrqLabels, ~Top(h).irq => q \in CallLabels,
         \A l : Needs(q, Top(h).irq, l) <=> Needs(pc, Top(h).irq, l)
  PROVE  /\ AnyFrame(g) /\ g.irq = Top(h).irq /\ g.pc = q
         /\ \A l \in Locks : Holds(g, l) <=> Holds(Top(h), l)
<1> DEFINE f == Top(h)
<1>1. f.pc = pc /\ f.want = "none" /\ f.irq \in BOOLEAN
  BY Zenon, AtFacts
<1>2. /\ AnyFrame(g) /\ g.irq = f.irq /\ g.pc = q
      /\ \A l \in Locks : Holds(g, l) <=> Needs(q, f.irq, l)
  BY Zenon, <1>1, Goes
<1>3. \A l \in Locks : Holds(f, l) <=> Needs(pc, f.irq, l)
  <2>1. \A l \in Locks : l # "none"
    BY Zenon DEF Locks
  <2> HIDE DEF f
  <2> QED
    BY Zenon, <1>1, <2>1 DEF Holds
<1> QED
  BY Zenon, <1>2, <1>3

LEMMA uartputc_syncHart ==
  ASSUME HartInv, NEW h \in Harts, uartputc_sync(h)
  PROVE  HartInv'
<1> DEFINE f == Top(h)
           b == Tail(frames[h])
           q == IF f.pc = "printf" THEN "printf'" ELSE "echo'"
           g == [f EXCEPT !.pc = q]
<1>1. PICK p \in {"printf", "echo"} : At(h, p)
  BY Zenon DEF uartputc_sync, Putting
<1>2. /\ cpu' = [cpu EXCEPT ![h] = push_off(cpu[h])] /\ Set(h, g) /\ UNCHANGED <<lock, chan, panicked>>
  BY Zenon DEF uartputc_sync, Goto
<1>3. RunsAt(h, b, f) /\ f.pc = p /\ f.want = "none" /\ IsRecord(f) /\ f.irq \in BOOLEAN
  BY Zenon, <1>1, AtFacts
<1>4. frames' = [frames EXCEPT ![h] = Push(g, b)]
  BY Zenon, <1>2, SetFrame
<1>5. \/ p = "printf" /\ q = "printf'"
      \/ p = "echo" /\ q = "echo'"
  <2>1. "echo" # "printf"
    BY SMT
  <2> QED
    BY Zenon, <1>3, <2>1
<1>6. f.irq => p \in IrqLabels
  BY Zenon, <1>5 DEF IrqLabels
<1>7. ~f.irq => p \in CallLabels
  <2> HIDE DEF f
  <2> QED
    BY Zenon, <1>3 DEF RunsAt, AnyFrame, CallFrame, IrqFrame
<1>8. Moved(f, g, q)
  <2> HIDE DEF f, q
  <2> QED
    BY Zenon, <1>3, Edit
<1> HIDE DEF q
<1>9. /\ f.irq => q \in IrqLabels
      /\ ~f.irq => q \in CallLabels
      /\ Depth(q, f.irq) = Depth(p, f.irq) + 1
      /\ \A l : Needs(q, f.irq, l) <=> Needs(p, f.irq, l)
  <2> HIDE DEF f
  <2>1. SyncPair(p, q, f.irq)
    BY Zenon, <1>3, <1>5, SyncLabels
  <2> QED
    BY Zenon, <1>7, <2>1 DEF SyncPair
<1> HIDE DEF g
<1>10. AnyFrame(g) /\ g.irq = f.irq /\ g.pc = q /\ \A l \in Locks : Holds(g, l) <=> Holds(f, l)
  BY Zenon, <1>1, <1>8, <1>9, SyncFrame
<1>11. ~panicked' /\ ChanStep(h) /\ Wakes(chan[h], chan'[h]) /\ UNCHANGED lock
  BY Zenon, <1>2, ChanSame DEF Wakes, HartInv
<1> HIDE DEF f, b
<1>12. Depth(g.pc, g.irq) = Depth(f.pc, f.irq) + 1
  BY Zenon, <1>3, <1>9, <1>10
<1> QED
  BY Zenon, <1>2, <1>3, <1>4, <1>10, <1>11, <1>12, PushStep

LEMMA uartputc_syncSendHart ==
  ASSUME HartInv, NEW h \in Harts, uartputc_syncSend(h)
  PROVE  HartInv'
<1> DEFINE f == Top(h)
           b == Tail(frames[h])
           p == IF f.pc = "printf'" THEN "printf" ELSE "echo"
           g == [f EXCEPT !.pc = p, !.s = Tail(f.s)]
<1>1. PICK q \in {"printf'", "echo'"} : At(h, q)
  BY Zenon DEF uartputc_syncSend, Putting
<1>2. /\ cpu' = [cpu EXCEPT ![h] = pop_off(cpu[h])] /\ panicked' = PopPanics(cpu[h])
      /\ Set(h, g) /\ UNCHANGED <<lock, chan>>
  BY Zenon DEF uartputc_syncSend
<1>3. RunsAt(h, b, f) /\ f.pc = q /\ f.want = "none" /\ IsRecord(f) /\ f.irq \in BOOLEAN
  BY Zenon, <1>1, AtFacts
<1>4. frames' = [frames EXCEPT ![h] = Push(g, b)]
  BY Zenon, <1>2, SetFrame
<1>5. \/ p = "printf" /\ q = "printf'"
      \/ p = "echo" /\ q = "echo'"
  <2>1. "echo'" # "printf'"
    BY SMT
  <2> QED
    BY Zenon, <1>3, <2>1
<1>6. ~f.irq => q \in CallLabels
  <2> HIDE DEF f
  <2> QED
    BY Zenon, <1>3 DEF RunsAt, AnyFrame, CallFrame, IrqFrame
<1>7. Moved(f, g, p)
  <2> HIDE DEF f, p
  <2> QED
    BY Zenon, <1>3, Edits
<1> HIDE DEF p
<1>8. /\ f.irq => p \in IrqLabels
      /\ ~f.irq => p \in CallLabels
      /\ Depth(q, f.irq) = Depth(p, f.irq) + 1
      /\ \A l : Needs(p, f.irq, l) <=> Needs(q, f.irq, l)
  <2> HIDE DEF f
  <2>1. SyncPair(p, q, f.irq)
    BY Zenon, <1>3, <1>5, SyncLabels
  <2> QED
    BY Zenon, <1>6, <2>1 DEF SyncPair
<1> HIDE DEF g
<1>9. AnyFrame(g) /\ g.irq = f.irq /\ g.pc = p /\ \A l \in Locks : Holds(g, l) <=> Holds(f, l)
  BY Zenon, <1>1, <1>7, <1>8, SyncFrame
<1> HIDE DEF f, b
<1>10. Depth(g.pc, g.irq) + 1 = Depth(f.pc, f.irq)
  BY Zenon, <1>3, <1>8, <1>9
<1> QED
  BY Zenon, <1>2, <1>3, <1>4, <1>9, <1>10, PopStep

LEMMA printfDoneHart ==
  ASSUME HartInv, NEW h \in Harts, printfDone(h)
  PROVE  HartInv'
<1> DEFINE f == Top(h)
           b == Tail(frames[h])
           g == [f EXCEPT !.pc = "echo"]
<1>1. At(h, "printf") /\ release(h, "pr.lock") /\ chan' = chan
  BY Zenon DEF printfDone
<1>2. RunsAt(h, b, f) /\ f.pc = "printf" /\ f.want = "none" /\ IsRecord(f) /\ f.irq \in BOOLEAN
  BY Zenon, <1>1, AtFacts
<1>3. "pr.lock" \in Locks /\ "echo" \in IrqLabels /\ "pr.lock" # "cons.lock"
  BY SMT DEF Locks, IrqLabels
<1>4. CASE f.irq = TRUE
  <2>1. Set(h, g)
    BY Zenon, <1>4 DEF printfDone, Goto
  <2>2. frames' = [frames EXCEPT ![h] = Push(g, b)]
    BY Zenon, <2>1, SetFrame
  <2> HIDE DEF f, b
  <2>3. Moved(f, g, "echo")
    BY Zenon, <1>2, Edit
  <2> HIDE DEF g
  <2>4. AnyFrame(g) /\ g.irq = f.irq /\ g.pc = "echo" /\ g.want = "none"
    BY Zenon, <1>2, <1>3, <1>4, <2>3, Goes
  <2>5. Needs(f.pc, f.irq, "pr.lock")
    BY Zenon, <1>2, <1>4, NeedsPr
  <2>6. \A k : Needs(g.pc, g.irq, k) <=> Needs(f.pc, f.irq, k) /\ k # "pr.lock"
    <3>1. \A k : Needs(g.pc, g.irq, k) <=> k = "cons.lock"
      BY Zenon, <2>4, NeedsCons
    <3>2. \A k : Needs(f.pc, f.irq, k) <=> k = "pr.lock" \/ k = "cons.lock"
      BY Zenon, <1>2, <1>4, NeedsPr
    <3> QED
      BY Zenon, <1>3, <3>1, <3>2
  <2>7. Depth(g.pc, g.irq) + 1 = Depth(f.pc, f.irq)
    <3>1. Depth(g.pc, g.irq) = 1 /\ Depth(f.pc, f.irq) = 2
      BY Zenon, <1>2, <1>4, <2>4, Depths
    <3> QED
      BY SMT, <3>1
  <2> QED
    BY Zenon, <1>1, <1>2, <1>3, <2>2, <2>4, <2>5, <2>6, <2>7, ReleaseStep
<1>5. CASE f.irq = FALSE
  <2>1. Return(h)
    BY Zenon, <1>5 DEF printfDone
  <2> HIDE DEF f, b
  <2>2. Depth(f.pc, FALSE) = 1 /\ \A k : Needs(f.pc, FALSE, k) <=> k = "pr.lock"
    BY Zenon, <1>2, Depths, NeedsPr
  <2> QED
    BY Zenon, <1>1, <1>2, <1>3, <1>5, <2>1, <2>2, ReturnStep
<1> QED
  BY Zenon, <1>2, <1>4, <1>5
-----------------------------------------------------------------------------
(* The interrupt. *)
LEMMA uartintrHart ==
  ASSUME HartInv, NEW h \in Harts, uartintr(h)
  PROVE  HartInv'
<1> DEFINE f == Top(h)
           b == Tail(frames[h])
           l == IF uart.rx THEN "cons.lock" ELSE "uart_tx_lock"
           p == IF uart.rx THEN "consoleintr" ELSE "start"
           g == Frame(p, TRUE)
<1>1. At(h, "getc") /\ acquire(h, l, Push(g, b)) /\ chan' = chan
  BY Zenon DEF uartintr
<1>2. RunsAt(h, b, f) /\ f.pc = "getc" /\ f.want = "none" /\ f.irq = TRUE
  <2>1. "getc" \notin CallLabels
    BY Zenon DEF CallLabels
  <2> QED
    BY Zenon, <1>1, <2>1, AtFacts
<1> HIDE DEF f, b
<1>3. ChanStep(h) /\ Wakes(chan[h], chan'[h])
  BY Zenon, <1>1, ChanSame DEF Wakes
<1>4. l \in Locks /\ p \in IrqLabels
  BY Zenon DEF Locks, IrqLabels
<1>5. \/ p = "consoleintr" /\ l = "cons.lock"
      \/ p = "start" /\ l = "uart_tx_lock"
  BY Zenon
<1> HIDE DEF p, l
<1>6. IsRecord(g) /\ g.pc = p /\ g.irq = TRUE
  BY Zenon, NewFrame
<1> HIDE DEF g
<1>7. \A k : ~Needs(f.pc, f.irq, k)
  BY Zenon, <1>2, NeedsNot
<1>8. \A k : Needs(g.pc, g.irq, k) <=> k = l
  <2>1. CASE p = "consoleintr" /\ l = "cons.lock"
    BY Zenon, <1>6, <2>1, NeedsCons
  <2>2. CASE p = "start" /\ l = "uart_tx_lock"
    BY Zenon, <1>6, <2>2, NeedsUart
  <2> QED
    BY Zenon, <1>5, <2>1, <2>2
<1>9. Depth(g.pc, g.irq) = Depth(f.pc, f.irq) + 1
  <2>1. Depth(f.pc, f.irq) = 0
    BY Zenon, <1>2, Depths
  <2>2. Depth("consoleintr", TRUE) = 1 /\ Depth("start", TRUE) = 1
    BY Zenon, Depths
  <2>3. Depth(g.pc, g.irq) = 1
    BY Zenon, <1>5, <1>6, <2>2
  <2> QED
    BY SMT, <2>1, <2>3
<1>10. g.pc \in (IF f.irq THEN IrqLabels ELSE CallLabels) /\ g.irq = f.irq
  BY Zenon, <1>2, <1>4, <1>6
<1>11. \A k : Needs(g.pc, g.irq, k) <=> Needs(f.pc, f.irq, k) \/ k = l
  BY Zenon, <1>7, <1>8
<1> QED
  BY Zenon, <1>1, <1>2, <1>3, <1>4, <1>6, <1>7, <1>9, <1>10, <1>11, AcquireStep

LEMMA consoleintrHart ==
  ASSUME HartInv, NEW h \in Harts, consoleintr(h)
  PROVE  HartInv'
<1> DEFINE f == Top(h)
           b == Tail(frames[h])
           d == [Frame("printf", TRUE) EXCEPT !.s = <<"e">>]
           e(x) == [Frame("echo", TRUE) EXCEPT !.s = x]
<1>1. At(h, "consoleintr")
  BY Zenon DEF consoleintr
<1>2. chan' = chan \/ chan' = wakeup("cons.r")
  BY Zenon DEF consoleintr
<1>3. \/ acquire(h, "pr.lock", Push(d, b))
      \/ \E x : Set(h, e(x)) /\ UNCHANGED <<lock, cpu, panicked>>
  BY Zenon DEF consoleintr
<1>4. RunsAt(h, b, f) /\ f.pc = "consoleintr" /\ f.want = "none" /\ f.irq = TRUE
  <2>1. "consoleintr" \notin CallLabels
    BY Zenon DEF CallLabels
  <2> QED
    BY Zenon, <1>1, <2>1, AtFacts
<1>5. ChanStep(h) /\ Wakes(chan[h], chan'[h])
  BY Zenon, <1>2, ChanSame, ChanWakeup DEF Wakes
<1>6. CASE acquire(h, "pr.lock", Push(d, b))
  <2>1. Fresh(d, "printf", TRUE)
    BY Zenon, FirstFrame
  <2> HIDE DEF f, b, d
  <2>2. IsRecord(d) /\ d.irq = f.irq /\ d.pc = "printf"
    BY Zenon, <1>4, <2>1 DEF Fresh
  <2>3. "pr.lock" \in Locks /\ "printf" \in IrqLabels /\ "pr.lock" # "cons.lock"
    BY SMT DEF Locks, IrqLabels
  <2>4. d.pc \in (IF f.irq THEN IrqLabels ELSE CallLabels)
    BY Zenon, <1>4, <2>2, <2>3
  <2>5. \A k : Needs(f.pc, f.irq, k) <=> k = "cons.lock"
    BY Zenon, <1>4, NeedsCons
  <2>6. \A k : Needs(d.pc, d.irq, k) <=> k = "pr.lock" \/ k = "cons.lock"
    <3>1. d.pc = "printf" /\ d.irq = TRUE
      BY Zenon, <1>4, <2>2
    <3> QED
      BY Zenon, <3>1, NeedsPr
  <2>7. ~Needs(f.pc, f.irq, "pr.lock") /\ \A k : Needs(d.pc, d.irq, k) <=> Needs(f.pc, f.irq, k) \/ k = "pr.lock"
    <3>1. ~Needs(f.pc, f.irq, "pr.lock")
      BY Zenon, <2>3, <2>5
    <3>2. \A k : Needs(d.pc, d.irq, k) <=> Needs(f.pc, f.irq, k) \/ k = "pr.lock"
      BY Zenon, <2>5, <2>6
    <3> QED
      BY Zenon, <3>1, <3>2
  <2>8. Depth(d.pc, d.irq) = Depth(f.pc, f.irq) + 1
    <3>1. Depth(d.pc, d.irq) = 2 /\ Depth(f.pc, f.irq) = 1
      BY Zenon, <1>4, <2>2, Depths
    <3> QED
      BY SMT, <3>1
  <2> QED
    BY Zenon, <1>4, <1>5, <1>6, <2>2, <2>3, <2>4, <2>7, <2>8, AcquireStep
<1>7. ASSUME NEW x, Set(h, e(x)), UNCHANGED <<lock, cpu, panicked>>
      PROVE HartInv'
  <2> DEFINE g == e(x)
  <2>1. Fresh(g, "echo", TRUE)
    BY Zenon, FirstFrame
  <2>2. Set(h, g) /\ UNCHANGED <<cpu, lock, panicked>>
    BY Zenon, <1>7
  <2> HIDE DEF g
  <2>3. Moved(f, g, "echo")
    BY Zenon, <1>4, <2>1 DEF Fresh, Moved
  <2>4. "echo" \in IrqLabels
    BY Zenon DEF IrqLabels
  <2>5. Depth("echo", f.irq) = Depth("consoleintr", f.irq)
    BY Zenon, Depths
  <2>6. \A l : Needs("echo", f.irq, l) <=> Needs("consoleintr", f.irq, l)
    BY Zenon, NeedsCons
  <2> QED
    BY Zenon, <1>1, <1>4, <1>5, <2>2, <2>3, <2>4, <2>5, <2>6, SetStep
<1> QED
  BY Zenon, <1>3, <1>6, <1>7

LEMMA consoleintrDoneHart ==
  ASSUME HartInv, NEW h \in Harts, consoleintrDone(h)
  PROVE  HartInv'
<1> DEFINE f == Top(h)
           b == Tail(frames[h])
           g == [f EXCEPT !.pc = "getc"]
<1>1. At(h, "echo") /\ release(h, "cons.lock") /\ Set(h, g) /\ chan' = chan
  BY Zenon DEF consoleintrDone, Goto
<1>2. RunsAt(h, b, f) /\ f.pc = "echo" /\ f.want = "none" /\ IsRecord(f) /\ f.irq = TRUE
  <2>1. "echo" \notin CallLabels
    BY Zenon DEF CallLabels
  <2> QED
    BY Zenon, <1>1, <2>1, AtFacts
<1>3. frames' = [frames EXCEPT ![h] = Push(g, b)]
  BY Zenon, <1>1, SetFrame
<1> HIDE DEF f, b
<1>4. Moved(f, g, "getc")
  BY Zenon, <1>2, Edit
<1> HIDE DEF g
<1>5. "getc" \in IrqLabels /\ "cons.lock" \in Locks
  BY Zenon DEF IrqLabels, Locks
<1>6. AnyFrame(g) /\ g.irq = f.irq /\ g.pc = "getc" /\ g.want = "none"
  <2>1. f.irq \in BOOLEAN
    BY Zenon, <1>2
  <2> QED
    BY Zenon, <1>2, <1>4, <1>5, <2>1, Goes
<1>7. Needs(f.pc, f.irq, "cons.lock")
  BY Zenon, <1>2, NeedsCons
<1>8. \A k : Needs(g.pc, g.irq, k) <=> Needs(f.pc, f.irq, k) /\ k # "cons.lock"
  <2>1. \A k : ~Needs(g.pc, g.irq, k)
    BY Zenon, <1>6, NeedsNot
  <2>2. \A k : Needs(f.pc, f.irq, k) => k = "cons.lock"
    BY Zenon, <1>2, NeedsCons
  <2> QED
    BY Zenon, <2>1, <2>2
<1>9. Depth(g.pc, g.irq) + 1 = Depth(f.pc, f.irq)
  <2>1. Depth(g.pc, g.irq) = 0 /\ Depth(f.pc, f.irq) = 1
    BY Zenon, <1>2, <1>6, Depths
  <2> QED
    BY SMT, <2>1
<1> QED
  BY Zenon, <1>1, <1>2, <1>3, <1>5, <1>6, <1>7, <1>8, <1>9, ReleaseStep

(* An interrupt is taken where interrupts are on, and returns to it. *)
CpuOf(x, n, i) == [intr |-> x, noff |-> n, intena |-> i]
SetIntr(c, y) == [c EXCEPT !.intr = y]

LEMMA EditIntr ==
  ASSUME NEW x, NEW y, NEW n, NEW i
  PROVE  SetIntr(CpuOf(x, n, i), y) = CpuOf(y, n, i)
BY SMT DEF CpuOf, SetIntr

LEMMA CpuIntr ==
  /\ \A d, on : Cpu(d, on).intr => d = 0 /\ on
  /\ \A x, y : SetIntr(Cpu(0, x), y) = Cpu(0, y)
<1>1. \A d, on : Cpu(d, on).intr => d = 0 /\ on
  BY Zenon DEF Cpu
<1>2. \A on : Cpu(0, on) = CpuOf(on, 0, FALSE)
  BY Zenon DEF Cpu, CpuOf
<1>3. PICK n, i : \A on : Cpu(0, on) = CpuOf(on, n, i)
  BY Zenon, <1>2
<1>4. \A x, y : SetIntr(Cpu(0, x), y) = Cpu(0, y)
  BY SMT, <1>3, EditIntr
<1> QED
  BY Zenon, <1>1, <1>4

LEMMA One ==
  ASSUME NEW f
  PROVE  Push(f, <<>>) = <<f>> /\ <<f>>[1] = f /\ <<f>> = <<(<<f>>)[1]>>
<1>1. <<f>>[1] = f
  BY SMT
<1>2. Push(f, <<>>) = <<f>>
  BY Zenon, StackShapes
<1> QED
  BY Zenon, <1>1, <1>2

LEMMA IntrOn ==
  ASSUME NEW s, NEW c, NEW ch, HartOK(s, c, ch), c.intr
  PROVE  Below(s, ch) /\ c = Cpu(0, TRUE) /\ \A l : ~Has(s, ch, l)
<1> DEFINE f == Head(s)
           b == Tail(s)
<1>1. CASE Idles(s, c, ch)
  BY Zenon, <1>1 DEF Idles, Below, Has
<1>2. ASSUME s = Push(f, b), b = <<>>, CallFrame(f), c = Cpu(0, TRUE),
             \/ Sleeper(f, ch)
             \/ f.pc = "write" /\ f.want = "none" /\ ch = "none"
      PROVE Below(s, ch) /\ c = Cpu(0, TRUE) /\ \A l : ~Has(s, ch, l)
  <2>1. s = <<f>> /\ s[1] = f /\ s = <<s[1]>>
    <3> HIDE DEF f, b
    <3> QED
      BY Zenon, <1>2, One
  <2>2. Below(s, ch)
    BY Zenon, <1>2, <2>1 DEF Below
  <2>3. \A l : ~Has(s, ch, l)
    <3>1. f.irq = FALSE
      BY Zenon, <1>2 DEF CallFrame
    <3>2. CASE Sleeper(f, ch)
      BY Zenon, <3>1, <3>2 DEF Sleeper, Has
    <3>3. CASE f.pc = "write"
      BY Zenon, <3>3, NeedsNot DEF Has, Holds
    <3> QED
      BY Zenon, <1>2, <3>2, <3>3
  <2> QED
    BY Zenon, <1>2, <2>2, <2>3
<1>3. CASE s = Push(f, b) /\ Sleeps(b, f, c, ch)
  <2>1. b = <<>> /\ CallFrame(f) /\ c = Cpu(0, TRUE) /\ Sleeper(f, ch)
    BY Zenon, <1>3 DEF Sleeps, Sleeper
  <2> QED
    BY Zenon, <1>2, <1>3, <2>1
<1>4. CASE s = Push(f, b) /\ Runs(b, f, c, ch)
  <2>1. ~Handles(b, f, c, ch)
    BY Zenon, CpuIntr DEF Handles
  <2>2. b = <<>> /\ CallFrame(f) /\ ch = "none" /\ c = Cpu(Depth(f.pc, FALSE), TRUE)
    BY Zenon, <1>4, <2>1 DEF Runs, Works
  <2>3. Depth(f.pc, FALSE) = 0
    BY Zenon, <2>2, CpuIntr
  <2>4. f.pc = "write"
    <3>1. f.pc \in CallLabels
      BY Zenon, <2>2 DEF CallFrame
    <3> HIDE DEF f
    <3> QED
      BY SMT, <2>3, <3>1 DEF CallLabels, Depth
  <2>5. f.want = "none"
    BY Zenon, <2>2, <2>4, NeedsNot DEF CallFrame, IsFrame
  <2> QED
    BY Zenon, <1>2, <1>4, <2>2, <2>3, <2>4, <2>5
<1> QED
  BY Zenon, <1>1, <1>3, <1>4 DEF HartOK

LEMMA BelowOK ==
  ASSUME NEW b, NEW ch, Below(b, ch)
  PROVE  HartOK(b, Cpu(0, TRUE), ch) /\ \A l : ~Has(b, ch, l)
<1> DEFINE f == b[1]
<1>1. CASE b = <<>> /\ ch = "none"
  BY Zenon, <1>1 DEF HartOK, Idles, Has
<1>2. ASSUME b = <<f>>, CallFrame(f), \/ Sleeper(f, ch)
                                      \/ f.pc = "write" /\ ch = "none"
      PROVE HartOK(b, Cpu(0, TRUE), ch) /\ \A l : ~Has(b, ch, l)
  <2> HIDE DEF f
  <2>1. Head(b) = f /\ Tail(b) = <<>> /\ b # <<>> /\ b = Push(f, <<>>)
    BY Zenon, <1>2, StackShapes
  <2>2. f.irq = FALSE
    BY Zenon, <1>2 DEF CallFrame
  <2>3. CASE Sleeper(f, ch)
    <3>1. ch # "none"
      BY Zenon, <2>3 DEF Sleeper
    <3>2. \A l : ~Has(b, ch, l)
      BY Zenon, <2>1, <2>2, <3>1 DEF Has
    <3>3. Sleeps(<<>>, f, Cpu(0, TRUE), ch)
      BY Zenon, <2>3 DEF Sleeps
    <3> QED
      BY Zenon, <2>1, <3>2, <3>3 DEF HartOK
  <2>4. CASE f.pc = "write" /\ ch = "none"
    <3>1. \A l : ~Has(b, ch, l)
      BY Zenon, <2>1, <2>4, NeedsNot DEF Has, Holds
    <3>2. Runs(<<>>, f, Cpu(0, TRUE), ch)
      BY Zenon, <1>2, <2>4, Depths DEF Runs, Works
    <3> QED
      BY Zenon, <2>1, <3>1, <3>2 DEF HartOK
  <2> QED
    BY Zenon, <1>2, <2>3, <2>4
<1>3. CASE b = <<f>> /\ CallFrame(f) /\ f.pc = "write" /\ ch = "none"
  BY Zenon, <1>2, <1>3
<1>4. CASE b = <<f>> /\ Sleeper(f, ch)
  <2>1. CallFrame(f)
    BY Zenon, <1>4 DEF Sleeper
  <2> QED
    BY Zenon, <1>2, <1>4, <2>1
<1> QED
  BY Zenon, <1>1, <1>3, <1>4 DEF Below

LEMMA devintrHart ==
  ASSUME HartInv, NEW h \in Harts, devintr(h)
  PROVE  HartInv'
<1> DEFINE b == frames[h]
           g == Frame("getc", TRUE)
<1>1. /\ cpu[h].intr /\ frames' = [frames EXCEPT ![h] = Push(g, b)]
      /\ UNCHANGED <<lock, chan, panicked>>
  BY Zenon DEF devintr
<1>2. cpu' = [cpu EXCEPT ![h] = SetIntr(cpu[h], FALSE)]
  BY Zenon DEF devintr, SetIntr
<1>3. HartOK(b, cpu[h], chan[h]) /\ \A l \in Locks : lock[l] = h <=> Has(b, chan[h], l)
  BY Zenon DEF HartInv
<1> HIDE DEF b
<1>4. Below(b, chan[h]) /\ cpu[h] = Cpu(0, TRUE) /\ \A l : ~Has(b, chan[h], l)
  BY Zenon, <1>1, <1>3, IntrOn
<1>5. cpu' = [cpu EXCEPT ![h] = Cpu(0, FALSE)]
  <2>1. SetIntr(cpu[h], FALSE) = Cpu(0, FALSE)
    BY Zenon, <1>4, CpuIntr
  <2> QED
    BY Zenon, <1>2, <2>1
<1>6. Only(frames, frames', Harts, h, Push(g, b)) /\ Only(cpu, cpu', Harts, h, Cpu(0, FALSE))
  BY Zenon, <1>1, <1>5, MapStep DEF HartInv
<1>7. IsRecord(g) /\ g.pc = "getc" /\ g.irq = TRUE /\ g.want = "none"
  BY Zenon, NewFrame
<1> HIDE DEF g
<1>8. "getc" \in IrqLabels
  BY Zenon DEF IrqLabels
<1>9. Runs(b, g, Cpu(0, FALSE), chan'[h])
  <2>1. IrqFrame(g)
    BY Zenon, <1>7, <1>8 DEF IrqFrame, IsFrame
  <2>2. Depth(g.pc, TRUE) = 0
    BY Zenon, <1>7, Depths
  <2> QED
    BY Zenon, <1>1, <1>4, <2>1, <2>2 DEF Runs, Handles
<1>10. HartOK(Push(g, b), Cpu(0, FALSE), chan'[h]) /\ \A l : Has(Push(g, b), chan'[h], l) <=> Holds(g, l)
  BY Zenon, <1>9, RunFacts
<1>11. \A l : ~Holds(g, l)
  BY Zenon, <1>7, NeedsNot DEF Holds
<1>12. LockStep(h) /\ ChanStep(h) /\ ~panicked' /\ \A l \in Locks : lock'[l] # h
  BY Zenon, <1>1, <1>3, <1>4, LockSame, ChanSame DEF HartInv
<1> QED
  BY Zenon, <1>6, <1>10, <1>11, <1>12, HartStep

LEMMA devintrDoneHart ==
  ASSUME HartInv, NEW h \in Harts, devintrDone(h)
  PROVE  HartInv'
<1> DEFINE b == Tail(frames[h])
           f == Top(h)
<1>1. At(h, "complete") /\ frames' = [frames EXCEPT ![h] = b] /\ UNCHANGED <<lock, chan, panicked>>
  BY Zenon DEF devintrDone
<1>2. cpu' = [cpu EXCEPT ![h] = SetIntr(cpu[h], TRUE)]
  BY Zenon DEF devintrDone, SetIntr
<1>3. RunsAt(h, b, f) /\ f.pc = "complete" /\ f.irq = TRUE
  <2>1. "complete" \notin CallLabels
    BY Zenon DEF CallLabels
  <2> QED
    BY Zenon, <1>1, <2>1, AtFacts
<1> HIDE DEF b, f
<1>4. Handles(b, f, cpu[h], chan[h]) /\ \A l \in Locks : lock[l] = h <=> Holds(f, l)
  BY Zenon, <1>3 DEF RunsAt, Runs, Works, CallFrame
<1>5. Below(b, chan[h]) /\ cpu[h] = Cpu(0, FALSE)
  BY Zenon, <1>3, <1>4, Depths DEF Handles
<1>6. cpu' = [cpu EXCEPT ![h] = Cpu(0, TRUE)]
  <2>1. SetIntr(cpu[h], TRUE) = Cpu(0, TRUE)
    BY Zenon, <1>5, CpuIntr
  <2> QED
    BY Zenon, <1>2, <2>1
<1>7. Only(frames, frames', Harts, h, b) /\ Only(cpu, cpu', Harts, h, Cpu(0, TRUE))
  BY Zenon, <1>1, <1>6, MapStep DEF HartInv
<1>8. HartOK(b, Cpu(0, TRUE), chan'[h]) /\ \A l : ~Has(b, chan'[h], l)
  BY Zenon, <1>1, <1>5, BelowOK
<1>9. \A l \in Locks : lock'[l] # h
  <2>1. \A l : ~Holds(f, l)
    BY Zenon, <1>3, NeedsNot DEF Holds
  <2> QED
    BY Zenon, <1>1, <1>4, <2>1
<1>10. LockStep(h) /\ ChanStep(h) /\ ~panicked'
  BY Zenon, <1>1, LockSame, ChanSame DEF HartInv
<1> QED
  BY Zenon, <1>7, <1>8, <1>9, <1>10, HartStep
-----------------------------------------------------------------------------
LEMMA HartsInit ==
  ASSUME Init
  PROVE  HartInv
<1>1. /\ lock = [l \in Locks |-> "free"] /\ frames = [h \in Harts |-> <<>>] /\ chan = [h \in Harts |-> "none"]
      /\ cpu = [h \in Harts |-> [intr |-> TRUE, noff |-> 0, intena |-> FALSE]] /\ panicked = FALSE
  BY Zenon DEF Init
<1>2. Cpu(0, TRUE) = [intr |-> TRUE, noff |-> 0, intena |-> FALSE]
  BY Zenon DEF Cpu
<1>3. cpu = [h \in Harts |-> Cpu(0, TRUE)]
  BY Zenon, <1>1, <1>2
<1>4. \A h \in Harts : frames[h] = <<>> /\ cpu[h] = Cpu(0, TRUE) /\ chan[h] = "none"
  BY Zenon, <1>1, <1>3
<1>5. IsMap(frames, Harts) /\ IsMap(cpu, Harts) /\ IsMap(chan, Harts) /\ IsMap(lock, Locks)
  BY Zenon, <1>1, <1>3 DEF IsMap
<1>6. \A h \in Harts : HartOK(frames[h], cpu[h], chan[h])
  BY Zenon, <1>4 DEF HartOK, Idles
<1>7. \A h \in Harts, l \in Locks : lock[l] # h
  BY Zenon, <1>1, ConsoleConstants
<1>8. \A h \in Harts, l \in Locks : ~Has(frames[h], chan[h], l)
  BY Zenon, <1>4 DEF Has
<1> QED
  BY Zenon, <1>1, <1>5, <1>6, <1>7, <1>8 DEF HartInv

LEMMA HartsStep ==
  ASSUME HartInv, [Next]_vars
  PROVE  HartInv'
<1>1. ASSUME NEW h \in Harts, Hart(h)
      PROVE  HartInv'
  <2>1. CASE Swap(h) \/ Resume(h) \/ Kill(h)
    BY Zenon, <2>1, SwapHart, ResumeHart, KillHart
  <2>2. CASE devintr(h) \/ devintrDone(h)
    BY Zenon, <2>2, devintrHart, devintrDoneHart
  <2>3. CASE \E op \in Calls[h] : Call(h, op)
    BY Zenon, <2>3, CallHart
  <2>4. CASE readWait(h) \/ readSleep(h) \/ readTake(h)
    BY Zenon, <2>4, readWaitHart, readSleepHart, readTakeHart
  <2>5. CASE consolewrite(h) \/ uartputc(h)
    BY Zenon, <2>5, consolewriteHart, uartputcHart
  <2>6. CASE uartstartReturn(h) \/ uartstart(h) \/ uartstartSend(h)
    BY Zenon, <2>6, uartstartReturnHart, uartstartHart, uartstartSendHart
  <2>7. CASE uartputc_sync(h) \/ uartputc_syncSend(h) \/ printfDone(h)
    BY Zenon, <2>7, uartputc_syncHart, uartputc_syncSendHart, printfDoneHart
  <2>8. CASE uartintr(h) \/ consoleintr(h) \/ consoleintrDone(h)
    BY Zenon, <2>8, uartintrHart, consoleintrHart, consoleintrDoneHart
  <2> QED
    BY Zenon, <1>1, <2>1, <2>2, <2>3, <2>4, <2>5, <2>6, <2>7, <2>8 DEF Hart
<1>2. CASE Receive \/ Transmit \/ UNCHANGED vars
  <2>1. UNCHANGED <<lock, cpu, frames, chan, panicked>>
    BY Zenon, <1>2 DEF Receive, Transmit, vars
  <2> QED
    BY Zenon, <2>1 DEF HartInv
<1> QED
  BY Zenon, <1>1, <1>2 DEF Next

(* What each hart does at a place of the code that it can be interrupted   *)
(* at, the locks it holds there and how often push_off() was called fit    *)
(* together (spinlock.c, console.c, uart.c).                               *)
THEOREM HartsInductive == Spec => []HartInv
<1>1. Init => HartInv
  BY HartsInit
<1>2. HartInv /\ [Next]_vars => HartInv'
  BY HartsStep
<1> QED
  BY <1>1, <1>2, PTL DEF Spec

(* acquire() never finds that its own hart holds the lock, release() never *)
(* that it does not, and pop_off() never finds interrupts enabled or a     *)
(* count below 1, with any number of harts, whatever is interrupted where. *)
THEOREM SpinlocksNeverPanic == Spec => []NoPanic
<1>1. HartInv => NoPanic
  BY Zenon DEF HartInv, NoPanic
<1> QED
  BY <1>1, HartsInductive, PTL
-----------------------------------------------------------------------------
(* No wakeup and no interrupt is lost.  First the structures.              *)
IsCons(c) == c = [buf |-> c.buf, r |-> c.r, w |-> c.w, e |-> c.e]
IsTx(t) == t = [buf |-> t.buf, r |-> t.r, w |-> t.w]
IsUart(u) == u = [fifo |-> u.fifo, rx |-> u.rx]
IsPlic(p) == p = [pending |-> p.pending, claimed |-> p.claimed]
IsSeq(s) == \E S : s \in Seq(S)
Shapes == IsCons(cons) /\ IsTx(tx) /\ IsUart(uart) /\ IsPlic(plic) /\ IsSeq(uart.fifo)

(* A hart between the test for input and sleep() in consoleread(). *)
AtSleep(s) == s # <<>> /\ Head(s).pc = "sleep"

SleepInv ==
  /\ \A h \in Harts : chan[h] = "cons.r" => cons.r = cons.w
  /\ \A h \in Harts : AtSleep(frames[h]) => Head(frames[h]).want = "none" /\ cons.r = cons.w
  /\ \A h \in Harts : chan[h] = "uart_tx_r" => tx.w = Add64(tx.r, UART_TX_BUF_SIZE)

(* The frames that will come to uartstart(). *)
Pumps(f) == (f.irq /\ f.pc # "complete") \/ f.pc \in {"start", "send"}
Pumping(s) == s # <<>> /\ Pumps(Head(s))

PumpInv == tx.w # tx.r => plic.pending \/ uart.fifo # <<>> \/ \E h \in Harts : Pumping(frames[h])

(* a bytes of the input are ready to be read and b more can be edited. *)
Input(r, w, e) ==
  \E a, b \in 0 .. INPUT_BUF :
    /\ r \in 0 .. UintRange - 1
    /\ w = Add(r, a) /\ e = Add(r, a + b)
    /\ a + b <= INPUT_BUF /\ (a + b = INPUT_BUF => b = 0)
InputInv == Input(cons.r, cons.w, cons.e)

DataInv == Shapes /\ SleepInv /\ PumpInv /\ InputInv
IInv == HartInv /\ DataInv

LEMMA EditUart ==
  ASSUME NEW u, IsUart(u), NEW x
  PROVE  /\ IsUart([u EXCEPT !.fifo = x]) /\ [u EXCEPT !.fifo = x].fifo = x
         /\ IsUart([u EXCEPT !.rx = x]) /\ [u EXCEPT !.rx = x].fifo = u.fifo
BY SMT DEF IsUart

LEMMA EditPlic ==
  ASSUME NEW p, IsPlic(p), NEW x
  PROVE  /\ IsPlic([p EXCEPT !.pending = x]) /\ [p EXCEPT !.pending = x].pending = x
         /\ IsPlic([p EXCEPT !.claimed = x]) /\ [p EXCEPT !.claimed = x].pending = p.pending
BY SMT DEF IsPlic

LEMMA NewPlic ==
  ASSUME NEW x, NEW y
  PROVE  IsPlic([pending |-> x, claimed |-> y])
BY SMT DEF IsPlic

LEMMA EditTx ==
  ASSUME NEW t, IsTx(t), NEW i, NEW c
  PROVE  /\ IsTx([t EXCEPT !.buf[i] = c, !.w = Add64(@, 1)])
         /\ IsTx([t EXCEPT !.r = Add64(@, 1), !.buf[i] = c])
<1> DEFINE u == [t EXCEPT !.buf[i] = c]
           v == [t EXCEPT !.r = Add64(t.r, 1)]
<1>1. \A y, x : IsTx(y) => IsTx([y EXCEPT !.w = x]) /\ IsTx([y EXCEPT !.r = x]) /\ IsTx([y EXCEPT !.buf = x])
  BY SMT DEF IsTx
<1>2. IsTx([t EXCEPT !.buf = [t.buf EXCEPT ![i] = c]]) /\ IsTx(v)
  BY Zenon, <1>1
<1>3. IsTx([[t EXCEPT !.buf = [t.buf EXCEPT ![i] = c]] EXCEPT !.w = Add64(t.w, 1)])
  BY Zenon, <1>1, <1>2
<1>4. IsTx([v EXCEPT !.buf = [t.buf EXCEPT ![i] = c]])
  BY Zenon, <1>1, <1>2
<1>5. [t EXCEPT !.buf[i] = c, !.w = Add64(@, 1)] = [[t EXCEPT !.buf = [t.buf EXCEPT ![i] = c]] EXCEPT !.w = Add64(t.w, 1)]
  BY SMT DEF IsTx
<1>6. [t EXCEPT !.r = Add64(@, 1), !.buf[i] = c] = [v EXCEPT !.buf = [t.buf EXCEPT ![i] = c]]
  BY SMT DEF IsTx
<1> QED
  BY Zenon, <1>3, <1>4, <1>5, <1>6

ConsWith(y, i, c, e, w) == [y EXCEPT !.buf[i] = c, !.e = e, !.w = w]
IsConsOf(z, r, w, e) == IsCons(z) /\ z.r = r /\ z.w = w /\ z.e = e

LEMMA EditCons ==
  ASSUME NEW y, IsCons(y), NEW i, NEW c, NEW e, NEW w
  PROVE  IsConsOf(ConsWith(y, i, c, e, w), y.r, w, e)
<1> DEFINE z == [y EXCEPT !.buf[i] = c, !.e = e, !.w = w]
           x == [y.buf EXCEPT ![i] = c]
<1>1. z = [[[y EXCEPT !.buf = x] EXCEPT !.e = e] EXCEPT !.w = w]
  BY SMT
<1> HIDE DEF x
<1>2. [[[y EXCEPT !.buf = x] EXCEPT !.e = e] EXCEPT !.w = w] = [buf |-> x, r |-> y.r, w |-> w, e |-> e]
  <2> DEFINE u == [y EXCEPT !.buf = x]
             v == [u EXCEPT !.e = e]
  <2>1. u = [buf |-> x, r |-> y.r, w |-> y.w, e |-> y.e]
    BY SMT DEF IsCons
  <2> HIDE DEF u
  <2>2. v = [buf |-> x, r |-> y.r, w |-> y.w, e |-> e]
    BY SMT, <2>1
  <2> HIDE DEF v
  <2>3. [v EXCEPT !.w = w] = [buf |-> x, r |-> y.r, w |-> w, e |-> e]
    BY SMT, <2>2
  <2> QED
    BY Zenon, <2>3 DEF u, v
<1>3. z = [buf |-> x, r |-> y.r, w |-> w, e |-> e]
  BY Zenon, <1>1, <1>2
<1>4. IsCons([buf |-> x, r |-> y.r, w |-> w, e |-> e])
  BY SMT DEF IsCons
<1> HIDE DEF z
<1>5. IsCons(z) /\ z.r = y.r /\ z.w = w /\ z.e = e
  BY SMT, <1>3, <1>4
<1>6. z = ConsWith(y, i, c, e, w)
  BY Zenon DEF z, ConsWith
<1> QED
  BY Zenon, <1>5, <1>6 DEF IsConsOf

LEMMA ClearFields ==
  ASSUME NEW r, NEW w, NEW e, NEW buf
  PROVE  IsCons(Clear(r, w, e, buf)) /\ Clear(r, w, e, buf).r = r /\ Clear(r, w, e, buf).w = w
         /\ Clear(r, w, e, buf).e = e
<1> DEFINE x == [i \in DOMAIN buf |-> IF (i - r) % INPUT_BUF < Sub(e, r) THEN buf[i] ELSE "NUL"]
<1> HIDE DEF x
<1>1. Clear(r, w, e, buf) = [r |-> r, w |-> w, e |-> e, buf |-> x]
  BY Zenon DEF Clear, x
<1> DEFINE z == [r |-> r, w |-> w, e |-> e, buf |-> x]
<1>2. IsCons(z) /\ z.r = r /\ z.w = w /\ z.e = e
  BY SMT DEF IsCons
<1> HIDE DEF z
<1> QED
  BY Zenon, <1>1, <1>2 DEF z

(* The transmitter's FIFO. *)
LEMMA Fifos ==
  ASSUME NEW s, IsSeq(s)
  PROVE  /\ \A c : IsSeq(Append(s, c)) /\ Append(s, c) # <<>>
         /\ s # <<>> => IsSeq(Tail(s)) /\ (Tail(s) = <<>> => Len(s) = 1)
<1>1. PICK S : s \in Seq(S)
  BY Zenon DEF IsSeq
<1>2. ASSUME NEW c PROVE IsSeq(Append(s, c)) /\ Append(s, c) # <<>>
  <2>1. s \in Seq(S \cup {c}) /\ c \in S \cup {c}
    BY SMT, <1>1
  <2>2. Append(s, c) \in Seq(S \cup {c})
    BY SMT, <2>1
  <2>3. Len(Append(s, c)) = Len(s) + 1 /\ Len(s) \in Nat /\ Len(<<>>) = 0
    BY SMT, <2>1
  <2>4. Len(Append(s, c)) # Len(<<>>)
    BY SMT, <2>3
  <2> QED
    BY Zenon, <2>2, <2>4 DEF IsSeq
<1>3. ASSUME s # <<>> PROVE IsSeq(Tail(s)) /\ (Tail(s) = <<>> => Len(s) = 1)
  <2>1. Tail(s) \in Seq(S) /\ Len(Tail(s)) = Len(s) - 1 /\ Len(s) \in Nat
    BY SMT, <1>1, <1>3
  <2>2. Tail(s) = <<>> => Len(Tail(s)) = 0
    <3>1. Len(<<>>) = 0
      BY SMT
    <3> QED
      BY Zenon, <3>1
  <2>3. Tail(s) = <<>> => Len(s) = 1
    BY SMT, <2>1, <2>2
  <2> QED
    BY Zenon, <2>1, <2>3 DEF IsSeq
<1> QED
  BY Zenon, <1>2, <1>3
-----------------------------------------------------------------------------
(* Hart h goes on with stack s, and no process begins to sleep. *)
GoesOn(h, s) ==
  /\ Only(frames, frames', Harts, h, s) /\ (AtSleep(s) => s = frames[h])
  /\ ChanStep(h) /\ (chan'[h] = chan[h] \/ chan'[h] \in {"none", "woken"})

LEMMA SleepQuiet ==
  ASSUME HartInv, SleepInv, NEW h \in Harts, NEW s, GoesOn(h, s), UNCHANGED <<cons, tx>>
  PROVE  SleepInv'
<1>1. \A g \in Harts : chan'[g] = "cons.r" => chan[g] = "cons.r"
  BY Zenon DEF GoesOn, ChanStep, Wakes
<1>2. \A g \in Harts : chan'[g] = "uart_tx_r" => chan[g] = "uart_tx_r"
  BY Zenon DEF GoesOn, ChanStep, Wakes
<1>3. \A g \in Harts : AtSleep(frames'[g]) => frames'[g] = frames[g]
  BY Zenon DEF GoesOn, Only
<1>4. \A g \in Harts : AtSleep(frames'[g]) => Head(frames'[g]).want = "none" /\ cons.r = cons.w
  BY Zenon, <1>3 DEF SleepInv
<1> QED
  BY Zenon, <1>1, <1>2, <1>4 DEF SleepInv

LEMMA PumpQuiet ==
  ASSUME PumpInv, NEW h \in Harts, NEW s, Only(frames, frames', Harts, h, s),
         Pumping(frames[h]) => Pumping(s), UNCHANGED tx,
         plic.pending => plic'.pending, uart'.fifo = <<>> => uart.fifo = <<>>
  PROVE  PumpInv'
<1>1. \A g \in Harts : Pumping(frames[g]) => Pumping(frames'[g])
  BY Zenon DEF Only
<1>2. tx.w # tx.r => plic'.pending \/ uart'.fifo # <<>> \/ \E g \in Harts : Pumping(frames'[g])
  BY Zenon, <1>1 DEF PumpInv
<1> QED
  BY Zenon, <1>2 DEF PumpInv

LEMMA PumpNow ==
  ASSUME NEW h \in Harts, NEW s, Only(frames, frames', Harts, h, s), Pumping(s)
  PROVE  PumpInv'
<1>1. \E g \in Harts : Pumping(frames'[g])
  BY Zenon DEF Only
<1> QED
  BY Zenon, <1>1 DEF PumpInv

LEMMA Quiet ==
  ASSUME HartInv, DataInv, NEW h \in Harts, NEW s, GoesOn(h, s), UNCHANGED <<cons, tx>>, PumpInv',
         UNCHANGED uart \/ (IsUart(uart') /\ IsSeq(uart'.fifo)), UNCHANGED plic \/ IsPlic(plic')
  PROVE  DataInv'
<1>1. Shapes' /\ InputInv'
  BY Zenon DEF DataInv, Shapes, InputInv
<1>2. SleepInv'
  BY Zenon, SleepQuiet DEF DataInv
<1> QED
  BY Zenon, <1>1, <1>2 DEF DataInv

LEMMA Calm ==
  ASSUME HartInv, DataInv, NEW h \in Harts, NEW s, GoesOn(h, s), Pumping(frames[h]) => Pumping(s),
         UNCHANGED <<cons, tx, uart, plic>>
  PROVE  DataInv'
<1>1. Only(frames, frames', Harts, h, s) /\ PumpInv /\ UNCHANGED tx
  BY Zenon DEF GoesOn, DataInv
<1>2. (plic.pending => plic'.pending) /\ (uart'.fifo = <<>> => uart.fifo = <<>>)
  BY Zenon
<1>3. PumpInv'
  BY Zenon, <1>1, <1>2, PumpQuiet
<1>4. UNCHANGED <<cons, tx>> /\ UNCHANGED uart /\ UNCHANGED plic
  BY Zenon
<1> QED
  BY Zenon, <1>3, <1>4, Quiet

(* The running frame of hart h becomes g. *)
LEMMA TopStep ==
  ASSUME HartInv, NEW h \in Harts, Running(h), NEW g, Set(h, g)
  PROVE  /\ Only(frames, frames', Harts, h, Push(g, Tail(frames[h])))
         /\ AtSleep(Push(g, Tail(frames[h]))) <=> g.pc = "sleep"
         /\ Pumping(Push(g, Tail(frames[h]))) <=> Pumps(g)
         /\ Head(Push(g, Tail(frames[h]))) = g
<1> DEFINE b == Tail(frames[h])
<1>1. Only(frames, frames', Harts, h, Push(g, b))
  <2>1. frames' = [frames EXCEPT ![h] = Push(g, b)]
    BY Zenon, SetFrame
  <2> HIDE DEF b
  <2> QED
    BY Zenon, <2>1, MapStep DEF HartInv
<1>2. Base(b)
  BY Zenon, Runner DEF RunsAt
<1> HIDE DEF b
<1>3. Head(Push(g, b)) = g /\ Push(g, b) # <<>>
  BY Zenon, <1>2, Stacks
<1>4. /\ AtSleep(Push(g, b)) <=> g.pc = "sleep"
      /\ Pumping(Push(g, b)) <=> Pumps(g)
  BY Zenon, <1>3 DEF AtSleep, Pumping
<1> QED
  BY Zenon, <1>1, <1>3, <1>4 DEF b

(* acquire() by the running frame, which becomes g. *)
LEMMA TopAcquire ==
  ASSUME HartInv, NEW h \in Harts, NEW b, Base(b), NEW g, IsRecord(g), NEW l, acquire(h, l, Push(g, b))
  PROVE  /\ Only(frames, frames', Harts, h, Push(MarkFrame(g, l), b))
         /\ AtSleep(Push(MarkFrame(g, l), b)) <=> g.pc = "sleep"
         /\ Pumping(Push(MarkFrame(g, l), b)) <=> Pumps(g)
<1> DEFINE m == MarkFrame(g, l)
<1>1. Wanting(g, m, l)
  BY Zenon, EditWant
<1>2. Only(frames, frames', Harts, h, Push(m, b))
  <2>1. MarkStack(Push(g, b), l) = Push(m, b)
    BY Zenon, StackMarks
  <2>2. frames' = [frames EXCEPT ![h] = MarkStack(Push(g, b), l)]
    BY Zenon DEF acquire, MarkStack
  <2>3. Only(frames, frames', Harts, h, MarkStack(Push(g, b), l))
    BY Zenon, <2>2, MapStep DEF HartInv
  <2> QED
    BY Zenon, <2>1, <2>3
<1> HIDE DEF m
<1>3. Head(Push(m, b)) = m /\ Push(m, b) # <<>>
  BY Zenon, Stacks
<1>4. m.pc = g.pc /\ m.irq = g.irq
  BY Zenon, <1>1 DEF Wanting
<1>5. AtSleep(Push(m, b)) <=> g.pc = "sleep"
  BY Zenon, <1>3, <1>4 DEF AtSleep
<1>6. Pumping(Push(m, b)) <=> Pumps(g)
  BY Zenon, <1>3, <1>4 DEF Pumping, Pumps
<1> QED
  BY Zenon, <1>2, <1>5, <1>6 DEF m

LEMMA RunningFacts ==
  ASSUME HartInv, NEW h \in Harts, Running(h)
  PROVE  /\ Pumping(frames[h]) <=> Pumps(Top(h))
         /\ AtSleep(frames[h]) <=> Top(h).pc = "sleep"
         /\ Head(frames[h]) = Top(h)
BY Zenon DEF Running, Top, Pumping, AtSleep
-----------------------------------------------------------------------------
LEMMA SwapData ==
  ASSUME HartInv, DataInv, NEW h \in Harts, Swap(h)
  PROVE  DataInv'
<1> DEFINE f == Top(h)
           g == MarkFrame(f, "none")
           s == Push(g, Tail(frames[h]))
<1>1. Running(h) /\ f.want # "none" /\ UNCHANGED <<cons, tx, uart, plic>> /\ chan' = chan
  BY Zenon DEF Swap
<1>2. Set(h, g)
  BY Zenon DEF Swap, MarkFrame
<1>3. Only(frames, frames', Harts, h, s) /\ (AtSleep(s) <=> g.pc = "sleep") /\ (Pumping(s) <=> Pumps(g))
  <2> HIDE DEF g
  <2> QED
    BY Zenon, <1>1, <1>2, TopStep
<1>4. AnyFrame(f)
  BY Zenon, <1>1, Runner DEF RunsAt
<1>5. f.pc # "sleep"
  <2>1. AtSleep(frames[h]) => f.want = "none"
    BY Zenon DEF DataInv, SleepInv, Top
  <2> QED
    BY Zenon, <1>1, <2>1, RunningFacts
<1>6. Pumping(frames[h]) <=> Pumps(f)
  BY Zenon, <1>1, RunningFacts
<1> HIDE DEF f
<1>7. Wanting(f, g, "none")
  BY Zenon, <1>4, EditWant DEF AnyFrame, CallFrame, IrqFrame, IsFrame
<1> HIDE DEF g, s
<1>8. g.pc = f.pc /\ (Pumps(f) => Pumps(g))
  BY Zenon, <1>7 DEF Wanting, Pumps
<1>9. GoesOn(h, s)
  BY Zenon, <1>1, <1>3, <1>5, <1>8, ChanSame DEF GoesOn
<1> QED
  BY Zenon, <1>1, <1>3, <1>6, <1>8, <1>9, Calm

LEMMA ResumeData ==
  ASSUME HartInv, DataInv, NEW h \in Harts, Resume(h)
  PROVE  DataInv'
<1> DEFINE f == Top(h)
           l == IF f.pc = "read" THEN "cons.lock" ELSE "uart_tx_lock"
           s == Push(MarkFrame(f, l), <<>>)
<1>1. /\ frames[h] # <<>> /\ ~f.irq /\ chan[h] = "woken" /\ UNCHANGED <<cons, tx, uart, plic>>
      /\ chan' = [chan EXCEPT ![h] = "none"] /\ acquire(h, l, frames[h])
  BY Zenon DEF Resume
<1>2. chan[h] # "none"
  BY Zenon, <1>1
<1>3. frames[h] = Push(f, <<>>) /\ Sleeper(f, chan[h])
  BY Zenon, <1>1, <1>2, SleeperFacts
<1>4. Pumping(frames[h]) <=> Pumps(f)
  BY Zenon, <1>1 DEF Pumping, Top
<1> HIDE DEF f
<1> HIDE DEF l
<1>5. IsRecord(f) /\ f.pc # "sleep"
  BY Zenon, <1>3 DEF Sleeper, CallFrame, IsFrame
<1>6. Base(<<>>) /\ acquire(h, l, Push(f, <<>>))
  BY Zenon, <1>1, <1>3 DEF Base
<1>7. Only(frames, frames', Harts, h, s) /\ (AtSleep(s) <=> f.pc = "sleep") /\ (Pumping(s) <=> Pumps(f))
  BY Zenon, <1>5, <1>6, TopAcquire
<1> HIDE DEF s
<1>8. ChanStep(h) /\ chan'[h] = "none"
  BY Zenon, <1>1, ChanSet
<1>9. GoesOn(h, s)
  BY Zenon, <1>5, <1>7, <1>8 DEF GoesOn
<1> QED
  BY Zenon, <1>1, <1>4, <1>7, <1>9, Calm

LEMMA KillData ==
  ASSUME HartInv, DataInv, NEW h \in Harts, Kill(h)
  PROVE  DataInv'
<1> DEFINE ch == IF chan[h] = "none" THEN chan[h] ELSE "woken"
<1>1. chan' = [chan EXCEPT ![h] = ch] /\ frames' = frames /\ UNCHANGED <<cons, tx, uart, plic>>
  BY Zenon DEF Kill
<1>2. ChanStep(h) /\ chan'[h] = ch
  BY Zenon, <1>1, ChanSet
<1>3. chan'[h] = chan[h] \/ chan'[h] \in {"none", "woken"}
  BY Zenon, <1>2
<1> HIDE DEF ch
<1>4. Only(frames, frames', Harts, h, frames[h])
  BY Zenon, <1>1, MapStep DEF HartInv
<1>5. GoesOn(h, frames[h])
  BY Zenon, <1>2, <1>3, <1>4 DEF GoesOn
<1> QED
  BY Zenon, <1>1, <1>5, Calm

(* The running frame becomes g, which will come to uartstart() if it would have. *)
LEMMA SetData ==
  ASSUME HartInv, DataInv, NEW h \in Harts, Running(h), NEW g, Set(h, g), g.pc # "sleep",
         Pumps(Top(h)) => Pumps(g), UNCHANGED <<cons, tx, uart, plic>>, chan' = chan
  PROVE  DataInv'
<1> DEFINE s == Push(g, Tail(frames[h]))
<1>1. Only(frames, frames', Harts, h, s) /\ (AtSleep(s) <=> g.pc = "sleep") /\ (Pumping(s) <=> Pumps(g))
  BY Zenon, TopStep
<1>2. Pumping(frames[h]) <=> Pumps(Top(h))
  BY Zenon, RunningFacts
<1> HIDE DEF s
<1>3. GoesOn(h, s)
  BY Zenon, <1>1, ChanSame DEF GoesOn
<1> QED
  BY Zenon, <1>1, <1>2, <1>3, Calm

(* The same for the frame that begins to spin in acquire(). *)
LEMMA AcquireData ==
  ASSUME HartInv, DataInv, NEW h \in Harts, NEW b, Base(b), NEW g, IsRecord(g), NEW l, acquire(h, l, Push(g, b)),
         g.pc # "sleep", Pumping(frames[h]) => Pumps(g), UNCHANGED <<cons, tx, uart, plic>>, chan' = chan
  PROVE  DataInv'
<1> DEFINE s == Push(MarkFrame(g, l), b)
<1>1. Only(frames, frames', Harts, h, s) /\ (AtSleep(s) <=> g.pc = "sleep") /\ (Pumping(s) <=> Pumps(g))
  BY Zenon, TopAcquire
<1> HIDE DEF s
<1>2. GoesOn(h, s)
  BY Zenon, <1>1, ChanSame DEF GoesOn
<1> QED
  BY Zenon, <1>1, <1>2, Calm

LEMMA ReturnData ==
  ASSUME HartInv, DataInv, NEW h \in Harts, Running(h), Return(h), ~Pumps(Top(h)),
         UNCHANGED <<cons, tx, uart, plic>>, chan' = chan
  PROVE  DataInv'
<1>1. Only(frames, frames', Harts, h, <<>>)
  BY Zenon, MapStep DEF HartInv, Return
<1>2. ~AtSleep(<<>>) /\ ~Pumping(frames[h])
  BY Zenon, RunningFacts DEF AtSleep
<1>3. GoesOn(h, <<>>)
  BY Zenon, <1>1, <1>2, ChanSame DEF GoesOn
<1> QED
  BY Zenon, <1>2, <1>3, Calm

LEMMA CallData ==
  ASSUME HartInv, DataInv, NEW h \in Harts, NEW op, Call(h, op)
  PROVE  DataInv'
<1>1. frames[h] = <<>> /\ op \in Calls[h] /\ chan' = chan /\ UNCHANGED <<cons, tx, uart, plic>>
  BY Zenon DEF Call
<1>2. ~Pumping(frames[h])
  BY Zenon, <1>1 DEF Pumping
<1>3. Base(<<>>)
  BY Zenon DEF Base
<1>4. op \in {"read", "write", "printf"}
  BY Zenon, <1>1, ConsoleConstants
<1>5. "read" # "printf" /\ "read" # "write" /\ "printf" # "write" /\ "read" # "sleep" /\ "printf" # "sleep"
  BY SMT
<1>6. ASSUME NEW f, NEW l, NEW p \in {"read", "printf"}, acquire(h, l, <<f>>), Fresh(f, p, FALSE)
      PROVE  DataInv'
  <2>1. acquire(h, l, Push(f, <<>>))
    BY Zenon, <1>6, StackShapes
  <2>2. IsRecord(f) /\ f.pc # "sleep"
    BY Zenon, <1>5, <1>6 DEF Fresh
  <2> QED
    BY Zenon, <1>1, <1>2, <1>3, <2>1, <2>2, AcquireData
<1>7. CASE op = "read"
  <2> DEFINE f == [Frame("read", FALSE) EXCEPT !.n = ReadLen]
  <2>1. acquire(h, "cons.lock", <<f>>)
    BY Zenon, <1>5, <1>7 DEF Call
  <2>2. Fresh(f, "read", FALSE)
    BY Zenon, FirstFrame
  <2> HIDE DEF f
  <2> QED
    BY Zenon, <1>6, <2>1, <2>2
<1>8. CASE op = "printf"
  <2> DEFINE f == [Frame("printf", FALSE) EXCEPT !.s = <<"e">>]
  <2>1. acquire(h, "pr.lock", <<f>>)
    BY Zenon, <1>5, <1>8 DEF Call
  <2>2. Fresh(f, "printf", FALSE)
    BY Zenon, FirstFrame
  <2> HIDE DEF f
  <2> QED
    BY Zenon, <1>6, <2>1, <2>2
<1>9. CASE op = "write"
  <2> DEFINE f == [Frame("write", FALSE) EXCEPT !.s = Data]
  <2>1. frames' = [frames EXCEPT ![h] = <<f>>]
    BY Zenon, <1>5, <1>9 DEF Call
  <2>2. Fresh(f, "write", FALSE)
    BY Zenon, FirstFrame
  <2> HIDE DEF f
  <2>3. Only(frames, frames', Harts, h, <<f>>)
    BY Zenon, <2>1, MapStep DEF HartInv
  <2>4. Head(<<f>>) = f
    BY Zenon, StackShapes
  <2>5. ~AtSleep(<<f>>)
    BY Zenon, <2>2, <2>4 DEF AtSleep, Fresh
  <2>6. GoesOn(h, <<f>>)
    BY Zenon, <1>1, <2>3, <2>5, ChanSame DEF GoesOn
  <2> QED
    BY Zenon, <1>1, <1>2, <2>6, Calm
<1> QED
  BY Zenon, <1>4, <1>7, <1>8, <1>9

LEMMA consolewriteData ==
  ASSUME HartInv, DataInv, NEW h \in Harts, consolewrite(h)
  PROVE  DataInv'
<1> DEFINE f == Top(h)
           g == [f EXCEPT !.pc = "putc"]
<1>1. At(h, "write") /\ chan' = chan /\ UNCHANGED <<cons, tx, uart, plic>>
  BY Zenon DEF consolewrite
<1>2. acquire(h, "uart_tx_lock", <<g>>) \/ Return(h)
  BY Zenon DEF consolewrite
<1>3. f.pc = "write" /\ f.irq = FALSE /\ IsRecord(f) /\ Running(h)
  <2>1. "write" \notin IrqLabels
    BY Zenon DEF IrqLabels
  <2> QED
    BY Zenon, <1>1, <2>1, AtFacts DEF At
<1>4. ~Pumps(f)
  BY Zenon, <1>3 DEF Pumps
<1>5. CASE acquire(h, "uart_tx_lock", <<g>>)
  <2>1. ~Pumping(frames[h])
    BY Zenon, <1>3, <1>4, RunningFacts
  <2> HIDE DEF f
  <2>2. Moved(f, g, "putc")
    BY Zenon, <1>3, Edit
  <2> HIDE DEF g
  <2>3. IsRecord(g) /\ g.pc # "sleep"
    BY Zenon, <2>2 DEF Moved
  <2>4. acquire(h, "uart_tx_lock", Push(g, <<>>)) /\ Base(<<>>)
    BY Zenon, <1>5, StackShapes DEF Base
  <2> QED
    BY Zenon, <1>1, <2>1, <2>3, <2>4, AcquireData
<1>6. CASE Return(h)
  BY Zenon, <1>1, <1>3, <1>4, <1>6, ReturnData
<1> QED
  BY Zenon, <1>2, <1>5, <1>6
-----------------------------------------------------------------------------
(* Steps that may put a process to sleep, and steps that move the rings. *)
LEMMA SleepMoves ==
  ASSUME HartInv, SleepInv, NEW h \in Harts, NEW s, Only(frames, frames', Harts, h, s), ChanStep(h),
         chan'[h] = "cons.r" => cons.r = cons.w,
         AtSleep(s) => Head(s).want = "none" /\ cons.r = cons.w,
         chan'[h] = "uart_tx_r" => tx.w = Add64(tx.r, UART_TX_BUF_SIZE), UNCHANGED <<cons, tx>>
  PROVE  SleepInv'
<1>1. \A g \in Harts : chan'[g] = "cons.r" => cons.r = cons.w
  BY Zenon DEF ChanStep, Wakes, SleepInv
<1>2. \A g \in Harts : chan'[g] = "uart_tx_r" => tx.w = Add64(tx.r, UART_TX_BUF_SIZE)
  BY Zenon DEF ChanStep, Wakes, SleepInv
<1>3. \A g \in Harts : AtSleep(frames'[g]) => Head(frames'[g]).want = "none" /\ cons.r = cons.w
  <2>1. frames'[h] = s /\ \A g \in Harts : g # h => frames'[g] = frames[g]
    BY Zenon DEF Only
  <2> QED
    BY Zenon, <2>1 DEF SleepInv
<1> QED
  BY Zenon, <1>1, <1>2, <1>3 DEF SleepInv

LEMMA RingMoves ==
  ASSUME HartInv, SleepInv, NEW h \in Harts, NEW s, Only(frames, frames', Harts, h, s), ~AtSleep(s),
         ChanStep(h), Wakes(chan[h], chan'[h]),
         \/ cons'.r = cons.r /\ cons'.w = cons.w
         \/ \A g \in Harts : chan'[g] # "cons.r" /\ (g # h => ~AtSleep(frames[g])),
         UNCHANGED tx \/ \A g \in Harts : chan'[g] # "uart_tx_r"
  PROVE  SleepInv'
<1>1. \A g \in Harts : Wakes(chan[g], chan'[g])
  BY Zenon DEF ChanStep
<1>2. \A g \in Harts : chan'[g] = "cons.r" => cons'.r = cons'.w
  BY Zenon, <1>1 DEF Wakes, SleepInv
<1>3. \A g \in Harts : chan'[g] = "uart_tx_r" => tx'.w = Add64(tx'.r, UART_TX_BUF_SIZE)
  BY Zenon, <1>1 DEF Wakes, SleepInv
<1>4. \A g \in Harts : AtSleep(frames'[g]) => g # h /\ frames'[g] = frames[g]
  BY Zenon DEF Only
<1>5. \A g \in Harts : AtSleep(frames'[g]) => Head(frames'[g]).want = "none" /\ cons'.r = cons'.w
  BY Zenon, <1>4 DEF SleepInv
<1> QED
  BY Zenon, <1>2, <1>3, <1>5 DEF SleepInv

(* consoleread() is not on its way to uartstart(). *)
LEMMA ReadTop ==
  ASSUME HartInv, NEW h \in Harts, NEW pc \in {"read", "sleep"}, At(h, pc)
  PROVE  /\ Running(h) /\ IsRecord(Top(h)) /\ Top(h).want = "none" /\ Top(h).pc = pc
         /\ ~Pumps(Top(h)) /\ ~Pumping(frames[h])
<1>1. /\ Running(h) /\ IsRecord(Top(h)) /\ Top(h).irq = FALSE /\ Top(h).want = "none" /\ Top(h).pc = pc
  BY Zenon, ReadFacts DEF At
<1>2. pc # "start" /\ pc # "send"
  BY Zenon
<1>3. ~Pumps(Top(h))
  BY Zenon, <1>1, <1>2 DEF Pumps
<1> QED
  BY Zenon, <1>1, <1>3, RunningFacts

(* What a step of consoleread() leaves alone. *)
LEMMA ReadPump ==
  ASSUME PumpInv, NEW h \in Harts, NEW s, Only(frames, frames', Harts, h, s), ~Pumping(frames[h]),
         UNCHANGED <<tx, uart, plic>>
  PROVE  PumpInv'
<1>1. (plic.pending => plic'.pending) /\ (uart'.fifo = <<>> => uart.fifo = <<>>) /\ UNCHANGED tx
  BY Zenon
<1> QED
  BY Zenon, <1>1, PumpQuiet

LEMMA readWaitData ==
  ASSUME HartInv, DataInv, NEW h \in Harts, readWait(h)
  PROVE  DataInv'
<1>1. At(h, "read") /\ chan' = chan /\ cons.r = cons.w /\ UNCHANGED <<cons, tx, uart, plic>>
  BY Zenon DEF readWait
<1>2. Running(h) /\ IsRecord(Top(h)) /\ Top(h).want = "none" /\ ~Pumps(Top(h)) /\ ~Pumping(frames[h])
  BY Zenon, <1>1, ReadTop
<1>3. CASE killed[h]
  <2>1. Return(h)
    BY Zenon, <1>3 DEF readWait
  <2> QED
    BY Zenon, <1>1, <1>2, <2>1, ReturnData
<1>4. CASE ~killed[h]
  <2> DEFINE g == [Top(h) EXCEPT !.pc = "sleep"]
             s == Push(g, Tail(frames[h]))
  <2>1. Set(h, g)
    BY Zenon, <1>4 DEF readWait, Goto
  <2>2. Moved(Top(h), g, "sleep")
    BY Zenon, <1>2, Edit
  <2> HIDE DEF g
  <2>3. Only(frames, frames', Harts, h, s) /\ Head(s) = g
    BY Zenon, <1>2, <2>1, TopStep
  <2> HIDE DEF s
  <2>4. Head(s).want = "none"
    BY Zenon, <1>2, <2>2, <2>3 DEF Moved
  <2>5. ChanStep(h) /\ chan'[h] = chan[h]
    BY Zenon, <1>1, ChanSame
  <2>6. SleepInv /\ PumpInv /\ Shapes /\ InputInv /\ UNCHANGED <<cons, tx>> /\ UNCHANGED <<tx, uart, plic>>
    BY Zenon, <1>1 DEF DataInv
  <2>7. chan'[h] = "uart_tx_r" => tx.w = Add64(tx.r, UART_TX_BUF_SIZE)
    BY Zenon, <2>5, <2>6 DEF SleepInv
  <2>8. SleepInv'
    BY Zenon, <1>1, <2>3, <2>4, <2>5, <2>6, <2>7, SleepMoves
  <2>9. PumpInv'
    BY Zenon, <1>2, <2>3, <2>6, ReadPump
  <2>10. Shapes' /\ InputInv'
    BY Zenon, <1>1, <2>6 DEF Shapes, InputInv
  <2> QED
    BY Zenon, <2>8, <2>9, <2>10 DEF DataInv
<1> QED
  BY Zenon, <1>3, <1>4

LEMMA readSleepData ==
  ASSUME HartInv, DataInv, NEW h \in Harts, readSleep(h)
  PROVE  DataInv'
<1> DEFINE g == [Top(h) EXCEPT !.pc = "read"]
           s == Push(g, Tail(frames[h]))
<1>1. At(h, "sleep") /\ chan' = [chan EXCEPT ![h] = "cons.r"] /\ UNCHANGED <<cons, tx, uart, plic>> /\ Set(h, g)
  BY Zenon DEF readSleep, sleep, Goto
<1>2. Running(h) /\ IsRecord(Top(h)) /\ Top(h).pc = "sleep" /\ ~Pumping(frames[h])
  BY Zenon, <1>1, ReadTop
<1>3. AtSleep(frames[h])
  BY Zenon, <1>2, RunningFacts
<1>4. SleepInv /\ PumpInv /\ Shapes /\ InputInv /\ UNCHANGED <<cons, tx>> /\ UNCHANGED <<tx, uart, plic>>
  BY Zenon, <1>1 DEF DataInv
<1>5. cons.r = cons.w
  BY Zenon, <1>3, <1>4 DEF SleepInv
<1>6. Moved(Top(h), g, "read")
  BY Zenon, <1>2, Edit
<1> HIDE DEF g
<1>7. Only(frames, frames', Harts, h, s) /\ (AtSleep(s) <=> g.pc = "sleep")
  BY Zenon, <1>1, <1>2, TopStep
<1> HIDE DEF s
<1>8. ~AtSleep(s)
  BY Zenon, <1>6, <1>7 DEF Moved
<1>9. ChanStep(h) /\ chan'[h] = "cons.r"
  BY Zenon, <1>1, ChanSet
<1>10. SleepInv'
  BY Zenon, <1>4, <1>5, <1>7, <1>8, <1>9, SleepMoves
<1>11. PumpInv'
  BY Zenon, <1>2, <1>4, <1>7, ReadPump
<1>12. Shapes' /\ InputInv'
  BY Zenon, <1>1, <1>4 DEF Shapes, InputInv
<1> QED
  BY Zenon, <1>10, <1>11, <1>12 DEF DataInv
-----------------------------------------------------------------------------
(* The indexes of the input buffer, which wrap at UintRange. *)
LEMMA ModNear ==
  ASSUME NEW m \in Nat, m > 0
  PROVE  /\ \A a \in 0 .. m - 1 : a % m = a
         /\ \A a \in m .. 2 * m - 1 : a % m = a - m
         /\ \A a \in -m .. -1 : a % m = a + m
BY SMT

LEMMA Turn ==
  ASSUME NEW m \in Nat, m > 0, NEW r \in 0 .. m - 1, NEW k \in 0 .. m - 1
  PROVE  /\ (r + k) % m = IF r + k < m THEN r + k ELSE r + k - m
         /\ (r - k) % m = IF r >= k THEN r - k ELSE r - k + m
<1>1. ASSUME r + k < m PROVE (r + k) % m = r + k
  <2>1. r + k \in 0 .. m - 1
    BY SMT, <1>1
  <2> QED
    BY Zenon, <1>1, <2>1, ModNear
<1>2. ASSUME ~(r + k < m) PROVE (r + k) % m = r + k - m
  <2>1. r + k \in m .. 2 * m - 1
    BY SMT, <1>2
  <2>2. \A a \in m .. 2 * m - 1 : a % m = a - m
    BY Zenon, ModNear
  <2> QED
    BY SMT, <2>1, <2>2
<1>3. ASSUME r >= k PROVE (r - k) % m = r - k
  <2>1. r - k \in 0 .. m - 1
    BY SMT, <1>3
  <2> QED
    BY Zenon, <1>3, <2>1, ModNear
<1>4. ASSUME ~(r >= k) PROVE (r - k) % m = r - k + m
  <2>1. r - k \in -m .. -1
    BY SMT, <1>4
  <2> QED
    BY Zenon, <1>4, <2>1, ModNear
<1>5. (r + k) % m = IF r + k < m THEN r + k ELSE r + k - m
  BY Zenon, <1>1, <1>2
<1>6. (r - k) % m = IF r >= k THEN r - k ELSE r - k + m
  BY Zenon, <1>3, <1>4
<1> QED
  BY Zenon, <1>5, <1>6

LEMMA Sizes ==
  /\ UintRange \in Nat /\ UintRange > 0 /\ INPUT_BUF \in Nat /\ INPUT_BUF > 0 /\ INPUT_BUF < UintRange
<1>1. UintRange \in Nat /\ INPUT_BUF \in Nat \ {0} /\ UintRange > INPUT_BUF
  BY Zenon, ConsoleConstants
<1> QED
  BY SMT, <1>1

LEMMA AddSub ==
  ASSUME NEW r \in 0 .. UintRange - 1, NEW k \in 0 .. UintRange - 1
  PROVE  /\ Add(r, k) = IF r + k < UintRange THEN r + k ELSE r + k - UintRange
         /\ Sub(r, k) = IF r >= k THEN r - k ELSE r - k + UintRange
         /\ Add(r, k) \in 0 .. UintRange - 1
<1>1. /\ Add(r, k) = IF r + k < UintRange THEN r + k ELSE r + k - UintRange
      /\ Sub(r, k) = IF r >= k THEN r - k ELSE r - k + UintRange
  BY Zenon, Sizes, Turn DEF Add, Sub
<1>2. Add(r, k) \in 0 .. UintRange - 1
  BY SMT, <1>1, Sizes
<1> QED
  BY Zenon, <1>1, <1>2

(* Arithmetic on indexes that are not further apart than the buffer. *)
Near(r, j, k) ==
  /\ Add(Add(r, j), k) = Add(r, j + k)
  /\ Sub(Add(r, j + k), Add(r, j)) = k
  /\ Sub(Add(r, j + k), k) = Add(r, j)
  /\ Add(r, 0) = r
  /\ j # k => Add(r, j) # Add(r, k)
  /\ Add(r, j) \in 0 .. UintRange - 1

LEMMA AddTwice ==
  ASSUME NEW r \in 0 .. UintRange - 1, NEW j \in 0 .. INPUT_BUF, NEW k \in 0 .. INPUT_BUF, j + k <= INPUT_BUF
  PROVE  Near(r, j, k)
<1> DEFINE p == Add(r, j)
           q == Add(r, j + k)
<1>0. UintRange \in Nat /\ UintRange > 0 /\ INPUT_BUF \in Nat /\ INPUT_BUF < UintRange
  BY Zenon, Sizes
<1>1. j \in 0 .. UintRange - 1 /\ k \in 0 .. UintRange - 1 /\ j + k \in 0 .. UintRange - 1 /\ 0 \in 0 .. UintRange - 1
  BY SMT, <1>0
<1>2. p \in 0 .. UintRange - 1 /\ p = IF r + j < UintRange THEN r + j ELSE r + j - UintRange
  BY Zenon, <1>1, AddSub
<1>3. q \in 0 .. UintRange - 1 /\ q = IF r + (j + k) < UintRange THEN r + (j + k) ELSE r + (j + k) - UintRange
  BY Zenon, <1>1, AddSub
<1>4. Add(r, k) = IF r + k < UintRange THEN r + k ELSE r + k - UintRange
  BY Zenon, <1>1, AddSub
<1>5. Add(r, 0) = IF r + 0 < UintRange THEN r + 0 ELSE r + 0 - UintRange
  BY Zenon, <1>1, AddSub
<1>6. j # k => p # Add(r, k)
  <2> HIDE DEF p
  <2> QED
    BY SMT, <1>0, <1>1, <1>2, <1>4
<1> HIDE DEF p, q
<1>7. /\ Add(p, k) = IF p + k < UintRange THEN p + k ELSE p + k - UintRange
      /\ Sub(q, p) = IF q >= p THEN q - p ELSE q - p + UintRange
      /\ Sub(q, k) = IF q >= k THEN q - k ELSE q - k + UintRange
  BY Zenon, <1>1, <1>2, <1>3, AddSub
<1>8. Add(p, k) = q
  BY SMT, <1>0, <1>1, <1>2, <1>3, <1>7
<1>9. Sub(q, p) = k
  BY SMT, <1>0, <1>1, <1>2, <1>3, <1>7
<1>10. Sub(q, k) = p
  BY SMT, <1>0, <1>1, <1>2, <1>3, <1>7
<1>11. Add(r, 0) = r
  BY SMT, <1>0, <1>5
<1> QED
  BY Zenon, <1>2, <1>6, <1>8, <1>9, <1>10, <1>11 DEF Near, p, q

(* How many bytes there are. *)
Lens(r, w, e, a, b) ==
  /\ r \in 0 .. UintRange - 1 /\ w = Add(r, a) /\ e = Add(r, a + b)
  /\ a + b <= INPUT_BUF /\ (a + b = INPUT_BUF => b = 0)
  /\ Sub(e, w) = b /\ Sub(e, r) = a + b /\ (a = 0 => w = r) /\ (b = 0 => w = e)

LEMMA InputLens ==
  ASSUME NEW r, NEW w, NEW e, Input(r, w, e)
  PROVE  \E a, b \in 0 .. INPUT_BUF : Lens(r, w, e, a, b)
<1>1. PICK a \in 0 .. INPUT_BUF, b \in 0 .. INPUT_BUF :
        /\ r \in 0 .. UintRange - 1 /\ w = Add(r, a) /\ e = Add(r, a + b)
        /\ a + b <= INPUT_BUF /\ (a + b = INPUT_BUF => b = 0)
  BY Zenon DEF Input
<1>2. Sub(e, w) = b /\ Add(r, 0) = r
  <2>1. Near(r, a, b)
    BY Zenon, <1>1, AddTwice
  <2> QED
    BY Zenon, <1>1, <2>1 DEF Near
<1>3. Sub(e, r) = a + b
  <2> DEFINE n == a + b
  <2>1. 0 \in 0 .. INPUT_BUF /\ n \in 0 .. INPUT_BUF /\ 0 + n = n /\ 0 + n <= INPUT_BUF
    BY SMT, <1>1, Sizes
  <2> HIDE DEF n
  <2>2. Near(r, 0, n)
    BY Zenon, <1>1, <2>1, AddTwice
  <2>3. Sub(Add(r, n), Add(r, 0)) = n
    BY Zenon, <2>1, <2>2 DEF Near
  <2> QED
    BY Zenon, <1>1, <1>2, <2>3 DEF n
<1>4. b = 0 => a + b = a
  BY SMT
<1>5. (a = 0 => w = r) /\ (b = 0 => w = e)
  BY Zenon, <1>1, <1>2, <1>4
<1>6. Lens(r, w, e, a, b)
  BY Zenon, <1>1, <1>2, <1>3, <1>5 DEF Lens
<1> QED
  BY Zenon, <1>6

LEMMA InputIs ==
  ASSUME NEW r \in 0 .. UintRange - 1, NEW w, NEW e, NEW a \in 0 .. INPUT_BUF, NEW b \in 0 .. INPUT_BUF,
         w = Add(r, a), e = Add(r, a + b), a + b <= INPUT_BUF, a + b = INPUT_BUF => b = 0
  PROVE  Input(r, w, e)
BY Zenon DEF Input

(* consoleread() takes a byte. *)
LEMMA InputTake ==
  ASSUME NEW r, NEW w, NEW e, Input(r, w, e), r # w
  PROVE  Input(Add(r, 1), w, e)
<1>0. PICK a \in 0 .. INPUT_BUF, b \in 0 .. INPUT_BUF : Lens(r, w, e, a, b)
  BY Zenon, InputLens
<1>1. /\ r \in 0 .. UintRange - 1 /\ w = Add(r, a) /\ e = Add(r, a + b)
      /\ a + b <= INPUT_BUF /\ (a + b = INPUT_BUF => b = 0) /\ (a = 0 => w = r)
  BY Zenon, <1>0 DEF Lens
<1> DEFINE c == a - 1
           n == c + b
<1>2. /\ c \in 0 .. INPUT_BUF /\ 1 \in 0 .. INPUT_BUF /\ 1 + c = a /\ 1 + c <= INPUT_BUF
      /\ n \in 0 .. INPUT_BUF /\ 1 + n = a + b /\ 1 + n <= INPUT_BUF /\ n <= INPUT_BUF /\ n # INPUT_BUF
  <2>1. a # 0
    BY Zenon, <1>1
  <2> QED
    BY SMT, <1>1, <2>1, Sizes
<1> HIDE DEF c
<1>3. n = c + b
  BY Zenon
<1> HIDE DEF n
<1>4. Near(r, 1, c) /\ Near(r, 1, n)
  BY Zenon, <1>1, <1>2, AddTwice
<1>5. /\ w = Add(Add(r, 1), c) /\ e = Add(Add(r, 1), n) /\ Add(r, 1) \in 0 .. UintRange - 1
  BY Zenon, <1>1, <1>2, <1>4 DEF Near
<1> QED
  BY Zenon, <1>2, <1>3, <1>5, InputIs

(* consoleintr() stores a byte; what is typed becomes ready, or not. *)
LEMMA InputStore ==
  ASSUME NEW r, NEW w, NEW e, Input(r, w, e), Sub(e, r) < INPUT_BUF
  PROVE  /\ Input(r, Add(e, 1), Add(e, 1))
         /\ Add(e, 1) # Add(r, INPUT_BUF) => Input(r, w, Add(e, 1))
<1>0. PICK a \in 0 .. INPUT_BUF, b \in 0 .. INPUT_BUF : Lens(r, w, e, a, b)
  BY Zenon, InputLens
<1>1. /\ r \in 0 .. UintRange - 1 /\ w = Add(r, a) /\ e = Add(r, a + b) /\ Sub(e, r) = a + b
  BY Zenon, <1>0 DEF Lens
<1> DEFINE n == a + b
           m == n + 1
           c == b + 1
<1>2. n < INPUT_BUF
  BY Zenon, <1>1
<1>3. /\ n \in 0 .. INPUT_BUF /\ 1 \in 0 .. INPUT_BUF /\ m \in 0 .. INPUT_BUF /\ c \in 0 .. INPUT_BUF
      /\ n + 1 <= INPUT_BUF /\ m + 0 = m /\ m <= INPUT_BUF /\ 0 \in 0 .. INPUT_BUF /\ a + c = m
  BY SMT, <1>1, <1>2, Sizes
<1>4. n + 1 = m /\ e = Add(r, n)
  BY Zenon, <1>1
<1> HIDE DEF n
<1> HIDE DEF m, c
<1>5. Near(r, n, 1)
  BY Zenon, <1>1, <1>3, AddTwice
<1>6. Add(e, 1) = Add(r, m)
  BY Zenon, <1>4, <1>5 DEF Near
<1>7. Input(r, Add(e, 1), Add(e, 1))
  <2>1. Add(e, 1) = Add(r, m + 0) /\ m + 0 <= INPUT_BUF
    BY Zenon, <1>3, <1>6
  <2> QED
    BY Zenon, <1>1, <1>3, <1>6, <2>1, InputIs
<1>8. ASSUME Add(e, 1) # Add(r, INPUT_BUF) PROVE Input(r, w, Add(e, 1))
  <2>1. m # INPUT_BUF
    BY Zenon, <1>6, <1>8
  <2>2. Add(e, 1) = Add(r, a + c) /\ a + c <= INPUT_BUF /\ a + c # INPUT_BUF
    BY Zenon, <1>3, <1>6, <2>1
  <2> QED
    BY Zenon, <1>1, <1>3, <2>2, InputIs
<1> QED
  BY Zenon, <1>7, <1>8

(* consoleintr() erases k bytes that are not ready. *)
LEMMA InputErase ==
  ASSUME NEW r, NEW w, NEW e, Input(r, w, e), NEW k \in 0 .. Sub(e, w)
  PROVE  Input(r, w, Sub(e, k))
<1>0. PICK a \in 0 .. INPUT_BUF, b \in 0 .. INPUT_BUF : Lens(r, w, e, a, b)
  BY Zenon, InputLens
<1>1. /\ r \in 0 .. UintRange - 1 /\ w = Add(r, a) /\ e = Add(r, a + b) /\ Sub(e, w) = b
      /\ a + b <= INPUT_BUF /\ (a + b = INPUT_BUF => b = 0)
  BY Zenon, <1>0 DEF Lens
<1> DEFINE c == b - k
           n == a + c
<1>2. k \in 0 .. b
  BY Zenon, <1>1
<1>3. /\ c \in 0 .. INPUT_BUF /\ k \in 0 .. INPUT_BUF /\ n \in 0 .. INPUT_BUF /\ n + k = a + b
      /\ n + k <= INPUT_BUF /\ n <= INPUT_BUF /\ (n = INPUT_BUF => c = 0)
  BY SMT, <1>1, <1>2, Sizes
<1>4. n = a + c
  BY Zenon
<1> HIDE DEF c
<1> HIDE DEF n
<1>5. Near(r, n, k)
  BY Zenon, <1>1, <1>3, AddTwice
<1>6. Sub(e, k) = Add(r, a + c)
  BY Zenon, <1>1, <1>3, <1>4, <1>5 DEF Near
<1>7. a + c <= INPUT_BUF /\ (a + c = INPUT_BUF => c = 0)
  BY Zenon, <1>3, <1>4
<1> QED
  BY Zenon, <1>1, <1>3, <1>6, <1>7, InputIs

(* How many bytes consoleintr() erases. *)
LEMMA ErasedBound ==
  ASSUME InputInv, NatMin, NEW c
  PROVE  Erased(c) \in 0 .. Sub(cons.e, cons.w)
<1> DEFINE len == Sub(cons.e, cons.w)
           NL(j) == cons.buf[Sub(cons.e, j + 1) % INPUT_BUF] = "NL"
           S == {k \in 0 .. len : k = len \/ NL(k)}
<1>1. len \in 0 .. INPUT_BUF
  <2>1. Input(cons.r, cons.w, cons.e)
    BY Zenon DEF InputInv
  <2>2. PICK a \in 0 .. INPUT_BUF, b \in 0 .. INPUT_BUF : Lens(cons.r, cons.w, cons.e, a, b)
    BY Zenon, <2>1, InputLens
  <2> QED
    BY Zenon, <2>2 DEF Lens
<1>2. len \in Nat
  BY SMT, <1>1, Sizes
<1> HIDE DEF len
<1> HIDE DEF NL
<1>3. S \in SUBSET Nat /\ S # {}
  <2>1. len \in 0 .. len /\ \A k \in 0 .. len : k \in Nat
    BY SMT, <1>2
  <2> QED
    BY Zenon, <2>1
<1>4. PICK m \in S : \A y \in S : m <= y
  BY Zenon, <1>3 DEF NatMin
<1>5. \A j \in 0 .. m - 1 : j \in 0 .. len /\ ~(m <= j)
  BY SMT, <1>2, <1>4
<1>6. m \in 0 .. len /\ (m = len \/ NL(m)) /\ \A j \in 0 .. m - 1 : ~NL(j)
  BY Zenon, <1>4, <1>5
<1>7. CASE c = "KILL"
  <2> DEFINE P(k) == (k = len \/ NL(k)) /\ \A j \in 0 .. k - 1 : ~NL(j)
  <2>1. Erased(c) = CHOOSE k \in 0 .. len : P(k)
    BY Zenon, <1>7 DEF Erased, len, NL
  <2>2. \E k \in 0 .. len : P(k)
    BY Zenon, <1>6
  <2> HIDE DEF P
  <2> QED
    BY Zenon, <2>1, <2>2 DEF len
<1>8. CASE c = "BS"
  <2>1. Erased(c) = IF len = 0 THEN 0 ELSE 1
    BY Zenon, <1>8 DEF Erased, len
  <2> QED
    BY SMT, <1>2, <2>1 DEF len
<1>9. CASE c # "KILL" /\ c # "BS"
  <2>1. Erased(c) = 0
    BY Zenon, <1>9 DEF Erased
  <2> QED
    BY SMT, <1>2, <2>1 DEF len
<1> QED
  BY Zenon, <1>7, <1>8, <1>9
-----------------------------------------------------------------------------
LEMMA readTakeData ==
  ASSUME HartInv, DataInv, NEW h \in Harts, readTake(h)
  PROVE  DataInv'
<1> DEFINE f == Top(h)
           g == [f EXCEPT !.n = f.n - 1]
           s == Push(g, Tail(frames[h]))
<1>1. At(h, "read") /\ cons.r # cons.w /\ chan' = chan /\ UNCHANGED <<tx, uart, plic>>
  BY Zenon DEF readTake
<1>2. cons' = cons \/ cons' = Clear(Add(cons.r, 1), cons.w, cons.e, cons.buf)
  BY Zenon DEF readTake
<1>3. Return(h) \/ Set(h, g)
  BY Zenon DEF readTake
<1>4. SleepInv /\ PumpInv /\ Shapes /\ Input(cons.r, cons.w, cons.e)
  BY Zenon DEF DataInv, InputInv
<1>5. Running(h) /\ IsRecord(f) /\ f.pc = "read" /\ ~Pumping(frames[h])
  BY Zenon, <1>1, ReadTop
<1>6. \E x : Only(frames, frames', Harts, h, x) /\ ~AtSleep(x)
  <2>1. CASE Return(h)
    <3>1. Only(frames, frames', Harts, h, <<>>)
      BY Zenon, <2>1, MapStep DEF HartInv, Return
    <3>2. ~AtSleep(<<>>)
      BY Zenon DEF AtSleep
    <3> QED
      BY Zenon, <3>1, <3>2
  <2>2. CASE Set(h, g)
    <3>1. Moved(f, g, "read")
      <4> HIDE DEF f
      <4> QED
        BY Zenon, <1>5, Edit
    <3> HIDE DEF g
    <3>2. Only(frames, frames', Harts, h, s) /\ (AtSleep(s) <=> g.pc = "sleep")
      BY Zenon, <1>5, <2>2, TopStep
    <3> HIDE DEF s
    <3>3. g.pc # "sleep"
      BY Zenon, <3>1 DEF Moved
    <3> QED
      BY Zenon, <3>2, <3>3
  <2> QED
    BY Zenon, <1>3, <2>1, <2>2
<1>7. PICK x : Only(frames, frames', Harts, h, x) /\ ~AtSleep(x)
  BY Zenon, <1>6
<1>8. SleepInv'
  <2>1. ChanStep(h) /\ Wakes(chan[h], chan'[h])
    BY Zenon, <1>1, ChanSame DEF Wakes
  <2>2. \A k \in Harts : chan'[k] # "cons.r" /\ (k # h => ~AtSleep(frames[k]))
    BY Zenon, <1>1, <1>4 DEF SleepInv
  <2>3. UNCHANGED tx
    BY Zenon, <1>1
  <2> QED
    BY Zenon, <1>4, <1>7, <2>1, <2>2, <2>3, RingMoves
<1>9. PumpInv'
  BY Zenon, <1>1, <1>4, <1>5, <1>7, ReadPump
<1>10. IsCons(cons') /\ Input(cons'.r, cons'.w, cons'.e)
  <2>1. CASE cons' = cons
    BY Zenon, <1>4, <2>1 DEF Shapes
  <2>2. CASE cons' = Clear(Add(cons.r, 1), cons.w, cons.e, cons.buf)
    <3> DEFINE z == Clear(Add(cons.r, 1), cons.w, cons.e, cons.buf)
    <3>1. IsCons(z) /\ z.r = Add(cons.r, 1) /\ z.w = cons.w /\ z.e = cons.e
      BY SMT, ClearFields
    <3> HIDE DEF z
    <3>2. IsCons(cons') /\ cons'.r = Add(cons.r, 1) /\ cons'.w = cons.w /\ cons'.e = cons.e
      <4>1. cons' = z
        BY Zenon, <2>2 DEF z
      <4> QED
        BY Zenon, <3>1, <4>1
    <3>3. Input(Add(cons.r, 1), cons.w, cons.e)
      BY Zenon, <1>1, <1>4, InputTake
    <3> QED
      BY Zenon, <3>2, <3>3
  <2> QED
    BY Zenon, <1>2, <2>1, <2>2
<1>11. Shapes' /\ InputInv'
  BY Zenon, <1>1, <1>4, <1>10 DEF Shapes, InputInv
<1> QED
  BY Zenon, <1>8, <1>9, <1>11 DEF DataInv

(* cons.lock keeps everybody else from the place before sleep(). *)
LEMMA SleepLocked ==
  ASSUME HartInv, SleepInv, NEW g \in Harts, AtSleep(frames[g])
  PROVE  lock["cons.lock"] = g
<1> DEFINE f == Head(frames[g])
           b == Tail(frames[g])
           c == cpu[g]
           ch == chan[g]
<1>1. frames[g] # <<>> /\ f.pc = "sleep" /\ f.want = "none"
  BY Zenon DEF AtSleep, SleepInv
<1>2. HartOK(frames[g], c, ch)
  BY Zenon DEF HartInv
<1>3. Sleeps(b, f, c, ch) \/ Runs(b, f, c, ch)
  BY Zenon, <1>1, <1>2 DEF HartOK, Idles
<1>4. "cons.lock" \in Locks /\ "sleep" \notin IrqLabels
  BY Zenon DEF Locks, IrqLabels
<1>5. lock["cons.lock"] = g <=> Has(frames[g], ch, "cons.lock")
  BY Zenon, <1>4 DEF HartInv
<1>6. Has(frames[g], ch, "cons.lock") <=> (f.irq \/ ch = "none") /\ Holds(f, "cons.lock")
  BY Zenon, <1>1 DEF Has
<1> HIDE DEF f, b, c, ch
<1>7. ~Sleeps(b, f, c, ch)
  BY Zenon, <1>1 DEF Sleeps, Sleeper
<1>8. ~Handles(b, f, c, ch)
  BY Zenon, <1>1, <1>4 DEF Handles, IrqFrame
<1>9. ch = "none"
  BY Zenon, <1>3, <1>7, <1>8 DEF Runs, Works
<1>10. Holds(f, "cons.lock")
  BY Zenon, <1>1, NeedsCons DEF Holds
<1> QED
  BY Zenon, <1>5, <1>6, <1>9, <1>10

LEMMA consoleintrAlone ==
  ASSUME HartInv, SleepInv, NEW h \in Harts, At(h, "consoleintr")
  PROVE  \A g \in Harts : ~AtSleep(frames[g])
<1> DEFINE f == Top(h)
<1>1. RunsAt(h, Tail(frames[h]), f) /\ f.pc = "consoleintr" /\ f.want = "none" /\ Running(h)
  BY Zenon, AtFacts DEF At
<1>2. ~AtSleep(frames[h])
  <2>1. f.pc # "sleep"
    BY Zenon, <1>1
  <2> QED
    BY Zenon, <1>1, <2>1, RunningFacts
<1> HIDE DEF f
<1>3. Holds(f, "cons.lock")
  BY Zenon, <1>1, NeedsCons DEF Holds
<1>4. "cons.lock" \in Locks
  BY Zenon DEF Locks
<1>5. lock["cons.lock"] = h
  BY Zenon, <1>1, <1>3, <1>4 DEF RunsAt
<1> QED
  BY Zenon, <1>2, <1>5, SleepLocked
-----------------------------------------------------------------------------
(* The running frame becomes g, and uartstart() follows or went over all there is. *)
LEMMA SetPump ==
  ASSUME HartInv, DataInv, NEW h \in Harts, Running(h), NEW g, Set(h, g), g.pc # "sleep",
         Pumps(g) \/ PumpInv', UNCHANGED <<cons, tx>>, chan' = chan,
         UNCHANGED uart \/ (IsUart(uart') /\ IsSeq(uart'.fifo)), UNCHANGED plic \/ IsPlic(plic')
  PROVE  DataInv'
<1> DEFINE s == Push(g, Tail(frames[h]))
<1>1. Only(frames, frames', Harts, h, s) /\ (AtSleep(s) <=> g.pc = "sleep") /\ (Pumping(s) <=> Pumps(g))
  BY Zenon, TopStep
<1> HIDE DEF s
<1>2. GoesOn(h, s)
  BY Zenon, <1>1, ChanSame DEF GoesOn
<1>3. PumpInv'
  BY Zenon, <1>1, PumpNow
<1> QED
  BY Zenon, <1>2, <1>3, Quiet

(* WriteReg(THR, c). *)
LEMMA THRFacts ==
  ASSUME Shapes, NEW c, THR(c)
  PROVE  IsUart(uart') /\ IsSeq(uart'.fifo) /\ (uart'.fifo = <<>> => uart.fifo = <<>>)
<1> DEFINE x == IF Len(uart.fifo) < FifoDepth THEN Append(uart.fifo, c) ELSE uart.fifo
           u == [uart EXCEPT !.fifo = x]
<1>1. uart' = u
  BY Zenon DEF THR
<1>2. IsUart(uart) /\ IsSeq(uart.fifo)
  BY Zenon DEF Shapes
<1>3. IsSeq(x) /\ (x = <<>> => uart.fifo = <<>>)
  BY Zenon, <1>2, Fifos
<1> HIDE DEF x
<1>4. IsUart(u) /\ u.fifo = x
  BY Zenon, <1>2, EditUart
<1> HIDE DEF u
<1> QED
  BY Zenon, <1>1, <1>3, <1>4

LEMMA uartstartReturnData ==
  ASSUME HartInv, DataInv, NEW h \in Harts, uartstartReturn(h)
  PROVE  DataInv'
<1> DEFINE f == Top(h)
           p == IF f.irq THEN "complete" ELSE "write"
           g == [f EXCEPT !.pc = p]
<1>1. /\ At(h, "start") /\ Set(h, g) /\ chan' = chan /\ UNCHANGED <<cons, tx, uart, plic>>
      /\ tx.w = tx.r \/ uart.fifo # <<>>
  BY Zenon DEF uartstartReturn, Goto, LSR_TX_IDLE
<1>2. Running(h) /\ IsRecord(f)
  BY Zenon, <1>1, AtFacts DEF At
<1>3. p # "sleep"
  BY Zenon
<1>4. PumpInv'
  BY Zenon, <1>1 DEF PumpInv
<1>5. Moved(f, g, p)
  <2> HIDE DEF f, p
  <2> QED
    BY Zenon, <1>2, Edit
<1> HIDE DEF p
<1> HIDE DEF g
<1>6. g.pc # "sleep"
  BY Zenon, <1>3, <1>5 DEF Moved
<1>7. UNCHANGED <<cons, tx>> /\ UNCHANGED uart /\ UNCHANGED plic
  BY Zenon, <1>1
<1> QED
  BY Zenon, <1>1, <1>2, <1>4, <1>6, <1>7, SetPump

LEMMA uartstartSendData ==
  ASSUME HartInv, DataInv, NEW h \in Harts, uartstartSend(h)
  PROVE  DataInv'
<1> DEFINE f == Top(h)
           g == [f EXCEPT !.pc = "start", !.c = "NUL"]
<1>1. At(h, "send") /\ THR(f.c) /\ Set(h, g) /\ chan' = chan /\ UNCHANGED <<cons, tx, plic>>
  BY Zenon DEF uartstartSend
<1>2. Running(h) /\ IsRecord(f)
  BY Zenon, <1>1, AtFacts DEF At
<1>3. Moved(f, g, "start")
  <2> HIDE DEF f
  <2> QED
    BY Zenon, <1>2, Edits
<1> HIDE DEF g
<1>4. g.pc = "start" /\ g.pc # "sleep"
  BY Zenon, <1>3 DEF Moved
<1>5. Pumps(g)
  BY Zenon, <1>4 DEF Pumps
<1>6. IsUart(uart') /\ IsSeq(uart'.fifo)
  BY Zenon, <1>1, THRFacts DEF DataInv
<1>7. UNCHANGED <<cons, tx>> /\ UNCHANGED plic
  BY Zenon, <1>1
<1> QED
  BY Zenon, <1>1, <1>2, <1>4, <1>5, <1>6, <1>7, SetPump

LEMMA uartputc_syncData ==
  ASSUME HartInv, DataInv, NEW h \in Harts, uartputc_sync(h)
  PROVE  DataInv'
<1> DEFINE f == Top(h)
           q == IF f.pc = "printf" THEN "printf'" ELSE "echo'"
           g == [f EXCEPT !.pc = q]
<1>1. PICK p \in {"printf", "echo"} : At(h, p)
  BY Zenon DEF uartputc_sync, Putting
<1>2. Set(h, g) /\ chan' = chan /\ UNCHANGED <<cons, tx, uart, plic>>
  BY Zenon DEF uartputc_sync, Goto
<1>3. Running(h) /\ IsRecord(f) /\ f.pc = p
  BY Zenon, <1>1, AtFacts DEF At
<1>4. q \notin {"sleep", "complete"} /\ p \notin {"start", "send"}
  BY Zenon
<1>5. Moved(f, g, q)
  <2> HIDE DEF f, q
  <2> QED
    BY Zenon, <1>3, Edit
<1> HIDE DEF q
<1> HIDE DEF g
<1>6. g.pc # "sleep"
  BY Zenon, <1>4, <1>5 DEF Moved
<1>7. Pumps(f) => Pumps(g)
  <2> HIDE DEF f
  <2> QED
    BY Zenon, <1>3, <1>4, <1>5 DEF Moved, Pumps
<1> QED
  BY Zenon, <1>2, <1>3, <1>6, <1>7, SetData

LEMMA uartputc_syncSendData ==
  ASSUME HartInv, DataInv, NEW h \in Harts, uartputc_syncSend(h)
  PROVE  DataInv'
<1> DEFINE f == Top(h)
           p == IF f.pc = "printf'" THEN "printf" ELSE "echo"
           g == [f EXCEPT !.pc = p, !.s = Tail(f.s)]
           s == Push(g, Tail(frames[h]))
<1>1. PICK q \in {"printf'", "echo'"} : At(h, q)
  BY Zenon DEF uartputc_syncSend, Putting
<1>2. Set(h, g) /\ chan' = chan /\ UNCHANGED <<cons, tx, plic>> /\ THR(Head(f.s))
  BY Zenon DEF uartputc_syncSend
<1>3. Running(h) /\ IsRecord(f) /\ f.pc = q
  BY Zenon, <1>1, AtFacts DEF At
<1>4. p \notin {"sleep", "complete"} /\ q \notin {"start", "send"}
  BY Zenon
<1>5. Moved(f, g, p)
  <2> HIDE DEF f, p
  <2> QED
    BY Zenon, <1>3, Edits
<1> HIDE DEF p
<1> HIDE DEF g
<1>6. g.pc # "sleep"
  BY Zenon, <1>4, <1>5 DEF Moved
<1>7. Pumps(f) => Pumps(g)
  <2> HIDE DEF f
  <2> QED
    BY Zenon, <1>3, <1>4, <1>5 DEF Moved, Pumps
<1>8. IsUart(uart') /\ IsSeq(uart'.fifo) /\ (uart'.fifo = <<>> => uart.fifo = <<>>)
  BY Zenon, <1>2, THRFacts DEF DataInv
<1>9. UNCHANGED <<cons, tx>> /\ UNCHANGED plic /\ UNCHANGED tx /\ (plic.pending => plic'.pending)
  BY Zenon, <1>2
<1>10. PumpInv'
  <2>1. Only(frames, frames', Harts, h, s) /\ (Pumping(s) <=> Pumps(g))
    BY Zenon, <1>2, <1>3, TopStep
  <2>2. (Pumping(frames[h]) <=> Pumps(f)) /\ PumpInv
    BY Zenon, <1>3, RunningFacts DEF DataInv
  <2> HIDE DEF s
  <2> QED
    BY Zenon, <1>7, <1>8, <1>9, <2>1, <2>2, PumpQuiet
<1> QED
  BY Zenon, <1>2, <1>3, <1>6, <1>8, <1>9, <1>10, SetPump

LEMMA printfDoneData ==
  ASSUME HartInv, DataInv, NEW h \in Harts, printfDone(h)
  PROVE  DataInv'
<1> DEFINE f == Top(h)
           g == [f EXCEPT !.pc = "echo"]
<1>1. At(h, "printf") /\ chan' = chan /\ UNCHANGED <<cons, tx, uart, plic>>
  BY Zenon DEF printfDone
<1>2. Running(h) /\ IsRecord(f) /\ f.pc = "printf" /\ f.irq \in BOOLEAN
  BY Zenon, <1>1, AtFacts DEF At
<1>3. CASE f.irq = TRUE
  <2>1. Set(h, g)
    BY Zenon, <1>3 DEF printfDone, Goto
  <2>2. Moved(f, g, "echo")
    <3> HIDE DEF f
    <3> QED
      BY Zenon, <1>2, Edit
  <2> HIDE DEF g
  <2>3. g.pc # "sleep" /\ Pumps(g)
    <3> HIDE DEF f
    <3> QED
      BY Zenon, <1>3, <2>2 DEF Moved, Pumps
  <2> QED
    BY Zenon, <1>1, <1>2, <2>1, <2>3, SetData
<1>4. CASE f.irq = FALSE
  <2>1. Return(h)
    BY Zenon, <1>4 DEF printfDone
  <2>2. ~Pumps(f)
    <3> HIDE DEF f
    <3> QED
      BY Zenon, <1>2, <1>4 DEF Pumps
  <2> QED
    BY Zenon, <1>1, <1>2, <2>1, <2>2, ReturnData
<1> QED
  BY Zenon, <1>2, <1>3, <1>4

LEMMA consoleintrDoneData ==
  ASSUME HartInv, DataInv, NEW h \in Harts, consoleintrDone(h)
  PROVE  DataInv'
<1> DEFINE f == Top(h)
           g == [f EXCEPT !.pc = "getc"]
<1>1. At(h, "echo") /\ Set(h, g) /\ chan' = chan /\ UNCHANGED <<cons, tx, uart, plic>>
  BY Zenon DEF consoleintrDone, Goto
<1>2. Running(h) /\ IsRecord(f) /\ f.irq = TRUE
  <2>1. "echo" \notin CallLabels
    BY Zenon DEF CallLabels
  <2> QED
    BY Zenon, <1>1, <2>1, AtFacts DEF At
<1>3. Moved(f, g, "getc")
  <2> HIDE DEF f
  <2> QED
    BY Zenon, <1>2, Edit
<1> HIDE DEF g
<1>4. g.pc # "sleep" /\ Pumps(g)
  <2> HIDE DEF f
  <2> QED
    BY Zenon, <1>2, <1>3 DEF Moved, Pumps
<1> QED
  BY Zenon, <1>1, <1>2, <1>4, SetData
-----------------------------------------------------------------------------
LEMMA uartputcData ==
  ASSUME HartInv, DataInv, NEW h \in Harts, uartputc(h)
  PROVE  DataInv'
<1> DEFINE f == Top(h)
           full == tx.w = Add64(tx.r, UART_TX_BUF_SIZE)
           g == [f EXCEPT !.pc = "start", !.s = Tail(f.s)]
           s == Push(g, Tail(frames[h]))
<1>1. At(h, "putc") /\ UNCHANGED <<cons, uart, plic>>
  BY Zenon DEF uartputc
<1>2. Running(h) /\ IsRecord(f) /\ f.pc = "putc"
  BY Zenon, <1>1, AtFacts DEF At
<1>3. SleepInv /\ PumpInv /\ Shapes /\ InputInv
  BY Zenon DEF DataInv
<1>4. CASE full
  <2>1. chan' = [chan EXCEPT ![h] = "uart_tx_r"] /\ frames' = frames /\ UNCHANGED tx
    BY Zenon, <1>4 DEF uartputc, sleep
  <2>2. ChanStep(h) /\ chan'[h] = "uart_tx_r"
    BY Zenon, <2>1, ChanSet
  <2>3. chan'[h] # "cons.r"
    <3>1. "cons.r" # "uart_tx_r"
      BY SMT
    <3> QED
      BY Zenon, <2>2, <3>1
  <2>4. ~AtSleep(frames[h])
    BY Zenon, <1>2, RunningFacts
  <2>5. Only(frames, frames', Harts, h, frames[h])
    <3>1. Only(frames, frames, Harts, h, frames[h])
      BY Zenon, MapStep DEF HartInv
    <3> QED
      BY Zenon, <2>1, <3>1
  <2>6. UNCHANGED <<cons, tx>> /\ UNCHANGED tx /\ (plic.pending => plic'.pending) /\ (uart'.fifo = <<>> => uart.fifo = <<>>)
    BY Zenon, <1>1, <2>1
  <2>7. SleepInv'
    BY Zenon, <1>3, <1>4, <2>2, <2>3, <2>4, <2>5, <2>6, SleepMoves
  <2>8. PumpInv'
    BY Zenon, <1>3, <2>5, <2>6, PumpQuiet
  <2>9. Shapes' /\ InputInv'
    BY Zenon, <1>1, <1>3, <2>1 DEF Shapes, InputInv
  <2> QED
    BY Zenon, <2>7, <2>8, <2>9 DEF DataInv
<1>5. CASE ~full
  <2> DEFINE t == [tx EXCEPT !.buf[tx.w % UART_TX_BUF_SIZE] = Head(f.s), !.w = Add64(tx.w, 1)]
  <2>1. Set(h, g) /\ chan' = chan /\ tx' = t
    BY Zenon, <1>5 DEF uartputc
  <2>2. IsTx(t)
    BY Zenon, <1>3, EditTx DEF Shapes
  <2> HIDE DEF t
  <2>3. Moved(f, g, "start")
    <3> HIDE DEF f
    <3> QED
      BY Zenon, <1>2, Edits
  <2> HIDE DEF g
  <2>4. g.pc = "start" /\ g.pc # "sleep"
    BY Zenon, <2>3 DEF Moved
  <2>5. Only(frames, frames', Harts, h, s) /\ (AtSleep(s) <=> g.pc = "sleep") /\ (Pumping(s) <=> Pumps(g))
    BY Zenon, <1>2, <2>1, TopStep
  <2> HIDE DEF s
  <2>6. ~AtSleep(s) /\ Pumping(s)
    BY Zenon, <2>4, <2>5 DEF Pumps
  <2>7. ChanStep(h) /\ Wakes(chan[h], chan'[h])
    BY Zenon, <2>1, ChanSame DEF Wakes
  <2>8. \A k \in Harts : chan'[k] # "uart_tx_r"
    BY Zenon, <1>3, <1>5, <2>1 DEF SleepInv
  <2>9. cons'.r = cons.r /\ cons'.w = cons.w
    BY Zenon, <1>1
  <2>10. SleepInv'
    BY Zenon, <1>3, <2>5, <2>6, <2>7, <2>8, <2>9, RingMoves
  <2>11. PumpInv'
    BY Zenon, <2>5, <2>6, PumpNow
  <2>12. Shapes' /\ InputInv'
    BY Zenon, <1>1, <1>3, <2>1, <2>2 DEF Shapes, InputInv
  <2> QED
    BY Zenon, <2>10, <2>11, <2>12 DEF DataInv
<1> QED
  BY Zenon, <1>4, <1>5

(* wakeup() leaves nobody asleep. *)
LEMMA NobodySleeps ==
  ASSUME NEW ch \in {"cons.r", "uart_tx_r"}, chan' = wakeup(ch)
  PROVE  \A k \in Harts : chan'[k] # ch
<1>1. "woken" # ch
  BY SMT
<1> QED
  BY Zenon, <1>1 DEF wakeup

LEMMA uartstartData ==
  ASSUME HartInv, DataInv, NEW h \in Harts, uartstart(h)
  PROVE  DataInv'
<1> DEFINE f == Top(h)
           x == tx.buf[tx.r % UART_TX_BUF_SIZE]
           g == [f EXCEPT !.pc = "send", !.c = x]
           s == Push(g, Tail(frames[h]))
           t == [tx EXCEPT !.r = Add64(tx.r, 1), !.buf[tx.r % UART_TX_BUF_SIZE] = "NUL"]
<1>1. /\ At(h, "start") /\ Set(h, g) /\ chan' = wakeup("uart_tx_r") /\ tx' = t
      /\ UNCHANGED <<cons, uart, plic>>
  BY Zenon DEF uartstart
<1>2. Running(h) /\ IsRecord(f)
  BY Zenon, <1>1, AtFacts DEF At
<1>3. SleepInv /\ PumpInv /\ Shapes /\ InputInv
  BY Zenon DEF DataInv
<1>4. IsTx(t)
  BY Zenon, <1>3, EditTx DEF Shapes
<1> HIDE DEF t, x
<1>5. Moved(f, g, "send")
  <2> HIDE DEF f
  <2> QED
    BY Zenon, <1>2, Edits
<1> HIDE DEF g
<1>6. g.pc = "send" /\ g.pc # "sleep"
  BY Zenon, <1>5 DEF Moved
<1>7. Only(frames, frames', Harts, h, s) /\ (AtSleep(s) <=> g.pc = "sleep") /\ (Pumping(s) <=> Pumps(g))
  BY Zenon, <1>1, <1>2, TopStep
<1> HIDE DEF s
<1>8. ~AtSleep(s) /\ Pumping(s)
  BY Zenon, <1>6, <1>7 DEF Pumps
<1>9. ChanStep(h) /\ Wakes(chan[h], chan'[h])
  BY Zenon, <1>1, ChanWakeup
<1>10. \A k \in Harts : chan'[k] # "uart_tx_r"
  BY Zenon, <1>1, NobodySleeps
<1>11. cons'.r = cons.r /\ cons'.w = cons.w
  BY Zenon, <1>1
<1>12. SleepInv'
  BY Zenon, <1>3, <1>7, <1>8, <1>9, <1>10, <1>11, RingMoves
<1>13. PumpInv'
  BY Zenon, <1>7, <1>8, PumpNow
<1>14. Shapes' /\ InputInv'
  BY Zenon, <1>1, <1>3, <1>4 DEF Shapes, InputInv
<1> QED
  BY Zenon, <1>12, <1>13, <1>14 DEF DataInv

LEMMA uartintrData ==
  ASSUME HartInv, DataInv, NEW h \in Harts, uartintr(h)
  PROVE  DataInv'
<1> DEFINE b == Tail(frames[h])
           l == IF uart.rx THEN "cons.lock" ELSE "uart_tx_lock"
           p == IF uart.rx THEN "consoleintr" ELSE "start"
           g == Frame(p, TRUE)
           s == Push(MarkFrame(g, l), b)
           u == [uart EXCEPT !.rx = FALSE]
<1>1. At(h, "getc") /\ acquire(h, l, Push(g, b)) /\ chan' = chan /\ uart' = u /\ UNCHANGED <<cons, tx, plic>>
  BY Zenon DEF uartintr
<1>2. IsUart(u) /\ u.fifo = uart.fifo /\ IsSeq(uart.fifo)
  BY Zenon, EditUart DEF DataInv, Shapes
<1> HIDE DEF u
<1>3. Base(b)
  <2>1. RunsAt(h, b, Top(h))
    BY Zenon, <1>1, AtFacts
  <2> QED
    BY Zenon, <2>1 DEF RunsAt
<1>4. p \notin {"sleep", "complete"}
  BY Zenon
<1> HIDE DEF b, l, p
<1>5. IsRecord(g) /\ g.pc = p /\ g.irq = TRUE
  BY Zenon, NewFrame
<1> HIDE DEF g
<1>6. Only(frames, frames', Harts, h, s) /\ (AtSleep(s) <=> g.pc = "sleep") /\ (Pumping(s) <=> Pumps(g))
  BY Zenon, <1>1, <1>3, <1>5, TopAcquire
<1> HIDE DEF s
<1>7. ~AtSleep(s) /\ Pumping(s)
  BY Zenon, <1>4, <1>5, <1>6 DEF Pumps
<1>8. GoesOn(h, s)
  BY Zenon, <1>1, <1>6, <1>7, ChanSame DEF GoesOn
<1>9. PumpInv'
  BY Zenon, <1>6, <1>7, PumpNow
<1>10. IsUart(uart') /\ IsSeq(uart'.fifo) /\ UNCHANGED <<cons, tx>> /\ UNCHANGED plic
  BY Zenon, <1>1, <1>2
<1> QED
  BY Zenon, <1>8, <1>9, <1>10, Quiet
-----------------------------------------------------------------------------
(* consoleintr(): what becomes of the ring, and who sleeps on it. *)
Edited(h) ==
  /\ IsCons(cons') /\ InputInv'
  /\ ChanStep(h) /\ Wakes(chan[h], chan'[h])
  /\ \/ cons'.r = cons.r /\ cons'.w = cons.w
     \/ \A k \in Harts : chan'[k] # "cons.r"

LEMMA consoleintrRing ==
  ASSUME DataInv, HartInv, NatMin, NEW h \in Harts, consoleintr(h)
  PROVE  Edited(h)
<1> DEFINE e == Add(cons.e, 1)
           commit(c) == c \in {"NL", "EOF"} \/ e = Add(cons.r, INPUT_BUF)
           w(c) == IF commit(c) THEN e ELSE cons.w
           z(c) == [cons EXCEPT !.buf[cons.e % INPUT_BUF] = c, !.e = e, !.w = w(c)]
           y(c) == Clear(cons.r, cons.w, Sub(cons.e, Erased(c)), cons.buf)
<1>1. \E c : /\ cons' = IF Stored(c) THEN z(c) ELSE y(c)
             /\ chan' = IF Stored(c) /\ commit(c) THEN wakeup("cons.r") ELSE chan
  BY Zenon DEF consoleintr
<1>2. PICK c : /\ cons' = IF Stored(c) THEN z(c) ELSE y(c)
               /\ chan' = IF Stored(c) /\ commit(c) THEN wakeup("cons.r") ELSE chan
  BY Zenon, <1>1
<1>3. Input(cons.r, cons.w, cons.e) /\ IsCons(cons)
  BY Zenon DEF DataInv, InputInv, Shapes
<1>4. ChanStep(h) /\ Wakes(chan[h], chan'[h])
  BY Zenon, <1>2, ChanSame, ChanWakeup DEF Wakes
<1>5. CASE Stored(c)
  <2> DEFINE v == w(c)
             u == z(c)
  <2>1. cons' = u /\ chan' = IF commit(c) THEN wakeup("cons.r") ELSE chan
    BY Zenon, <1>2, <1>5
  <2>2. IsCons(u) /\ u.r = cons.r /\ u.w = v /\ u.e = e
    <3> HIDE DEF v, e
    <3>1. u = ConsWith(cons, cons.e % INPUT_BUF, c, e, v)
      BY Zenon DEF v, ConsWith
    <3> HIDE DEF u
    <3>2. IsConsOf(u, cons.r, v, e)
      BY Zenon, <1>3, <3>1, EditCons
    <3> QED
      BY Zenon, <3>2 DEF IsConsOf
  <2> HIDE DEF u
  <2>3. IsCons(cons') /\ cons'.r = cons.r /\ cons'.w = v /\ cons'.e = e
    BY Zenon, <2>1, <2>2
  <2>4. Input(cons.r, e, e) /\ (e # Add(cons.r, INPUT_BUF) => Input(cons.r, cons.w, e))
    BY Zenon, <1>3, <1>5, InputStore DEF Stored
  <2>5. Input(cons.r, v, e)
    <3> HIDE DEF e
    <3> QED
      BY Zenon, <2>4
  <2>6. InputInv'
    BY Zenon, <2>3, <2>5 DEF InputInv
  <2>7. \/ cons'.r = cons.r /\ cons'.w = cons.w
        \/ \A k \in Harts : chan'[k] # "cons.r"
    <3>1. CASE commit(c)
      BY Zenon, <2>1, <3>1, NobodySleeps
    <3>2. CASE ~commit(c)
      BY Zenon, <2>3, <3>2
    <3> QED
      BY Zenon, <3>1, <3>2
  <2> QED
    BY Zenon, <1>4, <2>3, <2>6, <2>7 DEF Edited
<1>6. CASE ~Stored(c)
  <2> DEFINE k == Erased(c)
             u == y(c)
  <2>1. cons' = u
    BY Zenon, <1>2, <1>6
  <2>2. k \in 0 .. Sub(cons.e, cons.w)
    BY Zenon, ErasedBound DEF DataInv
  <2>3. Input(cons.r, cons.w, Sub(cons.e, k))
    <3> HIDE DEF k
    <3> QED
      BY Zenon, <1>3, <2>2, InputErase
  <2>4. IsCons(u) /\ u.r = cons.r /\ u.w = cons.w /\ u.e = Sub(cons.e, k)
    BY SMT, ClearFields
  <2> HIDE DEF u, k
  <2>5. IsCons(cons') /\ cons'.r = cons.r /\ cons'.w = cons.w /\ cons'.e = Sub(cons.e, k)
    BY Zenon, <2>1, <2>4
  <2>6. InputInv'
    BY Zenon, <2>3, <2>5 DEF InputInv
  <2> QED
    BY Zenon, <1>4, <2>5, <2>6 DEF Edited
<1> QED
  BY Zenon, <1>5, <1>6

LEMMA consoleintrData ==
  ASSUME HartInv, DataInv, NatMin, NEW h \in Harts, consoleintr(h)
  PROVE  DataInv'
<1> DEFINE b == Tail(frames[h])
           d == [Frame("printf", TRUE) EXCEPT !.s = <<"e">>]
           e(x) == [Frame("echo", TRUE) EXCEPT !.s = x]
<1>1. At(h, "consoleintr") /\ UNCHANGED <<tx, uart, plic>>
  BY Zenon DEF consoleintr
<1>2. acquire(h, "pr.lock", Push(d, b)) \/ \E x : Set(h, e(x))
  BY Zenon DEF consoleintr
<1>3. Running(h) /\ RunsAt(h, b, Top(h))
  BY Zenon, <1>1, AtFacts DEF At
<1>4. Base(b)
  BY Zenon, <1>3 DEF RunsAt
<1>5. \E s : Only(frames, frames', Harts, h, s) /\ ~AtSleep(s) /\ Pumping(s)
  <2>1. CASE acquire(h, "pr.lock", Push(d, b))
    <3>1. Fresh(d, "printf", TRUE)
      BY Zenon, FirstFrame
    <3> HIDE DEF b, d
    <3> DEFINE s == Push(MarkFrame(d, "pr.lock"), b)
    <3>2. IsRecord(d) /\ d.irq = TRUE /\ d.pc = "printf"
      BY Zenon, <3>1 DEF Fresh
    <3>3. Only(frames, frames', Harts, h, s) /\ (AtSleep(s) <=> d.pc = "sleep") /\ (Pumping(s) <=> Pumps(d))
      BY Zenon, <1>4, <2>1, <3>2, TopAcquire
    <3> HIDE DEF s
    <3>4. ~AtSleep(s) /\ Pumping(s)
      BY Zenon, <3>2, <3>3 DEF Pumps
    <3> QED
      BY Zenon, <3>3, <3>4
  <2>2. ASSUME NEW x, Set(h, e(x))
        PROVE  \E s : Only(frames, frames', Harts, h, s) /\ ~AtSleep(s) /\ Pumping(s)
    <3> DEFINE g == e(x)
               s == Push(g, Tail(frames[h]))
    <3>1. Fresh(g, "echo", TRUE)
      BY Zenon, FirstFrame
    <3>2. Set(h, g)
      BY Zenon, <2>2
    <3> HIDE DEF g
    <3>3. g.irq = TRUE /\ g.pc = "echo"
      BY Zenon, <3>1 DEF Fresh
    <3>4. Only(frames, frames', Harts, h, s) /\ (AtSleep(s) <=> g.pc = "sleep") /\ (Pumping(s) <=> Pumps(g))
      BY Zenon, <1>3, <3>2, TopStep
    <3> HIDE DEF s
    <3>5. ~AtSleep(s) /\ Pumping(s)
      BY Zenon, <3>3, <3>4 DEF Pumps
    <3> QED
      BY Zenon, <3>4, <3>5
  <2> QED
    BY Zenon, <1>2, <2>1, <2>2
<1>6. PICK s : Only(frames, frames', Harts, h, s) /\ ~AtSleep(s) /\ Pumping(s)
  BY Zenon, <1>5
<1>7. Edited(h)
  BY Zenon, consoleintrRing
<1>8. SleepInv /\ Shapes
  BY Zenon DEF DataInv
<1>9. SleepInv'
  <2>1. \A g \in Harts : ~AtSleep(frames[g])
    BY Zenon, <1>1, <1>8, consoleintrAlone
  <2>2. \/ cons'.r = cons.r /\ cons'.w = cons.w
        \/ \A g \in Harts : chan'[g] # "cons.r" /\ (g # h => ~AtSleep(frames[g]))
    BY Zenon, <1>7, <2>1 DEF Edited
  <2>3. ChanStep(h) /\ Wakes(chan[h], chan'[h]) /\ UNCHANGED tx
    BY Zenon, <1>1, <1>7 DEF Edited
  <2> QED
    BY Zenon, <1>6, <1>8, <2>2, <2>3, RingMoves
<1>10. PumpInv'
  BY Zenon, <1>6, PumpNow
<1>11. Shapes' /\ InputInv'
  BY Zenon, <1>1, <1>7, <1>8 DEF Shapes, Edited
<1> QED
  BY Zenon, <1>9, <1>10, <1>11 DEF DataInv
-----------------------------------------------------------------------------
LEMMA devintrData ==
  ASSUME HartInv, DataInv, NEW h \in Harts, devintr(h)
  PROVE  DataInv'
<1> DEFINE b == frames[h]
           g == Frame("getc", TRUE)
           p == [pending |-> FALSE, claimed |-> TRUE]
<1>1. /\ cpu[h].intr /\ frames' = [frames EXCEPT ![h] = Push(g, b)] /\ plic' = p
      /\ chan' = chan /\ UNCHANGED <<cons, tx, uart>>
  BY Zenon DEF devintr
<1>2. IsPlic(p)
  BY Zenon, NewPlic
<1> HIDE DEF p
<1>3. HartOK(b, cpu[h], chan[h]) /\ \A l \in Locks : lock[l] = h <=> Has(b, chan[h], l)
  BY Zenon DEF HartInv
<1> HIDE DEF b
<1>4. Below(b, chan[h])
  BY Zenon, <1>1, <1>3, IntrOn
<1>5. Base(b)
  BY Zenon, <1>4 DEF Below, Base
<1>6. Only(frames, frames', Harts, h, Push(g, b))
  BY Zenon, <1>1, MapStep DEF HartInv
<1>7. g.pc = "getc" /\ g.irq = TRUE
  BY Zenon, NewFrame
<1> HIDE DEF g
<1>8. Head(Push(g, b)) = g /\ Push(g, b) # <<>>
  BY Zenon, <1>5, Stacks
<1>9. ~AtSleep(Push(g, b)) /\ Pumping(Push(g, b))
  BY Zenon, <1>7, <1>8 DEF AtSleep, Pumping, Pumps
<1>10. GoesOn(h, Push(g, b))
  BY Zenon, <1>1, <1>6, <1>9, ChanSame DEF GoesOn
<1>11. PumpInv'
  BY Zenon, <1>6, <1>9, PumpNow
<1>12. IsPlic(plic') /\ UNCHANGED <<cons, tx>> /\ UNCHANGED uart
  BY Zenon, <1>1, <1>2
<1> QED
  BY Zenon, <1>10, <1>11, <1>12, Quiet

(* What an interrupt came upon was not about to sleep. *)
LEMMA BelowAwake ==
  ASSUME NEW b, NEW ch, Below(b, ch)
  PROVE  ~AtSleep(b)
<1> DEFINE f == b[1]
<1>1. CASE b = <<>>
  BY Zenon, <1>1 DEF AtSleep
<1>2. CASE b = <<f>> /\ f.pc \in {"write", "read", "putc"}
  <2> HIDE DEF f
  <2>1. Head(b) = f
    BY Zenon, <1>2, StackShapes
  <2> QED
    BY Zenon, <1>2, <2>1 DEF AtSleep
<1> QED
  BY Zenon, <1>1, <1>2 DEF Below, Sleeper

LEMMA devintrDoneData ==
  ASSUME HartInv, DataInv, NEW h \in Harts, devintrDone(h)
  PROVE  DataInv'
<1> DEFINE b == Tail(frames[h])
           f == Top(h)
           p == [plic EXCEPT !.claimed = FALSE]
<1>1. /\ At(h, "complete") /\ frames' = [frames EXCEPT ![h] = b] /\ plic' = p
      /\ chan' = chan /\ UNCHANGED <<cons, tx, uart>>
  BY Zenon DEF devintrDone
<1>2. RunsAt(h, b, f) /\ f.pc = "complete" /\ f.irq = TRUE /\ Running(h)
  <2>1. "complete" \notin CallLabels
    BY Zenon DEF CallLabels
  <2> QED
    BY Zenon, <1>1, <2>1, AtFacts DEF At
<1>3. IsPlic(p) /\ p.pending = plic.pending
  BY Zenon, EditPlic DEF DataInv, Shapes
<1> HIDE DEF p
<1>4. ~Pumping(frames[h])
  <2>1. Pumping(frames[h]) <=> Pumps(f)
    BY Zenon, <1>2, RunningFacts
  <2> HIDE DEF f
  <2> QED
    BY Zenon, <1>2, <2>1 DEF Pumps
<1> HIDE DEF b, f
<1>5. Below(b, chan[h])
  BY Zenon, <1>2 DEF RunsAt, Runs, Works, CallFrame, Handles
<1>6. ~AtSleep(b)
  BY Zenon, <1>5, BelowAwake
<1>7. Only(frames, frames', Harts, h, b)
  BY Zenon, <1>1, MapStep DEF HartInv
<1>8. GoesOn(h, b)
  BY Zenon, <1>1, <1>6, <1>7, ChanSame DEF GoesOn
<1>9. PumpInv'
  <2>1. (plic.pending => plic'.pending) /\ (uart'.fifo = <<>> => uart.fifo = <<>>) /\ UNCHANGED tx /\ PumpInv
    BY Zenon, <1>1, <1>3 DEF DataInv
  <2> QED
    BY Zenon, <1>4, <1>7, <2>1, PumpQuiet
<1>10. IsPlic(plic') /\ UNCHANGED <<cons, tx>> /\ UNCHANGED uart
  BY Zenon, <1>1, <1>3
<1> QED
  BY Zenon, <1>8, <1>9, <1>10, Quiet

(* A step that changes only the UART and its interrupt. *)
LEMMA DeviceData ==
  ASSUME DataInv, UNCHANGED <<cons, tx, frames, chan>>, IsUart(uart'), IsSeq(uart'.fifo), IsPlic(plic'),
         plic.pending => plic'.pending, uart.fifo # <<>> => plic'.pending \/ uart'.fifo # <<>>
  PROVE  DataInv'
<1>1. cons' = cons /\ tx' = tx /\ frames' = frames /\ chan' = chan
  BY Zenon
<1>2. Shapes' /\ InputInv'
  BY Zenon, <1>1 DEF DataInv, Shapes, InputInv
<1>3. SleepInv'
  BY Zenon, <1>1 DEF DataInv, SleepInv
<1>4. PumpInv'
  BY Zenon, <1>1 DEF DataInv, PumpInv
<1> QED
  BY Zenon, <1>2, <1>3, <1>4 DEF DataInv

LEMMA ReceiveData ==
  ASSUME DataInv, Receive
  PROVE  DataInv'
<1> DEFINE u == [uart EXCEPT !.rx = TRUE]
           p == [plic EXCEPT !.pending = TRUE]
<1>1. uart' = u /\ plic' = p /\ UNCHANGED <<cons, tx, frames, chan>>
  BY Zenon DEF Receive
<1>2. IsUart(uart) /\ IsPlic(plic) /\ IsSeq(uart.fifo)
  BY Zenon DEF DataInv, Shapes
<1>3. IsUart(u) /\ u.fifo = uart.fifo
  BY Zenon, <1>2, EditUart
<1>4. IsPlic(p) /\ p.pending = TRUE
  BY Zenon, <1>2, EditPlic
<1> HIDE DEF u, p
<1>5. IsUart(uart') /\ IsSeq(uart'.fifo) /\ IsPlic(plic') /\ plic'.pending
  BY Zenon, <1>1, <1>2, <1>3, <1>4
<1> QED
  BY Zenon, <1>1, <1>5, DeviceData

LEMMA TransmitData ==
  ASSUME DataInv, Transmit
  PROVE  DataInv'
<1> DEFINE x == Tail(uart.fifo)
           y == plic.pending \/ Len(uart.fifo) = 1
           u == [uart EXCEPT !.fifo = x]
           p == [plic EXCEPT !.pending = y]
<1>1. uart.fifo # <<>> /\ uart' = u /\ plic' = p /\ UNCHANGED <<cons, tx, frames, chan>>
  BY Zenon DEF Transmit
<1>2. IsUart(uart) /\ IsPlic(plic) /\ IsSeq(uart.fifo)
  BY Zenon DEF DataInv, Shapes
<1>3. IsSeq(x) /\ (x = <<>> => y) /\ (plic.pending => y)
  BY Zenon, <1>1, <1>2, Fifos
<1> HIDE DEF x, y
<1>4. IsUart(u) /\ u.fifo = x
  BY Zenon, <1>2, EditUart
<1>5. IsPlic(p) /\ p.pending = y
  BY Zenon, <1>2, EditPlic
<1> HIDE DEF u, p
<1>6. /\ IsUart(uart') /\ IsSeq(uart'.fifo) /\ IsPlic(plic') /\ (plic.pending => plic'.pending)
      /\ plic'.pending \/ uart'.fifo # <<>>
  BY Zenon, <1>1, <1>3, <1>4, <1>5
<1> QED
  BY Zenon, <1>1, <1>6, DeviceData

LEMMA DataInit ==
  ASSUME Init
  PROVE  DataInv
<1> DEFINE c == [buf |-> [i \in 0 .. INPUT_BUF - 1 |-> "NUL"], r |-> FirstIndex, w |-> FirstIndex, e |-> FirstIndex]
           k == FirstIndex % Uint64Range
           t == [buf |-> [i \in 0 .. UART_TX_BUF_SIZE - 1 |-> "NUL"], r |-> k, w |-> k]
           u == [fifo |-> <<>>, rx |-> FALSE]
           p == [pending |-> FALSE, claimed |-> FALSE]
<1>1. /\ cons = c /\ tx = t /\ uart = u /\ plic = p
      /\ frames = [h \in Harts |-> <<>>] /\ chan = [h \in Harts |-> "none"]
  BY Zenon DEF Init
<1>2. IsCons(c) /\ c.r = FirstIndex /\ c.w = FirstIndex /\ c.e = FirstIndex
  BY SMT DEF IsCons
<1>3. IsTx(t) /\ t.w = t.r
  <2> HIDE DEF k
  <2> QED
    BY SMT DEF IsTx
<1>4. IsUart(u) /\ u.fifo = <<>>
  BY SMT DEF IsUart
<1>5. IsPlic(p)
  BY SMT DEF IsPlic
<1>6. IsSeq(<<>>)
  BY SMT DEF IsSeq
<1> HIDE DEF c, t, u, p
<1>7. Shapes
  BY Zenon, <1>1, <1>2, <1>3, <1>4, <1>5, <1>6 DEF Shapes
<1>8. \A h \in Harts : frames[h] = <<>> /\ chan[h] = "none"
  BY Zenon, <1>1
<1>9. SleepInv
  BY Zenon, <1>8 DEF SleepInv, AtSleep
<1>10. PumpInv
  BY Zenon, <1>1, <1>3 DEF PumpInv
<1>11. Input(FirstIndex, FirstIndex, FirstIndex)
  <2>1. FirstIndex \in 0 .. UintRange - 1
    BY Zenon, ConsoleConstants
  <2>2. 0 \in 0 .. INPUT_BUF /\ 0 + 0 <= INPUT_BUF /\ 0 + 0 = 0
    BY SMT, Sizes
  <2>3. Add(FirstIndex, 0) = FirstIndex
    BY Zenon, <2>1, <2>2, AddTwice DEF Near
  <2> QED
    BY Zenon, <2>1, <2>2, <2>3, InputIs
<1>12. InputInv
  BY Zenon, <1>1, <1>2, <1>11 DEF InputInv
<1> QED
  BY Zenon, <1>7, <1>9, <1>10, <1>12 DEF DataInv
-----------------------------------------------------------------------------
LEMMA DataStep ==
  ASSUME HartInv, DataInv, NatMin, [Next]_vars
  PROVE  DataInv'
<1>1. ASSUME NEW h \in Harts, Hart(h)
      PROVE  DataInv'
  <2>1. CASE Swap(h) \/ Resume(h) \/ Kill(h)
    BY Zenon, <2>1, SwapData, ResumeData, KillData
  <2>2. CASE devintr(h) \/ devintrDone(h)
    BY Zenon, <2>2, devintrData, devintrDoneData
  <2>3. CASE \E op \in Calls[h] : Call(h, op)
    BY Zenon, <2>3, CallData
  <2>4. CASE readWait(h) \/ readSleep(h) \/ readTake(h)
    BY Zenon, <2>4, readWaitData, readSleepData, readTakeData
  <2>5. CASE consolewrite(h) \/ uartputc(h)
    BY Zenon, <2>5, consolewriteData, uartputcData
  <2>6. CASE uartstartReturn(h) \/ uartstart(h) \/ uartstartSend(h)
    BY Zenon, <2>6, uartstartReturnData, uartstartData, uartstartSendData
  <2>7. CASE uartputc_sync(h) \/ uartputc_syncSend(h) \/ printfDone(h)
    BY Zenon, <2>7, uartputc_syncData, uartputc_syncSendData, printfDoneData
  <2>8. CASE uartintr(h) \/ consoleintr(h) \/ consoleintrDone(h)
    BY Zenon, <2>8, uartintrData, consoleintrData, consoleintrDoneData
  <2> QED
    BY Zenon, <1>1, <2>1, <2>2, <2>3, <2>4, <2>5, <2>6, <2>7, <2>8 DEF Hart
<1>2. CASE UNCHANGED vars
  <2>1. UNCHANGED <<cons, tx, frames, chan>> /\ uart' = uart /\ plic' = plic
    BY Zenon, <1>2 DEF vars
  <2>2. IsUart(uart') /\ IsSeq(uart'.fifo) /\ IsPlic(plic')
    BY Zenon, <2>1 DEF DataInv, Shapes
  <2> QED
    BY Zenon, <2>1, <2>2, DeviceData
<1> QED
  BY Zenon, <1>1, <1>2, ReceiveData, TransmitData DEF Next

(* The first frame of a stack is one of its frames. *)
LEMMA FirstOf ==
  ASSUME HartInv, NEW h \in Harts, frames[h] # <<>>
  PROVE  1 \in DOMAIN frames[h] /\ frames[h][1] = Head(frames[h])
<1> DEFINE s == frames[h]
           f == Head(s)
           b == Tail(s)
<1>1. HartOK(s, cpu[h], chan[h])
  BY Zenon DEF HartInv
<1>2. s = Push(f, b) /\ (Sleeps(b, f, cpu[h], chan[h]) \/ Runs(b, f, cpu[h], chan[h]))
  BY Zenon, <1>1 DEF HartOK, Idles
<1> HIDE DEF s, f, b
<1>3. Base(b)
  BY Zenon, <1>2 DEF Sleeps, Runs, Works, Handles, Below, Base
<1>4. 1 \in DOMAIN Push(f, b) /\ Push(f, b)[1] = f
  <2>1. CASE b = <<>>
    <3>1. 1 \in DOMAIN <<f>> /\ <<f>>[1] = f /\ Push(f, <<>>) = <<f>>
      BY SMT DEF Push
    <3> QED
      BY Zenon, <2>1, <3>1
  <2>2. CASE b = <<b[1]>>
    <3> DEFINE g == b[1]
    <3>1. b = <<g>>
      BY Zenon, <2>2
    <3> HIDE DEF g
    <3>2. Push(f, <<g>>) = <<f, g>>
      BY Zenon, StackShapes
    <3>3. 1 \in DOMAIN <<f, g>> /\ <<f, g>>[1] = f
      BY SMT
    <3> QED
      BY Zenon, <3>1, <3>2, <3>3
  <2> QED
    BY Zenon, <1>3, <2>1, <2>2 DEF Base
<1>5. 1 \in DOMAIN s /\ s[1] = f
  BY Zenon, <1>2, <1>4
<1> QED
  BY Zenon, <1>5 DEF s, f
-----------------------------------------------------------------------------
INSTANCE NaturalsInduction
INSTANCE WellFoundedInduction

LEMMA NatMinHolds == NatMin
<1> SUFFICES ASSUME NEW T \in SUBSET Nat, T # {} PROVE \E x \in T : \A y \in T : x <= y
  BY Zenon DEF NatMin
<1> DEFINE Less == {ss \in Nat \X Nat : ss[1] < ss[2]}
<1>1. IsWellFoundedOn(Less, Nat)
  BY Zenon, NatLessThanWellFounded DEF OpToRel
<1> HIDE DEF Less
<1>2. PICK x \in T : \A y \in T : ~(<<y, x>> \in Less)
  BY Zenon, <1>1, WFMin
<1> USE DEF Less
<1>3. ASSUME NEW y \in T PROVE x <= y
  <2>1. ~(<<y, x>> \in Less)
    BY Zenon, <1>2
  <2> QED
    BY SMT, <2>1
<1> QED
  BY Zenon, <1>3

(* A process sleeps only for what is not there yet, somebody is on the way *)
(* to uartstart() for what waits in uart_tx_buf, and r, w and e of cons    *)
(* are in their order, whatever wraps (console.c, uart.c).                 *)
THEOREM ConsoleInductive == Spec => []IInv
<1>1. Init => IInv
  BY HartsInit, DataInit DEF IInv
<1>2. IInv /\ [Next]_vars => IInv'
  <2> SUFFICES ASSUME HartInv, DataInv, [Next]_vars PROVE IInv'
    BY Zenon DEF IInv
  <2>1. HartInv'
    BY Zenon, HartsStep
  <2>2. DataInv'
    BY Zenon, NatMinHolds, DataStep
  <2> QED
    BY Zenon, <2>1, <2>2 DEF IInv
<1> QED
  BY <1>1, <1>2, PTL DEF Spec

(* No wakeup and no interrupt of the console is lost: consoleread() sleeps *)
(* only while no line is ready, uartputc() only while uart_tx_buf is full, *)
(* what is in it will be sent, and a full input buffer can be read, with   *)
(* any number of harts and rings of any size.                              *)
THEOREM NoWakeupLost == Spec => []NothingStuck
<1>1. IInv => NothingStuck
  <2> SUFFICES ASSUME HartInv, DataInv PROVE NothingStuck
    BY Zenon DEF IInv
  <2>1. ASSUME NEW h \in Harts, Pumping(frames[h])
        PROVE  \E i \in DOMAIN frames[h] : Pumps(frames[h][i])
    <3>1. frames[h] # <<>> /\ Pumps(Head(frames[h]))
      BY Zenon, <2>1 DEF Pumping
    <3> QED
      BY Zenon, <3>1, FirstOf
  <2>2. tx.w # tx.r => \/ plic.pending \/ uart.fifo # <<>>
                       \/ \E h \in Harts : \E i \in DOMAIN frames[h] : Pumps(frames[h][i])
    BY Zenon, <2>1 DEF DataInv, PumpInv
  <2>3. Sub(cons.e, cons.r) = INPUT_BUF => cons.w = cons.e
    <3>1. PICK a, b \in 0 .. INPUT_BUF : Lens(cons.r, cons.w, cons.e, a, b)
      BY Zenon, InputLens DEF DataInv, InputInv
    <3> QED
      BY Zenon, <3>1 DEF Lens
  <2>4. /\ \A h \in Harts : chan[h] = "cons.r" => cons.r = cons.w
        /\ \A h \in Harts : chan[h] = "uart_tx_r" => tx.w = Add64(tx.r, UART_TX_BUF_SIZE)
    BY Zenon DEF DataInv, SleepInv
  <2> QED
    BY Zenon, <2>2, <2>3, <2>4 DEF NothingStuck, Pumps
<1> QED
  BY <1>1, ConsoleInductive, PTL
=============================================================================
