------------------------------ MODULE Console -------------------------------
(***************************************************************************)
(* The console: read() and write() in kernel/console.c, the driver in      *)
(* kernel/uart.c, printf(), the spinlocks they take with push_off() and    *)
(* pop_off(), and the interrupts that devintr() takes on any hart that has *)
(* them enabled.                                                           *)
(*                                                                         *)
(* A hart has a stack of frames: a system call of its process, and above   *)
(* it, or above the idle loop while the process sleeps, an interrupt.      *)
(* acquire() is two steps, push_off() at the end of the step before it and *)
(* the swap, so that a hart is seen to spin.                               *)
(***************************************************************************)
EXTENDS Integers, Sequences, FiniteSets

CONSTANTS
  Harts,            \* the harts; one process runs on each
  Calls,            \* the system calls of each: "read", "write", "printf"
  Victims,          \* the harts whose processes are killed
  Typed,            \* the characters that are typed
  Data,             \* what a write() writes
  ReadLen,          \* the n of a read()
  INPUT_BUF, UART_TX_BUF_SIZE,
  FifoDepth,        \* of the transmitter
  UintRange,        \* 2^32 in the code: where the indexes of cons wrap
  Uint64Range,      \* 2^64 in the code: where uart_tx_r and uart_tx_w wrap
  FirstIndex        \* of both rings: 0 after the boot, anything in a console in use

ASSUME ConsoleConstants ==
  /\ "free" \notin Harts /\ Calls \in [Harts -> SUBSET {"read", "write", "printf"}]
  /\ INPUT_BUF \in Nat \ {0} /\ UART_TX_BUF_SIZE \in Nat \ {0}
  /\ UintRange \in Nat /\ UintRange % INPUT_BUF = 0 /\ UintRange > INPUT_BUF
  /\ Uint64Range \in Nat /\ Uint64Range % UART_TX_BUF_SIZE = 0 /\ Uint64Range > UART_TX_BUF_SIZE
  /\ FirstIndex \in 0 .. UintRange - 1
  /\ FifoDepth \in Nat /\ FifoDepth >= Cardinality(Harts)

VARIABLES
  cons,     \* [buf, r, w, e]
  tx,       \* uart_tx_buf, uart_tx_r, uart_tx_w: [buf, r, w]
  lock,     \* cons.lock, uart_tx_lock and pr.lock: the hart that holds it, or "free"
  cpu,      \* of each hart: [intr, noff, intena], intr being SIE in sstatus
  frames,   \* of each hart, the first one running
  chan,     \* of each process: what it sleeps on, "none", or "woken"
  killed,   \* p->killed
  uart,     \* [fifo, rx]: what waits to be transmitted, whether a character was received
  plic,     \* [pending, claimed]: the interrupt of the UART
  panicked

vars == <<cons, tx, lock, cpu, frames, chan, killed, uart, plic, panicked>>

Locks == {"cons.lock", "uart_tx_lock", "pr.lock"}
Add(i, k) == (i + k) % UintRange
Sub(i, k) == (i - k) % UintRange
Add64(i, k) == (i + k) % Uint64Range

(* A frame: where it is, whether it is an interrupt, the lock that acquire() *)
(* spins for, characters to put out, a character, and what is left to read.  *)
Frame(pc, irq) == [pc |-> pc, irq |-> irq, want |-> "none", s |-> <<>>, c |-> "NUL", n |-> 0]

(* consoleinit(), uartinit(); with a FirstIndex other than 0, a later time when *)
(* nothing is typed, read or written.                                           *)
Init ==
  /\ cons = [buf |-> [i \in 0 .. INPUT_BUF - 1 |-> "NUL"], r |-> FirstIndex, w |-> FirstIndex, e |-> FirstIndex]
  /\ tx = [buf |-> [i \in 0 .. UART_TX_BUF_SIZE - 1 |-> "NUL"],
           r |-> FirstIndex % Uint64Range, w |-> FirstIndex % Uint64Range]
  /\ lock = [l \in Locks |-> "free"]
  /\ cpu = [h \in Harts |-> [intr |-> TRUE, noff |-> 0, intena |-> FALSE]]
  /\ frames = [h \in Harts |-> <<>>]
  /\ chan = [h \in Harts |-> "none"]
  /\ killed = [h \in Harts |-> FALSE]
  /\ uart = [fifo |-> <<>>, rx |-> FALSE]
  /\ plic = [pending |-> FALSE, claimed |-> FALSE]
  /\ panicked = FALSE
-----------------------------------------------------------------------------
(* spinlock.c. *)

push_off(c) ==
  [intr |-> FALSE, noff |-> c.noff + 1, intena |-> IF c.noff = 0 THEN c.intr ELSE c.intena]

(* Mutant: the count is not looked at. *)
pop_offEarly(c) == [c EXCEPT !.noff = @ - 1, !.intr = @ \/ c.intena]

(* intena has no meaning when noff is 0, where the model makes it FALSE. *)
pop_off(c) ==
  IF c.noff = 1 THEN [intr |-> c.intr \/ c.intena, noff |-> 0, intena |-> FALSE]
  ELSE [c EXCEPT !.noff = @ - 1]
PopPanics(c) == c.intr \/ c.noff < 1

holding(l, h) == lock[l] = h

Push(f, stack) == <<f>> \o stack
Top(h) == Head(frames[h])
Bottom(h) == frames[h][Len(frames[h])]
Running(h) == ~panicked /\ frames[h] # <<>> /\ (Top(h).irq \/ chan[h] = "none")
At(h, pc) == Running(h) /\ Top(h).pc = pc /\ Top(h).want = "none"
Set(h, f) == frames' = [frames EXCEPT ![h] = Push(f, Tail(@))]
Goto(h, pc) == Set(h, [Top(h) EXCEPT !.pc = pc])

(* acquire() up to its loop; stack is the stack that goes on. *)
acquire(h, l, stack) ==
  /\ frames' = [frames EXCEPT ![h] = [stack EXCEPT ![1].want = l]]
  /\ cpu' = [cpu EXCEPT ![h] = push_off(@)]
  /\ panicked' = holding(l, h)
  /\ UNCHANGED lock

(* The atomic swap that ends it. *)
Swap(h) ==
  /\ Running(h) /\ Top(h).want # "none"
  /\ lock[Top(h).want] = "free"
  /\ lock' = [lock EXCEPT ![Top(h).want] = h]
  /\ Set(h, [Top(h) EXCEPT !.want = "none"])
  /\ UNCHANGED <<cons, tx, cpu, chan, killed, uart, plic, panicked>>

release(h, l) ==
  /\ lock' = [lock EXCEPT ![l] = "free"]
  /\ cpu' = [cpu EXCEPT ![h] = pop_off(@)]
  /\ panicked' = (~holding(l, h) \/ PopPanics(cpu[h]))

(* sleep(): releases l, which Resume() takes again. *)
sleep(h, ch, l) ==
  /\ chan' = [chan EXCEPT ![h] = ch]
  /\ release(h, l)
wakeup(ch) == [h \in Harts |-> IF chan[h] = ch THEN "woken" ELSE chan[h]]

Resume(h) ==
  /\ ~panicked /\ frames[h] # <<>> /\ ~Top(h).irq /\ chan[h] = "woken"
  /\ chan' = [chan EXCEPT ![h] = "none"]
  /\ acquire(h, IF Top(h).pc = "read" THEN "cons.lock" ELSE "uart_tx_lock", frames[h])
  /\ UNCHANGED <<cons, tx, killed, uart, plic>>

(* The system call returns; a process that was killed exits and another one takes its place. *)
Return(h) ==
  /\ frames' = [frames EXCEPT ![h] = <<>>]
  /\ killed' = [killed EXCEPT ![h] = FALSE]

(* kill(): a process that sleeps is woken up. *)
Kill(h) ==
  /\ ~panicked /\ h \in Victims /\ frames[h] # <<>> /\ ~Bottom(h).irq /\ ~killed[h]
  /\ killed' = [killed EXCEPT ![h] = TRUE]
  /\ chan' = [chan EXCEPT ![h] = IF @ = "none" THEN @ ELSE "woken"]
  /\ UNCHANGED <<cons, tx, lock, cpu, frames, uart, plic, panicked>>

Call(h, op) ==
  /\ ~panicked /\ frames[h] = <<>> /\ op \in Calls[h]
  /\ CASE op = "read"   -> acquire(h, "cons.lock", <<[Frame("read", FALSE) EXCEPT !.n = ReadLen]>>)
       [] op = "printf" -> acquire(h, "pr.lock", <<[Frame("printf", FALSE) EXCEPT !.s = <<"e">>]>>)
       [] op = "write"  -> /\ frames' = [frames EXCEPT ![h] = <<[Frame("write", FALSE) EXCEPT !.s = Data]>>]
                           /\ UNCHANGED <<lock, cpu, panicked>>
  /\ UNCHANGED <<cons, tx, chan, killed, uart, plic>>
-----------------------------------------------------------------------------
(* consoleread(). *)
readWait(h) ==
  /\ At(h, "read") /\ cons.r = cons.w
  /\ IF killed[h] THEN release(h, "cons.lock") /\ Return(h)
     ELSE Goto(h, "sleep") /\ UNCHANGED <<lock, cpu, killed, panicked>>
  /\ UNCHANGED <<cons, tx, chan, uart, plic>>

(* A kill() between the test of p->killed and this step wakes nobody. *)
readSleep(h) ==
  /\ At(h, "sleep")
  /\ sleep(h, "cons.r", "cons.lock") /\ Goto(h, "read")
  /\ UNCHANGED <<cons, tx, killed, uart, plic>>

(* The ring after r, w or e moved; the model empties the slots outside of it, *)
(* which nobody reads before they are written.                                *)
Clear(r, w, e, buf) ==
  [r |-> r, w |-> w, e |-> e,
   buf |-> [i \in DOMAIN buf |-> IF (i - r) % INPUT_BUF < Sub(e, r) THEN buf[i] ELSE "NUL"]]

(* Mutant: the end-of-file mark is not saved for the next read(). *)
takesAlways(c, f) == 1

(* cons.r++, undone for an end-of-file mark that the next read() has to see. *)
takes(c, f) == IF c = "EOF" /\ f.n < ReadLen THEN 0 ELSE 1

(* One byte, perhaps the last; either_copyout() may fail. *)
readTake(h) ==
  LET f == Top(h)
      c == cons.buf[cons.r % INPUT_BUF]
  IN
  /\ At(h, "read") /\ cons.r # cons.w
  /\ cons' = IF takes(c, f) = 0 THEN cons ELSE Clear(Add(cons.r, 1), cons.w, cons.e, cons.buf)
  /\ \E fault \in BOOLEAN :
       IF c \in {"EOF", "NL"} \/ f.n = 1 \/ fault THEN release(h, "cons.lock") /\ Return(h)
       ELSE Set(h, [f EXCEPT !.n = @ - 1]) /\ UNCHANGED <<lock, cpu, killed, panicked>>
  /\ UNCHANGED <<tx, chan, uart, plic>>
-----------------------------------------------------------------------------
(* consolewrite(): its loop; either_copyin() may fail. *)
consolewrite(h) ==
  /\ At(h, "write")
  /\ \/ Top(h).s # <<>> /\ acquire(h, "uart_tx_lock", <<[Top(h) EXCEPT !.pc = "putc"]>>) /\ UNCHANGED killed
     \/ Return(h) /\ UNCHANGED <<lock, cpu, panicked>>
  /\ UNCHANGED <<cons, tx, chan, uart, plic>>

uartputc(h) ==
  /\ At(h, "putc")
  /\ IF tx.w = Add64(tx.r, UART_TX_BUF_SIZE)
     THEN sleep(h, "uart_tx_r", "uart_tx_lock") /\ UNCHANGED <<tx, frames>>
     ELSE /\ tx' = [tx EXCEPT !.buf[tx.w % UART_TX_BUF_SIZE] = Head(Top(h).s), !.w = Add64(@, 1)]
          /\ Set(h, [Top(h) EXCEPT !.pc = "start", !.s = Tail(@)])
          /\ UNCHANGED <<lock, cpu, chan, panicked>>
  /\ UNCHANGED <<cons, killed, uart, plic>>

(* LSR_TX_IDLE: the transmitter has nothing left to send. *)
LSR_TX_IDLE == uart.fifo = <<>>

(* uartstart(): returns, or takes the next character. *)
uartstartReturn(h) ==
  /\ At(h, "start") /\ (tx.w = tx.r \/ ~LSR_TX_IDLE)
  /\ release(h, "uart_tx_lock")
  /\ Goto(h, IF Top(h).irq THEN "complete" ELSE "write")
  /\ UNCHANGED <<cons, tx, chan, killed, uart, plic>>

(* Mutant: the wakeup is forgotten. *)
uartstartNoWakeup(h) ==
  /\ At(h, "start") /\ tx.w # tx.r /\ LSR_TX_IDLE
  /\ tx' = [tx EXCEPT !.r = Add64(@, 1), !.buf[tx.r % UART_TX_BUF_SIZE] = "NUL"]
  /\ Set(h, [Top(h) EXCEPT !.pc = "send", !.c = tx.buf[tx.r % UART_TX_BUF_SIZE]])
  /\ UNCHANGED <<cons, lock, cpu, chan, killed, uart, plic, panicked>>

uartstart(h) ==
  /\ At(h, "start") /\ tx.w # tx.r /\ LSR_TX_IDLE
  /\ tx' = [tx EXCEPT !.r = Add64(@, 1), !.buf[tx.r % UART_TX_BUF_SIZE] = "NUL"]
  /\ chan' = wakeup("uart_tx_r")
  /\ Set(h, [Top(h) EXCEPT !.pc = "send", !.c = tx.buf[tx.r % UART_TX_BUF_SIZE]])
  /\ UNCHANGED <<cons, lock, cpu, killed, uart, plic, panicked>>

(* WriteReg(THR, c); a character that finds the FIFO full is lost. *)
THR(c) == uart' = [uart EXCEPT !.fifo = IF Len(@) < FifoDepth THEN Append(@, c) ELSE @]

uartstartSend(h) ==
  /\ At(h, "send") /\ THR(Top(h).c)
  /\ Set(h, [Top(h) EXCEPT !.pc = "start", !.c = "NUL"])
  /\ UNCHANGED <<cons, tx, lock, cpu, chan, killed, plic, panicked>>

(* uartputc_sync(): for the characters that printf() and consoleintr() put out. *)
Putting(h, pc) == At(h, pc) /\ Top(h).s # <<>>

uartputc_sync(h) ==
  /\ (Putting(h, "printf") \/ Putting(h, "echo")) /\ LSR_TX_IDLE
  /\ cpu' = [cpu EXCEPT ![h] = push_off(@)]
  /\ Goto(h, IF Top(h).pc = "printf" THEN "printf'" ELSE "echo'")
  /\ UNCHANGED <<cons, tx, lock, chan, killed, uart, plic, panicked>>

uartputc_syncSend(h) ==
  /\ Putting(h, "printf'") \/ Putting(h, "echo'")
  /\ THR(Head(Top(h).s))
  /\ cpu' = [cpu EXCEPT ![h] = pop_off(@)] /\ panicked' = PopPanics(cpu[h])
  /\ Set(h, [Top(h) EXCEPT !.pc = IF @ = "printf'" THEN "printf" ELSE "echo", !.s = Tail(@)])
  /\ UNCHANGED <<cons, tx, lock, chan, killed, plic>>

(* printf() ends, in procdump() or in a process. *)
printfDone(h) ==
  /\ At(h, "printf") /\ Top(h).s = <<>>
  /\ release(h, "pr.lock")
  /\ IF Top(h).irq THEN Goto(h, "echo") /\ UNCHANGED killed ELSE Return(h)
  /\ UNCHANGED <<cons, tx, chan, uart, plic>>
-----------------------------------------------------------------------------
(* uartintr(): uartgetc() has a character for consoleintr(), or uartstart() follows. *)
uartintr(h) ==
  /\ At(h, "getc")
  /\ acquire(h, IF uart.rx THEN "cons.lock" ELSE "uart_tx_lock",
             Push(Frame(IF uart.rx THEN "consoleintr" ELSE "start", TRUE), Tail(frames[h])))
  /\ uart' = [uart EXCEPT !.rx = FALSE]
  /\ UNCHANGED <<cons, tx, chan, killed, plic>>

(* How many characters consoleintr(c) erases, and whether it stores c. *)
Erased(c) ==
  LET len == Sub(cons.e, cons.w) IN
  CASE c = "KILL" -> CHOOSE k \in 0 .. len :
                       /\ k = len \/ cons.buf[Sub(cons.e, k + 1) % INPUT_BUF] = "NL"
                       /\ \A j \in 0 .. k - 1 : cons.buf[Sub(cons.e, j + 1) % INPUT_BUF] # "NL"
    [] c = "BS"   -> IF len = 0 THEN 0 ELSE 1
    [] OTHER      -> 0
Stored(c) == c \notin {"DUMP", "KILL", "BS", "NUL"} /\ Sub(cons.e, cons.r) < INPUT_BUF

(* consputc(): a BACKSPACE is three characters. *)
consputc(c) == [i \in 1 .. 3 * Erased(c) |-> "e"] \o IF Stored(c) THEN <<"e">> ELSE <<>>

(* consoleintr() of the character that was received.  The echo follows in  *)
(* steps of its own; cons.lock is held all the time.                       *)
consoleintr(h) ==
  /\ At(h, "consoleintr")
  /\ \E typed \in Typed :
     LET c == IF typed = "CR" THEN "NL" ELSE typed
         e == Add(cons.e, 1)
         commit == c \in {"NL", "EOF"} \/ e = Add(cons.r, INPUT_BUF)
     IN
     /\ cons' = IF Stored(c)
                THEN [cons EXCEPT !.buf[cons.e % INPUT_BUF] = c, !.e = e, !.w = IF commit THEN e ELSE @]
                ELSE Clear(cons.r, cons.w, Sub(cons.e, Erased(c)), cons.buf)
     /\ chan' = IF Stored(c) /\ commit THEN wakeup("cons.r") ELSE chan
     /\ IF c = "DUMP"
        THEN acquire(h, "pr.lock", Push([Frame("printf", TRUE) EXCEPT !.s = <<"e">>], Tail(frames[h])))
        ELSE /\ Set(h, [Frame("echo", TRUE) EXCEPT !.s = consputc(c)])
             /\ UNCHANGED <<lock, cpu, panicked>>
  /\ UNCHANGED <<tx, killed, uart, plic>>

consoleintrDone(h) ==
  /\ At(h, "echo") /\ Top(h).s = <<>>
  /\ release(h, "cons.lock") /\ Goto(h, "getc")
  /\ UNCHANGED <<cons, tx, chan, killed, uart, plic>>

(* devintr(): plic_claim(), on a hart with interrupts enabled. *)
devintr(h) ==
  /\ ~panicked /\ cpu[h].intr /\ plic.pending /\ ~plic.claimed
  /\ cpu' = [cpu EXCEPT ![h].intr = FALSE]
  /\ plic' = [pending |-> FALSE, claimed |-> TRUE]
  /\ frames' = [frames EXCEPT ![h] = Push(Frame("getc", TRUE), @)]
  /\ UNCHANGED <<cons, tx, lock, chan, killed, uart, panicked>>

(* plic_complete(), and the return to the code that was interrupted. *)
devintrDone(h) ==
  /\ At(h, "complete")
  /\ plic' = [plic EXCEPT !.claimed = FALSE]
  /\ cpu' = [cpu EXCEPT ![h].intr = TRUE]
  /\ frames' = [frames EXCEPT ![h] = Tail(@)]
  /\ UNCHANGED <<cons, tx, lock, chan, killed, uart, panicked>>
-----------------------------------------------------------------------------
(* The UART: it asks for an interrupt when a character has come in and *)
(* when the transmitter has become empty.                              *)
Receive ==
  /\ ~panicked /\ ~uart.rx
  /\ uart' = [uart EXCEPT !.rx = TRUE] /\ plic' = [plic EXCEPT !.pending = TRUE]
  /\ UNCHANGED <<cons, tx, lock, cpu, frames, chan, killed, panicked>>

Transmit ==
  /\ ~panicked /\ uart.fifo # <<>>
  /\ uart' = [uart EXCEPT !.fifo = Tail(@)]
  /\ plic' = [plic EXCEPT !.pending = @ \/ Len(uart.fifo) = 1]
  /\ UNCHANGED <<cons, tx, lock, cpu, frames, chan, killed, panicked>>

Hart(h) ==
  \/ Swap(h) \/ Resume(h) \/ Kill(h) \/ devintr(h) \/ devintrDone(h)
  \/ \E op \in Calls[h] : Call(h, op)
  \/ readWait(h) \/ readSleep(h) \/ readTake(h)
  \/ consolewrite(h) \/ uartputc(h)
  \/ uartstartReturn(h) \/ uartstart(h) \/ uartstartSend(h)
  \/ uartputc_sync(h) \/ uartputc_syncSend(h) \/ printfDone(h)
  \/ uartintr(h) \/ consoleintr(h) \/ consoleintrDone(h)

Next ==
  \/ \E h \in Harts : Hart(h)
  \/ Receive
  \/ Transmit

Spec == Init /\ [][Next]_vars
-----------------------------------------------------------------------------
(* spinlock.c never panics: no interrupt handler asks for a lock that its  *)
(* own hart holds (acquire), and interrupts are off for as long as a hart  *)
(* is in a section of push_off() and pop_off(), nested ones included.      *)
NoPanic == ~panicked

(* No wakeup and no interrupt of the console is lost: a reader sleeps only *)
(* while no line is ready (consoleread), a writer only while the buffer is *)
(* full (uartputc), what waits in it will be sent, by an interrupt to come *)
(* or by code on its way through uartstart(), and a full input buffer is   *)
(* ready to be read whether or not a line has ended (consoleintr).         *)
NothingStuck ==
  LET pumps(f) == (f.irq /\ f.pc # "complete") \/ f.pc \in {"start", "send"}
      pump == plic.pending \/ uart.fifo # <<>> \/ \E h \in Harts : \E i \in DOMAIN frames[h] : pumps(frames[h][i])
  IN
  /\ \A h \in Harts : chan[h] = "cons.r" => cons.r = cons.w
  /\ \A h \in Harts : chan[h] = "uart_tx_r" => tx.w = Add64(tx.r, UART_TX_BUF_SIZE)
  /\ tx.w # tx.r => pump
  /\ Sub(cons.e, cons.r) = INPUT_BUF => cons.w = cons.e
=============================================================================
