-------------------------- MODULE ConsoleTerminal ---------------------------
(***************************************************************************)
(* The terminal that the console (module Console) implements: the two      *)
(* rings as sequences, what a read() got so far, and what is on its way    *)
(* out.                                                                    *)
(***************************************************************************)
EXTENDS Console, Functions

Ring(buf, from, to, range, size) == [i \in 1 .. (to - from) % range |-> buf[(from + i - 1) % size]]
Sending ==
  LET sending == {h \in Harts : frames[h] # <<>> /\ Top(h).pc = "send"} IN
  IF sending = {} THEN <<>> ELSE <<Top(CHOOSE h \in sending : TRUE).c>>

Abstract == INSTANCE Terminal WITH
  Procs <- Harts, Chars <- Typed \cup {"NL"} \cup Range(Data), Room <- INPUT_BUF,
  line  <- Ring(cons.buf, cons.w, cons.e, UintRange, INPUT_BUF),
  ready <- Ring(cons.buf, cons.r, cons.w, UintRange, INPUT_BUF),
  got   <- [h \in Harts |-> IF frames[h] # <<>> /\ Bottom(h).pc \in {"read", "sleep"}
                            THEN ReadLen - Bottom(h).n ELSE 0],
  sent  <- SelectSeq(uart.fifo, LAMBDA c : c # "e") \o Sending \o Ring(tx.buf, tx.r, tx.w, Uint64Range, UART_TX_BUF_SIZE)

(* The console implements a terminal: the input arrives in order, edited   *)
(* only before it is ready, an end-of-file mark ends a read() without      *)
(* bytes, and what write() put into the buffer leaves in order, none of it *)
(* lost to the echo and printf() that write to the UART without            *)
(* uart_tx_lock.                                                           *)
ImplementsTerminal == Abstract!Spec
=============================================================================
