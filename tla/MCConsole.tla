----------------------------- MODULE MCConsole ------------------------------
(* Console with a hart that runs programs and one that is idle. *)
EXTENDS ConsoleTerminal

SomeHarts == {"h1", "h2"}
SomeCalls == [h \in SomeHarts |-> IF h = "h1" THEN {"read", "write", "printf"} ELSE {}]
SomeData == <<"a">>

(* States whose rings hold the same characters in the same slots behave alike: *)
(* only differences of indexes and indexes modulo the size are ever looked at. *)
View == <<cons.r % INPUT_BUF, Sub(cons.w, cons.r), Sub(cons.e, cons.r), cons.buf,
          tx.r % UART_TX_BUF_SIZE, (tx.w - tx.r) % Uint64Range, tx.buf,
          lock, cpu, frames, chan, killed, uart, plic, panicked>>
=============================================================================
