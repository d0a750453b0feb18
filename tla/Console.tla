------------------------------ MODULE Console -------------------------------
(***************************************************************************)
(* Console output (kernel/console.c, uart.c): a text becomes a number of   *)
(* bytes, each written to the UART after its status has been polled.       *)
(* Trap says who prints when: main and the timer interrupt.                *)
(*                                                                         *)
(* The UART is external: a queue that transmits its oldest byte now and    *)
(* then, and whose LSR_TX_IDLE says that the queue is empty.  It keeps the *)
(* order, so all that matters of the queue is how many bytes are in it.    *)
(***************************************************************************)
EXTENDS Naturals, Sequences, FiniteSets

CONSTANTS
  Fifo,       \* places in the UART's queue, 16 in a 16550
  BACKSPACE   \* the character that console_putc expands

ASSUME ConsoleAssumption == Fifo \in Nat \ {0, 1}

\* how many bytes console_putc sends for one character
Sends(c) == IF c = BACKSPACE THEN 3 ELSE 1

\* console_puts: byte b[2] of character b[1], for all of them
Bytes(text) == Cardinality({b \in (1..Len(text)) \X (1..3) : b[2] <= Sends(text[b[1]])})

\* mutant of TxQueue: the queue is not enabled, only the holding register is there
TxQueueOff == 1

\* uart_init: FCR_FIFO_ENABLE
TxQueue == Fifo

VARIABLE queue   \* bytes in the UART's queue

\* uart_init: FCR_FIFO_CLEAR
UartInit == queue = 0

\* uart_putc, the condition of its loop, and its write: a full queue loses the byte
TxIdle == queue = 0
WriteThr == queue' = IF queue < TxQueue THEN queue + 1 ELSE queue

Transmits == queue > 0 /\ queue' = queue - 1
=============================================================================
