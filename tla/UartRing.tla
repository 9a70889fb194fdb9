------------------------------ MODULE UartRing ------------------------------
(***************************************************************************)
(* src/src/uart.c: the ring buffer the UART receive interrupt fills and    *)
(* the superloop empties, and the transmit register.                       *)
(*                                                                         *)
(* UART0_Handler preempts the superloop anywhere.  The two share the put   *)
(* index and the buffer; the get index belongs to the superloop.  So       *)
(* uart_getCharacter is two steps, the test of the indexes with the        *)
(* advance of the get index, and the load of the slot, and the handler is  *)
(* one.  Both indexes are uint8_t and stay below Size <= 255.              *)
(***************************************************************************)
EXTENDS Naturals, Sequences

CONSTANTS
  Char,    \* the characters the line can carry
  NoChar,  \* the content of a slot never written; the result "no character"
  Size     \* UART_BUFFER_SIZE

ASSUME SizeAssumption == Size \in 1 .. 255
ASSUME NoCharAssumption == NoChar \notin Char

VARIABLES
  rxBuffer,          \* uartState.rxBuffer
  rxBufferGetIndex,  \* uartState.rxBufferGetIndex, the slot read last
  rxBufferPutIndex,  \* uartState.rxBufferPutIndex, the slot written last
  getting,           \* uart_getCharacter has advanced the get index and not
                     \* yet loaded the slot
  result,            \* what the last uart_getCharacter gave its caller
  txBusy             \* a byte is in the holding or the shift register

rxVars == <<rxBuffer, rxBufferGetIndex, rxBufferPutIndex>>
vars == <<rxBuffer, rxBufferGetIndex, rxBufferPutIndex, getting, result, txBusy>>

Slot == 0 .. Size - 1

\* Mutants of Advance: the wrap is tested one slot late, one slot early.
Advance_WrapsLate(i) == IF i = Size THEN 0 ELSE i + 1
Advance_WrapsEarly(i) == IF i + 2 = Size THEN 0 ELSE i + 1

\* index++; if (index == UART_BUFFER_SIZE) index = 0;
Advance(i) == IF i + 1 = Size THEN 0 ELSE i + 1

RxEmpty == rxBufferGetIndex = rxBufferPutIndex

TypeOK ==
  /\ rxBuffer \in [Slot -> Char \cup {NoChar}]
  /\ rxBufferGetIndex \in Slot
  /\ rxBufferPutIndex \in Slot
  /\ getting \in BOOLEAN
  /\ result \in Char \cup {NoChar}
  /\ txBusy \in BOOLEAN

uart_init ==
  /\ rxBuffer = [i \in Slot |-> NoChar]
  /\ rxBufferGetIndex = 0
  /\ rxBufferPutIndex = 0
  /\ getting = FALSE
  /\ result = NoChar
  /\ txBusy = FALSE

\* Mutant of UART0_Handler: the character is stored before the index moves.
UART0_Handler_StoresFirst(c) ==
  /\ rxBufferPutIndex' = Advance(rxBufferPutIndex)
  /\ rxBuffer' = [rxBuffer EXCEPT ![rxBufferPutIndex] = c]
  /\ UNCHANGED <<rxBufferGetIndex, getting, result, txBusy>>

\* The receive interrupt: it never asks whether the slot has been read.
UART0_Handler(c) ==
  /\ rxBufferPutIndex' = Advance(rxBufferPutIndex)
  /\ rxBuffer' = [rxBuffer EXCEPT ![rxBufferPutIndex'] = c]
  /\ UNCHANGED <<rxBufferGetIndex, getting, result, txBusy>>

GetNothing ==
  /\ ~getting
  /\ RxEmpty
  /\ result' = NoChar
  /\ UNCHANGED <<rxVars, getting, txBusy>>

GetAdvance ==
  /\ ~getting
  /\ ~RxEmpty
  /\ rxBufferGetIndex' = Advance(rxBufferGetIndex)
  /\ getting' = TRUE
  /\ UNCHANGED <<rxBuffer, rxBufferPutIndex, result, txBusy>>

GetLoad ==
  /\ getting
  /\ result' = rxBuffer[rxBufferGetIndex]
  /\ getting' = FALSE
  /\ UNCHANGED <<rxVars, txBusy>>

uart_getCharacter == GetNothing \/ GetAdvance \/ GetLoad

\* Both waits of transmitByte are over once nothing is being sent.
transmitByte ==
  /\ ~getting
  /\ ~txBusy
  /\ txBusy' = TRUE
  /\ UNCHANGED <<rxVars, getting, result>>

TransmitterDone ==
  /\ txBusy
  /\ txBusy' = FALSE
  /\ UNCHANGED <<rxVars, getting, result>>

Next ==
  \/ \E c \in Char : UART0_Handler(c)
  \/ uart_getCharacter
  \/ transmitByte
  \/ TransmitterDone

Spec == uart_init /\ [][Next]_vars
-----------------------------------------------------------------------------
(* The ring seen as the queue of UartFifo.                                 *)

Occupancy ==
  IF rxBufferPutIndex >= rxBufferGetIndex
    THEN rxBufferPutIndex - rxBufferGetIndex
    ELSE rxBufferPutIndex + Size - rxBufferGetIndex

\* The slot i places after the get index.
SlotAt(i) ==
  IF rxBufferGetIndex + i >= Size
    THEN rxBufferGetIndex + i - Size
    ELSE rxBufferGetIndex + i

Unread == [i \in 1 .. Occupancy |-> rxBuffer[SlotAt(i)]]

Reading == IF getting THEN rxBuffer[rxBufferGetIndex] ELSE NoChar

Fifo == INSTANCE UartFifo WITH queue <- Unread, reading <- Reading

\* The ring delivers what UartFifo promises: every unread character, once and
\* in order, until Size - 1 are unread; one more arrival makes the indexes
\* equal and all of them vanish (uart.c:68-79, 49-59).
ImplementsFifo == Fifo!Spec

\* No slot that was never written reaches the caller: the slots between the
\* indexes, and the one being loaded, hold received characters, whatever the
\* handler overwrites (uart.c:56-57).
NoUnwrittenSlotRead ==
  /\ \A i \in 1 .. Occupancy : rxBuffer[SlotAt(i)] \in Char
  /\ getting => rxBuffer[rxBufferGetIndex] \in Char
=============================================================================
