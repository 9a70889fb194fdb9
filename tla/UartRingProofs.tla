--------------------------- MODULE UartRingProofs ---------------------------
(***************************************************************************)
(* Theorems about UartRing for every buffer size and character set.  The   *)
(* inductive invariant adds to the types that every slot the reader may    *)
(* load has been written.                                                  *)
(***************************************************************************)
EXTENDS UartRing, TLAPS

IInv == TypeOK /\ NoUnwrittenSlotRead

USE SizeAssumption DEF Slot

LEMMA AdvanceInSlot == \A i \in Slot : Advance(i) \in Slot
BY DEF Advance

\* Under the type invariant the indexes are less than a buffer apart, and
\* every offset up to the occupancy names a slot.
LEMMA OccupancyBounds ==
  ASSUME TypeOK
  PROVE  /\ Occupancy \in 0 .. Size - 1
         /\ \A i \in 1 .. Occupancy : SlotAt(i) \in Slot
         /\ RxEmpty <=> Occupancy = 0
BY DEF TypeOK, Occupancy, SlotAt, RxEmpty

\* An arrival below capacity adds one slot behind the unread ones.
LEMMA ArrivalBelowCapacity ==
  ASSUME TypeOK, NEW c \in Char, UART0_Handler(c), Occupancy < Size - 1
  PROVE  /\ Occupancy' = Occupancy + 1
         /\ \A i \in 1 .. Occupancy : /\ SlotAt(i)' = SlotAt(i)
                                      /\ SlotAt(i) # rxBufferPutIndex'
         /\ SlotAt(Occupancy)' = rxBufferPutIndex'
         /\ rxBufferGetIndex # rxBufferPutIndex'
<1> USE DEF TypeOK
<1>1. /\ rxBufferPutIndex' = Advance(rxBufferPutIndex)
      /\ rxBufferGetIndex' = rxBufferGetIndex
  BY DEF UART0_Handler
<1>2. Occupancy' = Occupancy + 1 /\ rxBufferGetIndex # rxBufferPutIndex'
  BY <1>1 DEF Occupancy, Advance
<1>3. ASSUME NEW i \in 1 .. Occupancy
      PROVE  SlotAt(i)' = SlotAt(i) /\ SlotAt(i) # rxBufferPutIndex'
  BY <1>1 DEF Occupancy, Advance, SlotAt
<1>4. SlotAt(Occupancy)' = rxBufferPutIndex'
  BY <1>1 DEF Occupancy, Advance, SlotAt
<1> QED
  BY <1>2, <1>3, <1>4

\* An arrival at capacity makes the indexes equal.
LEMMA ArrivalAtCapacity ==
  ASSUME TypeOK, NEW c \in Char, UART0_Handler(c), Occupancy = Size - 1
  PROVE  /\ Occupancy' = 0
         /\ rxBufferPutIndex' = rxBufferGetIndex
BY DEF TypeOK, UART0_Handler, Occupancy, Advance

\* Advancing the get index removes the first unread slot.
LEMMA TakeFirst ==
  ASSUME TypeOK, GetAdvance
  PROVE  /\ Occupancy > 0
         /\ Occupancy' = Occupancy - 1
         /\ rxBufferGetIndex' = SlotAt(1)
         /\ \A i \in 1 .. Occupancy - 1 : SlotAt(i)' = SlotAt(i + 1)
BY DEF TypeOK, GetAdvance, Occupancy, SlotAt, Advance, RxEmpty, rxVars

LEMMA Inductive == Spec => []IInv
<1>1. ASSUME uart_init
      PROVE  IInv
  <2>1. TypeOK
    <3>1. 0 \in Slot
      OBVIOUS
    <3> QED
      BY <1>1, <3>1 DEF uart_init, TypeOK
  <2>2. Occupancy = 0 /\ ~getting
    BY <1>1 DEF uart_init, Occupancy
  <2> QED
    BY <2>1, <2>2 DEF IInv, NoUnwrittenSlotRead
<1>2. IInv /\ [Next]_vars => IInv'
  <2> SUFFICES ASSUME IInv, [Next]_vars
               PROVE  IInv'
    OBVIOUS
  <2> USE DEF IInv
  <2>1. ASSUME NEW c \in Char, UART0_Handler(c)
        PROVE  IInv'
    <3>1. TypeOK'
      BY <2>1, AdvanceInSlot DEF TypeOK, UART0_Handler
    <3>2. CASE Occupancy < Size - 1
      <4>1. \A i \in 1 .. Occupancy : (rxBuffer[SlotAt(i)])' \in Char
        BY <2>1, <3>2, ArrivalBelowCapacity, OccupancyBounds
           DEF UART0_Handler, TypeOK, NoUnwrittenSlotRead
      <4>2. (rxBuffer[SlotAt(Occupancy)])' \in Char
        BY <2>1, <3>1, <3>2, ArrivalBelowCapacity DEF UART0_Handler, TypeOK
      <4>3. getting' => (rxBuffer[rxBufferGetIndex])' \in Char
        BY <2>1, <3>2, ArrivalBelowCapacity
           DEF UART0_Handler, TypeOK, NoUnwrittenSlotRead
      <4>4. ASSUME NEW i \in 1 .. Occupancy'
            PROVE  (rxBuffer[SlotAt(i)])' \in Char
        <5>1. CASE i \in 1 .. Occupancy
          BY <4>1, <5>1
        <5>2. CASE i = Occupancy'
          BY <4>2, <5>2
        <5> QED
          BY <2>1, <3>2, <5>1, <5>2, ArrivalBelowCapacity, OccupancyBounds
      <4> QED
        BY <3>1, <4>3, <4>4 DEF NoUnwrittenSlotRead
    <3>3. CASE Occupancy = Size - 1
      <4>1. Occupancy' = 0
        BY <2>1, <3>3, ArrivalAtCapacity
      <4>2. getting' => (rxBuffer[rxBufferGetIndex])' \in Char
        BY <2>1, <3>3, ArrivalAtCapacity DEF UART0_Handler, TypeOK
      <4> QED
        BY <3>1, <4>1, <4>2 DEF NoUnwrittenSlotRead
    <3> QED
      BY <3>2, <3>3, OccupancyBounds
  <2>2. CASE GetNothing
    BY <2>2 DEF GetNothing, rxVars, TypeOK, NoUnwrittenSlotRead, Occupancy, SlotAt
  <2>3. CASE GetAdvance
    <3>1. TypeOK'
      BY <2>3, AdvanceInSlot DEF TypeOK, GetAdvance
    <3>2. \A i \in 1 .. Occupancy' : (rxBuffer[SlotAt(i)])' \in Char
      BY <2>3, TakeFirst, OccupancyBounds DEF GetAdvance, NoUnwrittenSlotRead
    <3>3. (rxBuffer[rxBufferGetIndex])' \in Char
      BY <2>3, TakeFirst, OccupancyBounds DEF GetAdvance, NoUnwrittenSlotRead
    <3> QED
      BY <3>1, <3>2, <3>3 DEF NoUnwrittenSlotRead
  <2>4. CASE GetLoad
    BY <2>4 DEF GetLoad, rxVars, TypeOK, NoUnwrittenSlotRead, Occupancy, SlotAt
  <2>5. CASE transmitByte
    BY <2>5 DEF transmitByte, rxVars, TypeOK, NoUnwrittenSlotRead, Occupancy, SlotAt
  <2>6. CASE TransmitterDone
    BY <2>6 DEF TransmitterDone, rxVars, TypeOK, NoUnwrittenSlotRead, Occupancy, SlotAt
  <2>7. CASE UNCHANGED vars
    BY <2>7 DEF vars, TypeOK, NoUnwrittenSlotRead, Occupancy, SlotAt
  <2> QED
    BY <2>1, <2>2, <2>3, <2>4, <2>5, <2>6, <2>7 DEF Next, uart_getCharacter
<1> QED
  BY <1>1, <1>2, PTL DEF Spec

\* The indexes stay inside the buffer, for every buffer size up to 255
\* (uart.c:49-79).
THEOREM TypeCorrect == Spec => []TypeOK
<1>1. IInv => TypeOK
  BY DEF IInv
<1> QED
  BY <1>1, Inductive, PTL

\* A slot is loaded only when a received character is in it, wherever the
\* receive interrupt falls (uart.c:49-79).
THEOREM OnlyReceivedRead == Spec => []NoUnwrittenSlotRead
<1>1. IInv => NoUnwrittenSlotRead
  BY DEF IInv
<1> QED
  BY <1>1, Inductive, PTL
-----------------------------------------------------------------------------
LEMMA UnreadIsSeq ==
  ASSUME IInv
  PROVE  /\ Unread \in Seq(Char)
         /\ Len(Unread) = Occupancy
         /\ \A i \in 1 .. Occupancy : Unread[i] = rxBuffer[SlotAt(i)]
<1>1. Occupancy \in Nat
  BY OccupancyBounds DEF IInv
<1> QED
  BY <1>1 DEF IInv, NoUnwrittenSlotRead, Unread

LEMMA AcceptStep ==
  ASSUME IInv, IInv', NEW c \in Char, UART0_Handler(c), Occupancy < Size - 1
  PROVE  Fifo!Accept(c)
<1>1. TypeOK /\ Occupancy' = Occupancy + 1 /\ Occupancy \in Nat
  BY ArrivalBelowCapacity, OccupancyBounds DEF IInv
<1>2. ASSUME NEW i \in 1 .. Occupancy
      PROVE  Unread'[i] = Unread[i]
  <2>1. Unread'[i] = (rxBuffer[SlotAt(i)])'
    BY <1>1 DEF Unread
  <2>2. (rxBuffer[SlotAt(i)])' = rxBuffer[SlotAt(i)]
    BY <1>1, ArrivalBelowCapacity, OccupancyBounds DEF UART0_Handler, TypeOK
  <2> QED
    BY <2>1, <2>2, UnreadIsSeq
<1>3. Unread'[Occupancy'] = c
  <2>1. Unread'[Occupancy'] = (rxBuffer[SlotAt(Occupancy)])'
    BY <1>1 DEF Unread
  <2> QED
    BY <1>1, <2>1, ArrivalBelowCapacity DEF UART0_Handler, IInv, TypeOK
<1>4. Unread' \in Seq(Char) /\ Len(Unread') = Occupancy'
  BY <1>1 DEF IInv, NoUnwrittenSlotRead, Unread
<1>5. Unread' = Append(Unread, c)
  BY <1>1, <1>2, <1>3, <1>4, UnreadIsSeq
<1>6. Reading' = Reading
  BY <1>1, ArrivalBelowCapacity DEF UART0_Handler, Reading, TypeOK
<1> QED
  BY <1>5, <1>6, UnreadIsSeq DEF Fifo!Accept, UART0_Handler

LEMMA OverflowStep ==
  ASSUME IInv, NEW c \in Char, UART0_Handler(c), Occupancy = Size - 1
  PROVE  Fifo!Overflow(c)
<1>1. TypeOK /\ Occupancy' = 0 /\ rxBufferPutIndex' = rxBufferGetIndex
  BY ArrivalAtCapacity DEF IInv
<1>2. Unread' = << >>
  BY <1>1 DEF Unread
<1>3. Reading' = IF getting THEN c ELSE NoChar
  BY <1>1 DEF UART0_Handler, Reading, TypeOK
<1>4. Reading = NoChar <=> ~getting
  BY NoCharAssumption DEF Reading, IInv, NoUnwrittenSlotRead, TypeOK
<1> QED
  BY <1>2, <1>3, <1>4, UnreadIsSeq DEF Fifo!Overflow, UART0_Handler

LEMMA TakeStep ==
  ASSUME IInv, GetAdvance
  PROVE  Fifo!Take
<1>1. TypeOK /\ Occupancy \in Nat /\ Occupancy > 0 /\ Occupancy' = Occupancy - 1
  BY TakeFirst, OccupancyBounds DEF IInv
<1>2. Unread # << >> /\ Head(Unread) = rxBuffer[SlotAt(1)]
  BY <1>1, UnreadIsSeq
<1>3. Reading = NoChar /\ Reading' = Head(Unread)
  BY <1>1, <1>2, TakeFirst DEF GetAdvance, Reading
<1>4. ASSUME NEW i \in 1 .. Occupancy - 1
      PROVE  Unread'[i] = Unread[i + 1]
  <2>1. Unread'[i] = (rxBuffer[SlotAt(i)])'
    BY <1>1 DEF Unread
  <2>2. (rxBuffer[SlotAt(i)])' = rxBuffer[SlotAt(i + 1)]
    BY <1>1, TakeFirst DEF GetAdvance
  <2>3. i + 1 \in 1 .. Occupancy
    BY <1>1
  <2> QED
    BY <2>1, <2>2, <2>3, UnreadIsSeq
<1>5. Unread' \in Seq(Char) /\ Len(Unread') = Occupancy - 1
  <2>1. \A i \in 1 .. Occupancy - 1 : Unread'[i] \in Char
    BY <1>1, <1>4, UnreadIsSeq
  <2>2. Unread' = [i \in 1 .. Occupancy - 1 |-> Unread'[i]]
    BY <1>1 DEF Unread
  <2> QED
    BY <1>1, <2>1, <2>2
<1>6. Unread' = Tail(Unread)
  BY <1>1, <1>4, <1>5, UnreadIsSeq
<1> QED
  BY <1>2, <1>3, <1>6 DEF Fifo!Take, GetAdvance

\* The ring implements the queue of UartFifo, for every buffer size: the
\* superloop reads what arrived, in order, until the buffer overflows, and an
\* overflow loses exactly what was unread (uart.c:49-79).
THEOREM RingImplementsFifo == Spec => ImplementsFifo
<1>1. uart_init => Fifo!Init
  BY DEF uart_init, Fifo!Init, Unread, Reading, Occupancy
<1>2. IInv /\ IInv' /\ [Next]_vars => [Fifo!Next]_(Fifo!vars)
  <2> SUFFICES ASSUME IInv, IInv', [Next]_vars
               PROVE  [Fifo!Next]_(Fifo!vars)
    OBVIOUS
  <2>1. ASSUME NEW c \in Char, UART0_Handler(c)
        PROVE  Fifo!Next
    <3>1. Occupancy < Size - 1 \/ Occupancy = Size - 1
      BY OccupancyBounds DEF IInv
    <3> QED
      BY <2>1, <3>1, AcceptStep, OverflowStep DEF Fifo!Next
  <2>2. CASE GetNothing
    <3>1. Unread = << >> /\ Unread' = << >>
      BY <2>2, OccupancyBounds DEF GetNothing, IInv, Unread, Occupancy, rxVars
    <3>2. Reading = NoChar /\ Reading' = NoChar
      BY <2>2 DEF GetNothing, Reading
    <3> QED
      BY <2>2, <3>1, <3>2 DEF GetNothing, Fifo!Next, Fifo!ReturnNothing
  <2>3. CASE GetAdvance
    BY <2>3, TakeStep DEF Fifo!Next
  <2>4. CASE GetLoad
    <3>1. Unread' = Unread
      BY <2>4 DEF GetLoad, rxVars, Unread, Occupancy, SlotAt
    <3>2. Reading # NoChar /\ result' = Reading /\ Reading' = NoChar
      BY <2>4, NoCharAssumption DEF GetLoad, Reading, IInv, NoUnwrittenSlotRead
    <3> QED
      BY <3>1, <3>2 DEF Fifo!Next, Fifo!Return
  <2>5. ASSUME UNCHANGED <<rxVars, getting, result>>
        PROVE  UNCHANGED Fifo!vars
    BY <2>5 DEF rxVars, Fifo!vars, Unread, Reading, Occupancy, SlotAt
  <2>6. CASE transmitByte
    BY <2>5, <2>6 DEF transmitByte
  <2>7. CASE TransmitterDone
    BY <2>5, <2>7 DEF TransmitterDone
  <2>8. CASE UNCHANGED vars
    BY <2>5, <2>8 DEF vars, rxVars
  <2> QED
    BY <2>1, <2>2, <2>3, <2>4, <2>6, <2>7, <2>8 DEF Next, uart_getCharacter
<1> QED
  BY <1>1, <1>2, Inductive, PTL DEF Spec, ImplementsFifo, Fifo!Spec
=============================================================================
