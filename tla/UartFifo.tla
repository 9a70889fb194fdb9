------------------------------ MODULE UartFifo ------------------------------
(***************************************************************************)
(* What the receive side of the UART driver promises its one reader, with  *)
(* no mention of indexes: a queue of at most Size - 1 characters, read in  *)
(* order, whose whole content is discarded when one character more         *)
(* arrives.  A read takes two steps, and the character that overflows the  *)
(* queue between them replaces the one being read.                         *)
(***************************************************************************)
EXTENDS Naturals, Sequences

CONSTANTS Char, NoChar, Size

VARIABLES
  queue,    \* the characters received and not yet taken
  reading,  \* the character a read in progress will return, or NoChar
  result    \* what the last completed read returned; NoChar is "none"

vars == <<queue, reading, result>>

Init ==
  /\ queue = << >>
  /\ reading = NoChar
  /\ result = NoChar

Accept(c) ==
  /\ Len(queue) < Size - 1
  /\ queue' = Append(queue, c)
  /\ UNCHANGED <<reading, result>>

Overflow(c) ==
  /\ Len(queue) = Size - 1
  /\ queue' = << >>
  /\ reading' = IF reading = NoChar THEN NoChar ELSE c
  /\ UNCHANGED result

Take ==
  /\ reading = NoChar
  /\ queue # << >>
  /\ reading' = Head(queue)
  /\ queue' = Tail(queue)
  /\ UNCHANGED result

Return ==
  /\ reading # NoChar
  /\ result' = reading
  /\ reading' = NoChar
  /\ UNCHANGED queue

ReturnNothing ==
  /\ reading = NoChar
  /\ queue = << >>
  /\ result' = NoChar
  /\ UNCHANGED <<queue, reading>>

Next ==
  \/ \E c \in Char : Accept(c) \/ Overflow(c)
  \/ Take
  \/ Return
  \/ ReturnNothing

Spec == Init /\ [][Next]_vars
=============================================================================
