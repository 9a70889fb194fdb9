---------------------------- MODULE MCUartRing ------------------------------
(* UartRing for TLC: two characters, so that order and loss are visible, and *)
(* a ring whose wrap, full and overrun states are a few arrivals away.       *)
EXTENDS UartRing
CONSTANTS a, b, none

MCChar == {a, b}
=============================================================================
