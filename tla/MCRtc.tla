------------------------------- MODULE MCRtc --------------------------------
(* Rtc with a date that has a day and a month to mistake for each other.   *)
EXTENDS Rtc

MCEvents == {[seconds |-> 59, minutes |-> 59, hours |-> 23, day |-> 5, month |-> 3,
              year |-> 2022]}

=============================================================================
