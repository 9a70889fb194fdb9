-------------------------------- MODULE Rtc ---------------------------------
(***************************************************************************)
(* src/src/rtc.c: the clock set by a sys_time event and read for every     *)
(* line of the log.  The clock goes on between any two accesses to its     *)
(* registers but those made while it is stopped for an update.             *)
(***************************************************************************)
EXTENDS RtcTime

CONSTANTS
  Events,         \* dates and times of sys_time events
  MaxSeconds      \* bound: seconds that pass

VARIABLES
  TIMR, CALR,     \* the clock's registers
  update,         \* of the clock: "none", "requested" or "acknowledged"
  pc,             \* where the one thread that uses the clock is
  dateTime,       \* the struct of the call
  timeRegister, dateRegister,
  told,           \* history: the date and time of the last event
  passed,         \* seconds that have passed
  fresh           \* history: set since, and no second has passed

call == <<pc, dateTime, timeRegister, dateRegister>>
vars == <<TIMR, CALR, update, call, told, passed, fresh>>

None == [none |-> 0]
Midnight == [seconds |-> 0, minutes |-> 0, hours |-> 0, day |-> 1, month |-> 1, year |-> 1900]

Init ==
  /\ TIMR = TimeRegister(Midnight) /\ CALR = CalendarRegister(Midnight)
  /\ update = "none" /\ pc = "idle"
  /\ dateTime = Midnight
  /\ timeRegister = None /\ dateRegister = None
  /\ told = Midnight /\ passed = 0 /\ fresh = FALSE

\* A second, at the end of the day the first of the next.
Second ==
  /\ update # "acknowledged" /\ passed < MaxSeconds
  /\ LET now == DateTime(TIMR, CALR)
         midnight == now.hours = 23 /\ now.minutes = 59 /\ now.seconds = 59
     IN /\ TIMR' = IF midnight THEN TimeRegister(Midnight)
                   ELSE TimeRegister([now EXCEPT !.seconds = (@ + 1) % 60])
        /\ CALR' = IF midnight THEN [CALR EXCEPT !.day = decimalToBCD(now.day + 1)] ELSE CALR
  /\ passed' = passed + 1 /\ fresh' = FALSE
  /\ UNCHANGED <<update, call, told>>

Acknowledge ==
  /\ update = "requested" /\ update' = "acknowledged"
  /\ UNCHANGED <<TIMR, CALR, call, told, passed, fresh>>
-----------------------------------------------------------------------------
(* Setting.                                                                *)

\* The handler gives the month for the day and the day for the month.  What
\* the range check answers is compared with "below 0", which it never is.
SysTimeEvent(t) ==
  /\ pc = "idle" /\ pc' = "setting"
  /\ dateTime' = [t EXCEPT !.day = t.month, !.month = t.day]
  /\ update' = "requested"
  /\ told' = t /\ fresh' = FALSE
  /\ UNCHANGED <<TIMR, CALR, timeRegister, dateRegister, passed>>

\* The loop that waits for the acknowledgement has no limit.
rtc_setTime ==
  /\ pc = "setting" /\ update = "acknowledged"
  /\ TIMR' = TimeRegister(dateTime) /\ CALR' = CalendarRegister(dateTime)
  /\ update' = "none"
  /\ pc' = "idle" /\ fresh' = TRUE
  /\ UNCHANGED <<dateTime, timeRegister, dateRegister, told, passed>>
-----------------------------------------------------------------------------
(* Reading.  Each register is read until two reads agree.                  *)

rtc_getTime == pc = "idle" /\ pc' = "time"

ReadTime ==
  \/ pc = "time" /\ timeRegister' = TIMR /\ pc' = "time again"
  \/ /\ pc = "time again" /\ UNCHANGED timeRegister
     /\ pc' = IF timeRegister = TIMR THEN "date" ELSE "time"

ReadDate ==
  \/ pc = "date" /\ dateRegister' = CALR /\ pc' = "date again"
  \/ /\ pc = "date again" /\ UNCHANGED dateRegister
     /\ pc' = IF dateRegister = CALR THEN "read" ELSE "date"

\* The log prints what it has.
rtc_printTime ==
  /\ pc = "read" /\ pc' = "idle"
  /\ dateTime' = DateTime(timeRegister, dateRegister)
  /\ timeRegister' = None /\ dateRegister' = None

LogLine ==
  /\ \/ rtc_getTime /\ UNCHANGED <<dateTime, timeRegister, dateRegister>>
     \/ ReadTime /\ UNCHANGED <<dateTime, dateRegister>>
     \/ ReadDate /\ UNCHANGED <<dateTime, timeRegister>>
     \/ rtc_printTime
  /\ UNCHANGED <<TIMR, CALR, update, told, passed, fresh>>

Next == Second \/ Acknowledge \/ (\E t \in Events : SysTimeEvent(t)) \/ rtc_setTime \/ LogLine

Spec == Init /\ [][Next]_vars
-----------------------------------------------------------------------------
(* Property.                                                               *)

\* Read before a second has passed, the clock shows the date and time it was
\* told (wifi.c:159-170, rtc.c:69).
ShowsWhatItWasTold ==
  pc = "read" /\ fresh => DateTime(timeRegister, dateRegister) = told

=============================================================================
