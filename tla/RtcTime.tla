------------------------------ MODULE RtcTime -------------------------------
(***************************************************************************)
(* The conversions and the range check of src/src/rtc.c as pure functions, *)
(* checked by the assumptions after them.  Module Rtc has the clock.       *)
(***************************************************************************)
EXTENDS Integers

\* Bytes in, bytes out.
decimalToBCD(decByte) ==
  LET d == decByte % 256 IN ((d \div 10) * 16 + (d % 10)) % 256
bcdToDecimal(bcdByte) == (bcdByte \div 16) * 10 + (bcdByte % 16)

ASSUME TwoDigitsReadBack == \A n \in 0 .. 99 : bcdToDecimal(decimalToBCD(n)) = n
-----------------------------------------------------------------------------
(* The error codes have their places in the enumeration: the one of a bad  *)
(* year is the 0 of success.                                               *)
RTC_ERROR == [year |-> 0, month |-> 1, day |-> 2, hour |-> 4, minute |-> 5, second |-> 6]

\* There is no check for leap years.
DaysIn(month) == CASE month = 2 -> 29 [] month \in {4, 6, 9, 11} -> 30 [] OTHER -> 31
Years(calendarMode) == IF calendarMode = "gregorian" THEN 1900 .. 2099 ELSE 1300 .. 1499
Hours(clockMode) == IF clockMode = "24h" THEN 0 .. 23 ELSE 0 .. 12

\* Of several errors the last found stays.
rtc_configureNewTime(clockMode, calendarMode, t) ==
  IF t.hours \notin Hours(clockMode) THEN RTC_ERROR.hour
  ELSE IF t.minutes > 59 THEN RTC_ERROR.minute
  ELSE IF t.seconds > 59 THEN RTC_ERROR.second
  ELSE IF t.month \notin 1 .. 12 THEN RTC_ERROR.month
  ELSE IF t.day > DaysIn(t.month) THEN RTC_ERROR.day
  ELSE IF t.year \notin Years(calendarMode) THEN RTC_ERROR.year ELSE 0

\* The answer is 0 for every date of the calendar, and also for day 0 and in
\* any year.
ASSUME ZeroForDates ==
  \A t \in [hours : {0, 12, 13, 23, 24}, minutes : {0, 59, 60}, seconds : {0, 59, 60},
            month : {0, 1, 2, 4, 12, 13}, day : {0, 1, 29, 30, 31, 32}, year : {0, 1400, 2022}] :
    (rtc_configureNewTime("24h", "gregorian", t) = 0) <=>
      /\ t.hours < 24 /\ t.minutes < 60 /\ t.seconds < 60
      /\ t.month \in 1 .. 12 /\ t.day <= DaysIn(t.month)
-----------------------------------------------------------------------------
(* The registers, a field each.                                            *)

TimeRegister(t) ==
  [seconds |-> decimalToBCD(t.seconds), minutes |-> decimalToBCD(t.minutes),
   hours |-> decimalToBCD(t.hours)]

\* The hundreds of the year are cut to a byte before they are converted.
CalendarRegister(t) ==
  [day |-> decimalToBCD(t.day), month |-> decimalToBCD(t.month),
   year |-> decimalToBCD(t.year % 100),
   century |-> decimalToBCD(t.year - (t.year % 100)) \div 100]

\* What rtc_getTime makes of the registers in the 24 hour mode.
DateTime(time, date) ==
  [seconds |-> bcdToDecimal(time.seconds), minutes |-> bcdToDecimal(time.minutes),
   hours |-> bcdToDecimal(time.hours), day |-> bcdToDecimal(date.day),
   month |-> bcdToDecimal(date.month),
   year |-> bcdToDecimal(date.century) * 100 + bcdToDecimal(date.year)]

Written(t) == DateTime(TimeRegister(t), CalendarRegister(t))

\* All but the century is read back as it was written.
ASSUME WrittenReadBack ==
  \A year \in 1900 .. 2099, month \in 1 .. 12, day \in {1, 9, 10, 31} :
    LET t == [seconds |-> 59, minutes |-> 8, hours |-> 23,
              day |-> day, month |-> month, year |-> year]
    IN [Written(t) EXCEPT !.year = @ % 100] = [t EXCEPT !.year = @ % 100]

=============================================================================
