-------------------------------- MODULE Rtc --------------------------------
(* The real-time clock, services/rtc, counted up by the tick hook of sys.c. *)
EXTENDS Integers, Sequences

CONSTANTS
  Second,      \* ticks in the hook's comparison, 1000
  SetDates, SetTimes,  \* what the application sets it to
  MaxSeconds   \* bound: seconds counted

VARIABLES
  date, time,  \* the two halves of RTC
  elapsed,     \* ticks since prevTickCount
  day, second, \* ghost: what a calendar and a clock say
  seconds      \* ghost: seconds so far

vars == <<date, time, elapsed, day, second, seconds>>

Leap(y) == y % 4 = 0 /\ (y % 100 # 0 \/ y % 400 = 0)

\* The calendar: days since the year 0, and seconds of the day.
DaysBefore == <<0, 31, 59, 90, 120, 151, 181, 212, 243, 273, 304, 334>>
DayOf(d) == LET y == d.year - 1
            IN  365 * y + y \div 4 - y \div 100 + y \div 400
                + DaysBefore[d.month] + (IF d.month > 2 /\ Leap(d.year) THEN 1 ELSE 0) + d.day
SecondOf(t) == 3600 * t.hours + 60 * t.minutes + t.seconds

Init ==
  /\ date = [year |-> 2000, month |-> 1, day |-> 1]
  /\ time = [hours |-> 0, minutes |-> 0, seconds |-> 0]
  /\ elapsed = 0
  /\ day = DayOf(date) /\ second = 0
  /\ seconds = 0

RTC_SetDate(d) ==
  /\ date' = d /\ day' = DayOf(d)
  /\ UNCHANGED <<time, elapsed, second, seconds>>

RTC_SetTime(t) ==
  /\ time' = t /\ second' = SecondOf(t)
  /\ UNCHANGED <<date, elapsed, day, seconds>>

----------------------------------------------------------------------------
NextMonth(d) == IF d.month = 12 THEN [year |-> d.year + 1, month |-> 1, day |-> 1]
                                ELSE [d EXCEPT !.month = @ + 1, !.day = 1]

LeapJulian(y) == y % 4 = 0                          \* mutant

\* The year's length, as RTC_IncrementSeconds works it out.
isLeapYear(y) == y % 4 = 0 /\ (y % 100 # 0 \/ y % 400 = 0)

NextDay(d) ==
  LET next == [d EXCEPT !.day = @ + 1]
  IN  IF \/ d.month \in {4, 6, 9, 11} /\ next.day > 30
         \/ d.month = 2 /\ next.day > (IF isLeapYear(d.year) THEN 29 ELSE 28)
         \/ d.month # 2 /\ next.day > 31
      THEN NextMonth(next) ELSE next

RTC_IncrementSeconds ==
  LET s == time.seconds + 1
      m == time.minutes + (IF s = 60 THEN 1 ELSE 0)
      h == time.hours + (IF m = 60 THEN 1 ELSE 0)
  IN  /\ time' = [hours |-> h % 24, minutes |-> m % 60, seconds |-> s % 60]
      /\ date' = IF h = 24 THEN NextDay(date) ELSE date

vApplicationTickHook ==
  /\ seconds < MaxSeconds
  /\ IF elapsed + 1 > Second
     THEN /\ elapsed' = 0
          /\ RTC_IncrementSeconds
          /\ second' = (second + 1) % 86400
          /\ day' = IF second + 1 = 86400 THEN day + 1 ELSE day
          /\ seconds' = seconds + 1
     ELSE elapsed' = elapsed + 1 /\ UNCHANGED <<date, time, day, second, seconds>>

Next ==
  \/ \E d \in SetDates : RTC_SetDate(d)
  \/ \E t \in SetTimes : RTC_SetTime(t)
  \/ vApplicationTickHook

----------------------------------------------------------------------------
(* Properties *)

\* Across the ends of minutes, hours, days, months, years and leap days, each
\* count is one second of the calendar, whenever the two halves were set.
RtcCounts == DayOf(date) = day /\ SecondOf(time) = second

\* sys.c:126 "1000ms elapsed": a second is counted with every Second ticks.
\* It fails: the comparison lets one more pass.
SecondsInTime == elapsed < Second
=============================================================================
