--------------------------- MODULE ServicesProofs ---------------------------
(***************************************************************************)
(* Proofs about the services of MCServices, for every value of their       *)
(* constants that its assumptions allow.  The services share no variable,  *)
(* so each has an invariant of its own.                                    *)
(***************************************************************************)
EXTENDS MCServices, SequenceTheorems, TLAPS

(***************************************************************************)
(* The clock.                                                              *)
(***************************************************************************)
RtcInv ==
  /\ CalendarDay(date) /\ TimeOfDay(time)
  /\ day = R!DayOf(date) /\ second = R!SecondOf(time)

LEMMA Months ==
  /\ \A m \in 1..12 : MonthLength[m] \in Nat /\ R!DaysBefore[m] \in Nat
  /\ \A m \in 1..12 : MonthLength[m] = IF m \in {4, 6, 9, 11} THEN 30
                                       ELSE IF m = 2 THEN 28 ELSE 31
  /\ \A m \in 1..11 : R!DaysBefore[m + 1] = R!DaysBefore[m] + MonthLength[m]
  /\ R!DaysBefore[1] = 0 /\ R!DaysBefore[12] + MonthLength[12] = 365
<1>1. /\ MonthLength[1] = 31 /\ MonthLength[2] = 28 /\ MonthLength[3] = 31
      /\ MonthLength[4] = 30 /\ MonthLength[5] = 31 /\ MonthLength[6] = 30
      /\ MonthLength[7] = 31 /\ MonthLength[8] = 31 /\ MonthLength[9] = 30
      /\ MonthLength[10] = 31 /\ MonthLength[11] = 30 /\ MonthLength[12] = 31
  BY DEF MonthLength
<1>2. /\ R!DaysBefore[1] = 0 /\ R!DaysBefore[2] = 31 /\ R!DaysBefore[3] = 59
      /\ R!DaysBefore[4] = 90 /\ R!DaysBefore[5] = 120 /\ R!DaysBefore[6] = 151
      /\ R!DaysBefore[7] = 181 /\ R!DaysBefore[8] = 212 /\ R!DaysBefore[9] = 243
      /\ R!DaysBefore[10] = 273 /\ R!DaysBefore[11] = 304 /\ R!DaysBefore[12] = 334
  BY DEF R!DaysBefore
<1>3. \A m \in 1..12 : m \in {1, 2, 3, 4, 5, 6, 7, 8, 9, 10, 11, 12}
  OBVIOUS
<1> QED
  BY <1>1, <1>2, <1>3

(* The first of a month comes after the last of the month before.          *)
LEMMA NextMonthIsNext ==
  ASSUME NEW y \in Nat, NEW m \in 1..12, NEW n \in Nat
  PROVE  LET d == [year |-> y, month |-> m, day |-> n]
             last == MonthLength[m] + (IF m = 2 /\ R!Leap(y) THEN 1 ELSE 0)
         IN  /\ CalendarDay(R!NextMonth(d))
             /\ R!DayOf(R!NextMonth(d)) = R!DayOf([d EXCEPT !.day = last]) + 1
<1> DEFINE bit == IF R!Leap(y) THEN 1 ELSE 0
           base == 365 * (y - 1) + (y - 1) \div 4 - (y - 1) \div 100 + (y - 1) \div 400
           last == MonthLength[m] + (IF m = 2 /\ R!Leap(y) THEN 1 ELSE 0)
           d == [year |-> y, month |-> m, day |-> n]
<1>1. base \in Int /\ MonthLength[m] \in Nat /\ last \in Nat /\ R!DaysBefore[m] \in Nat
  BY Months
<1>2. R!DayOf([d EXCEPT !.day = last])
        = base + R!DaysBefore[m] + (IF m > 2 /\ R!Leap(y) THEN 1 ELSE 0) + last
  BY DEF R!DayOf
<1>3. CASE m # 12
  <2>1. R!NextMonth(d) = [year |-> y, month |-> m + 1, day |-> 1]
    BY <1>3 DEF R!NextMonth
  <2>2. R!DayOf([year |-> y, month |-> m + 1, day |-> 1])
          = base + R!DaysBefore[m + 1] + (IF m + 1 > 2 /\ R!Leap(y) THEN 1 ELSE 0) + 1
    BY DEF R!DayOf
  <2>3. R!DaysBefore[m + 1] = R!DaysBefore[m] + MonthLength[m]
    BY <1>3, Months
  <2>4. (IF m + 1 > 2 /\ R!Leap(y) THEN 1 ELSE 0)
          = (IF m > 2 /\ R!Leap(y) THEN 1 ELSE 0) + (IF m = 2 /\ R!Leap(y) THEN 1 ELSE 0)
    OBVIOUS
  <2>5. CalendarDay([year |-> y, month |-> m + 1, day |-> 1])
    <3>1. m + 1 \in 1..12 /\ MonthLength[m + 1] >= 1
      BY <1>3, Months
    <3>2. [year |-> y, month |-> m + 1, day |-> 1] \in [year : Nat, month : 1..12, day : 1..31]
      BY <3>1
    <3>3. 1 <= MonthLength[m + 1] + (IF m + 1 = 2 /\ R!Leap(y) THEN 1 ELSE 0)
      BY <3>1, Months
    <3> QED
      BY <3>2, <3>3 DEF CalendarDay
  <2> HIDE DEF base
  <2> QED
    BY <1>1, <1>2, <2>1, <2>2, <2>3, <2>4, <2>5
<1>4. CASE m = 12
  <2>1. R!NextMonth(d) = [year |-> y + 1, month |-> 1, day |-> 1]
    BY <1>4 DEF R!NextMonth
  <2>2. R!DayOf([year |-> y + 1, month |-> 1, day |-> 1])
          = 365 * y + y \div 4 - y \div 100 + y \div 400 + 1
    BY Months DEF R!DayOf
  <2>3. 365 * y + y \div 4 - y \div 100 + y \div 400 = base + 365 + bit
    BY DEF R!Leap
  <2>4. CalendarDay([year |-> y + 1, month |-> 1, day |-> 1])
    BY Months DEF CalendarDay
  <2> HIDE DEF base
  <2> QED
    BY <1>1, <1>2, <1>4, <2>1, <2>2, <2>3, <2>4, Months
<1> QED
  BY <1>3, <1>4

(* The day after a day of the calendar is one, and the next one counted.   *)
LEMMA NextDayIsNext ==
  ASSUME NEW d, CalendarDay(d)
  PROVE  CalendarDay(R!NextDay(d)) /\ R!DayOf(R!NextDay(d)) = R!DayOf(d) + 1
<1> DEFINE y == d.year
           m == d.month
           n == d.day
           last == MonthLength[m] + (IF m = 2 /\ R!Leap(y) THEN 1 ELSE 0)
           next == [year |-> y, month |-> m, day |-> n + 1]
<1>1. y \in Nat /\ m \in 1..12 /\ n \in 1..31 /\ n <= last /\ last \in Nat
      /\ d = [year |-> y, month |-> m, day |-> n]
  BY Months DEF CalendarDay
<1>2. R!NextDay(d) = IF n = last THEN R!NextMonth(next) ELSE next
  <2>1. [d EXCEPT !.day = d.day + 1] = next
    BY <1>1
  <2>2. next.day = n + 1
    OBVIOUS
  <2>3. (\/ m \in {4, 6, 9, 11} /\ n + 1 > 30
         \/ m = 2 /\ n + 1 > (IF R!isLeapYear(y) THEN 29 ELSE 28)
         \/ m # 2 /\ n + 1 > 31) <=> n = last
    <3>1. R!isLeapYear(y) <=> R!Leap(y)
      BY DEF R!isLeapYear, R!Leap
    <3> QED
      BY <1>1, <3>1, Months
  <2> HIDE DEF next, last
  <2> QED
    BY <2>1, <2>2, <2>3 DEF R!NextDay
<1>3. CASE n = last
  <2>1. [next EXCEPT !.day = last] = d
    BY <1>1, <1>3
  <2> QED
    BY <1>1, <1>2, <1>3, <2>1, NextMonthIsNext
<1>4. CASE n # last
  <2>1. CalendarDay(next)
    BY <1>1, <1>4, Months DEF CalendarDay
  <2>2. R!DayOf(next) = R!DayOf(d) + 1
    <3> DEFINE base == 365 * (y - 1) + (y - 1) \div 4 - (y - 1) \div 100 + (y - 1) \div 400
               bit == IF m > 2 /\ R!Leap(y) THEN 1 ELSE 0
    <3>1. R!DayOf(next) = base + R!DaysBefore[m] + bit + (n + 1)
      BY DEF R!DayOf
    <3>2. R!DayOf(d) = base + R!DaysBefore[m] + bit + n
      BY DEF R!DayOf
    <3>3. base \in Int /\ bit \in Int /\ R!DaysBefore[m] \in Int
      BY <1>1, Months
    <3> HIDE DEF base, bit, next
    <3> QED
      BY <1>1, <3>1, <3>2, <3>3
  <2> QED
    BY <1>2, <1>4, <2>1, <2>2
<1> QED
  BY <1>3, <1>4

LEMMA RtcInit == R!Init => RtcInv
<1> SUFFICES ASSUME R!Init PROVE RtcInv
  OBVIOUS
<1>1. CalendarDay(date)
  BY Months DEF R!Init, CalendarDay
<1>2. TimeOfDay(time) /\ second = R!SecondOf(time)
  BY DEF R!Init, TimeOfDay, R!SecondOf
<1> QED
  BY <1>1, <1>2 DEF R!Init, RtcInv

LEMMA RtcStep ==
  ASSUME RtcInv, R!Next \/ UNCHANGED rtcVars
  PROVE  RtcInv'
<1> USE RtcAssumption DEF RtcInv
<1>1. ASSUME NEW d \in SetDates, R!RTC_SetDate(d)
      PROVE  RtcInv'
  BY <1>1 DEF R!RTC_SetDate
<1>2. ASSUME NEW t \in SetTimes, R!RTC_SetTime(t)
      PROVE  RtcInv'
  BY <1>2 DEF R!RTC_SetTime
<1>3. CASE R!vApplicationTickHook
  <2>1. CASE UNCHANGED <<date, time, day, second>>
    BY <2>1
  <2>2. CASE /\ R!RTC_IncrementSeconds
             /\ second' = (second + 1) % 86400
             /\ day' = IF second + 1 = 86400 THEN day + 1 ELSE day
    <3>1. PICK hours \in 0..23, minutes \in 0..59, secs \in 0..59 :
            time = [hours |-> hours, minutes |-> minutes, seconds |-> secs]
      BY DEF TimeOfDay
    <3>2. second = 3600 * hours + 60 * minutes + secs
      BY <3>1 DEF R!SecondOf
    <3> DEFINE s == secs + 1
               m == minutes + (IF s = 60 THEN 1 ELSE 0)
               h == hours + (IF m = 60 THEN 1 ELSE 0)
    <3>3. /\ time' = [hours |-> h % 24, minutes |-> m % 60, seconds |-> s % 60]
          /\ date' = IF h = 24 THEN R!NextDay(date) ELSE date
      BY <2>2, <3>1 DEF R!RTC_IncrementSeconds
    <3>4. /\ h \in 0..24 /\ m \in 0..60 /\ s \in 0..60
          /\ h % 24 = IF h = 24 THEN 0 ELSE h
          /\ m % 60 = IF m = 60 THEN 0 ELSE m
          /\ s % 60 = IF s = 60 THEN 0 ELSE s
      OBVIOUS
    <3>5. /\ second + 1 = 86400 <=> h = 24
          /\ (second + 1) % 86400 = 3600 * (h % 24) + 60 * (m % 60) + (s % 60)
      <4>1. second + 1 = 86400 <=> h = 24
        BY <3>2
      <4>2. second + 1 = 3600 * h + 60 * (m % 60) + (s % 60)
        <5>1. CASE s # 60
          BY <3>2, <3>4, <5>1
        <5>2. CASE s = 60 /\ m # 60
          BY <3>2, <3>4, <5>2
        <5>3. CASE s = 60 /\ m = 60
          BY <3>2, <3>4, <5>3
        <5> QED
          BY <5>1, <5>2, <5>3
      <4>3. (second + 1) % 86400 = IF second + 1 = 86400 THEN 0 ELSE second + 1
        BY <3>2
      <4>4. h = 24 => m % 60 = 0 /\ s % 60 = 0
        BY <3>4
      <4> HIDE DEF h, m, s
      <4> QED
        BY <3>4, <4>1, <4>2, <4>3, <4>4
    <3>6. TimeOfDay(time')
      BY <3>3, <3>4 DEF TimeOfDay
    <3>7. second' = 3600 * (h % 24) + 60 * (m % 60) + (s % 60)
      BY <2>2, <3>5
    <3>8. second' = R!SecondOf(time')
      <4> HIDE DEF h, m, s
      <4>1. /\ time'.hours = h % 24 /\ time'.minutes = m % 60 /\ time'.seconds = s % 60
        BY <3>3
      <4> QED
        BY <3>7, <4>1 DEF R!SecondOf
    <3>9. CalendarDay(date') /\ day' = R!DayOf(date')
      BY <2>2, <3>3, <3>5, NextDayIsNext
    <3> QED
      BY <3>6, <3>8, <3>9
  <2> QED
    BY <1>3, <2>1, <2>2 DEF R!vApplicationTickHook
<1>4. CASE UNCHANGED rtcVars
  BY <1>4 DEF rtcVars
<1> QED
  BY <1>1, <1>2, <1>3, <1>4 DEF R!Next

(***************************************************************************)
(* The state of a node.  What was told last is the state at the beginning  *)
(* of CO_NMT_process, unless the timer has to run out first.               *)
(***************************************************************************)
NodeStates == {"INITIALIZING", "PRE_OPERATIONAL", "OPERATIONAL", "STOPPED"}

NmtInv ==
  /\ operatingState \in NodeStates /\ NMTstateCpy \in NodeStates
  /\ HBproducerTime \in Nat /\ HBproducerTimer \in Nat
  /\ nmtAt # "out" /\ HBproducerTime # 0
       => lastHb \in {operatingState, "INITIALIZING"}
  /\ HBproducerTime # 0 /\ HBproducerTimer # 0 /\ operatingState # "INITIALIZING"
       => lastHb \in {operatingStatePrev, "INITIALIZING"}
  /\ nmtAt # "out" /\ HBproducerTime # 0
       => lastHb \in {operatingStatePrev, "INITIALIZING"}

LEMMA NmtInit == N!Init => NmtInv
BY NmtAssumption DEF N!Init, NmtInv, N!Least, NodeStates

LEMMA NmtStep ==
  ASSUME NmtInv, N!Next \/ UNCHANGED nodeVars
  PROVE  NmtInv'
<1> USE NmtAssumption DEF NmtInv, NodeStates
<1>0. CASE UNCHANGED nodeVars
  BY <1>0 DEF nodeVars
<1>1. CASE N!CO_NMT_receive
  BY <1>1 DEF N!CO_NMT_receive
<1>2. CASE N!OtherReceive
  BY <1>0, <1>2 DEF N!OtherReceive, N!nodeVars, nodeVars
<1>3. CASE N!SendHeartbeat
  <2> DEFINE elapse == N!Elapse
  <2>1. elapse \in Nat /\ (elapse # 0 => HBproducerTimer # 0)
    BY DEF N!Elapse
  <2>a. NMTstateCpy' \in NodeStates
    BY <1>3 DEF N!SendHeartbeat, N!SelfStart
  <2>2. /\ N!StateSentWith(elapse)
        /\ operatingStatePrev' = N!SelfStart /\ nmtAt' = "command"
        /\ UNCHANGED <<operatingState, HBproducerTime>>
    BY <1>3 DEF N!SendHeartbeat
  <2>3. operatingState # "INITIALIZING" => operatingStatePrev' = operatingState
    BY <2>2 DEF N!SelfStart
  <2> HIDE DEF elapse
  <2>4. CASE N!Heartbeat(elapse)
    <3>1. lastHb' = operatingState /\ HBproducerTimer' \in Nat
      BY <2>1, <2>2, <2>4 DEF N!StateSentWith
    <3> QED
      BY <2>a, <2>2, <2>3, <3>1
  <2>5. CASE ~N!Heartbeat(elapse)
    <3>1. lastHb' = lastHb /\ HBproducerTimer' = elapse
      BY <2>2, <2>5 DEF N!StateSentWith
    <3>2. /\ operatingState # "INITIALIZING"
          /\ HBproducerTime # 0 => elapse # 0 /\ operatingState = operatingStatePrev
      BY <2>5 DEF N!Heartbeat
    <3> QED
      BY <2>a, <2>1, <2>2, <2>3, <3>1, <3>2
  <2> QED
    BY <2>4, <2>5
<1>4. CASE N!ReadCommand
  <2>1. NMTstateCpy' \in NodeStates
    BY <1>4 DEF N!ReadCommand, N!Commanded
  <2> QED
    BY <1>4, <2>1 DEF N!ReadCommand
<1>5. CASE N!ClearCommand
  BY <1>5 DEF N!ClearCommand
<1>6. CASE N!EndProcess
  <2>1. operatingState' \in NodeStates
    BY <1>6 DEF N!EndProcess, N!AfterErrors
  <2> QED
    BY <1>6, <2>1 DEF N!EndProcess
<1>7. CASE N!OD_write_1017
  BY <1>7 DEF N!OD_write_1017
<1>8. CASE N!ErrorChanges
  BY <1>8 DEF N!ErrorChanges
<1>9. CASE UNCHANGED N!nodeVars
  BY <1>0, <1>9 DEF N!nodeVars, nodeVars
<1> QED
  BY <1>0, <1>1, <1>2, <1>3, <1>4, <1>5, <1>6, <1>7, <1>8, <1>9 DEF N!Next

(* Only the end of CO_NMT_process changes the state.                       *)
LEMMA NmtChanges ==
  ASSUME N!Next \/ UNCHANGED nodeVars, operatingState' # operatingState
  PROVE  nmtAt # "out"
BY DEF N!Next, N!CO_NMT_receive, N!OtherReceive, N!SendHeartbeat, N!ReadCommand,
       N!ClearCommand, N!EndProcess, N!OD_write_1017, N!ErrorChanges, N!nodeVars, nodeVars

(***************************************************************************)
(* Sequences in order, for the log and for the frames of the bus.  `order' *)
(* is a set of pairs.                                                      *)
(***************************************************************************)
Sorted(s, order) == \A i, j \in 1..Len(s) : i < j => <<s[i], s[j]>> \in order

Before(s, t, order) == \A i \in 1..Len(s), j \in 1..Len(t) : <<s[i], t[j]>> \in order

(* t is s from its place k + 1 on, as far as t goes.                       *)
Piece(t, s, k) ==
  k \in Nat /\ k + Len(t) <= Len(s) /\ \A i \in 1..Len(t) : t[i] = s[k + i]

LEMMA PieceKeeps ==
  ASSUME NEW S, NEW s \in Seq(S), NEW t \in Seq(S), NEW k, Piece(t, s, k), NEW order
  PROVE  /\ Sorted(s, order) => Sorted(t, order)
         /\ \A u \in Seq(S) : Before(s, u, order) => Before(t, u, order)
         /\ \A u \in Seq(S) : Before(u, s, order) => Before(u, t, order)
<1>1. \A i \in 1..Len(t) : k + i \in 1..Len(s) /\ t[i] = s[k + i]
  BY LenProperties DEF Piece
<1>2. ASSUME Sorted(s, order)
      PROVE  Sorted(t, order)
  <2> SUFFICES ASSUME NEW i \in 1..Len(t), NEW j \in 1..Len(t), i < j
               PROVE  <<t[i], t[j]>> \in order
    BY DEF Sorted
  <2>1. k + i < k + j
    BY LenProperties DEF Piece
  <2> QED
    BY <1>1, <1>2, <2>1 DEF Sorted
<1>3. ASSUME NEW u \in Seq(S), Before(s, u, order)
      PROVE  Before(t, u, order)
  BY <1>1, <1>3 DEF Before
<1>4. ASSUME NEW u \in Seq(S), Before(u, s, order)
      PROVE  Before(u, t, order)
  BY <1>1, <1>4 DEF Before
<1> QED
  BY <1>2, <1>3, <1>4

LEMMA SubSeqIsPiece ==
  ASSUME NEW S, NEW s \in Seq(S), NEW m \in 1..Len(s) + 1, NEW n \in Int, n <= Len(s)
  PROVE  SubSeq(s, m, n) \in Seq(S) /\ Piece(SubSeq(s, m, n), s, m - 1)
<1>1. \A i \in m..n : s[i] \in S
  BY LenProperties
<1>2. /\ SubSeq(s, m, n) \in Seq(S)
      /\ Len(SubSeq(s, m, n)) = IF m <= n THEN n - m + 1 ELSE 0
      /\ \A i \in 1..n - m + 1 : SubSeq(s, m, n)[i] = s[m + i - 1]
  BY <1>1, SubSeqProperties, LenProperties
<1>3. m - 1 \in Nat /\ m - 1 + Len(SubSeq(s, m, n)) <= Len(s)
  BY <1>2, LenProperties
<1>4. ASSUME NEW i \in 1..Len(SubSeq(s, m, n))
      PROVE  SubSeq(s, m, n)[i] = s[m - 1 + i]
  <2>1. i \in 1..n - m + 1 /\ m + i - 1 = m - 1 + i
    BY <1>2, LenProperties
  <2> QED
    BY <1>2, <2>1
<1> QED
  BY <1>2, <1>3, <1>4 DEF Piece

LEMMA TailIsPiece ==
  ASSUME NEW S, NEW s \in Seq(S), s # <<>>
  PROVE  Head(s) \in S /\ Tail(s) \in Seq(S) /\ Piece(Tail(s), s, 1) /\ Head(s) = s[1]
         /\ Len(s) \in Nat \ {0}
BY HeadTailProperties, LenProperties DEF Piece

LEMMA JoinKeeps ==
  ASSUME NEW S, NEW s \in Seq(S), NEW t \in Seq(S), NEW order
  PROVE  /\ s \o t \in Seq(S)
         /\ Sorted(s, order) /\ Sorted(t, order) /\ Before(s, t, order)
              => Sorted(s \o t, order)
         /\ \A u \in Seq(S) : Before(s, u, order) /\ Before(t, u, order)
                                => Before(s \o t, u, order)
         /\ \A u \in Seq(S) : Before(u, s, order) /\ Before(u, t, order)
                                => Before(u, s \o t, order)
<1> DEFINE j == s \o t
<1>1. /\ j \in Seq(S) /\ Len(j) = Len(s) + Len(t)
      /\ \A i \in 1..Len(s) + Len(t) : j[i] = IF i <= Len(s) THEN s[i] ELSE t[i - Len(s)]
  BY ConcatProperties
<1>2. Len(s) \in Nat /\ Len(t) \in Nat
  BY LenProperties
<1> HIDE DEF j
<1>3. \A i \in 1..Len(j) : \/ i \in 1..Len(s) /\ j[i] = s[i]
                           \/ i - Len(s) \in 1..Len(t) /\ j[i] = t[i - Len(s)]
  BY <1>1, <1>2
<1>4. ASSUME Sorted(s, order), Sorted(t, order), Before(s, t, order)
      PROVE  Sorted(j, order)
  <2> SUFFICES ASSUME NEW a \in 1..Len(j), NEW b \in 1..Len(j), a < b
               PROVE  <<j[a], j[b]>> \in order
    BY DEF Sorted
  <2>1. CASE b <= Len(s)
    <3>1. a \in 1..Len(s) /\ b \in 1..Len(s)
      BY <1>1, <1>2, <2>1
    <3>2. j[a] = s[a] /\ j[b] = s[b]
      BY ONLY <1>1, <1>2, <3>1
    <3> QED
      BY ONLY <1>4, <3>1, <3>2, a < b DEF Sorted
  <2>2. CASE a <= Len(s) /\ ~(b <= Len(s))
    <3>1. a \in 1..Len(s) /\ b - Len(s) \in 1..Len(t)
      BY <1>1, <1>2, <2>2
    <3> QED
      BY <1>1, <1>2, <1>4, <2>2, <3>1 DEF Before
  <2>3. CASE ~(a <= Len(s))
    <3>1. a - Len(s) \in 1..Len(t) /\ b - Len(s) \in 1..Len(t) /\ a - Len(s) < b - Len(s)
          /\ ~(b <= Len(s))
      BY <1>1, <1>2, <2>3
    <3> QED
      BY <1>1, <1>2, <1>4, <2>3, <3>1 DEF Sorted
  <2> QED
    BY <1>1, <1>2, <2>1, <2>2, <2>3
<1>5. ASSUME NEW u \in Seq(S), Before(s, u, order), Before(t, u, order)
      PROVE  Before(j, u, order)
  BY <1>3, <1>5 DEF Before
<1>6. ASSUME NEW u \in Seq(S), Before(u, s, order), Before(u, t, order)
      PROVE  Before(u, j, order)
  BY <1>3, <1>6 DEF Before
<1> QED
  BY <1>1, <1>4, <1>5, <1>6 DEF j

(***************************************************************************)
(* The log.  What the port has sent, what is being sent and what is in the *)
(* stream are in order, one after the other; the message being formatted   *)
(* is younger than all of it, and its logger alone.                        *)
(***************************************************************************)
CharsUpTo(m) == (0..m) \X Nat
CharOrder ==
  {p \in (Nat \X Nat) \X (Nat \X Nat) :
     p[1][1] < p[2][1] \/ (p[1][1] = p[2][1] /\ p[1][2] < p[2][2])}

DebugTypes ==
  /\ logs \in Nat
  /\ msg \in [Logger -> 0..logs] /\ offset \in [Logger -> 0..MsgLen]
  /\ debugMsgBuff \in [1..MsgLen -> Nat \X Nat]
  /\ \A l \in Logger : msg[l] # 0 <=> l \in debugLogMutex
  /\ \A l, k \in debugLogMutex : l = k
  /\ debugLogMutex \subseteq Logger
  /\ \A l \in debugLogMutex : \A i \in 1..offset[l] : debugMsgBuff[i] = <<msg[l], i>>

(* What the UART still has to send of what the task took: all of it before *)
(* it starts, and the rest from the interrupt's place on afterwards.  The  *)
(* semaphore is given when and only when there is no rest.                 *)
UartState ==
  /\ debugPort \in BOOLEAN
  /\ txBuffer \in [1..ChunkLen -> Nat \X Nat] /\ txLen \in 0..ChunkLen
  /\ \/ sending \in {"no", "got"} /\ txLeft = 0 /\ txCplt = 0 /\ (sending = "got" => txLen # 0)
     \/ sending = "wait" /\ txNext \in 1..txLen /\ txLeft = txLen + 1 - txNext /\ txCplt = 0
     \/ sending = "wait" /\ txLeft = 0 /\ txCplt = 1

Rest == IF sending = "got" THEN SubSeq(txBuffer, 1, txLen)
        ELSE IF txLeft # 0 THEN SubSeq(txBuffer, txNext, txLen)
        ELSE <<>>

PipeInOrder ==
  /\ Sorted(portOut, CharOrder) /\ Sorted(Rest, CharOrder)
  /\ Sorted(debugStream, CharOrder)
  /\ Before(portOut, Rest, CharOrder) /\ Before(portOut, debugStream, CharOrder)
  /\ Before(Rest, debugStream, CharOrder)

PipeUpTo(m) ==
  /\ portOut \in Seq(CharsUpTo(m)) /\ Rest \in Seq(CharsUpTo(m))
  /\ debugStream \in Seq(CharsUpTo(m)) /\ Len(debugStream) <= StreamSize

DebugInTime ==
  /\ DebugTypes /\ UartState /\ PipeInOrder /\ PipeUpTo(logs)
  /\ \A l \in debugLogMutex : PipeUpTo(msg[l] - 1)

(* After a transmission that outlasts its time nothing is promised.        *)
DebugInv == timedOut \/ DebugInTime

(* What is younger than all of it may follow it.                           *)
LEMMA YoungerFollows ==
  ASSUME NEW m \in Nat, NEW s \in Seq(CharsUpTo(m - 1)), NEW t \in Seq({m} \X Nat)
  PROVE  Before(s, t, CharOrder)
<1>1. ASSUME NEW i \in 1..Len(s), NEW j \in 1..Len(t)
      PROVE  <<s[i], t[j]>> \in CharOrder
  <2>1. s[i] \in CharsUpTo(m - 1) /\ t[j] \in {m} \X Nat
    OBVIOUS
  <2>2. PICK c, d : c = s[i] /\ d = t[j]
    OBVIOUS
  <2>3. c \in (0..m - 1) \X Nat /\ d \in {m} \X Nat
    BY <2>1, <2>2 DEF CharsUpTo
  <2>4. PICK c1 \in 0..m - 1, c2 \in Nat, d2 \in Nat : c = <<c1, c2>> /\ d = <<m, d2>>
    BY <2>3
  <2>5. c1 \in Nat /\ c1 < m
    OBVIOUS
  <2> QED
    BY <2>2, <2>4, <2>5 DEF CharOrder
<1> QED
  BY <1>1 DEF Before

LEMMA DebugInit == D!Init => DebugInv
<1> SUFFICES ASSUME D!Init PROVE DebugInTime
  BY DEF DebugInv
<1> USE DebugAssumption DEF D!Init
<1>1. DebugTypes
  <2>1. /\ msg \in [Logger -> 0..logs] /\ offset \in [Logger -> 0..MsgLen]
        /\ debugMsgBuff \in [1..MsgLen -> Nat \X Nat]
    OBVIOUS
  <2>2. \A l \in Logger : msg[l] = 0
    OBVIOUS
  <2> QED
    BY <2>1, <2>2 DEF DebugTypes
<1>2. UartState /\ Rest = <<>>
  <2>1. txBuffer \in [1..ChunkLen -> Nat \X Nat] /\ txLen \in 0..ChunkLen
    OBVIOUS
  <2>2. sending = "no" /\ txLeft = 0 /\ txCplt = 0 /\ debugPort = FALSE
    OBVIOUS
  <2> QED
    BY ONLY <2>1, <2>2 DEF UartState, Rest
<1>3. PipeInOrder
  BY <1>2 DEF PipeInOrder, Sorted, Before
<1>4. PipeUpTo(logs)
  BY <1>2, EmptySeq DEF PipeUpTo
<1> QED
  BY <1>1, <1>2, <1>3, <1>4 DEF DebugInTime

(* A step of a logger leaves the task and the UART alone.                  *)
LEMMA TaskKept ==
  ASSUME UNCHANGED D!taskVars
  PROVE  UNCHANGED <<portOut, Rest>> /\ (UartState => UartState')
BY DEF D!taskVars, D!uartVars, UartState, Rest

LEMMA PipeKept ==
  ASSUME UNCHANGED <<portOut, Rest, debugStream>>
  PROVE  /\ PipeInOrder => PipeInOrder'
         /\ \A m : PipeUpTo(m) => PipeUpTo(m)'
BY DEF PipeInOrder, PipeUpTo

(* What is left of the buffer may be dropped.                              *)
LEMMA RestDropped ==
  ASSUME DebugInTime, UNCHANGED <<portOut, debugStream, debugLogMutex, msg, logs>>,
         DebugTypes', UartState', Rest' = <<>>
  PROVE  DebugInTime'
<1>1. Sorted(<<>>, CharOrder) /\ \A s : Before(s, <<>>, CharOrder) /\ Before(<<>>, s, CharOrder)
  BY DEF Sorted, Before
<1>2. PipeInOrder'
  BY <1>1 DEF PipeInOrder, DebugInTime
<1>3. ASSUME NEW m, PipeUpTo(m) PROVE PipeUpTo(m)'
  BY <1>3, EmptySeq DEF PipeUpTo
<1>4. PICK n : n = logs
  OBVIOUS
<1>5. PipeUpTo(logs)'
  <2>1. PipeUpTo(n)'
    BY <1>3, <1>4 DEF DebugInTime
  <2> QED
    BY <1>4, <2>1 DEF PipeUpTo
<1>6. ASSUME NEW l \in debugLogMutex'
      PROVE  PipeUpTo(msg[l] - 1)'
  <2>1. PICK x : x = msg[l] - 1
    OBVIOUS
  <2>2. PipeUpTo(x)'
    BY <1>3, <2>1 DEF DebugInTime
  <2> QED
    BY <2>1, <2>2 DEF PipeUpTo
<1> QED
  BY <1>2, <1>5, <1>6 DEF DebugInTime

LEMMA DebugTakes ==
  ASSUME DebugInTime, NEW l \in Logger, D!TakeMutex(l)
  PROVE  DebugInTime'
<1>a. DebugTypes /\ UartState /\ PipeInOrder /\ PipeUpTo(logs)
  BY DEF DebugInTime
<1>1. /\ debugLogMutex = {} /\ debugLogMutex' = {l} /\ logs' = logs + 1
      /\ msg[l] = 0
      /\ msg' = [msg EXCEPT ![l] = logs + 1] /\ offset' = [offset EXCEPT ![l] = 0]
      /\ UNCHANGED <<debugMsgBuff, portOut, Rest, debugStream>> /\ UartState'
  BY <1>a, TaskKept DEF D!TakeMutex, D!Enter
<1>2. PICK n \in Nat : n = logs
  BY <1>a DEF DebugTypes
<1>3. logs' = n + 1 /\ msg'[l] = n + 1 /\ offset'[l] = 0
  BY <1>a, <1>1, <1>2 DEF DebugTypes
<1>4. DebugTypes'
  <2>1. msg' \in [Logger -> 0..logs'] /\ offset' \in [Logger -> 0..MsgLen]
    BY <1>a, <1>1, <1>2, <1>3, DebugAssumption DEF DebugTypes
  <2>2. \A k \in Logger : msg'[k] # 0 <=> k \in debugLogMutex'
    BY <1>a, <1>1, <1>2, <1>3 DEF DebugTypes
  <2> QED
    BY <1>a, <1>1, <1>2, <1>3, <2>1, <2>2 DEF DebugTypes
<1>5. PipeUpTo(n)
  BY <1>a, <1>2
<1>6. PipeUpTo(n + 1)
  <2>1. CharsUpTo(n) \subseteq CharsUpTo(n + 1)
    BY DEF CharsUpTo
  <2> QED
    BY <1>5, <2>1, SeqMonotonic DEF PipeUpTo
<1>7. PipeUpTo(n)' /\ PipeUpTo(n + 1)' /\ PipeInOrder'
  BY <1>a, <1>1, <1>5, <1>6, PipeKept
<1>8. PipeUpTo(logs)' /\ PipeUpTo(msg[l] - 1)'
  BY <1>3, <1>7 DEF PipeUpTo
<1> QED
  BY <1>1, <1>4, <1>7, <1>8 DEF DebugInTime

LEMMA DebugFormats ==
  ASSUME DebugInTime, NEW l \in Logger, D!Format(l)
  PROVE  DebugInTime'
<1> USE DebugAssumption
<1>a. DebugTypes /\ UartState /\ PipeInOrder /\ PipeUpTo(logs)
  BY DEF DebugInTime
<1>1. /\ l \in debugLogMutex /\ offset[l] \in 0..MsgLen - 1
      /\ debugMsgBuff' = [debugMsgBuff EXCEPT ![offset[l] + 1] = <<msg[l], offset[l] + 1>>]
      /\ offset' = [offset EXCEPT ![l] = offset[l] + 1]
      /\ UNCHANGED <<debugLogMutex, msg, logs, portOut, Rest, debugStream>> /\ UartState'
  BY <1>a, TaskKept DEF D!Format, DebugTypes
<1>2. PICK o \in Nat : o = offset[l] /\ o + 1 \in 1..MsgLen
  BY <1>1
<1>3. DebugTypes'
  <2>1. offset' \in [Logger -> 0..MsgLen]
    BY <1>a, <1>1, <1>2, SMTT(30) DEF DebugTypes
  <2>2. debugMsgBuff' \in [1..MsgLen -> Nat \X Nat]
    BY <1>a, <1>1, <1>2 DEF DebugTypes
  <2>3. ASSUME NEW i \in 1..o + 1
        PROVE  debugMsgBuff'[i] = <<msg[l], i>>
    <3>1. CASE i = o + 1
      BY <1>a, <1>1, <1>2, <3>1 DEF DebugTypes
    <3>2. CASE i # o + 1
      <4>1. i \in 1..o /\ i \in 1..MsgLen
        BY <1>2, <3>2
      <4>2. debugMsgBuff[i] = <<msg[l], i>>
        BY <1>a, <1>1, <1>2, <4>1 DEF DebugTypes
      <4>3. debugMsgBuff'[i] = debugMsgBuff[i]
        BY <1>a, <1>1, <1>2, <3>2, <4>1 DEF DebugTypes
      <4> QED
        BY <4>2, <4>3
    <3> QED
      BY <3>1, <3>2
  <2>4. \A k \in debugLogMutex : k = l
    BY <1>a, <1>1 DEF DebugTypes
  <2>5. offset'[l] = o + 1
    BY <1>a, <1>1, <1>2 DEF DebugTypes
  <2>6. \A k \in debugLogMutex' : \A i \in 1..offset'[k] : debugMsgBuff'[i] = <<msg'[k], i>>
    BY <1>1, <2>3, <2>4, <2>5
  <2> QED
    BY <1>a, <1>1, <2>1, <2>2, <2>6 DEF DebugTypes
<1>4. PipeInOrder' /\ PipeUpTo(logs)' /\ \A k \in debugLogMutex' : PipeUpTo(msg[k] - 1)'
  BY <1>1 DEF DebugInTime, PipeInOrder, PipeUpTo
<1> QED
  BY <1>1, <1>3, <1>4 DEF DebugInTime

LEMMA DebugSends ==
  ASSUME DebugInTime, NEW l \in Logger, D!StreamSend(l)
  PROVE  DebugInTime'
<1> USE DebugAssumption
<1> DEFINE room == StreamSize - Len(debugStream)
           n == IF MsgLen < room THEN MsgLen ELSE room
<1>a. DebugTypes /\ UartState /\ PipeInOrder /\ PipeUpTo(logs)
  BY DEF DebugInTime
<1>1. /\ l \in debugLogMutex /\ offset[l] = MsgLen
      /\ debugStream' = debugStream \o SubSeq(debugMsgBuff, 1, n)
      /\ debugLogMutex' = debugLogMutex \ {l}
      /\ msg' = [msg EXCEPT ![l] = 0]
      /\ UNCHANGED <<offset, debugMsgBuff, logs, portOut, Rest>> /\ UartState'
  BY <1>a, TaskKept DEF D!StreamSend, DebugTypes
<1>2. PICK m \in Nat : m = msg[l] /\ m <= logs
  BY <1>a DEF DebugTypes
<1>3. PipeUpTo(m - 1)
  BY <1>1, <1>2 DEF DebugInTime
<1>4. Len(debugStream) \in Nat /\ n \in 0..MsgLen /\ n + Len(debugStream) <= StreamSize
  BY <1>a, LenProperties DEF PipeUpTo
<1> DEFINE t == SubSeq(debugMsgBuff, 1, n)
<1> HIDE DEF n
<1>5. \A i \in 1..n : debugMsgBuff[i] = <<m, i>>
  BY <1>a, <1>1, <1>2, <1>4 DEF DebugTypes
<1>6. /\ t \in Seq({m} \X Nat) /\ Len(t) = n
      /\ \A i \in 1..n : t[i] = <<m, i>>
  <2>1. \A i \in 1..n : debugMsgBuff[i] \in {m} \X Nat
    BY <1>5
  <2>2. /\ t \in Seq({m} \X Nat)
        /\ Len(t) = IF 1 <= n THEN n - 1 + 1 ELSE 0
        /\ \A i \in 1..n - 1 + 1 : t[i] = debugMsgBuff[1 + i - 1]
    BY <1>4, <2>1, SubSeqProperties
  <2>3. \A i \in 1..n : 1 + i - 1 = i /\ i \in 1..n - 1 + 1
    BY <1>4
  <2> QED
    BY <1>4, <1>5, <2>2, <2>3
<1>7. Sorted(t, CharOrder)
  BY <1>4, <1>6 DEF Sorted, CharOrder
<1>8. /\ Before(portOut, t, CharOrder) /\ Before(Rest, t, CharOrder)
      /\ Before(debugStream, t, CharOrder)
  BY <1>3, <1>6, YoungerFollows DEF PipeUpTo
<1> HIDE DEF t
<1> DEFINE Chars == CharsUpTo(m)
<1>9. /\ portOut \in Seq(Chars) /\ Rest \in Seq(Chars) /\ debugStream \in Seq(Chars)
      /\ t \in Seq(Chars)
  <2>1. CharsUpTo(m - 1) \subseteq Chars /\ {m} \X Nat \subseteq Chars
    BY DEF CharsUpTo
  <2> HIDE DEF Chars
  <2> QED
    BY <1>3, <1>6, <2>1, SeqMonotonic DEF PipeUpTo
<1>10. debugStream' = debugStream \o t
  BY <1>1 DEF t
<1> HIDE DEF Chars
<1>11. PipeInOrder'
  <2>1. Sorted(debugStream', CharOrder)
    BY <1>a, <1>7, <1>8, <1>9, <1>10, JoinKeeps DEF PipeInOrder
  <2>2. Before(portOut, debugStream', CharOrder)
    BY <1>a, <1>8, <1>9, <1>10, JoinKeeps DEF PipeInOrder
  <2>3. Before(Rest, debugStream', CharOrder)
    BY <1>a, <1>8, <1>9, <1>10, JoinKeeps DEF PipeInOrder
  <2> QED
    BY <1>a, <1>1, <2>1, <2>2, <2>3 DEF PipeInOrder
<1>12. debugStream' \in Seq(Chars) /\ Len(debugStream') <= StreamSize
  BY <1>4, <1>6, <1>9, <1>10, ConcatProperties
<1>13. PipeUpTo(logs)'
  <2>1. Chars \subseteq CharsUpTo(logs)
    BY <1>2, <1>a DEF Chars, CharsUpTo, DebugTypes
  <2> QED
    BY <1>a, <1>1, <1>12, <2>1, SeqMonotonic DEF PipeUpTo
<1>14. debugLogMutex' = {}
  BY <1>a, <1>1 DEF DebugTypes
<1>15. DebugTypes'
  <2>1. msg' \in [Logger -> 0..logs']
    BY <1>a, <1>1 DEF DebugTypes
  <2>2. \A k \in Logger : msg'[k] # 0 <=> k \in debugLogMutex'
    BY <1>a, <1>1 DEF DebugTypes
  <2> QED
    BY <1>a, <1>1, <1>14, <2>1, <2>2 DEF DebugTypes
<1> QED
  BY <1>1, <1>11, <1>13, <1>14, <1>15 DEF DebugInTime

LEMMA DebugReceives ==
  ASSUME DebugInTime, D!StreamReceive
  PROVE  DebugInTime'
<1> USE DebugAssumption
<1> DEFINE n == IF Len(debugStream) < ChunkLen THEN Len(debugStream) ELSE ChunkLen
           s == debugStream
           t == SubSeq(s, 1, n)
           u == SubSeq(s, n + 1, Len(s))
<1>a. DebugTypes /\ UartState /\ PipeInOrder /\ PipeUpTo(logs)
  BY DEF DebugInTime
<1>0. /\ n > 0 /\ sending = "no" /\ sending' = "got" /\ txLen' = n
      /\ txBuffer' = [i \in 1..ChunkLen |-> IF i <= n THEN s[i] ELSE txBuffer[i]]
      /\ debugStream' = u
      /\ UNCHANGED <<debugLogMutex, msg, offset, debugMsgBuff, logs, portOut, txLeft, txCplt,
                     debugPort>>
  BY DEF D!StreamReceive, D!loggerVars, D!uartVars
<1>b. PICK top : top = logs
  OBVIOUS
<1>c. s \in Seq(Nat \X Nat) /\ n \in 1..Len(s) /\ n <= ChunkLen /\ Len(s) \in Nat
  <2>1. s \in Seq(CharsUpTo(top)) /\ CharsUpTo(top) \subseteq Nat \X Nat
    BY <1>a, <1>b DEF PipeUpTo, CharsUpTo, DebugTypes
  <2>2. s \in Seq(Nat \X Nat)
    BY <2>1, SeqMonotonic
  <2> QED
    BY <1>0, <2>2, LenProperties
<1>d. UartState'
  <2>1. \A i \in 1..n : s[i] \in Nat \X Nat
    BY <1>c, LenProperties
  <2>2. txBuffer' \in [1..ChunkLen -> Nat \X Nat]
    BY <1>0, <1>a, <2>1 DEF UartState
  <2>3. n \in 1..ChunkLen
    BY <1>c
  <2> HIDE DEF n
  <2> QED
    BY <1>0, <1>a, <2>2, <2>3 DEF UartState
\* What it has got is a copy of what it took out.
<1>e. Rest' = t
  <2> DEFINE b == txBuffer'
  <2>0. Rest' = SubSeq(b, 1, n)
    BY <1>0 DEF Rest
  <2>1. \A i \in 1..n : b[i] = s[i] /\ s[i] \in Nat \X Nat /\ b[i] \in Nat \X Nat
    BY <1>0, <1>c, LenProperties
  <2> HIDE DEF b, n, s
  <2>2. n \in Nat
    BY <1>c
  <2>3. /\ SubSeq(b, 1, n) \in Seq(Nat \X Nat) /\ Len(SubSeq(b, 1, n)) = IF 1 <= n THEN n - 1 + 1 ELSE 0
        /\ \A i \in 1..n - 1 + 1 : SubSeq(b, 1, n)[i] = b[1 + i - 1]
    BY <2>1, <2>2, SubSeqProperties
  <2>4. /\ SubSeq(s, 1, n) \in Seq(Nat \X Nat) /\ Len(SubSeq(s, 1, n)) = IF 1 <= n THEN n - 1 + 1 ELSE 0
        /\ \A i \in 1..n - 1 + 1 : SubSeq(s, 1, n)[i] = s[1 + i - 1]
    BY <2>1, <2>2, SubSeqProperties
  <2>5. \A i \in 1..n - 1 + 1 : i \in 1..n /\ 1 + i - 1 = i
    BY <2>2
  <2>6. Len(SubSeq(b, 1, n)) = Len(SubSeq(s, 1, n))
        /\ \A i \in 1..Len(SubSeq(b, 1, n)) : SubSeq(b, 1, n)[i] = SubSeq(s, 1, n)[i]
    BY <2>1, <2>2, <2>3, <2>4, <2>5
  <2>7. SubSeq(b, 1, n) = SubSeq(s, 1, n)
    BY <2>3, <2>4, <2>6, SeqEqual
  <2> QED
    BY <2>0, <2>7
<1>1. /\ Rest' = t /\ debugStream' = u /\ UartState'
      /\ UNCHANGED <<debugLogMutex, msg, offset, debugMsgBuff, logs, portOut>>
  BY <1>0, <1>d, <1>e
<1>2. DebugTypes'
  BY <1>a, <1>1 DEF DebugTypes
<1>3. ASSUME NEW m, PipeUpTo(m)
      PROVE  /\ t \in Seq(CharsUpTo(m)) /\ Piece(t, s, 0)
             /\ u \in Seq(CharsUpTo(m)) /\ Piece(u, s, n)
             /\ PipeUpTo(m)'
  <2>1. s \in Seq(CharsUpTo(m)) /\ Len(s) \in Nat /\ portOut \in Seq(CharsUpTo(m))
        /\ Len(s) <= StreamSize
    BY <1>3, LenProperties DEF PipeUpTo
  <2>2. n \in 0..Len(s)
    BY <2>1
  <2> HIDE DEF n, s
  <2>3. n + 1 \in 1..Len(s) + 1 /\ 1 \in 1..Len(s) + 1 /\ Len(s) \in 0..Len(s)
        /\ n + 1 - 1 = n /\ 1 - 1 = 0
    BY <2>1, <2>2
  <2>4. t \in Seq(CharsUpTo(m)) /\ Piece(t, s, 1 - 1)
    BY <2>1, <2>2, <2>3, SubSeqIsPiece
  <2>5. u \in Seq(CharsUpTo(m)) /\ Piece(u, s, n)
    <3>1. PICK p : p = n + 1
      OBVIOUS
    <3>2. PICK last : last = Len(s)
      OBVIOUS
    <3>3. p \in 1..Len(s) + 1 /\ last \in 0..Len(s)
      BY <2>3, <3>1, <3>2
    <3>4. SubSeq(s, p, last) \in Seq(CharsUpTo(m)) /\ Piece(SubSeq(s, p, last), s, p - 1)
      BY <2>1, <3>3, SubSeqIsPiece
    <3>5. p - 1 = n
      BY <2>2, <3>1
    <3>6. u = SubSeq(s, p, last)
      BY <3>1, <3>2
    <3> HIDE DEF u
    <3> QED
      BY <3>4, <3>5, <3>6
  <2> HIDE DEF t, u
  <2>6. Len(u) <= StreamSize
    BY <2>1, <2>2, <2>3, <2>5, LenProperties DEF Piece
  <2>7. PipeUpTo(m)'
    BY <1>1, <2>1, <2>4, <2>5, <2>6 DEF PipeUpTo
  <2> QED
    BY <2>3, <2>4, <2>5, <2>7
<1>4. PICK m : m = logs
  OBVIOUS
<1>5. /\ s \in Seq(CharsUpTo(m)) /\ portOut \in Seq(CharsUpTo(m))
      /\ t \in Seq(CharsUpTo(m)) /\ Piece(t, s, 0)
      /\ u \in Seq(CharsUpTo(m)) /\ Piece(u, s, n)
      /\ PipeUpTo(m)'
  BY <1>a, <1>3, <1>4 DEF PipeUpTo
<1>6. Before(t, u, CharOrder)
  <2>1. \A i \in 1..Len(t), j \in 1..Len(u) :
          i \in 1..Len(s) /\ n + j \in 1..Len(s) /\ i < n + j
    <3>1. Len(t) <= n
      <4>1. Len(t) = IF 1 <= n THEN n - 1 + 1 ELSE 0
        <5>1. n \in Nat /\ n <= Len(s)
          BY <1>5, LenProperties
        <5>2. \A i \in 1..n : s[i] \in CharsUpTo(m)
          BY <1>5, <5>1, LenProperties
        <5> HIDE DEF n, s
        <5> QED
          BY <5>1, <5>2, SubSeqProperties
      <4>2. n \in Nat
        BY <1>5, LenProperties
      <4> QED
        BY <4>1, <4>2
    <3> QED
      BY <1>5, <3>1, LenProperties DEF Piece
  <2> HIDE DEF n, s, t, u
  <2>2. Sorted(s, CharOrder)
    BY <1>a DEF PipeInOrder, s
  <2>3. ASSUME NEW i \in 1..Len(t), NEW j \in 1..Len(u)
        PROVE  <<t[i], u[j]>> \in CharOrder
    <3>1. t[i] = s[0 + i] /\ u[j] = s[n + j] /\ 0 + i = i
      BY <1>5 DEF Piece
    <3>2. <<s[i], s[n + j]>> \in CharOrder
      BY <2>1, <2>2 DEF Sorted
    <3> QED
      BY <3>1, <3>2
  <2> QED
    BY <2>3 DEF Before
<1>7. Sorted(s, CharOrder) /\ Before(portOut, s, CharOrder) /\ Sorted(portOut, CharOrder)
  BY <1>a DEF PipeInOrder
<1> HIDE DEF n, s, t, u
<1>8. PipeInOrder'
  BY <1>1, <1>5, <1>6, <1>7, PieceKeeps DEF PipeInOrder
<1>9. PipeUpTo(logs)'
  BY <1>1, <1>4, <1>5 DEF PipeUpTo
<1>10. ASSUME NEW l \in debugLogMutex'
       PROVE  PipeUpTo(msg[l] - 1)'
  <2>1. PICK k : k = msg[l] - 1
    OBVIOUS
  <2>2. PipeUpTo(k)
    BY <1>1, <2>1 DEF DebugInTime
  <2>3. PipeUpTo(k)'
    BY <1>3, <2>2
  <2> QED
    BY <1>1, <2>1, <2>3 DEF PipeUpTo
<1> QED
  BY <1>1, <1>2, <1>8, <1>9, <1>10 DEF DebugInTime

(* The UART starts on what the task got, or the characters are gone.       *)
LEMMA DebugStarts ==
  ASSUME DebugInTime, D!TransmitStart
  PROVE  DebugInTime'
<1>a. DebugTypes /\ UartState /\ PipeInOrder /\ PipeUpTo(logs)
  BY DEF DebugInTime
<1>1. /\ sending = "got"
      /\ UNCHANGED <<debugLogMutex, msg, offset, debugMsgBuff, logs, debugStream, portOut,
                     txBuffer, txLen, txCplt, debugPort>>
  BY DEF D!TransmitStart, D!loggerVars
<1>2. DebugTypes'
  BY <1>a, <1>1 DEF DebugTypes
<1>3. CASE debugPort
  <2>1. /\ sending' = "wait" /\ txNext' = 1 /\ txLeft' = txLen
        /\ txLen \in Nat \ {0} /\ txCplt = 0
    BY <1>a, <1>1, <1>3 DEF D!TransmitStart, UartState
  <2>2. UartState'
    BY <1>a, <1>1, <2>1 DEF UartState
  <2>3. Rest' = Rest
    BY <1>1, <2>1 DEF Rest
  <2> QED
    BY <1>a, <1>1, <1>2, <2>2, <2>3, PipeKept DEF DebugInTime
<1>4. CASE ~debugPort
  <2>1. sending' = "no" /\ txLeft' = 0 /\ txCplt = 0
    BY <1>a, <1>1, <1>4 DEF D!TransmitStart, UartState
  <2>2. UartState'
    BY <1>a, <1>1, <2>1 DEF UartState
  <2>3. Rest' = <<>>
    BY <2>1 DEF Rest
  <2> QED
    BY <1>1, <1>2, <2>2, <2>3, RestDropped
<1> QED
  BY <1>3, <1>4

(* One character after the other leaves the buffer for the line.           *)
LEMMA DebugTransmits ==
  ASSUME DebugInTime, D!TxInterrupt
  PROVE  DebugInTime'
<1>a. DebugTypes /\ UartState /\ PipeInOrder /\ PipeUpTo(logs)
  BY DEF DebugInTime
<1> DEFINE c == txBuffer[txNext]
<1>1. /\ txLeft > 0 /\ portOut' = Append(portOut, c)
      /\ txNext' = txNext + 1 /\ txLeft' = txLeft - 1
      /\ txCplt' = IF txLeft = 1 THEN 1 ELSE txCplt
      /\ UNCHANGED <<debugLogMutex, msg, offset, debugMsgBuff, logs, debugStream, txBuffer,
                     txLen, sending, debugPort>>
  BY DEF D!TxInterrupt, D!loggerVars
<1>2. DebugTypes'
  BY <1>a, <1>1 DEF DebugTypes
<1>3. /\ sending = "wait" /\ txNext \in 1..txLen /\ txLeft = txLen + 1 - txNext
      /\ txLen \in Nat /\ txLen <= ChunkLen /\ txCplt = 0
  BY <1>a, <1>1, DebugAssumption DEF UartState
<1>4. UartState'
  BY <1>a, <1>1, <1>3 DEF UartState
<1>5. /\ Rest \in Seq(Nat \X Nat) /\ Rest # <<>> /\ c = Head(Rest) /\ Rest' = Tail(Rest)
  <2> DEFINE buf == txBuffer
             S == Nat \X Nat
             r == SubSeq(buf, txNext, txLen)
             q == SubSeq(buf, txNext + 1, txLen)
  <2>1. Rest = r
    BY <1>1, <1>3 DEF Rest
  <2>2. \A i \in txNext..txLen : buf[i] \in S
    BY <1>a, <1>3, DebugAssumption DEF UartState
  <2>3. txNext \in Nat /\ txNext + 1 \in Nat /\ txLen \in Nat
        /\ \A i \in txNext + 1..txLen : buf[i] \in S
    BY <1>3, <2>2
  <2>4. /\ r \in Seq(S) /\ Len(r) = IF txNext <= txLen THEN txLen - txNext + 1 ELSE 0
        /\ \A i \in 1..txLen - txNext + 1 : r[i] = buf[txNext + i - 1]
    BY <2>2, <2>3, SubSeqProperties
  <2>5. /\ q \in Seq(S)
        /\ Len(q) = IF txNext + 1 <= txLen THEN txLen - (txNext + 1) + 1 ELSE 0
        /\ \A i \in 1..txLen - (txNext + 1) + 1 : q[i] = buf[txNext + 1 + i - 1]
    BY <2>3, SubSeqProperties
  <2> HIDE DEF r, q, S, buf
  <2>6. Len(r) = txLen - txNext + 1 /\ Len(r) \in Nat \ {0} /\ Len(q) = txLen - txNext
    BY <1>3, <2>4, <2>5
  <2>7. r # <<>> /\ Head(r) = r[1] /\ r[1] = buf[txNext]
    <3>1. r # <<>>
      BY <2>4, <2>6, EmptySeq
    <3>2. Head(r) = r[1]
      BY <2>4, <3>1, HeadTailProperties
    <3>3. 1 \in 1..txLen - txNext + 1 /\ txNext + 1 - 1 = txNext
      BY <1>3
    <3> QED
      BY <2>4, <3>1, <3>2, <3>3
  <2>8. q = Tail(r)
    <3>1. /\ Tail(r) \in Seq(S) /\ Len(Tail(r)) = Len(r) - 1
          /\ \A i \in 1..Len(Tail(r)) : Tail(r)[i] = r[i + 1]
      BY <2>4, <2>7, HeadTailProperties
    <3>2. Len(Tail(r)) = Len(q)
      BY <1>3, <2>6, <3>1
    <3>3. ASSUME NEW i \in 1..Len(q) PROVE q[i] = Tail(r)[i]
      <4>1. /\ i \in Nat /\ i \in 1..txLen - (txNext + 1) + 1 /\ i + 1 \in 1..txLen - txNext + 1
            /\ txNext + 1 + i - 1 = txNext + i /\ txNext + (i + 1) - 1 = txNext + i
        BY <1>3, <2>6
      <4> QED
        BY <2>4, <2>5, <3>1, <3>2, <4>1
    <3> QED
      BY <2>5, <3>1, <3>2, <3>3, SeqEqual
  <2>9. Rest' = q
    <3>1. CASE txLeft = 1
      <4>1. Rest' = <<>> /\ Len(q) = 0
        BY <1>1, <1>3, <2>6, <3>1 DEF Rest
      <4> QED
        BY <2>5, <4>1, EmptySeq
    <3>2. CASE txLeft # 1
      BY <1>1, <1>3, <3>2 DEF Rest, q, buf
    <3> QED
      BY <3>1, <3>2
  <2> QED
    BY <2>1, <2>4, <2>7, <2>8, <2>9 DEF buf, S
<1> HIDE DEF c
<1>6. ASSUME NEW m, PipeUpTo(m)
      PROVE  /\ <<c>> \in Seq(CharsUpTo(m)) /\ Piece(<<c>>, Rest, 0)
             /\ Rest' \in Seq(CharsUpTo(m)) /\ Piece(Rest', Rest, 1)
             /\ portOut' = portOut \o <<c>> /\ PipeUpTo(m)'
  <2> DEFINE S == CharsUpTo(m)
  <2>1. portOut \in Seq(S) /\ Rest \in Seq(S) /\ debugStream \in Seq(S)
        /\ Len(debugStream) <= StreamSize
    BY <1>6 DEF PipeUpTo
  <2> HIDE DEF S
  <2>2. c \in S /\ Tail(Rest) \in Seq(S) /\ Piece(Tail(Rest), Rest, 1) /\ c = Rest[1]
        /\ Len(Rest) \in Nat \ {0}
    BY <1>5, <2>1, TailIsPiece
  <2>3. <<c>> \in Seq(S) /\ Len(<<c>>) = 1 /\ <<c>>[1] = c
    BY <2>2
  <2>4. Piece(<<c>>, Rest, 0)
    BY <2>2, <2>3 DEF Piece
  <2>5. portOut' = portOut \o <<c>>
    BY <1>1, <2>1, <2>2, AppendIsConcat DEF c
  <2>6. portOut' \in Seq(S)
    BY <2>1, <2>3, <2>5, ConcatProperties
  <2>7. PipeUpTo(m)'
    BY <1>1, <1>5, <2>1, <2>2, <2>6 DEF PipeUpTo, S
  <2> QED
    BY <1>5, <2>2, <2>3, <2>4, <2>5, <2>7 DEF S
<1>7. PICK m : m = logs
  OBVIOUS
<1> DEFINE k == <<c>>
<1>8. /\ portOut \in Seq(CharsUpTo(m)) /\ debugStream \in Seq(CharsUpTo(m))
      /\ Rest \in Seq(CharsUpTo(m)) /\ Rest' \in Seq(CharsUpTo(m)) /\ Piece(Rest', Rest, 1)
      /\ k \in Seq(CharsUpTo(m)) /\ Piece(k, Rest, 0) /\ PipeUpTo(m)'
      /\ portOut' = portOut \o k
  BY <1>a, <1>6, <1>7 DEF PipeUpTo
<1>9. Before(k, Rest', CharOrder)
  <2>1. k[1] = Rest[1] /\ Len(k) = 1 /\ Len(Rest') \in Nat /\ Len(Rest) \in Nat
    BY <1>8, LenProperties DEF Piece
  <2>2. ASSUME NEW i \in 1..Len(k), NEW j \in 1..Len(Rest')
        PROVE  <<k[i], Rest'[j]>> \in CharOrder
    <3>1. i = 1 /\ 1 + j \in 1..Len(Rest) /\ Rest'[j] = Rest[1 + j] /\ 1 < 1 + j
          /\ 1 \in 1..Len(Rest)
      BY <1>8, <2>1 DEF Piece
    <3>2. <<Rest[1], Rest[1 + j]>> \in CharOrder
      BY <1>a, <3>1 DEF PipeInOrder, Sorted
    <3> QED
      BY <2>1, <3>1, <3>2
  <2> QED
    BY <2>2 DEF Before
<1> HIDE DEF k
<1>10. /\ Sorted(k, CharOrder) /\ Before(portOut, k, CharOrder)
       /\ Before(k, debugStream, CharOrder)
       /\ Sorted(Rest', CharOrder) /\ Before(portOut, Rest', CharOrder)
       /\ Before(Rest', debugStream, CharOrder)
  BY <1>a, <1>8, PieceKeeps DEF PipeInOrder
<1>11. /\ Sorted(portOut', CharOrder) /\ Before(portOut', debugStream, CharOrder)
       /\ Before(portOut', Rest', CharOrder)
  BY <1>a, <1>8, <1>9, <1>10, JoinKeeps DEF PipeInOrder
<1>12. PipeInOrder'
  BY <1>a, <1>1, <1>10, <1>11 DEF PipeInOrder
<1>13. PipeUpTo(logs)'
  BY <1>1, <1>7, <1>8 DEF PipeUpTo
<1>14. ASSUME NEW l \in debugLogMutex'
       PROVE  PipeUpTo(msg[l] - 1)'
  <2>1. PICK x : x = msg[l] - 1
    OBVIOUS
  <2>2. PipeUpTo(x)
    BY <1>1, <2>1 DEF DebugInTime
  <2>3. PipeUpTo(x)'
    BY <1>6, <2>2
  <2> QED
    BY <1>1, <2>1, <2>3 DEF PipeUpTo
<1> QED
  BY <1>2, <1>4, <1>12, <1>13, <1>14 DEF DebugInTime

LEMMA DebugIsDone ==
  ASSUME DebugInTime, D!TransmitDone
  PROVE  DebugInTime'
<1>a. DebugTypes /\ UartState
  BY DEF DebugInTime
<1>1. /\ sending = "wait" /\ txCplt = 1 /\ txCplt' = 0 /\ sending' = "no"
      /\ UNCHANGED <<debugLogMutex, msg, offset, debugMsgBuff, logs, debugStream, portOut,
                     txBuffer, txLen, txNext, txLeft, debugPort>>
  BY DEF D!TransmitDone, D!loggerVars
<1>2. txLeft = 0
  BY <1>a, <1>1 DEF UartState
<1>3. DebugTypes'
  BY <1>a, <1>1 DEF DebugTypes
<1>4. UartState' /\ Rest' = <<>>
  BY <1>a, <1>1, <1>2 DEF UartState, Rest
<1> QED
  BY <1>1, <1>3, <1>4, RestDropped

LEMMA DebugStep ==
  ASSUME DebugInv, D!Next \/ UNCHANGED debugVars
  PROVE  DebugInv'
<1>1. CASE timedOut
  <2>1. timedOut'
    BY <1>1 DEF D!Next, D!Log, D!TakeMutex, D!Enter, D!Format, D!StreamSend, D!DebugTask,
                D!StreamReceive, D!TransmitStart, D!TransmitDone, D!TransmitTimeout,
                D!TxInterrupt, D!DEBUG_setPort, D!taskVars, D!uartVars, debugVars
  <2> QED
    BY <2>1 DEF DebugInv
<1>2. CASE D!TransmitTimeout
  BY <1>2 DEF D!TransmitTimeout, DebugInv
<1>3. CASE ~timedOut /\ (UNCHANGED debugVars \/ D!DEBUG_setPort)
  <2>1. DebugInTime
    BY <1>3 DEF DebugInv
  <2>2. /\ debugPort' \in BOOLEAN
        /\ UNCHANGED <<debugLogMutex, msg, offset, debugMsgBuff, logs, debugStream, portOut,
                       txBuffer, txLen, sending, txNext, txLeft, txCplt>>
    BY <1>3, <2>1 DEF D!DEBUG_setPort, D!loggerVars, D!uartVars, debugVars, DebugInTime, UartState
  <2>3. Rest' = Rest /\ UartState'
    BY <2>1, <2>2 DEF Rest, UartState, DebugInTime
  <2> QED
    BY <2>1, <2>2, <2>3 DEF DebugInv, DebugInTime, DebugTypes, PipeInOrder, PipeUpTo
<1> QED
  BY <1>1, <1>2, <1>3, DebugTakes, DebugFormats, DebugSends, DebugReceives, DebugStarts,
     DebugTransmits, DebugIsDone
     DEF D!Next, D!Log, D!DebugTask, DebugInv

LEMMA DebugInOrder == DebugInv => D!LogInOrder
<1> SUFFICES ASSUME DebugInTime, NEW i \in 1..Len(portOut) - 1
             PROVE  \/ portOut[i][1] < portOut[i + 1][1]
                    \/ /\ portOut[i][1] = portOut[i + 1][1]
                       /\ portOut[i][2] < portOut[i + 1][2]
  BY DEF D!LogInOrder, DebugInv
<1>1. Len(portOut) \in Nat
  BY LenProperties DEF DebugInTime, PipeUpTo
<1>2. i \in 1..Len(portOut) /\ i + 1 \in 1..Len(portOut) /\ i < i + 1
  BY <1>1
<1>3. <<portOut[i], portOut[i + 1]>> \in CharOrder
  BY <1>2 DEF DebugInTime, PipeInOrder, Sorted
<1> QED
  BY <1>3 DEF CharOrder

(***************************************************************************)
(* The frames of the bus.  What was dispatched, what waits in the queue    *)
(* and what is in the controller are in the order of arrival, one after    *)
(* the other, whichever of them are lost in between.                       *)
(***************************************************************************)
RxFrame ==
  [ident : {f.ident : f \in Arrivals}, data : {f.data : f \in Arrivals}, number : Nat]

(* A callback with a frame it was registered for.                          *)
Callee ==
  {c \in [number : Nat, ident : {f.ident : f \in Arrivals},
          to : {rxArray[k].callback : k \in DOMAIN rxArray}] :
     \E k \in DOMAIN rxArray :
       /\ rxArray[k].callback = c.to /\ rxArray[k].callback # "NULL"
       /\ c.ident \in rxArray[k].idents}

Numbered == RxFrame \cup Callee
NumberOrder == {p \in Numbered \X Numbered : p[1].number < p[2].number}
NumbersUpTo(m) == {f \in Numbered : f.number <= m}

RxInOrder ==
  /\ Sorted(dispatched, NumberOrder) /\ Sorted(rxQueue, NumberOrder)
  /\ Sorted(fifo, NumberOrder)
  /\ Before(dispatched, rxQueue, NumberOrder) /\ Before(dispatched, fifo, NumberOrder)
  /\ Before(rxQueue, fifo, NumberOrder)

(* The node of part "nmt" has a controller of one place.                   *)
Places == IF part = "nmt" THEN 1 ELSE FifoLen

RxInv ==
  /\ arrived \in Nat
  /\ dispatched \in Seq(Callee) /\ rxQueue \in Seq(RxFrame) /\ fifo \in Seq(RxFrame)
  /\ dispatched \in Seq(NumbersUpTo(arrived)) /\ rxQueue \in Seq(NumbersUpTo(arrived))
  /\ fifo \in Seq(NumbersUpTo(arrived)) /\ Len(fifo) <= Places
  /\ RxInOrder

LEMMA AppendKeeps ==
  ASSUME NEW S, NEW s \in Seq(S), NEW x \in S, NEW order
  PROVE  /\ Append(s, x) \in Seq(S) /\ Len(Append(s, x)) = Len(s) + 1
         /\ Sorted(s, order) /\ (\A i \in 1..Len(s) : <<s[i], x>> \in order)
              => Sorted(Append(s, x), order)
         /\ \A u \in Seq(S) : /\ Before(u, s, order)
                              /\ \A i \in 1..Len(u) : <<u[i], x>> \in order
                              => Before(u, Append(s, x), order)
         /\ \A u \in Seq(S) : /\ Before(s, u, order)
                              /\ \A i \in 1..Len(u) : <<x, u[i]>> \in order
                              => Before(Append(s, x), u, order)
<1> DEFINE t == Append(s, x)
<1>1. /\ t \in Seq(S) /\ Len(t) = Len(s) + 1 /\ Len(s) \in Nat
      /\ \A i \in 1..Len(s) : t[i] = s[i]
      /\ t[Len(s) + 1] = x
  BY AppendProperties, LenProperties
<1> HIDE DEF t
<1>2. \A i \in 1..Len(t) : i \in 1..Len(s) \/ i = Len(s) + 1
  BY <1>1
<1>3. ASSUME Sorted(s, order), \A i \in 1..Len(s) : <<s[i], x>> \in order
      PROVE  Sorted(t, order)
  <2> SUFFICES ASSUME NEW i \in 1..Len(t), NEW j \in 1..Len(t), i < j
               PROVE  <<t[i], t[j]>> \in order
    BY DEF Sorted
  <2>1. i \in 1..Len(s)
    BY <1>1, <1>2
  <2> QED
    BY <1>1, <1>2, <1>3, <2>1 DEF Sorted
<1>4. ASSUME NEW u \in Seq(S), Before(u, s, order), \A i \in 1..Len(u) : <<u[i], x>> \in order
      PROVE  Before(u, t, order)
  BY <1>1, <1>2, <1>4 DEF Before
<1>5. ASSUME NEW u \in Seq(S), Before(s, u, order), \A i \in 1..Len(u) : <<x, u[i]>> \in order
      PROVE  Before(t, u, order)
  BY <1>1, <1>2, <1>5 DEF Before
<1> QED
  BY <1>1, <1>3, <1>4, <1>5 DEF t

(* A frame with a new number comes after all that came before.             *)
LEMMA NewIsLast ==
  ASSUME NEW m \in Nat, NEW s \in Seq(NumbersUpTo(m)), NEW f \in Numbered, f.number = m + 1
  PROVE  \A i \in 1..Len(s) : <<s[i], f>> \in NumberOrder
<1> SUFFICES ASSUME NEW i \in 1..Len(s)
             PROVE  <<s[i], f>> \in NumberOrder
  OBVIOUS
<1>1. s[i] \in NumbersUpTo(m)
  OBVIOUS
<1>2. s[i].number \in Nat
  BY <1>1 DEF NumbersUpTo, Numbered, RxFrame, Callee
<1> QED
  BY <1>1, <1>2 DEF NumbersUpTo, NumberOrder

LEMMA RxSets ==
  ASSUME RxInv
  PROVE  /\ dispatched \in Seq(Numbered) /\ rxQueue \in Seq(Numbered)
         /\ fifo \in Seq(Numbered)
         /\ Len(dispatched) \in Nat /\ Len(rxQueue) \in Nat /\ Len(fifo) \in Nat
<1>1. NumbersUpTo(arrived) \subseteq Numbered
  BY DEF NumbersUpTo
<1> QED
  BY <1>1, SeqMonotonic, LenProperties DEF RxInv

LEMMA RxInitial == B!CanInit => RxInv
<1> SUFFICES ASSUME B!CanInit PROVE RxInv
  OBVIOUS
<1>1. Sorted(<<>>, NumberOrder) /\ Before(<<>>, <<>>, NumberOrder)
  BY DEF Sorted, Before
<1>2. Places \in Nat
  BY CanAssumption DEF Places
<1> QED
  BY <1>1, <1>2, EmptySeq DEF B!CanInit, RxInv, RxInOrder

(* A frame arrives, and may take the last place of a full controller.      *)
LEMMA RxArrives ==
  ASSUME RxInv, part' = part, arrived' = arrived + 1,
         NEW f \in RxFrame, f.number = arrived + 1,
         \/ Len(fifo) < Places /\ fifo' = Append(fifo, f)
         \/ fifo' = fifo
         \/ Len(fifo) >= Places /\ fifo' = [fifo EXCEPT ![Places] = f],
         UNCHANGED <<rxQueue, dispatched>>
  PROVE  RxInv'
<1> DEFINE n == arrived
<1>1. /\ n \in Nat /\ Places \in Nat \ {0} /\ Places' = Places
      /\ dispatched \in Seq(Numbered) /\ rxQueue \in Seq(Numbered) /\ fifo \in Seq(Numbered)
      /\ Len(fifo) \in Nat /\ Len(fifo) <= Places
      /\ f \in Numbered
  BY RxSets, CanAssumption DEF RxInv, Places, Numbered
<1>2. NumbersUpTo(n) \subseteq NumbersUpTo(n + 1)
  BY <1>1 DEF NumbersUpTo, Numbered, RxFrame, Callee
<1>3. f \in NumbersUpTo(n + 1)
  BY <1>1 DEF NumbersUpTo
<1>4. /\ dispatched \in Seq(NumbersUpTo(n)) /\ rxQueue \in Seq(NumbersUpTo(n))
      /\ fifo \in Seq(NumbersUpTo(n)) /\ fifo \in Seq(RxFrame)
  BY DEF RxInv
<1>5. /\ dispatched \in Seq(NumbersUpTo(n + 1)) /\ rxQueue \in Seq(NumbersUpTo(n + 1))
      /\ fifo \in Seq(NumbersUpTo(n + 1))
  BY <1>2, <1>4, SeqMonotonic
<1>6. /\ \A i \in 1..Len(dispatched) : <<dispatched[i], f>> \in NumberOrder
      /\ \A i \in 1..Len(rxQueue) : <<rxQueue[i], f>> \in NumberOrder
      /\ \A i \in 1..Len(fifo) : <<fifo[i], f>> \in NumberOrder
  BY <1>1, <1>4, NewIsLast
<1>7. /\ fifo' \in Seq(RxFrame) /\ fifo' \in Seq(NumbersUpTo(n + 1)) /\ Len(fifo') <= Places
      /\ Sorted(fifo', NumberOrder) /\ Before(dispatched, fifo', NumberOrder)
      /\ Before(rxQueue, fifo', NumberOrder)
  <2>0. /\ Sorted(fifo, NumberOrder) /\ Before(dispatched, fifo, NumberOrder)
        /\ Before(rxQueue, fifo, NumberOrder)
    BY DEF RxInv, RxInOrder
  <2>1. CASE fifo' = fifo
    BY <1>1, <1>4, <1>5, <2>0, <2>1
  <2>2. CASE Len(fifo) < Places /\ fifo' = Append(fifo, f)
    <3>1. fifo' \in Seq(RxFrame) /\ Len(fifo') = Len(fifo) + 1
      BY <1>4, <2>2, AppendKeeps
    <3>2. fifo' \in Seq(NumbersUpTo(n + 1))
      BY <1>3, <1>5, <2>2, AppendKeeps
    <3>3. /\ Sorted(fifo', NumberOrder) /\ Before(dispatched, fifo', NumberOrder)
          /\ Before(rxQueue, fifo', NumberOrder)
      BY <1>1, <1>6, <2>0, <2>2, AppendKeeps
    <3> QED
      BY <1>1, <2>2, <3>1, <3>2, <3>3
  <2>3. CASE Len(fifo) >= Places /\ fifo' = [fifo EXCEPT ![Places] = f]
    <3>1. Len(fifo) = Places
      BY <1>1, <2>3
    <3>2. ASSUME NEW S, fifo \in Seq(S), f \in S
          PROVE  fifo' \in Seq(S) /\ Len(fifo') = Len(fifo)
      BY <1>1, <2>3, <3>2
    <3>3. \A i \in 1..Len(fifo) : fifo'[i] = IF i = Places THEN f ELSE fifo[i]
      BY <1>1, <2>3
    <3>4. Len(fifo') = Len(fifo) /\ fifo' \in Seq(RxFrame) /\ fifo' \in Seq(NumbersUpTo(n + 1))
      BY <1>3, <1>4, <1>5, <3>2
    <3>5. Sorted(fifo', NumberOrder)
      <4> SUFFICES ASSUME NEW i \in 1..Len(fifo), NEW j \in 1..Len(fifo), i < j
                   PROVE  <<fifo'[i], fifo'[j]>> \in NumberOrder
        BY <3>4 DEF Sorted
      <4>1. fifo'[i] = fifo[i]
        BY <1>1, <3>1, <3>3
      <4> QED
        BY <1>6, <2>0, <3>3, <4>1 DEF Sorted
    <3>6. Before(dispatched, fifo', NumberOrder) /\ Before(rxQueue, fifo', NumberOrder)
      BY <1>6, <2>0, <3>3, <3>4 DEF Before
    <3> QED
      BY <1>1, <3>4, <3>5, <3>6
  <2> QED
    BY <2>1, <2>2, <2>3
<1>8. RxInOrder'
  BY <1>7 DEF RxInv, RxInOrder
<1> QED
  BY <1>1, <1>5, <1>7, <1>8 DEF RxInv

(* The interrupt moves what there is room for, and drops the rest.         *)
LEMMA RxMoves ==
  ASSUME RxInv, part' = part, NEW n \in Int, n <= Len(fifo), fifo' = <<>>,
         rxQueue' = rxQueue \o SubSeq(fifo, 1, n), UNCHANGED <<arrived, dispatched>>
  PROVE  RxInv'
<1> DEFINE t == SubSeq(fifo, 1, n)
<1>1. /\ dispatched \in Seq(Numbered) /\ rxQueue \in Seq(Numbered) /\ fifo \in Seq(Numbered)
      /\ Len(fifo) \in Nat
  BY RxSets
<1>2. ASSUME NEW S, fifo \in Seq(S)
      PROVE  t \in Seq(S) /\ Piece(t, fifo, 0)
  <2>1. 1 \in 1..Len(fifo) + 1 /\ 1 - 1 = 0
    BY <1>1
  <2> QED
    BY <1>2, <2>1, SubSeqIsPiece
<1>3. /\ t \in Seq(Numbered) /\ t \in Seq(RxFrame) /\ t \in Seq(NumbersUpTo(arrived))
      /\ Piece(t, fifo, 0)
  BY <1>1, <1>2 DEF RxInv
<1> HIDE DEF t
<1>4. rxQueue' = rxQueue \o t
  BY DEF t
<1>5. rxQueue' \in Seq(RxFrame) /\ rxQueue' \in Seq(NumbersUpTo(arrived))
  BY <1>3, <1>4, ConcatProperties DEF RxInv
<1>6. /\ Sorted(t, NumberOrder) /\ Before(dispatched, t, NumberOrder)
      /\ Before(rxQueue, t, NumberOrder)
  BY <1>1, <1>3, PieceKeeps DEF RxInv, RxInOrder
<1>7. Sorted(rxQueue, NumberOrder) /\ Before(dispatched, rxQueue, NumberOrder)
  BY DEF RxInv, RxInOrder
<1>8. Sorted(rxQueue', NumberOrder) /\ Before(dispatched, rxQueue', NumberOrder)
  <2>1. /\ Sorted(rxQueue, NumberOrder) /\ Sorted(t, NumberOrder)
           /\ Before(rxQueue, t, NumberOrder) => Sorted(rxQueue \o t, NumberOrder)
        /\ Before(dispatched, rxQueue, NumberOrder) /\ Before(dispatched, t, NumberOrder)
             => Before(dispatched, rxQueue \o t, NumberOrder)
    BY <1>1, <1>3, JoinKeeps
  <2> QED
    BY ONLY <1>4, <1>6, <1>7, <2>1
<1>9. /\ Sorted(<<>>, NumberOrder)
      /\ \A s : Before(s, <<>>, NumberOrder)
  BY DEF Sorted, Before
<1>10. RxInOrder'
  BY <1>8, <1>9 DEF RxInv, RxInOrder
<1>11. Places' = Places /\ Places \in Nat
  BY CanAssumption DEF Places
<1> QED
  BY <1>5, <1>10, <1>11, EmptySeq DEF RxInv

(* The receive thread takes the first frame to the callback it matches.    *)
LEMMA RxDispatches ==
  ASSUME RxInv, part' = part, NEW callback, B!Receive(callback)
  PROVE  RxInv'
<1> DEFINE f == Head(rxQueue)
           c == [number |-> f.number, ident |-> f.ident, to |-> callback]
<1>1. /\ rxQueue # <<>> /\ rxQueue' = Tail(rxQueue) /\ UNCHANGED <<fifo, arrived>>
      /\ dispatched' = dispatched \/ (callback # "none" /\ dispatched' = Append(dispatched, c))
  BY DEF B!Receive
<1>2. /\ dispatched \in Seq(Numbered) /\ rxQueue \in Seq(Numbered) /\ fifo \in Seq(Numbered)
      /\ Len(rxQueue) \in Nat
  BY RxSets
<1>3. ASSUME NEW S, rxQueue \in Seq(S)
      PROVE  /\ f \in S /\ Tail(rxQueue) \in Seq(S) /\ Piece(Tail(rxQueue), rxQueue, 1)
             /\ f = rxQueue[1] /\ Len(rxQueue) >= 1
  BY <1>1, <1>3, TailIsPiece
<1>4. /\ f \in RxFrame /\ f \in NumbersUpTo(arrived) /\ f = rxQueue[1] /\ 1 \in 1..Len(rxQueue)
      /\ rxQueue' \in Seq(RxFrame) /\ rxQueue' \in Seq(NumbersUpTo(arrived))
      /\ rxQueue' \in Seq(Numbered) /\ Piece(rxQueue', rxQueue, 1)
  BY <1>1, <1>2, <1>3 DEF RxInv
<1>5. /\ Sorted(rxQueue', NumberOrder) /\ Before(rxQueue', fifo, NumberOrder)
      /\ Before(dispatched, rxQueue', NumberOrder)
  BY <1>2, <1>4, PieceKeeps DEF RxInv, RxInOrder
<1>6. Places' = Places
  BY DEF Places
<1>7. CASE dispatched' = dispatched
  BY <1>1, <1>4, <1>5, <1>6, <1>7 DEF RxInv, RxInOrder
<1>8. CASE callback # "none" /\ dispatched' = Append(dispatched, c)
  <2>1. callback \in B!CO_CANrxDispatch(f)
    BY <1>8 DEF B!Receive
  <2>2. PICK k \in DOMAIN rxArray : rxArray[k].callback = callback /\ B!Matches(rxArray[k], f.ident)
    BY <2>1 DEF B!CO_CANrxDispatch
  <2>3. c \in Callee /\ c.number = f.number
    BY <1>4, <2>2 DEF B!Matches, Callee, RxFrame
  <2>4. c \in Numbered /\ c \in NumbersUpTo(arrived)
    BY <1>4, <2>3 DEF Numbered, NumbersUpTo
  <2> HIDE DEF c, f
  <2>5. dispatched' \in Seq(Callee) /\ dispatched' \in Seq(NumbersUpTo(arrived))
    BY <1>8, <2>3, <2>4, AppendKeeps DEF RxInv
  <2>6. \A i \in 1..Len(dispatched) : <<dispatched[i], c>> \in NumberOrder
    <3> SUFFICES ASSUME NEW i \in 1..Len(dispatched)
                 PROVE  <<dispatched[i], c>> \in NumberOrder
      OBVIOUS
    <3>1. <<dispatched[i], f>> \in NumberOrder
      BY <1>4 DEF RxInv, RxInOrder, Before
    <3> QED
      BY <2>3, <2>4, <3>1 DEF NumberOrder
  <2>7. \A i \in 1..Len(rxQueue') : <<c, rxQueue'[i]>> \in NumberOrder
    <3> SUFFICES ASSUME NEW i \in 1..Len(rxQueue')
                 PROVE  <<c, rxQueue'[i]>> \in NumberOrder
      OBVIOUS
    <3>1. rxQueue'[i] = rxQueue[1 + i] /\ 1 + i \in 1..Len(rxQueue) /\ 1 < 1 + i
      BY <1>2, <1>4, LenProperties DEF Piece
    <3>2. <<f, rxQueue[1 + i]>> \in NumberOrder
      BY <1>4, <3>1 DEF RxInv, RxInOrder, Sorted
    <3> QED
      BY <2>3, <2>4, <3>1, <3>2 DEF NumberOrder
  <2>8. \A i \in 1..Len(fifo) : <<c, fifo[i]>> \in NumberOrder
    <3> SUFFICES ASSUME NEW i \in 1..Len(fifo)
                 PROVE  <<c, fifo[i]>> \in NumberOrder
      OBVIOUS
    <3>1. <<f, fifo[i]>> \in NumberOrder
      BY <1>4 DEF RxInv, RxInOrder, Before
    <3> QED
      BY <2>3, <2>4, <3>1 DEF NumberOrder
  <2>9. Sorted(dispatched', NumberOrder)
    BY <1>2, <1>8, <2>4, <2>6, AppendKeeps DEF RxInv, RxInOrder
  <2>10. Before(dispatched', rxQueue', NumberOrder)
    BY <1>2, <1>4, <1>5, <1>8, <2>4, <2>7, AppendKeeps
  <2>11. Before(dispatched', fifo, NumberOrder)
    BY <1>2, <1>8, <2>4, <2>8, AppendKeeps DEF RxInv, RxInOrder
  <2> QED
    BY <1>1, <1>4, <1>5, <1>6, <2>5, <2>9, <2>10, <2>11 DEF RxInv, RxInOrder
<1> QED
  BY <1>1, <1>7, <1>8
(***************************************************************************)
(* What a node sends.  The thread and the controller may lose frames and   *)
(* the controller may change their order, so that what is in the queue     *)
(* comes after what is in the controller, but what is on the wire is only  *)
(* not there a second time.                                                *)
(***************************************************************************)
TxFrame == [ident : {"app", "hb"}, data : {"data"} \cup NodeStates, number : Nat]
Sent == TxFrame \cup Nat
TxOrder   == {p \in TxFrame \X TxFrame : p[1].number < p[2].number}
SentOrder == {p \in Nat \X TxFrame : p[1] < p[2].number}
NotAmong  == {p \in Nat \X TxFrame : p[1] # p[2].number}
Unlike    == {p \in Nat \X Nat : p[1] # p[2]}

TxInOrder ==
  /\ Sorted(txQueue, TxOrder) /\ Sorted(mailbox, TxOrder) /\ Before(mailbox, txQueue, TxOrder)
  /\ Sorted(wire, Unlike) /\ Before(wire, txQueue, SentOrder) /\ Before(wire, mailbox, NotAmong)

TxInv ==
  /\ queued \in Nat
  /\ txQueue \in Seq(TxFrame) /\ mailbox \in Seq(TxFrame) /\ wire \in Seq(Nat)
  /\ \A i \in 1..Len(txQueue) : txQueue[i].number <= queued
  /\ \A i \in 1..Len(mailbox) : mailbox[i].number <= queued
  /\ \A i \in 1..Len(wire) : wire[i] <= queued
  /\ TxInOrder

LEMMA TxSets ==
  ASSUME TxInv
  PROVE  /\ txQueue \in Seq(Sent) /\ mailbox \in Seq(Sent) /\ wire \in Seq(Sent)
         /\ Len(txQueue) \in Nat /\ Len(mailbox) \in Nat /\ Len(wire) \in Nat
<1>1. TxFrame \subseteq Sent /\ Nat \subseteq Sent
  BY DEF Sent
<1> QED
  BY <1>1, SeqMonotonic, LenProperties DEF TxInv

LEMMA TxInitial == B!CanInit => TxInv
<1> SUFFICES ASSUME B!CanInit PROVE TxInv
  OBVIOUS
<1>1. \A order : Sorted(<<>>, order) /\ Before(<<>>, <<>>, order)
  BY DEF Sorted, Before
<1> QED
  BY <1>1, EmptySeq DEF B!CanInit, TxInv, TxInOrder

(* A frame is put in the queue.                                            *)
LEMMA TxQueues ==
  ASSUME TxInv, queued' = queued + 1, NEW f \in TxFrame, f.number = queued + 1,
         txQueue' = Append(txQueue, f), UNCHANGED <<mailbox, wire>>
  PROVE  TxInv'
<1>1. /\ queued \in Nat /\ f \in Sent
      /\ txQueue \in Seq(Sent) /\ mailbox \in Seq(Sent) /\ wire \in Seq(Sent)
      /\ Len(txQueue) \in Nat /\ Len(mailbox) \in Nat /\ Len(wire) \in Nat
  BY TxSets DEF TxInv, Sent
<1>2. /\ \A i \in 1..Len(txQueue) : txQueue[i] \in TxFrame /\ txQueue[i].number \in Nat
      /\ \A i \in 1..Len(mailbox) : mailbox[i] \in TxFrame /\ mailbox[i].number \in Nat
      /\ \A i \in 1..Len(wire) : wire[i] \in Nat
  <2>1. \A g \in TxFrame : g.number \in Nat
    BY DEF TxFrame
  <2>2. txQueue \in Seq(TxFrame) /\ mailbox \in Seq(TxFrame) /\ wire \in Seq(Nat)
    BY DEF TxInv
  <2>3. \A i \in 1..Len(txQueue) : txQueue[i] \in TxFrame
    BY ONLY <2>2
  <2>4. \A i \in 1..Len(mailbox) : mailbox[i] \in TxFrame
    BY ONLY <2>2
  <2>5. \A i \in 1..Len(wire) : wire[i] \in Nat
    BY ONLY <2>2
  <2> QED
    BY ONLY <2>1, <2>3, <2>4, <2>5
<1>3. /\ \A i \in 1..Len(txQueue) : <<txQueue[i], f>> \in TxOrder
      /\ \A i \in 1..Len(mailbox) : <<mailbox[i], f>> \in TxOrder
      /\ \A i \in 1..Len(wire) : <<wire[i], f>> \in SentOrder
  <2>1. /\ \A i \in 1..Len(txQueue) : txQueue[i].number <= queued
        /\ \A i \in 1..Len(mailbox) : mailbox[i].number <= queued
        /\ \A i \in 1..Len(wire) : wire[i] <= queued
    BY DEF TxInv
  <2>2. /\ \A n \in Nat : n <= queued => n < f.number
        /\ f.number \in Nat
    BY <1>1
  <2>3. \A i \in 1..Len(txQueue) : <<txQueue[i], f>> \in TxOrder
    BY <1>2, <2>1, <2>2 DEF TxOrder
  <2>4. \A i \in 1..Len(mailbox) : <<mailbox[i], f>> \in TxOrder
    BY <1>2, <2>1, <2>2 DEF TxOrder
  <2>5. \A i \in 1..Len(wire) : <<wire[i], f>> \in SentOrder
    BY <1>2, <2>1, <2>2 DEF SentOrder
  <2> QED
    BY <2>3, <2>4, <2>5
<1>4. Sorted(txQueue, TxOrder) /\ Before(mailbox, txQueue, TxOrder)
      /\ Before(wire, txQueue, SentOrder)
  BY DEF TxInv, TxInOrder
<1>5. /\ Sorted(txQueue', TxOrder) /\ Before(mailbox, txQueue', TxOrder)
      /\ Before(wire, txQueue', SentOrder)
  BY <1>1, <1>3, <1>4, AppendKeeps
<1>6. TxInOrder'
  BY <1>5 DEF TxInv, TxInOrder
<1>7. txQueue' \in Seq(TxFrame) /\ Len(txQueue') = Len(txQueue) + 1
      /\ txQueue'[Len(txQueue) + 1] = f
      /\ \A i \in 1..Len(txQueue) : txQueue'[i] = txQueue[i]
  BY <1>1, AppendProperties DEF TxInv
<1>8. \A i \in 1..Len(txQueue') : txQueue'[i].number <= queued + 1
  <2> SUFFICES ASSUME NEW i \in 1..Len(txQueue')
               PROVE  txQueue'[i].number <= queued + 1
    OBVIOUS
  <2>1. i \in 1..Len(txQueue) \/ i = Len(txQueue) + 1
    BY <1>1, <1>7
  <2> QED
    BY <1>1, <1>2, <1>7, <2>1 DEF TxInv
<1>9. /\ \A i \in 1..Len(mailbox) : mailbox[i].number <= queued + 1
      /\ \A i \in 1..Len(wire) : wire[i] <= queued + 1
  <2>1. /\ \A i \in 1..Len(mailbox) : mailbox[i].number <= queued
        /\ \A i \in 1..Len(wire) : wire[i] <= queued
    BY DEF TxInv
  <2>2. \A n \in Nat : n <= queued => n <= queued + 1
    BY <1>1
  <2> QED
    BY ONLY <1>2, <2>1, <2>2
<1>10. /\ mailbox' \in Seq(TxFrame) /\ wire' \in Seq(Nat) /\ queued' \in Nat
       /\ mailbox' = mailbox /\ wire' = wire /\ queued' = queued + 1
  BY <1>1 DEF TxInv
<1> QED
  BY ONLY <1>6, <1>7, <1>8, <1>9, <1>10 DEF TxInv

(* The thread takes a frame to the controller, or loses it.                *)
LEMMA TxTakes ==
  ASSUME TxInv, txQueue # <<>>, txQueue' = Tail(txQueue),
         mailbox' = mailbox \/ mailbox' = Append(mailbox, Head(txQueue)),
         UNCHANGED <<queued, wire>>
  PROVE  TxInv'
<1> DEFINE f == Head(txQueue)
<1>1. /\ queued \in Nat /\ txQueue \in Seq(Sent) /\ mailbox \in Seq(Sent) /\ wire \in Seq(Sent)
      /\ Len(txQueue) \in Nat /\ Len(mailbox) \in Nat /\ Len(wire) \in Nat
  BY TxSets DEF TxInv
<1>2. ASSUME NEW S, txQueue \in Seq(S)
      PROVE  /\ f \in S /\ txQueue' \in Seq(S) /\ Piece(txQueue', txQueue, 1)
             /\ f = txQueue[1] /\ Len(txQueue) >= 1
  BY <1>2, TailIsPiece
<1>3. /\ f \in TxFrame /\ f = txQueue[1] /\ 1 \in 1..Len(txQueue) /\ f \in Sent
      /\ txQueue' \in Seq(TxFrame) /\ txQueue' \in Seq(Sent) /\ Piece(txQueue', txQueue, 1)
  BY <1>1, <1>2 DEF TxInv
<1> HIDE DEF f
<1>4. Len(txQueue') \in Nat
  BY <1>3, LenProperties
<1>5. \A i \in 1..Len(txQueue') : /\ 1 + i \in 1..Len(txQueue) /\ 1 < 1 + i
                                  /\ txQueue'[i] = txQueue[1 + i]
  BY <1>1, <1>3, <1>4 DEF Piece
<1>6. \A i \in 1..Len(txQueue') : txQueue'[i].number <= queued
  BY <1>5 DEF TxInv
<1>7. /\ Sorted(txQueue, TxOrder) /\ Sorted(mailbox, TxOrder) /\ Sorted(wire, Unlike)
      /\ Before(mailbox, txQueue, TxOrder) /\ Before(wire, txQueue, SentOrder)
      /\ Before(wire, mailbox, NotAmong)
  BY DEF TxInv, TxInOrder
<1>8. /\ Sorted(txQueue', TxOrder) /\ Before(mailbox, txQueue', TxOrder)
      /\ Before(wire, txQueue', SentOrder)
  BY <1>1, <1>3, <1>7, PieceKeeps
<1>9. CASE mailbox' = mailbox
  BY <1>3, <1>6, <1>7, <1>8, <1>9 DEF TxInv, TxInOrder
<1>10. CASE mailbox' = Append(mailbox, Head(txQueue))
  <2>1. mailbox' = Append(mailbox, f)
    BY <1>10 DEF f
  <2>2. \A i \in 1..Len(mailbox) : <<mailbox[i], f>> \in TxOrder
    BY <1>3, <1>7 DEF Before
  <2>3. \A i \in 1..Len(txQueue') : <<f, txQueue'[i]>> \in TxOrder
    BY <1>3, <1>5, <1>7 DEF Sorted
  <2>4. \A i \in 1..Len(wire) : <<wire[i], f>> \in NotAmong
    <3> SUFFICES ASSUME NEW i \in 1..Len(wire)
                 PROVE  <<wire[i], f>> \in NotAmong
      OBVIOUS
    <3>1. <<wire[i], f>> \in SentOrder
      BY <1>3, <1>7 DEF Before
    <3> QED
      BY <3>1 DEF SentOrder, NotAmong, TxFrame
  <2>5. Sorted(mailbox', TxOrder) /\ Before(wire, mailbox', NotAmong)
    BY <1>1, <1>3, <1>7, <2>1, <2>2, <2>4, AppendKeeps
  <2>6. Before(mailbox', txQueue', TxOrder)
    BY <1>1, <1>3, <1>8, <2>1, <2>3, AppendKeeps
  <2>7. mailbox' \in Seq(TxFrame) /\ Len(mailbox') = Len(mailbox) + 1
        /\ mailbox'[Len(mailbox) + 1] = f
        /\ \A i \in 1..Len(mailbox) : mailbox'[i] = mailbox[i]
    BY <1>1, <1>3, <2>1, AppendProperties DEF TxInv
  <2>8. \A i \in 1..Len(mailbox') : mailbox'[i].number <= queued
    <3> SUFFICES ASSUME NEW i \in 1..Len(mailbox')
                 PROVE  mailbox'[i].number <= queued
      OBVIOUS
    <3>1. i \in 1..Len(mailbox) \/ i = Len(mailbox) + 1
      BY <1>1, <2>7
    <3> QED
      BY <1>3, <2>7, <3>1 DEF TxInv
  <2>9. TxInOrder'
    BY <1>7, <1>8, <2>5, <2>6 DEF TxInOrder
  <2> QED
    BY <1>3, <1>6, <2>7, <2>8, <2>9 DEF TxInv
<1> QED
  BY <1>9, <1>10

(* The controller sends one of its frames, whichever it takes first.       *)
LEMMA TxSends ==
  ASSUME TxInv, NEW i \in 1..Len(mailbox),
         mailbox' = SubSeq(mailbox, 1, i - 1) \o SubSeq(mailbox, i + 1, Len(mailbox)),
         wire' = Append(wire, mailbox[i].number),
         UNCHANGED <<queued, txQueue>>
  PROVE  TxInv'
<1> DEFINE t == SubSeq(mailbox, 1, i - 1)
           u == SubSeq(mailbox, i + 1, Len(mailbox))
           x == mailbox[i].number
<1>1. /\ queued \in Nat /\ txQueue \in Seq(Sent) /\ mailbox \in Seq(Sent) /\ wire \in Seq(Sent)
      /\ Len(txQueue) \in Nat /\ Len(mailbox) \in Nat /\ Len(wire) \in Nat
  BY TxSets DEF TxInv
<1>2. ASSUME NEW S, mailbox \in Seq(S)
      PROVE  /\ t \in Seq(S) /\ Piece(t, mailbox, 0) /\ Len(t) = i - 1
             /\ u \in Seq(S) /\ Piece(u, mailbox, i)
  <2>1. PICK a, b, k : a = 1 /\ b = i + 1 /\ k = i - 1
    OBVIOUS
  <2>2. /\ a \in 1..Len(mailbox) + 1 /\ b \in 1..Len(mailbox) + 1 /\ k \in Int /\ k <= Len(mailbox)
        /\ a - 1 = 0 /\ b - 1 = i
    BY <1>1, <2>1
  <2>3. SubSeq(mailbox, a, k) \in Seq(S) /\ Piece(SubSeq(mailbox, a, k), mailbox, a - 1)
    BY <1>2, <2>2, SubSeqIsPiece
  <2>4. /\ SubSeq(mailbox, b, Len(mailbox)) \in Seq(S)
        /\ Piece(SubSeq(mailbox, b, Len(mailbox)), mailbox, b - 1)
    <3>1. PICK l : l = Len(mailbox)
      OBVIOUS
    <3>2. l \in Int /\ l <= Len(mailbox)
      BY <1>1, <3>1
    <3>3. SubSeq(mailbox, b, l) \in Seq(S) /\ Piece(SubSeq(mailbox, b, l), mailbox, b - 1)
      BY <1>2, <2>2, <3>2, SubSeqIsPiece
    <3> QED
      BY <3>1, <3>3
  <2>5. Len(t) = i - 1
    <3>1. \A j \in 1..i - 1 : mailbox[j] \in S
      BY <1>1, <1>2
    <3> QED
      BY <1>1, <3>1, SubSeqProperties
  <2> QED
    BY <2>1, <2>2, <2>3, <2>4, <2>5
<1>3. /\ t \in Seq(Sent) /\ u \in Seq(Sent) /\ t \in Seq(TxFrame) /\ u \in Seq(TxFrame)
      /\ Piece(t, mailbox, 0) /\ Piece(u, mailbox, i) /\ Len(t) = i - 1
  BY <1>1, <1>2 DEF TxInv
<1>4. mailbox[i] \in TxFrame /\ x \in Nat /\ x \in Sent /\ x <= queued
  <2>1. mailbox[i] \in TxFrame /\ x <= queued
    BY DEF TxInv
  <2> QED
    BY <2>1 DEF TxFrame, Sent
<1>5. wire' = Append(wire, x)
  OBVIOUS
<1> HIDE DEF t, u, x
<1>6. /\ \A a \in 1..Len(t) : t[a] = mailbox[a] /\ a \in 1..Len(mailbox) /\ a < i
      /\ \A b \in 1..Len(u) : u[b] = mailbox[i + b] /\ i + b \in 1..Len(mailbox) /\ i < i + b
  BY <1>1, <1>3, LenProperties DEF Piece
<1>7. /\ Sorted(txQueue, TxOrder) /\ Sorted(mailbox, TxOrder) /\ Sorted(wire, Unlike)
      /\ Before(mailbox, txQueue, TxOrder) /\ Before(wire, txQueue, SentOrder)
      /\ Before(wire, mailbox, NotAmong)
  BY DEF TxInv, TxInOrder
<1>8. /\ Sorted(t, TxOrder) /\ Before(t, txQueue, TxOrder) /\ Before(wire, t, NotAmong)
      /\ Sorted(u, TxOrder) /\ Before(u, txQueue, TxOrder) /\ Before(wire, u, NotAmong)
  BY <1>1, <1>3, <1>7, PieceKeeps
<1>9. Before(t, u, TxOrder)
  <2> SUFFICES ASSUME NEW a \in 1..Len(t), NEW b \in 1..Len(u)
               PROVE  <<t[a], u[b]>> \in TxOrder
    BY DEF Before
  <2>0. a \in Int /\ i \in Int /\ b \in Int
    BY <1>3, LenProperties
  <2>1. a \in 1..Len(mailbox) /\ i + b \in 1..Len(mailbox) /\ a < i + b
    BY <1>6, <2>0
  <2> QED
    BY <1>6, <1>7, <2>1 DEF Sorted
<1>10. /\ \A a \in 1..Len(t) : <<x, t[a]>> \in NotAmong
       /\ \A b \in 1..Len(u) : <<x, u[b]>> \in NotAmong
  <2>1. ASSUME NEW a \in 1..Len(t)
        PROVE  <<x, t[a]>> \in NotAmong
    <3>1. <<t[a], mailbox[i]>> \in TxOrder
      BY <1>6, <1>7 DEF Sorted
    <3> QED
      BY <1>4, <3>1 DEF TxOrder, NotAmong, TxFrame, x
  <2>2. ASSUME NEW b \in 1..Len(u)
        PROVE  <<x, u[b]>> \in NotAmong
    <3>1. <<mailbox[i], u[b]>> \in TxOrder
      BY <1>6, <1>7 DEF Sorted
    <3> QED
      BY <1>4, <3>1 DEF TxOrder, NotAmong, TxFrame, x
  <2> QED
    BY <2>1, <2>2
<1>11. /\ Before(wire', t, NotAmong) /\ Before(wire', u, NotAmong)
       /\ wire' \in Seq(Sent)
  <2>1. /\ Append(wire, x) \in Seq(Sent)
        /\ Before(wire, t, NotAmong) /\ (\A a \in 1..Len(t) : <<x, t[a]>> \in NotAmong)
             => Before(Append(wire, x), t, NotAmong)
        /\ Before(wire, u, NotAmong) /\ (\A b \in 1..Len(u) : <<x, u[b]>> \in NotAmong)
             => Before(Append(wire, x), u, NotAmong)
    BY <1>1, <1>3, <1>4, AppendKeeps
  <2> QED
    BY ONLY <1>5, <1>8, <1>10, <2>1
<1>12. Sorted(wire', Unlike)
  <2>1. \A k \in 1..Len(wire) : <<wire[k], x>> \in Unlike
    <3> SUFFICES ASSUME NEW k \in 1..Len(wire)
                 PROVE  <<wire[k], x>> \in Unlike
      OBVIOUS
    <3>1. <<wire[k], mailbox[i]>> \in NotAmong
      BY <1>7 DEF Before
    <3> QED
      BY <1>4, <3>1 DEF NotAmong, Unlike, x
  <2>2. Sorted(wire, Unlike) /\ (\A k \in 1..Len(wire) : <<wire[k], x>> \in Unlike)
             => Sorted(Append(wire, x), Unlike)
    BY <1>1, <1>4, AppendKeeps
  <2> QED
    BY ONLY <1>5, <1>7, <2>1, <2>2
<1>13. Before(wire', txQueue, SentOrder)
  <2>1. \A k \in 1..Len(txQueue) : <<x, txQueue[k]>> \in SentOrder
    <3> SUFFICES ASSUME NEW k \in 1..Len(txQueue)
                 PROVE  <<x, txQueue[k]>> \in SentOrder
      OBVIOUS
    <3>1. <<mailbox[i], txQueue[k]>> \in TxOrder
      BY <1>7 DEF Before
    <3> QED
      BY <1>4, <3>1 DEF TxOrder, SentOrder, x
  <2>2. Before(wire, txQueue, SentOrder)
           /\ (\A k \in 1..Len(txQueue) : <<x, txQueue[k]>> \in SentOrder)
             => Before(Append(wire, x), txQueue, SentOrder)
    BY <1>1, <1>4, AppendKeeps
  <2> QED
    BY ONLY <1>5, <1>7, <2>1, <2>2
<1>14. PICK m : m = t \o u
  OBVIOUS
<1>15. mailbox' = m
  BY <1>14 DEF t, u
<1>16. /\ m \in Seq(TxFrame) /\ Len(m) = Len(t) + Len(u)
       /\ \A k \in 1..Len(t) + Len(u) : m[k] = IF k <= Len(t) THEN t[k] ELSE u[k - Len(t)]
  BY <1>3, <1>14, ConcatProperties
<1>17. Sorted(m, TxOrder) /\ Before(m, txQueue, TxOrder) /\ Before(wire', m, NotAmong)
  <2>1. /\ Sorted(t, TxOrder) /\ Sorted(u, TxOrder) /\ Before(t, u, TxOrder)
             => Sorted(t \o u, TxOrder)
        /\ Before(t, txQueue, TxOrder) /\ Before(u, txQueue, TxOrder)
             => Before(t \o u, txQueue, TxOrder)
        /\ Before(wire', t, NotAmong) /\ Before(wire', u, NotAmong)
             => Before(wire', t \o u, NotAmong)
    BY <1>1, <1>3, <1>11, JoinKeeps
  <2> QED
    BY ONLY <1>8, <1>9, <1>11, <1>14, <2>1
<1>18. \A k \in 1..Len(m) : m[k].number <= queued
  <2> SUFFICES ASSUME NEW k \in 1..Len(m)
               PROVE  m[k].number <= queued
    OBVIOUS
  <2>0. Len(t) \in Nat /\ Len(u) \in Nat
    BY <1>3, LenProperties
  <2>1. CASE k <= Len(t)
    <3>0. k \in 1..Len(t) /\ k \in 1..Len(t) + Len(u)
      BY <1>16, <2>0, <2>1
    <3>1. m[k] = t[k]
      BY ONLY <1>16, <2>1, <3>0
    <3> QED
      BY <1>6, <3>0, <3>1 DEF TxInv
  <2>2. CASE k > Len(t)
    <3>1. PICK b \in 1..Len(u) : m[k] = u[b]
      <4>1. k - Len(t) \in 1..Len(u) /\ ~(k <= Len(t)) /\ k \in 1..Len(t) + Len(u)
        BY <1>16, <2>0, <2>2
      <4> QED
        BY <1>16, <4>1
    <3> QED
      BY <1>6, <3>1 DEF TxInv
  <2> QED
    BY <2>0, <2>1, <2>2
<1>19. /\ wire' \in Seq(Nat) /\ Len(wire') = Len(wire) + 1 /\ wire'[Len(wire) + 1] = x
       /\ \A k \in 1..Len(wire) : wire'[k] = wire[k]
  BY <1>1, <1>4, <1>5, AppendProperties DEF TxInv
<1>20. \A k \in 1..Len(wire') : wire'[k] <= queued
  <2> SUFFICES ASSUME NEW k \in 1..Len(wire')
               PROVE  wire'[k] <= queued
    OBVIOUS
  <2>1. k \in 1..Len(wire) \/ k = Len(wire) + 1
    BY <1>1, <1>19
  <2> QED
    BY <1>4, <1>19, <2>1 DEF TxInv
<1>21. TxInOrder'
  BY <1>7, <1>12, <1>13, <1>15, <1>17 DEF TxInOrder
<1> QED
  BY <1>1, <1>15, <1>16, <1>18, <1>19, <1>20, <1>21 DEF TxInv
(***************************************************************************)
(* The analog channels.  A weighted mean of two counts lies between them,  *)
(* and the conversion, with its two roundings, keeps their order.          *)
(***************************************************************************)
LEMMA DivideKeepsOrder ==
  ASSUME NEW m \in Nat \ {0}, NEW x \in Nat, NEW y \in Nat, x <= y
  PROVE  x \div m \in Nat /\ y \div m \in Nat /\ x \div m <= y \div m
<1>1. PICK q \in Nat, r \in 0..m - 1 : q = x \div m /\ x = m * q + r
  OBVIOUS
<1>2. PICK p \in Nat, t \in 0..m - 1 : p = y \div m /\ y = m * p + t
  OBVIOUS
<1>3. ASSUME q > p
      PROVE  FALSE
  <2>1. PICK d \in Nat : q = p + 1 + d
    <3>1. q - p - 1 \in Nat /\ q = p + 1 + (q - p - 1)
      BY <1>3
    <3> QED
      BY <3>1
  <2>2. m * q = m * p + m + m * d
    BY <2>1
  <2>3. m * d \in Nat /\ m * p \in Nat /\ m * q \in Nat
    OBVIOUS
  <2> QED
    BY <1>1, <1>2, <2>2, <2>3
<1> QED
  BY <1>1, <1>2, <1>3

LEMMA ScaledKeepsOrder ==
  ASSUME NEW k \in Nat, NEW x \in Nat, NEW y \in Nat, x <= y
  PROVE  x * k \in Nat /\ y * k \in Nat /\ x * k <= y * k
<1>1. PICK d \in Nat : y = x + d
  <2>1. y - x \in Nat /\ y = x + (y - x)
    OBVIOUS
  <2> QED
    BY <2>1
<1>2. y * k = x * k + d * k
  BY <1>1
<1>3. x * k \in Nat /\ d * k \in Nat
  OBVIOUS
<1> QED
  BY <1>2, <1>3

LEMMA MultipleKeepsOrder ==
  ASSUME NEW x \in Int, NEW y \in Int, x <= y, NEW k \in Nat
  PROVE  x * k \in Int /\ y * k \in Int /\ x * k <= y * k
<1>1. PICK d \in Nat : d = y - x
  OBVIOUS
<1>2. y = x + d /\ d * k \in Nat /\ x * k \in Int /\ y * k \in Int
  BY <1>1
<1>3. y * k = x * k + d * k
  BY <1>1, <1>2
<1> QED
  BY <1>2, <1>3

LEMMA RoundedKeepsOrder ==
  ASSUME NEW x \in Int, NEW y \in Int, x <= y, NEW b \in {1000, 1000000}
  PROVE  I!Rounded(x, b) \in Int /\ I!Rounded(y, b) \in Int
         /\ I!Rounded(x, b) <= I!Rounded(y, b)
<1>1. CASE b = 1000
  BY <1>1, SMTT(30) DEF I!Rounded, I!Quotient
<1>2. CASE b = 1000000
  BY <1>2, SMTT(30) DEF I!Rounded, I!Quotient
<1> QED
  BY <1>1, <1>2

(* The greater count gives the greater value, or the lesser one with a     *)
(* negative gain.                                                          *)
Setting == [gain : Int, offset : Int]

LEMMA ConvertKeepsOrder ==
  ASSUME NEW x \in Nat, NEW y \in Nat, x <= y, NEW cal \in Setting
  PROVE  /\ I!Convert(x, cal) \in Int /\ I!Convert(y, cal) \in Int
         /\ cal.gain >= 0 => I!Convert(x, cal) <= I!Convert(y, cal)
         /\ cal.gain < 0 => I!Convert(y, cal) <= I!Convert(x, cal)
<1>1. MaxCount \in Nat \ {0} /\ Vref \in Nat /\ Precision \in Nat
  BY IoAssumption
<1>2. PICK h \in Nat : h = MaxCount \div 2
  BY <1>1
<1>3. PICK a, b : a = x * Vref + h /\ b = y * Vref + h
  OBVIOUS
<1>4. a \in Nat /\ b \in Nat /\ a <= b
  BY <1>1, <1>3, ScaledKeepsOrder
<1>5. PICK c, d : c = a \div MaxCount /\ d = b \div MaxCount
  OBVIOUS
<1>6. c \in Nat /\ d \in Nat /\ c <= d
  BY <1>1, <1>4, <1>5, DivideKeepsOrder
<1>7. PICK g, o : g = cal.gain /\ o = cal.offset
  OBVIOUS
<1>8. g \in Int /\ o \in Int
  BY <1>7 DEF Setting
<1>9. PICK e, f : e = c * g /\ f = d * g
  OBVIOUS
<1>10. e \in Int /\ f \in Int /\ (g >= 0 => e <= f) /\ (g < 0 => f <= e)
  <2>1. CASE g >= 0
    <3>1. g \in Nat /\ c \in Int /\ d \in Int
      BY <1>6, <1>8, <2>1
    <3> QED
      BY <1>6, <1>9, <3>1, MultipleKeepsOrder
  <2>2. CASE g < 0
    <3>1. PICK k \in Nat : k = -g
      BY <1>8, <2>2
    <3>2. c * k \in Int /\ d * k \in Int /\ c * k <= d * k
      BY <1>6, <3>1, MultipleKeepsOrder
    <3>3. e = -(c * k) /\ f = -(d * k)
      BY <1>6, <1>8, <1>9, <3>1
    <3> QED
      BY <1>8, <2>2, <3>2, <3>3
  <2> QED
    BY <1>8, <2>1, <2>2
<1> DEFINE Last(z) == I!Rounded((I!Rounded(z, 1000) + o) * Precision, 1000000)
<1>11. ASSUME NEW u \in Int, NEW v \in Int, u <= v
       PROVE  Last(u) \in Int /\ Last(v) \in Int /\ Last(u) <= Last(v)
  <2>1. PICK i, j : i = I!Rounded(u, 1000) /\ j = I!Rounded(v, 1000)
    OBVIOUS
  <2>2. i \in Int /\ j \in Int /\ i <= j
    BY <1>11, <2>1, RoundedKeepsOrder
  <2>3. PICK m, n : m = (i + o) * Precision /\ n = (j + o) * Precision
    OBVIOUS
  <2>4. m \in Int /\ n \in Int /\ m <= n
    <3>1. i + o \in Int /\ j + o \in Int /\ i + o <= j + o
      BY <1>8, <2>2
    <3> QED
      BY <1>1, <2>3, <3>1, MultipleKeepsOrder
  <2>5. /\ I!Rounded(m, 1000000) \in Int /\ I!Rounded(n, 1000000) \in Int
        /\ I!Rounded(m, 1000000) <= I!Rounded(n, 1000000)
    BY <2>4, RoundedKeepsOrder
  <2> QED
    BY <2>1, <2>3, <2>5
<1>12. I!Convert(x, cal) = Last(e) /\ I!Convert(y, cal) = Last(f)
  BY <1>2, <1>3, <1>5, <1>7, <1>9 DEF I!Convert
<1> HIDE DEF Last
<1>13. CASE g >= 0
  BY <1>7, <1>8, <1>10, <1>11, <1>12, <1>13
<1>14. CASE g < 0
  BY <1>7, <1>8, <1>10, <1>11, <1>12, <1>14
<1> QED
  BY <1>8, <1>13, <1>14

(* A part of at most 1000 thousandths of a difference is not more than it. *)
LEMMA PartIsLess ==
  ASSUME NEW a \in 0..1000, NEW d \in Nat
  PROVE  (d * a) \div 1000 \in 0..d
<1>1. a * d \in Nat /\ a * d <= 1000 * d /\ d * a = a * d
  BY ScaledKeepsOrder
<1> QED
  BY <1>1

LEMMA FilterIsBetween ==
  ASSUME emaAlpha \in 0..1000, NEW old \in Nat, NEW raw \in Nat
  PROVE  /\ I!Filter(old, raw) \in Nat
         /\ raw >= old => old <= I!Filter(old, raw) /\ I!Filter(old, raw) <= raw
         /\ raw <= old => raw <= I!Filter(old, raw) /\ I!Filter(old, raw) <= old
<1>1. CASE raw >= old
  <2>1. PICK d \in Nat : d = raw - old
    BY <1>1
  <2>2. (d * emaAlpha) \div 1000 \in 0..d
    BY <2>1, PartIsLess
  <2>3. d * emaAlpha \in Nat
    BY <2>1
  <2>4. I!Filter(old, raw) = old + ((d * emaAlpha) \div 1000)
    BY <2>1, <2>3 DEF I!Filter, I!Quotient
  <2> QED
    BY <1>1, <2>1, <2>2, <2>4
<1>2. CASE raw < old
  <2>1. PICK d \in Nat : d = old - raw
    BY <1>2
  <2>2. (d * emaAlpha) \div 1000 \in 0..d
    BY <2>1, PartIsLess
  <2>3. d * emaAlpha \in Nat /\ (raw - old) * emaAlpha = -(d * emaAlpha)
    BY <2>1
  <2>4. I!Filter(old, raw) = old - ((d * emaAlpha) \div 1000)
    BY <2>1, <2>2, <2>3 DEF I!Filter, I!Quotient
  <2> QED
    BY <1>2, <2>1, <2>2, <2>4
<1> QED
  BY <1>1, <1>2

AnalogInv ==
  /\ filteredCount \in Nat /\ minCount \in Nat /\ maxCount \in Nat
  /\ minCount <= filteredCount /\ filteredCount <= maxCount
  /\ calibration \in Setting /\ usedCalibration \in Setting
  /\ ~firstSample => anaValue = I!Convert(filteredCount, usedCalibration)
  /\ emaAlpha \in 0..1000

LEMMA AnalogInit == I!Init => AnalogInv
BY IoAssumption DEF I!Init, AnalogInv, Setting

LEMMA AnalogStep ==
  ASSUME AnalogInv, I!AnalogNext \/ UNCHANGED I!analogVars
  PROVE  AnalogInv'
<1>1. CASE I!ioProcessAnalogChannel
  <2>1. PICK raw \in 0..MaxCount :
          I!Measure(raw, I!Sample(raw), I!Convert(I!Sample(raw), calibration))
    BY <1>1 DEF I!ioProcessAnalogChannel
  <2>2. raw \in Nat /\ MaxCount \in Nat
    BY IoAssumption
  <2>3. PICK low, high : /\ low = (IF firstSample THEN raw ELSE I!Lesser(minCount, raw))
                         /\ high = (IF firstSample THEN raw ELSE I!Greater(maxCount, raw))
    OBVIOUS
  <2>4. PICK s : s = I!Sample(raw)
    OBVIOUS
  <2>5. low \in Nat /\ high \in Nat /\ s \in Nat /\ low <= s /\ s <= high
    <3>1. CASE firstSample
      BY <2>2, <2>3, <2>4, <3>1 DEF I!Sample
    <3>2. CASE ~firstSample
      <4>1. PICK f : f = I!Filter(filteredCount, raw)
        OBVIOUS
      <4>2. /\ f \in Nat
            /\ raw >= filteredCount => filteredCount <= f /\ f <= raw
            /\ raw <= filteredCount => raw <= f /\ f <= filteredCount
        BY <2>2, <4>1, FilterIsBetween DEF AnalogInv
      <4> QED
        BY <2>2, <2>3, <2>4, <3>2, <4>1, <4>2
           DEF I!Sample, I!Lesser, I!Greater, AnalogInv
    <3> QED
      BY <3>1, <3>2
  <2>6. /\ filteredCount' = s /\ minCount' = low /\ maxCount' = high
        /\ anaValue' = I!Convert(s, calibration)
    BY <2>1, <2>3, <2>4 DEF I!Measure
  <2>7. emaAlpha' = emaAlpha /\ calibration' = calibration /\ usedCalibration' = calibration
    BY <1>1 DEF I!ioProcessAnalogChannel
  <2>8. anaValue' = I!Convert(filteredCount', usedCalibration')
    BY <2>6, <2>7
  <2> QED
    BY <2>5, <2>6, <2>7, <2>8 DEF AnalogInv, I!Convert
<1>2. CASE I!IO_ConfigureAnalogEMA
  BY <1>2, IoAssumption DEF I!IO_ConfigureAnalogEMA, AnalogInv, I!Convert
<1>3. CASE I!IO_setAnalogCalibration
  BY <1>3, IoAssumption DEF I!IO_setAnalogCalibration, AnalogInv, I!Convert, Setting
<1>4. CASE UNCHANGED I!analogVars
  BY <1>4 DEF I!analogVars, AnalogInv, I!Convert
<1> QED
  BY <1>1, <1>2, <1>3, <1>4 DEF I!AnalogNext

LEMMA AnalogWithin == AnalogInv => I!FilteredWithin
<1> SUFFICES ASSUME AnalogInv PROVE I!FilteredWithin
  OBVIOUS
<1>1. /\ minCount \in Nat /\ filteredCount \in Nat /\ maxCount \in Nat
      /\ minCount <= filteredCount /\ filteredCount <= maxCount /\ minCount <= maxCount
      /\ usedCalibration \in Setting
  BY DEF AnalogInv
<1>2. PICK low, mid, high : /\ low = I!Convert(minCount, usedCalibration)
                            /\ mid = I!Convert(filteredCount, usedCalibration)
                            /\ high = I!Convert(maxCount, usedCalibration)
  OBVIOUS
<1>3. /\ low \in Int /\ mid \in Int /\ high \in Int
      /\ (low <= mid /\ mid <= high) \/ (high <= mid /\ mid <= low)
  <2>1. CASE usedCalibration.gain < 0
    BY <1>1, <1>2, <2>1, ConvertKeepsOrder
  <2>2. CASE usedCalibration.gain >= 0
    BY <1>1, <1>2, <2>2, ConvertKeepsOrder
  <2>3. usedCalibration.gain \in Int
    BY <1>1 DEF Setting
  <2> QED
    BY <2>1, <2>2, <2>3
<1>4. ~firstSample => I!Lesser(low, high) <= anaValue /\ anaValue <= I!Greater(low, high)
  BY <1>2, <1>3 DEF AnalogInv, I!Lesser, I!Greater
<1> QED
  BY <1>1, <1>2, <1>4 DEF I!FilteredWithin

(***************************************************************************)
(* The digital channels.  The elapsed time counts the readings, back from  *)
(* the last, that differ from the state.                                   *)
(***************************************************************************)
Counted(k) ==
  /\ k \in 0..Len(levels)
  /\ debounceElapsedMs = k * Period
  /\ k = 0 \/ k * Period < debounceTimeMs
  /\ \A i \in Len(levels) - k + 1..Len(levels) : levels[i] = 1 - state

DigitalInv ==
  /\ state \in {0, 1} /\ levels \in Seq({0, 1}) /\ Len(levels) <= Depth
  /\ debounceTimeMs \in Nat /\ debounceTimeMs <= Depth * Period
  /\ \E k \in Nat : Counted(k)

Lasted ==
  state' # state =>
    LET needed == I!Greater(1, (debounceTimeMs + Period - 1) \div Period)
    IN  /\ Len(levels') >= needed
        /\ \A i \in Len(levels') - needed + 1..Len(levels') : levels'[i] = state'

LEMMA DigitalInit == I!Init => DigitalInv
<1> SUFFICES ASSUME I!Init PROVE DigitalInv
  OBVIOUS
<1>1. levels = <<>> /\ Len(levels) = 0 /\ levels \in Seq({0, 1})
  BY DEF I!Init
<1>2. Depth * Period \in Nat /\ 0 * Period = 0 /\ Depth \in Nat
  BY IoAssumption
<1>3. Counted(0)
  BY <1>1, <1>2 DEF I!Init, Counted
<1> QED
  BY <1>1, <1>2, <1>3 DEF I!Init, DigitalInv

(* A reading is remembered after the ones before it, the oldest of which   *)
(* may be forgotten.                                                       *)
LEMMA Remembered ==
  ASSUME DigitalInv, NEW level \in {0, 1}, I!Remember(level)
  PROVE  /\ levels' \in Seq({0, 1}) /\ Len(levels') \in 1..Depth
         /\ Len(levels') = Len(levels) + 1 \/ Len(levels') = Depth
         /\ levels'[Len(levels')] = level
         /\ \A i \in 1..Len(levels') - 1 :
              /\ i + Len(levels) - Len(levels') + 1 \in 1..Len(levels)
              /\ levels'[i] = levels[i + Len(levels) - Len(levels') + 1]
<1>1. /\ levels \in Seq({0, 1}) /\ Len(levels) \in Nat /\ Len(levels) <= Depth
      /\ Depth \in Nat \ {0}
  BY LenProperties, IoAssumption DEF DigitalInv
<1>2. CASE Len(levels) < Depth /\ levels' = Append(levels, level)
  <2>1. /\ levels' \in Seq({0, 1}) /\ Len(levels') = Len(levels) + 1
        /\ levels'[Len(levels) + 1] = level
        /\ \A i \in 1..Len(levels) : levels'[i] = levels[i]
    BY <1>1, <1>2, AppendProperties
  <2> QED
    BY <1>1, <1>2, <2>1
<1>3. CASE ~(Len(levels) < Depth) /\ levels' = Append(Tail(levels), level)
  <2>1. PICK t : t = Tail(levels)
    OBVIOUS
  <2>2. levels # <<>> /\ Len(levels) = Depth
    BY <1>1, <1>3
  <2>3. /\ t \in Seq({0, 1}) /\ Len(t) = Len(levels) - 1
        /\ \A i \in 1..Len(t) : t[i] = levels[i + 1]
    BY <1>1, <2>1, <2>2, HeadTailProperties
  <2>4. /\ levels' \in Seq({0, 1}) /\ Len(levels') = Len(t) + 1
        /\ levels'[Len(t) + 1] = level
        /\ \A i \in 1..Len(t) : levels'[i] = t[i]
    BY <1>3, <2>1, <2>3, AppendProperties
  <2> QED
    BY <1>1, <2>2, <2>3, <2>4
<1> QED
  BY <1>2, <1>3 DEF I!Remember

(* n readings last n periods.                                              *)
LEMMA ReadingsNeeded ==
  ASSUME NEW n \in Nat \ {0}, NEW p \in Nat \ {0}, NEW t \in Nat, t <= n * p
  PROVE  I!Greater(1, (t + p - 1) \div p) \in 1..n
<1>1. PICK x \in Nat : x = t + p - 1
  OBVIOUS
<1>2. PICK q \in Nat, r \in 0..p - 1 : q = x \div p /\ x = p * q + r
  BY <1>1
<1>3. ASSUME q > n
      PROVE  FALSE
  <2>1. PICK d \in Nat : q = n + 1 + d
    <3>1. q - n - 1 \in Nat /\ q = n + 1 + (q - n - 1)
      BY <1>3
    <3> QED
      BY <3>1
  <2>2. p * q = n * p + p + p * d
    BY <2>1
  <2>3. p * d \in Nat /\ n * p \in Nat /\ p * q \in Nat
    OBVIOUS
  <2> QED
    BY <1>1, <1>2, <2>2, <2>3
<1> QED
  BY <1>1, <1>2, <1>3 DEF I!Greater

LEMMA DigitalReads ==
  ASSUME DigitalInv, I!ioProcessDigitalChannel
  PROVE  DigitalInv' /\ Lasted
<1>1. PICK level \in {0, 1} : /\ I!SameLevel(level) \/ I!OtherLevel(level)
                              /\ I!Remember(level)
  BY DEF I!ioProcessDigitalChannel
<1>2. PICK k \in Nat : Counted(k)
  BY DEF DigitalInv
<1>3. debounceTimeMs' = debounceTimeMs
  BY DEF I!ioProcessDigitalChannel
<1>4. PICK n, m : n = Len(levels) /\ m = Len(levels')
  OBVIOUS
<1>5. /\ levels' \in Seq({0, 1}) /\ m \in 1..Depth /\ (m = n + 1 \/ m = Depth)
      /\ levels'[m] = level
      /\ \A i \in 1..m - 1 : i + n - m + 1 \in 1..n /\ levels'[i] = levels[i + n - m + 1]
  BY <1>1, <1>4, Remembered
<1>6. /\ n \in Nat /\ n <= Depth /\ Depth \in Nat \ {0} /\ Period \in Nat \ {0} /\ k \in 0..n
      /\ debounceTimeMs \in Nat /\ debounceTimeMs <= Depth * Period
      /\ state \in {0, 1} /\ debounceElapsedMs = k * Period /\ k * Period \in Nat
      /\ k = 0 \/ k * Period < debounceTimeMs
      /\ \A i \in n - k + 1..n : levels[i] = 1 - state
  <2>1. Depth \in Nat \ {0} /\ Period \in Nat \ {0} /\ k * Period \in Nat
    BY IoAssumption
  <2>2. n \in Nat /\ n <= Depth
    BY <1>4, LenProperties DEF DigitalInv
  <2> QED
    BY <1>2, <1>4, <2>1, <2>2 DEF DigitalInv, Counted
<1>7. k + 1 <= Depth
  <2>1. ASSUME k >= Depth
        PROVE  Depth * Period <= k * Period
    BY <1>6, <2>1, ScaledKeepsOrder
  <2>2. Depth * Period \in Nat
    BY <1>6
  <2> QED
    BY <1>6, <2>1, <2>2
<1>8. k + 1 <= m
  BY <1>5, <1>6, <1>7
<1>9. (k + 1) * Period = k * Period + Period
  BY <1>6
<1>10. 0 * Period = 0
  BY <1>6
<1>11. CASE I!SameLevel(level)
  <2>1. state' = state /\ debounceElapsedMs' = 0
    BY <1>11 DEF I!SameLevel
  <2>2. Counted(0)'
    BY <1>4, <1>5, <1>10, <2>1 DEF Counted
  <2> QED
    BY <1>3, <1>4, <1>5, <1>6, <2>1, <2>2 DEF DigitalInv, Lasted
<1>12. CASE I!OtherLevel(level)
  <2>1. level = 1 - state /\ level # state
    BY <1>6, <1>12 DEF I!OtherLevel
  <2>2. \A i \in m - k..m : levels'[i] = level
    <3> SUFFICES ASSUME NEW i \in m - k..m
                 PROVE  levels'[i] = level
      OBVIOUS
    <3>1. CASE i = m
      BY <1>5, <3>1
    <3>2. CASE i < m
      <4>1. i \in 1..m - 1 /\ i + n - m + 1 \in n - k + 1..n
        BY <1>5, <1>6, <1>8, <3>2
      <4> QED
        BY <1>5, <1>6, <2>1, <4>1
    <3> QED
      BY <1>5, <1>6, <3>1, <3>2
  <2>3. CASE debounceElapsedMs + Period >= debounceTimeMs /\ state' = level
             /\ debounceElapsedMs' = 0
    <3>1. debounceTimeMs <= (k + 1) * Period
      BY <1>6, <1>9, <2>3
    <3>2. PICK needed : needed = I!Greater(1, (debounceTimeMs + Period - 1) \div Period)
      OBVIOUS
    <3>3. needed \in 1..k + 1
      <4>1. k + 1 \in Nat \ {0}
        BY <1>6
      <4> QED
        BY <1>6, <3>1, <3>2, <4>1, ReadingsNeeded
    <3>4. m >= needed /\ \A i \in m - needed + 1..m : levels'[i] = state'
      BY <1>5, <1>6, <1>8, <2>2, <2>3, <3>3
    <3>5. Lasted
      BY <1>4, <3>2, <3>4 DEF Lasted
    <3>6. Counted(0)'
      BY <1>4, <1>5, <1>10, <2>3 DEF Counted
    <3> QED
      BY <1>3, <1>4, <1>5, <1>6, <2>3, <3>5, <3>6 DEF DigitalInv
  <2>4. CASE ~(debounceElapsedMs + Period >= debounceTimeMs) /\ state' = state
             /\ debounceElapsedMs' = debounceElapsedMs + Period
    <3>1. Counted(k + 1)'
      <4>1. debounceElapsedMs' = (k + 1) * Period /\ (k + 1) * Period < debounceTimeMs
        BY <1>6, <1>9, <2>4
      <4>2. \A i \in m - (k + 1) + 1..m : levels'[i] = 1 - state'
        BY <1>5, <1>6, <2>1, <2>2, <2>4
      <4> QED
        BY <1>3, <1>4, <1>6, <1>8, <4>1, <4>2 DEF Counted
    <3>2. k + 1 \in Nat
      BY <1>6
    <3> QED
      BY <1>3, <1>4, <1>5, <1>6, <2>4, <3>1, <3>2 DEF DigitalInv, Lasted
  <2> QED
    BY <1>12, <2>3, <2>4 DEF I!OtherLevel
<1> QED
  BY <1>1, <1>11, <1>12

LEMMA DigitalStep ==
  ASSUME DigitalInv, I!DigitalNext \/ UNCHANGED I!digitalVars
  PROVE  DigitalInv' /\ Lasted
<1>1. CASE I!IO_ConfigureDigitalChannel
  <2>1. /\ levels' = <<>> /\ state' = state /\ debounceElapsedMs' = 0
        /\ debounceTimeMs' \in DebounceTimes
    BY <1>1 DEF I!IO_ConfigureDigitalChannel
  <2>2. Len(levels') = 0 /\ levels' \in Seq({0, 1})
    BY <2>1
  <2>3. Depth \in Nat /\ 0 * Period = 0
    BY IoAssumption
  <2>4. Counted(0)'
    BY <2>1, <2>2, <2>3 DEF Counted
  <2> QED
    BY <2>1, <2>2, <2>3, <2>4, IoAssumption DEF DigitalInv, Lasted
<1>2. CASE UNCHANGED I!digitalVars
  BY <1>2 DEF I!digitalVars, DigitalInv, Counted, Lasted
<1> QED
  BY <1>1, <1>2, DigitalReads DEF I!DigitalNext

(***************************************************************************)
(* The flash.  While a call holds the mutex, what it has passed is as it   *)
(* was asked for, and the rest as the call found it.                       *)
(***************************************************************************)
LEMMA QuotientIsOne ==
  ASSUME NEW p \in Nat \ {0}, NEW q \in Nat, NEW d \in Nat, NEW r \in 0..p - 1,
         NEW e \in 0..p - 1, p * q + r = p * d + e
  PROVE  q = d /\ r = e
<1>1. ASSUME NEW x \in Nat, NEW y \in Nat, x < y
      PROVE  p * x + p <= p * y
  <2>1. PICK k \in Nat : y = x + 1 + k
    <3>1. y - x - 1 \in Nat /\ y = x + 1 + (y - x - 1)
      BY <1>1
    <3> QED
      BY <3>1
  <2>2. p * y = p * x + p + p * k
    BY <2>1
  <2>3. p * x \in Nat /\ p * k \in Nat
    OBVIOUS
  <2> QED
    BY <2>2, <2>3
<1>2. p * q \in Nat /\ p * d \in Nat
  OBVIOUS
<1>3. ~(q < d)
  <2>1. q < d => p * q + p <= p * d
    BY <1>1
  <2> QED
    BY <1>2, <2>1
<1>4. ~(d < q)
  <2>1. d < q => p * d + p <= p * q
    BY <1>1
  <2> QED
    BY <1>2, <2>1
<1> QED
  BY <1>2, <1>3, <1>4

LEMMA WholeBlocks ==
  ASSUME NEW p \in Nat \ {0}, NEW x \in Nat
  PROVE  x % p = 0 <=> \E q \in Nat : x = p * q
<1>1. PICK d \in Nat, e \in 0..p - 1 : x = p * d + e /\ e = x % p
  OBVIOUS
<1>2. ASSUME NEW q \in Nat, x = p * q
      PROVE  e = 0
  <2>1. p * q + 0 = p * d + e /\ 0 \in 0..p - 1
    BY <1>1, <1>2
  <2> QED
    BY <2>1, QuotientIsOne
<1>3. ASSUME e = 0
      PROVE  x = p * d
  BY <1>1, <1>3
<1> QED
  BY <1>1, <1>2, <1>3

(* A multiple of a block more or less is still whole blocks.               *)
LEMMA BlocksAdd ==
  ASSUME NEW p \in Nat \ {0}, NEW x \in Nat, NEW m \in Nat \ {0}, x % p = 0
  PROVE  /\ (x + p * m) % p = 0
         /\ p * m <= x => (x - p * m) % p = 0
         /\ x > 0 => p <= x
<1>1. PICK q \in Nat : x = p * q
  BY WholeBlocks
<1>2. p * m \in Nat /\ p * q \in Nat
  OBVIOUS
<1>3. (x + p * m) % p = 0
  <2>1. x + p * m = p * (q + m) /\ q + m \in Nat
    BY <1>1
  <2>2. x + p * m \in Nat
    BY <1>2
  <2> QED
    BY <2>1, <2>2, WholeBlocks
<1>4. ASSUME p * m <= x
      PROVE  (x - p * m) % p = 0
  <2>1. q >= m
    <3>1. ASSUME q < m
          PROVE  p * q + p <= p * m
      <4>1. PICK k \in Nat : m = q + 1 + k
        <5>1. m - q - 1 \in Nat /\ m = q + 1 + (m - q - 1)
          BY <3>1
        <5> QED
          BY <5>1
      <4>2. p * m = p * q + p + p * k /\ p * k \in Nat
        BY <4>1
      <4> QED
        BY <1>2, <4>2
    <3> QED
      BY <1>1, <1>2, <1>4, <3>1
  <2>2. x - p * m = p * (q - m) /\ q - m \in Nat
    BY <1>1, <2>1
  <2>3. x - p * m \in Nat
    BY <1>2, <1>4
  <2> QED
    BY <2>2, <2>3, WholeBlocks
<1>5. ASSUME x > 0
      PROVE  p <= x
  <2>1. q # 0
    BY <1>1, <1>5
  <2>2. PICK k \in Nat : q = k + 1
    BY <2>1
  <2>3. p * q = p * k + p /\ p * k \in Nat
    BY <2>2
  <2> QED
    BY <1>1, <2>3
<1> QED
  BY <1>3, <1>4, <1>5

(* What ends before its page does, does not wrap.                          *)
LEMMA PageIsRange ==
  ASSUME NEW from \in Nat, NEW size \in Nat, size <= PageSize - (from % PageSize)
  PROVE  F!InPage(from, size) = F!Range(from, size)
<1>1. PageSize \in Nat \ {0}
  BY FlashAssumption
<1>2. PICK p : p = PageSize
  OBVIOUS
<1>3. PICK q \in Nat, r \in 0..p - 1 : from = p * q + r /\ r = from % p
  BY <1>1, <1>2
<1>4. ASSUME NEW i \in 0..size - 1
      PROVE  (from + i) % p = r + i
  <2>1. r + i \in 0..p - 1
    BY <1>1, <1>2, <1>3
  <2>2. PICK d \in Nat, e \in 0..p - 1 : from + i = p * d + e /\ e = (from + i) % p
    <3>1. p \in Nat \ {0} /\ from + i \in Nat
      BY <1>1, <1>2
    <3>2. PICK x \in Nat : x = from + i
      BY <3>1
    <3>3. /\ x \div p \in Nat /\ x % p \in 0..p - 1 /\ x = p * (x \div p) + (x % p)
      BY <3>1
    <3> QED
      BY <3>2, <3>3
  <2>3. p * q + (r + i) = p * d + e
    <3>1. p * q \in Nat /\ p * d \in Nat
      BY <1>1, <1>2
    <3> QED
      BY <1>3, <2>2, <3>1
  <2>4. p \in Nat \ {0}
    BY <1>1, <1>2
  <2>5. r + i = e
    BY <2>1, <2>3, <2>4, QuotientIsOne
  <2> QED
    BY <2>2, <2>5
<1>5. \A i \in 0..size - 1 : from - r + ((from + i) % p) = from + i
  BY <1>3, <1>4
<1>6. F!InPage(from, size) = {from - r + ((from + i) % p) : i \in 0..size - 1}
  BY <1>2, <1>3 DEF F!InPage
<1>7. F!InPage(from, size) = {from + i : i \in 0..size - 1}
  BY <1>5, <1>6
<1>8. ASSUME NEW x \in F!Range(from, size)
      PROVE  \E i \in 0..size - 1 : x = from + i
  <2>1. x - from \in 0..size - 1 /\ x = from + (x - from)
    BY DEF F!Range
  <2> QED
    BY <2>1
<1>9. \A i \in 0..size - 1 : from + i \in F!Range(from, size)
  BY DEF F!Range
<1> QED
  BY <1>7, <1>8, <1>9

(* What does not pass the end of its type stays as it is.                  *)
LEMMA SmallStays ==
  ASSUME NEW p \in Nat \ {0}, NEW x \in 0..p - 1
  PROVE  x % p = x
<1>1. PICK d \in Nat, e \in 0..p - 1 : x = p * d + e /\ e = x % p
  OBVIOUS
<1>2. CASE d = 0
  BY <1>1, <1>2
<1>3. CASE d # 0
  <2>1. PICK c \in Nat : d = c + 1
    BY <1>3
  <2>2. p * d = p * c + p /\ p * c \in Nat
    BY <2>1
  <2> QED
    BY <1>1, <2>2
<1> QED
  BY <1>2, <1>3

Asked(c) == IF c.op = "write" THEN 0 ELSE 1

(* What the call has passed so far.                                        *)
PassedBy == F!Range(call.addr, address - call.addr)

Active ==
  /\ call \in Calls /\ F!Fits(call)
  /\ address \in Nat /\ remaining \in Nat /\ call.addr <= address
  /\ address + remaining = call.addr + call.size
  /\ call.op \in {"erase", "smart"} => address % Sector4K = 0 /\ remaining % Sector4K = 0
  /\ call.op = "chip" => remaining = 0 \/ address = 0
  /\ call.op = "read" => /\ flashAt \in {"wait", "transfer"}
                         /\ data = [i \in 1..address - call.addr |-> before[call.addr + i - 1]]
  /\ call.op # "read" => flashAt # "transfer"
  /\ flashAt # "wait" => ~busy /\ remaining > 0
  /\ flashAt = "command" => enabled
  /\ \A a \in F!Address :
       cells[a] = IF call.op # "read" /\ a \in PassedBy THEN Asked(call) ELSE before[a]

(* FlashDoes, of any result.                                               *)
Does(c, ok, old, new, read) ==
  /\ \A a \in F!Address :
       /\ a \notin F!Range(c.addr, c.size) => new[a] = old[a]
       /\ a \in F!Range(c.addr, c.size) /\ c.op = "read" => new[a] = old[a]
       /\ a \in F!Range(c.addr, c.size) /\ c.op # "read" /\ ok => new[a] = Asked(c)
  /\ c.op = "read" /\ ok => read = [i \in 1..c.size |-> old[c.addr + i - 1]]

FlashInv ==
  /\ cells \in [F!Address -> {0, 1}] /\ before \in [F!Address -> {0, 1}]
  /\ enabled \in BOOLEAN /\ busy \in BOOLEAN
  /\ flashAt \in {"wait", "enable", "command", "transfer"}
  /\ F!Fits(result.call)
       => Does(result.call, result.ok, result.before, result.after, result.data)
  /\ call # F!Idle => call \in Calls
  /\ call # F!Idle /\ F!Fits(call) => Active

LEMMA FlashInit == F!Init => FlashInv
<1> SUFFICES ASSUME F!Init PROVE FlashInv
  OBVIOUS
<1>1. /\ cells = [a \in F!Address |-> 1] /\ before = cells /\ call = F!Idle
      /\ enabled = FALSE /\ busy = FALSE /\ flashAt = "wait"
  BY DEF F!Init
<1>2. /\ result.call = F!Idle /\ result.ok = FALSE /\ result.before = cells
      /\ result.after = cells
  BY DEF F!Init
<1>3. F!Range(F!Idle.addr, F!Idle.size) = {}
  BY DEF F!Range, F!Idle
<1>4. Does(result.call, result.ok, result.before, result.after, result.data)
  BY <1>2, <1>3 DEF Does
<1> QED
  BY <1>1, <1>4 DEF FlashInv

(* A command reaches the cells from the address on, as far as the call may *)
(* go.                                                                     *)
Units == IF call.op = "write" THEN F!ToWrite ELSE F!EraseSize
Reached == IF call.op = "write" THEN F!InPage(address, Units)
           ELSE F!Range(address - (address % Units), Units)

LEMMA CommandInRange ==
  ASSUME Active, call.op # "read", remaining > 0
  PROVE  /\ Units \in 1..remaining /\ Reached = F!Range(address, Units)
         /\ call.op \in {"erase", "smart"} => /\ (address + Units) % Sector4K = 0
                                              /\ (remaining - Units) % Sector4K = 0
         /\ call.op = "chip" => Units = remaining
<1>1. /\ address \in Nat /\ remaining \in Nat
      /\ call.op \in {"write", "erase", "smart", "chip"}
      /\ PageSize \in Nat \ {0} /\ Sector4K \in Nat \ {0} /\ Capacity \in Nat
  BY FlashAssumption DEF Active
<1>2. CASE call.op = "write"
  <2>1. PICK r \in 0..PageSize - 1 : r = address % PageSize
    BY <1>1
  <2>2. Units = IF remaining > PageSize - r THEN PageSize - r ELSE remaining
    BY <1>2, <2>1 DEF Units, F!ToWrite
  <2>3. Units \in 1..remaining /\ Units <= PageSize - r
    BY <1>1, <2>1, <2>2
  <2>4. F!InPage(address, Units) = F!Range(address, Units)
    <3>1. Units \in Nat /\ Units <= PageSize - (address % PageSize)
      BY <1>1, <2>1, <2>3
    <3> QED
      BY <1>1, <3>1, PageIsRange
  <2> QED
    BY <1>2, <2>3, <2>4 DEF Reached
<1>3. CASE call.op = "chip"
  <2>1. address = 0 /\ remaining = Capacity
    <3>1. call.addr = 0 /\ call.size = Capacity
      BY <1>3, FlashAssumption DEF Active
    <3> QED
      BY <1>1, <1>3, <3>1 DEF Active
  <2>2. Units = Capacity
    BY <1>3 DEF Units, F!EraseSize
  <2>3. 0 % Capacity = 0
    BY <1>1, <2>1
  <2> QED
    BY <1>1, <1>3, <2>1, <2>2, <2>3 DEF Reached
<1>4. CASE call.op \in {"erase", "smart"}
  <2>1. address % Sector4K = 0 /\ remaining % Sector4K = 0
    BY <1>4 DEF Active
  <2>2. PICK u : u = Units
    OBVIOUS
  <2>3. \/ u = Sector64K /\ address % u = 0 /\ remaining >= u
        \/ u = Sector32K /\ address % u = 0 /\ remaining >= u
        \/ u = Sector4K
    BY <1>4, <2>2 DEF Units, F!EraseSize
  <2>4. PICK m \in Nat \ {0} : u = Sector4K * m
    <3>1. Sector4K = Sector4K * 1 /\ 1 \in Nat \ {0}
      BY <1>1
    <3>2. ASSUME NEW x \in Nat \ {0}, x % Sector4K = 0
          PROVE  \E m \in Nat \ {0} : x = Sector4K * m
      <4>1. PICK m \in Nat : x = Sector4K * m
        BY <1>1, <3>2, WholeBlocks
      <4>2. m # 0
        BY <1>1, <4>1
      <4> QED
        BY <4>1, <4>2
    <3>3. /\ Sector32K \in Nat \ {0} /\ Sector32K % Sector4K = 0
          /\ Sector64K \in Nat \ {0} /\ Sector64K % Sector4K = 0
      BY FlashAssumption
    <3> QED
      BY <2>3, <3>1, <3>2, <3>3
  <2>5. u \in Nat /\ u > 0
    <3>1. PICK k \in Nat : m = k + 1
      <4>1. m - 1 \in Nat /\ m = (m - 1) + 1
        OBVIOUS
      <4> QED
        BY <4>1
    <3>2. u = Sector4K * k + Sector4K /\ Sector4K * k \in Nat
      BY <1>1, <2>4, <3>1
    <3> QED
      BY <1>1, <3>2
  <2>6. address % u = 0 /\ u <= remaining
    <3>1. Sector4K <= remaining
      <4>1. 1 \in Nat \ {0}
        OBVIOUS
      <4> QED
        BY <1>1, <2>1, <4>1, BlocksAdd
    <3> QED
      BY <1>1, <2>1, <2>3, <3>1
  <2>7. (address + u) % Sector4K = 0 /\ (remaining - u) % Sector4K = 0
    <3>1. Sector4K * m <= remaining
      BY <2>4, <2>6
    <3>2. (address + Sector4K * m) % Sector4K = 0 /\ (remaining - Sector4K * m) % Sector4K = 0
      BY <1>1, <2>1, <3>1, BlocksAdd
    <3> QED
      BY <2>4, <3>2
  <2>8. Reached = F!Range(address, u)
    <3>1. address - (address % u) = address
      BY <1>1, <2>6
    <3> QED
      BY <1>4, <2>2, <3>1 DEF Reached
  <2> QED
    BY <1>1, <1>4, <2>2, <2>5, <2>6, <2>7, <2>8
<1> QED
  BY <1>1, <1>2, <1>3, <1>4

(* A command that reaches the device changes the cells of its range.       *)
LEMMA AcceptedCells ==
  ASSUME FlashInv, Active, flashAt = "command", call.op # "read",
         F!Accept(Reached, Asked(call))
  PROVE  /\ cells' \in [F!Address -> {0, 1}] /\ enabled' \in BOOLEAN /\ busy' \in BOOLEAN
         /\ \A a \in F!Address :
              cells'[a] = IF a \in F!Range(address, Units) THEN Asked(call) ELSE cells[a]
<1>1. enabled /\ ~busy /\ remaining > 0
  BY DEF Active
<1>2. Reached = F!Range(address, Units)
  BY <1>1, CommandInRange
<1>a. F!Range(address, Units) \subseteq 0..Capacity - 1
  BY <1>1, CommandInRange, FlashAssumption DEF Active, F!Fits, F!Range
<1>b. \A x \in Reached : x % Capacity = x
  BY <1>2, <1>a, SmallStays, FlashAssumption
<1>3. /\ cells' = [a \in F!Address |-> IF a \in Reached THEN Asked(call) ELSE cells[a]]
      /\ enabled' = FALSE /\ busy' = TRUE
  <2>1. /\ cells' = [a \in F!Address |-> IF \E x \in Reached : x % Capacity = a
                                         THEN Asked(call) ELSE cells[a]]
        /\ enabled' = FALSE /\ busy' = TRUE
    BY <1>1 DEF F!Accept
  <2>2. \A a \in F!Address : (\E x \in Reached : x % Capacity = a) <=> a \in Reached
    BY <1>b
  <2> QED
    BY <2>1, <2>2
<1>4. Asked(call) \in {0, 1}
  BY DEF Asked
<1>5. cells' \in [F!Address -> {0, 1}]
  BY <1>3, <1>4 DEF FlashInv
<1> QED
  BY <1>2, <1>3, <1>5

LEMMA FlashCommand ==
  ASSUME FlashInv, F!Fits(call), F!Command
  PROVE  FlashInv'
<1>1. /\ call # F!Idle /\ Active /\ flashAt = "command" /\ call.op # "read" /\ remaining > 0
  BY DEF F!Command, FlashInv, Active
<1>2. /\ UNCHANGED <<call, before, data, result>>
      /\ F!Accept(Reached, Asked(call)) /\ F!Advance(Units)
  BY DEF F!Command, F!job, Reached, Units, Asked
<1>3. /\ cells' \in [F!Address -> {0, 1}] /\ enabled' \in BOOLEAN /\ busy' \in BOOLEAN
      /\ \A a \in F!Address :
           cells'[a] = IF a \in F!Range(address, Units) THEN Asked(call) ELSE cells[a]
  BY <1>1, <1>2, AcceptedCells
<1>4. PICK u : u = Units
  OBVIOUS
<1>5. /\ u \in 1..remaining
      /\ call.op \in {"erase", "smart"} => /\ (address + u) % Sector4K = 0
                                           /\ (remaining - u) % Sector4K = 0
      /\ call.op = "chip" => u = remaining
  BY <1>1, <1>4, CommandInRange
<1>7. PICK from, size : from = call.addr /\ size = call.size
  OBVIOUS
<1>8. /\ address \in Nat /\ remaining \in Nat /\ from \in Nat /\ size \in Nat
      /\ from <= address /\ address + remaining = from + size
      /\ from + size <= Capacity
  BY <1>1, <1>7, FlashAssumption DEF Active, F!Fits
<1>6. address' = address + u /\ remaining' = remaining - u /\ flashAt' = "wait"
  <2>1. address' = (address + u) % AddressSpace /\ remaining' = (remaining - u) % AddressSpace
        /\ flashAt' = "wait"
    BY <1>2, <1>4 DEF F!Advance
  <2>2. address + u \in 0..AddressSpace - 1 /\ remaining - u \in 0..AddressSpace - 1 /\ AddressSpace \in Nat \ {0}
    BY <1>5, <1>8, FlashAssumption
  <2>3. (address + u) % AddressSpace = address + u /\ (remaining - u) % AddressSpace = remaining - u
    BY <2>2, SmallStays
  <2> QED
    BY <2>1, <2>3
<1>9. /\ address' \in Nat /\ remaining' \in Nat /\ from <= address'
      /\ address' + remaining' = from + size
  BY <1>5, <1>6, <1>8
<1>10. ASSUME NEW a \in F!Address
       PROVE  a \in F!Range(from, address' - from)
                <=> a \in F!Range(from, address - from) \/ a \in F!Range(address, u)
  BY <1>5, <1>6, <1>8 DEF F!Range, F!Address
<1>11. ASSUME NEW a \in F!Address
       PROVE  cells'[a] = IF a \in F!Range(from, address' - from) THEN Asked(call) ELSE before[a]
  <2>1. cells[a] = IF a \in F!Range(from, address - from) THEN Asked(call) ELSE before[a]
    BY <1>1, <1>7 DEF Active, PassedBy
  <2> QED
    BY <1>3, <1>4, <1>10, <2>1
<1>12. Active'
  BY <1>1, <1>2, <1>5, <1>6, <1>7, <1>9, <1>11 DEF Active, PassedBy, F!Fits, Asked
<1> QED
  BY <1>1, <1>2, <1>3, <1>6, <1>12 DEF FlashInv, Does, Asked

(* A call returns, and its result is what it did.                          *)
LEMMA FlashReturns ==
  ASSUME FlashInv, NEW ok \in BOOLEAN, F!Return(ok), call # F!Idle,
         cells' \in [F!Address -> {0, 1}], enabled' \in BOOLEAN, busy' \in BOOLEAN,
         Does(call, ok, before, cells', data)
  PROVE  FlashInv'
<1>1. /\ call' = F!Idle /\ UNCHANGED <<before, flashAt>>
      /\ result' = [call |-> call, ok |-> ok, before |-> before, after |-> cells', data |-> data]
  BY DEF F!Return
<1>2. PICK r : r = result'
  OBVIOUS
<1>3. /\ r.call = call /\ r.ok = ok /\ r.before = before /\ r.after = cells' /\ r.data = data
  BY <1>1, <1>2
<1>4. Does(r.call, r.ok, r.before, r.after, r.data)
  BY <1>3
<1>5. Does(result.call, result.ok, result.before, result.after, result.data)'
  BY <1>2, <1>4 DEF Does, Asked
<1> QED
  BY <1>1, <1>5 DEF FlashInv

(* What a call has passed is in its range.                                 *)
LEMMA CallInRange ==
  ASSUME Active
  PROVE  /\ PassedBy \subseteq F!Range(call.addr, call.size)
         /\ remaining = 0 => PassedBy = F!Range(call.addr, call.size)
         /\ \A n \in 1..remaining : F!Range(address, n) \subseteq F!Range(call.addr, call.size)
<1>1. PICK from, size : from = call.addr /\ size = call.size
  OBVIOUS
<1>2. /\ address \in Nat /\ remaining \in Nat /\ from \in Nat /\ size \in Nat
      /\ from <= address /\ address + remaining = from + size
  BY <1>1, FlashAssumption DEF Active
<1>3. F!Range(from, address - from) \subseteq F!Range(from, size)
  BY <1>2 DEF F!Range
<1>4. ASSUME remaining = 0
      PROVE  address - from = size
  BY <1>2, <1>4
<1>5. \A n \in 1..remaining : F!Range(address, n) \subseteq F!Range(from, size)
  BY <1>2 DEF F!Range
<1> QED
  BY <1>1, <1>3, <1>4, <1>5 DEF PassedBy

LEMMA FlashFinishes ==
  ASSUME FlashInv, F!Fits(call), F!Finish
  PROVE  FlashInv'
<1>1. call # F!Idle /\ Active /\ remaining = 0 /\ UNCHANGED <<cells, enabled, busy>>
      /\ F!Return(TRUE)
  BY DEF F!Finish, F!device, FlashInv
<1>2. PassedBy = F!Range(call.addr, call.size)
  BY <1>1, CallInRange
<1>3. Does(call, TRUE, before, cells, data)
  <2>1. \A a \in F!Address :
          cells[a] = IF call.op # "read" /\ a \in F!Range(call.addr, call.size)
                     THEN Asked(call) ELSE before[a]
    BY <1>1, <1>2 DEF Active
  <2>2. call.op = "read" => data = [i \in 1..call.size |-> before[call.addr + i - 1]]
    <3>1. address - call.addr = call.size
      BY <1>1, FlashAssumption DEF Active
    <3> QED
      BY <1>1, <3>1 DEF Active
  <2> QED
    BY <2>1, <2>2 DEF Does
<1>4. Does(call, TRUE, before, cells', data)
  BY <1>1, <1>3
<1>5. cells' \in [F!Address -> {0, 1}] /\ enabled' \in BOOLEAN /\ busy' \in BOOLEAN
  BY <1>1 DEF FlashInv
<1> QED
  BY <1>1, <1>4, <1>5, FlashReturns

(* A call that fails has changed nothing outside its range.                *)
LEMMA FlashFails ==
  ASSUME FlashInv, F!Fits(call), F!Fail \/ F!CommandFails
  PROVE  FlashInv'
<1>1. call # F!Idle /\ Active /\ F!Return(FALSE)
  BY DEF F!Fail, F!CommandFails, FlashInv
<1>2. \A a \in F!Address :
        /\ a \notin F!Range(call.addr, call.size) => cells[a] = before[a]
        /\ call.op = "read" => cells[a] = before[a]
  BY <1>1, CallInRange DEF Active
<1>3. CASE F!Fail
  <2>1. UNCHANGED <<cells, enabled, busy>>
    BY <1>3 DEF F!Fail, F!device
  <2>2. Does(call, FALSE, before, cells, data)
    BY <1>2 DEF Does
  <2>3. Does(call, FALSE, before, cells', data)
    BY <2>1, <2>2
  <2>4. cells' \in [F!Address -> {0, 1}] /\ enabled' \in BOOLEAN /\ busy' \in BOOLEAN
    BY <2>1 DEF FlashInv
  <2> QED
    BY <1>1, <2>3, <2>4, FlashReturns
<1>4. CASE F!CommandFails
  <2>1. flashAt = "command" /\ call.op # "read" /\ remaining > 0
    BY <1>1, <1>4 DEF F!CommandFails, Active
  <2>2. F!Accept(Reached, Asked(call))
    BY <1>4 DEF F!CommandFails, Reached, Units, Asked
  <2>3. /\ cells' \in [F!Address -> {0, 1}] /\ enabled' \in BOOLEAN /\ busy' \in BOOLEAN
        /\ \A a \in F!Address :
             cells'[a] = IF a \in F!Range(address, Units) THEN Asked(call) ELSE cells[a]
    BY <1>1, <2>1, <2>2, AcceptedCells
  <2>4. F!Range(address, Units) \subseteq F!Range(call.addr, call.size)
    BY <1>1, <2>1, CallInRange, CommandInRange
  <2>5. PICK new : new = cells'
    OBVIOUS
  <2>6. Does(call, FALSE, before, new, data)
    BY <1>2, <2>1, <2>3, <2>4, <2>5 DEF Does
  <2>7. Does(call, FALSE, before, cells', data)
    BY <2>5, <2>6
  <2> QED
    BY <1>1, <2>3, <2>7, FlashReturns
<1> QED
  BY <1>3, <1>4

LEMMA FlashBegins ==
  ASSUME FlashInv, NEW c \in Calls, F!Begin(c)
  PROVE  FlashInv'
<1>1. /\ F!Valid(c) /\ call' = c /\ before' = cells /\ flashAt' = "wait"
      /\ address' = c.addr /\ remaining' = c.size /\ data' = <<>>
      /\ UNCHANGED <<cells, enabled, busy, result>>
  BY DEF F!Begin, F!device
<1>2. /\ c \in [op : {"read", "write", "erase", "smart", "chip"}, addr : Nat, size : Nat]
      /\ c.op = "chip" => c.addr = 0
  BY FlashAssumption
<1> SUFFICES ASSUME F!Fits(c) PROVE Active'
  BY <1>1 DEF FlashInv, Does, Asked, F!Fits
<1>3. c.op \in {"erase", "smart"} => c.addr % Sector4K = 0 /\ c.size % Sector4K = 0
  BY <1>1, <1>2 DEF F!Valid, F!Fits
<1>4. c.addr - c.addr = 0 /\ F!Range(c.addr, 0) = {}
  BY <1>2 DEF F!Range
<1>5. [i \in 1..0 |-> cells[c.addr + i - 1]] = <<>>
  OBVIOUS
<1>6. F!Fits(c)'
  BY <1>1 DEF F!Fits
<1> QED
  BY <1>1, <1>2, <1>3, <1>4, <1>5, <1>6 DEF Active, PassedBy, F!Fits

(* A read takes what the device holds, which is not busy.                  *)
LEMMA FlashReads ==
  ASSUME FlashInv, F!Fits(call), F!Transfer
  PROVE  FlashInv'
<1>1. /\ call # F!Idle /\ Active /\ flashAt = "transfer" /\ call.op = "read" /\ ~busy
      /\ remaining > 0
  BY DEF F!Transfer, FlashInv, Active
<1>2. PICK n : n = IF remaining > Chunk THEN Chunk ELSE remaining
  OBVIOUS
<1>4. PICK from, size : from = call.addr /\ size = call.size
  OBVIOUS
<1>5. /\ address \in Nat /\ remaining \in Nat /\ from \in Nat /\ size \in Nat
      /\ from <= address /\ address + remaining = from + size /\ from + size <= Capacity
      /\ n \in 1..remaining /\ Capacity \in Nat \ {0}
  BY <1>1, <1>2, <1>4, FlashAssumption DEF Active, F!Fits
<1>3. /\ data' = data \o [i \in 1..n |-> cells[address + i - 1]]
      /\ address' = address + n /\ remaining' = remaining - n
      /\ flashAt' = IF remaining = n THEN "wait" ELSE "transfer"
      /\ UNCHANGED <<cells, enabled, busy, call, before, result>>
  <2>1. /\ data' = data \o [i \in 1..n |-> cells[(address + i - 1) % Capacity]]
        /\ address' = (address + n) % AddressSpace /\ remaining' = remaining - n
        /\ flashAt' = IF remaining = n THEN "wait" ELSE "transfer"
        /\ UNCHANGED <<cells, enabled, busy, call, before, result>>
    BY <1>1, <1>2 DEF F!Transfer, F!device, F!job
  <2>2. address + n \in 0..AddressSpace - 1 /\ AddressSpace \in Nat \ {0}
    BY <1>5, FlashAssumption
  <2>3. (address + n) % AddressSpace = address + n
    BY <2>2, SmallStays
  <2>4. \A i \in 1..n : address + i - 1 \in 0..Capacity - 1
    BY <1>5
  <2>5. \A i \in 1..n : (address + i - 1) % Capacity = address + i - 1
    BY <1>5, <2>4, SmallStays
  <2>6. [i \in 1..n |-> cells[(address + i - 1) % Capacity]]
          = [i \in 1..n |-> cells[address + i - 1]]
    BY <2>5
  <2> QED
    BY <2>1, <2>3, <2>6
<1>6. /\ address' \in Nat /\ remaining' \in Nat /\ from <= address'
      /\ address' + remaining' = from + size
      /\ remaining = n \/ remaining' > 0
  BY <1>3, <1>5
<1>7. \A a \in F!Address : cells[a] = before[a] /\ before[a] \in {0, 1}
  BY <1>1 DEF Active, FlashInv
<1>8. PICK k \in Nat : k = address - from
  BY <1>5
<1>9. PICK t : t = [i \in 1..n |-> cells[address + i - 1]]
  OBVIOUS
<1>10. t \in Seq({0, 1}) /\ Len(t) = n /\ \A i \in 1..n : t[i] = before[address + i - 1]
  <2>1. \A i \in 1..n : address + i - 1 \in F!Address
    BY <1>5 DEF F!Address
  <2>2. t \in [1..n -> {0, 1}]
    BY <1>7, <1>9, <2>1
  <2>3. \A i \in 1..n : t[i] = before[address + i - 1]
    BY ONLY <1>7, <1>9, <2>1
  <2>4. n \in Nat
    BY <1>5
  <2> QED
    BY <2>2, <2>3, <2>4
<1>11. data \in Seq({0, 1}) /\ Len(data) = k /\ \A i \in 1..k : data[i] = before[from + i - 1]
  <2>1. \A i \in 1..k : from + i - 1 \in F!Address
    BY <1>5, <1>8 DEF F!Address
  <2>2. data = [i \in 1..k |-> before[from + i - 1]]
    BY <1>1, <1>4, <1>8 DEF Active
  <2>3. data \in [1..k -> {0, 1}]
    BY <1>7, <2>1, <2>2
  <2> QED
    BY <1>8, <2>2, <2>3
<1>12. PICK j : j = data \o t
  OBVIOUS
<1>13. /\ j \in Seq({0, 1}) /\ Len(j) = k + n
       /\ \A i \in 1..k + n : j[i] = IF i <= k THEN data[i] ELSE t[i - k]
  BY <1>10, <1>11, <1>12, ConcatProperties
<1>14. ASSUME NEW i \in 1..k + n
       PROVE  j[i] = before[from + i - 1]
  <2>1. CASE i <= k
    <3>1. i \in 1..k
      BY <2>1
    <3> QED
      BY <1>11, <1>13, <3>1
  <2>2. CASE i > k
    <3>1. i - k \in 1..n /\ address + (i - k) - 1 = from + i - 1 /\ ~(i <= k)
      BY <1>5, <1>8, <2>2
    <3> QED
      BY <1>10, <1>13, <3>1
  <2> QED
    BY <2>1, <2>2
<1>15. j = [i \in 1..address' - from |-> before[from + i - 1]]
  <2>1. address' - from = k + n
    BY <1>3, <1>5, <1>8
  <2>2. DOMAIN j = 1..k + n /\ j = [i \in DOMAIN j |-> j[i]]
    BY <1>13
  <2> QED
    BY <1>14, <2>1, <2>2
<1>16. data' = j
  BY <1>3, <1>9, <1>12
<1>17. Active'
  BY <1>1, <1>3, <1>4, <1>6, <1>7, <1>15, <1>16 DEF Active, PassedBy, F!Fits
<1> QED
  BY <1>1, <1>3, <1>17 DEF FlashInv, Does, Asked

(* A call that does not fit may do anything to the cells, and promises     *)
(* nothing.                                                                *)
LEMMA AcceptedBits ==
  ASSUME cells \in [F!Address -> {0, 1}], enabled \in BOOLEAN, busy \in BOOLEAN,
         NEW set, NEW bit \in {0, 1}, F!Accept(set, bit)
  PROVE  cells' \in [F!Address -> {0, 1}] /\ enabled' \in BOOLEAN /\ busy' \in BOOLEAN
<1>1. CASE enabled /\ ~busy
  <2>1. /\ cells' = [a \in F!Address |-> IF \E x \in set : x % Capacity = a THEN bit ELSE cells[a]]
        /\ enabled' = FALSE /\ busy' = TRUE
    BY <1>1 DEF F!Accept
  <2> QED
    BY <2>1
<1>2. CASE ~(enabled /\ ~busy)
  BY <1>2 DEF F!Accept, F!device
<1> QED
  BY <1>1, <1>2

LEMMA FlashMisfits ==
  ASSUME FlashInv, call # F!Idle, ~F!Fits(call), F!Next
  PROVE  FlashInv'
<1>1. /\ cells \in [F!Address -> {0, 1}] /\ before \in [F!Address -> {0, 1}]
      /\ enabled \in BOOLEAN /\ busy \in BOOLEAN
      /\ flashAt \in {"wait", "enable", "command", "transfer"}
      /\ call \in Calls
  BY DEF FlashInv
<1>2. ASSUME UNCHANGED <<call, before, result>>,
             cells' \in [F!Address -> {0, 1}], enabled' \in BOOLEAN, busy' \in BOOLEAN,
             flashAt' \in {"wait", "enable", "command", "transfer"}
      PROVE  FlashInv'
  <2>1. ~F!Fits(call)'
    BY <1>2 DEF F!Fits
  <2>2. F!Fits(result.call)'
          => Does(result.call, result.ok, result.before, result.after, result.data)'
    BY <1>2 DEF F!Fits, FlashInv, Does, Asked
  <2> QED
    BY <1>1, <1>2, <2>1, <2>2 DEF FlashInv
<1>3. ASSUME NEW ok, F!Return(ok),
             cells' \in [F!Address -> {0, 1}], enabled' \in BOOLEAN, busy' \in BOOLEAN
      PROVE  FlashInv'
  <2>1. call' = F!Idle /\ UNCHANGED <<before, flashAt>> /\ result'.call = call
    BY <1>3 DEF F!Return
  <2>2. ~F!Fits(result.call)'
    BY <2>1 DEF F!Fits
  <2> QED
    BY <1>1, <1>3, <2>1, <2>2 DEF FlashInv
<1>4. CASE F!Command
  <2>1. F!Accept(Reached, Asked(call)) /\ Asked(call) \in {0, 1}
    BY <1>4 DEF F!Command, F!job, Reached, Units, Asked
  <2> QED
    BY <1>1, <1>2, <1>4, <2>1, AcceptedBits DEF F!Command, F!Advance, F!job
<1>5. CASE F!CommandFails
  <2>1. F!Accept(Reached, Asked(call)) /\ Asked(call) \in {0, 1}
    BY <1>5 DEF F!CommandFails, Reached, Units, Asked
  <2> QED
    BY <1>1, <1>3, <1>5, <2>1, AcceptedBits DEF F!CommandFails
<1>6. CASE F!Finish \/ F!Fail
  BY <1>1, <1>3, <1>6 DEF F!Finish, F!Fail, F!device
<1>7. CASE F!Ready \/ F!_flash_wait_ready \/ F!_flash_write_enable \/ F!Transfer
  BY <1>1, <1>2, <1>7
     DEF F!Ready, F!_flash_wait_ready, F!_flash_write_enable, F!Transfer, F!job, F!device
<1> QED
  BY <1>4, <1>5, <1>6, <1>7 DEF F!Next, F!Begin

LEMMA FlashStep ==
  ASSUME FlashInv, F!Next \/ UNCHANGED flashVars
  PROVE  FlashInv'
<1> USE DEF Active, PassedBy, Does, Asked, F!Fits
<1>1. CASE UNCHANGED flashVars
  BY <1>1 DEF flashVars, FlashInv
<1>2. CASE F!Ready
  BY <1>2 DEF F!Ready, F!job, FlashInv
<1>3. CASE F!_flash_wait_ready
  BY <1>3 DEF F!_flash_wait_ready, F!job, F!device, FlashInv
<1>4. CASE F!_flash_write_enable
  BY <1>4 DEF F!_flash_write_enable, F!job, FlashInv
<1>5. CASE call # F!Idle /\ ~F!Fits(call) /\ F!Next
  BY <1>5, FlashMisfits
<1>6. CASE call = F!Idle /\ F!Next
  BY <1>2, <1>6, FlashBegins
     DEF F!Next, F!_flash_wait_ready, F!_flash_write_enable, F!Command, F!Transfer, F!Finish,
         F!Fail, F!CommandFails
<1>7. CASE call # F!Idle /\ F!Fits(call) /\ F!Next
  <2> HIDE DEF Active, PassedBy, Does, Asked, F!Fits
  <2> QED
    BY <1>2, <1>3, <1>4, <1>7, FlashReads, FlashCommand, FlashFinishes, FlashFails
       DEF F!Next, F!Begin
<1> QED
  BY <1>1, <1>5, <1>6, <1>7

LEMMA FlashDid == FlashInv => F!FlashDoes
BY DEF FlashInv, Does, Asked, F!FlashDoes

(***************************************************************************)
(* The registers.  As long as nothing shifts it, the pointer into the      *)
(* frame is where the register of the turn has its words, and what was     *)
(* moved before is not touched any more.                                   *)
(***************************************************************************)
RegValue(a) == IF a \in M!Longs THEN M!Word \X M!Word ELSE M!Word
Last(q) == q[1] + q[2] - 1

LEMMA TwoBits ==
  ASSUME NEW w \in M!Word
  PROVE  /\ w % 2 \in 0..1 /\ w \div 2 \in 0..1
         /\ 2 ^ (w % 2) = IF w % 2 = 0 THEN 1 ELSE 2
<1>1. w \in 0..3
  BY DEF M!Word
<1>2. w % 2 \in 0..1 /\ w \div 2 \in 0..1
  BY <1>1
<1>3. 2 ^ 0 = 1 /\ 2 ^ 1 = 2
  OBVIOUS
<1>4. CASE w % 2 = 0
  BY <1>2, <1>3, <1>4
<1>5. CASE w % 2 = 1
  BY <1>2, <1>3, <1>5
<1> QED
  BY <1>2, <1>4, <1>5

(* A word sets or clears the flag it names.                                *)
LEMMA FlagsStored ==
  ASSUME NEW reg, reg.type = "flags", NEW old \in M!Word, NEW w \in M!Word, NEW next
  PROVE  /\ M!Stored(reg, old, w, next) \in M!Word
         /\ (M!Stored(reg, old, w, next) \div 2 ^ (w % 2)) % 2 = w \div 2
<1>1. PICK bit : bit = 2 ^ (w % 2)
  OBVIOUS
<1>2. bit \in {1, 2} /\ w \in 0..3 /\ old \in 0..3
  BY <1>1, TwoBits DEF M!Word
<1>3. PICK new : new = IF w >= 2 THEN old + (IF (old \div bit) % 2 = 0 THEN bit ELSE 0)
                       ELSE old - (IF (old \div bit) % 2 = 1 THEN bit ELSE 0)
  OBVIOUS
<1>4. M!Stored(reg, old, w, next) = new
  BY <1>1, <1>3 DEF M!Stored
<1>5. new \in 0..3 /\ (new \div bit) % 2 = w \div 2
  <2>1. old \in {0, 1, 2, 3} /\ w \in {0, 1, 2, 3}
    BY <1>2
  <2>2. CASE bit = 1
    BY <1>3, <2>1, <2>2
  <2>3. CASE bit = 2
    BY <1>3, <2>1, <2>3
  <2> QED
    BY <1>2, <2>2, <2>3
<1> QED
  BY <1>1, <1>4, <1>5 DEF M!Word

LEMMA StoredIsValue ==
  ASSUME NEW a \in DOMAIN Table, NEW old \in RegValue(a), NEW w \in M!Word, NEW next \in M!Word
  PROVE  M!Stored(Table[a], old, w, next) \in RegValue(a)
<1>1. CASE Table[a].type = "long"
  BY <1>1 DEF M!Stored, RegValue, M!Longs
<1>2. CASE Table[a].type = "flags"
  BY <1>2, FlagsStored DEF RegValue, M!Longs
<1>3. CASE Table[a].type = "byte"
  <2>1. w % 2 \in M!Word
    BY TwoBits DEF M!Word
  <2> QED
    BY <1>3, <2>1 DEF M!Stored, RegValue, M!Longs
<1>4. CASE Table[a].type \notin {"long", "flags", "byte"}
  BY <1>4 DEF M!Stored, RegValue, M!Longs
<1> QED
  BY <1>1, <1>2, <1>3, <1>4

(* The conjuncts of RegsOwnWords, of one register.                         *)
StoredOwn(a) ==
  LET w == rxFrame[M!Place(a)] IN
  Table[a].write => CASE Table[a].type \in {"word", "text"} -> value[a] = w
                      [] Table[a].type = "byte" -> value[a] = w % 2
                      [] Table[a].type = "long" -> value[a] = <<w, rxFrame[M!Place(a) + 1]>>
                      [] OTHER -> (value[a] \div 2 ^ (w % 2)) % 2 = w \div 2

SentOwn(a) ==
  CASE Table[a].type = "long" -> <<txFrame[M!Place(a)], txFrame[M!Place(a) + 1]>> = value[a]
    [] Table[a].type = "text" -> txFrame[M!Place(a)] \div 2 = value[a] % 2
    [] OTHER -> txFrame[M!Place(a)] = value[a]

(* The turn is at a register, and has its words.                           *)
AtOwnWords ==
  /\ frame = regToDo + 1 /\ regToDo <= query[2]
  /\ query[1] + regToDo - 1 \notin M!Longs

RegsInv ==
  /\ value \in [DOMAIN Table -> UNION {RegValue(a) : a \in DOMAIN Table}]
  /\ \A a \in DOMAIN Table : value[a] \in RegValue(a)
  /\ rxFrame \in [DOMAIN Table -> M!Word] /\ txFrame \in [DOMAIN Table -> M!Word]
  /\ doing \in {"idle", "mb_regWrite", "mb_regRead", "stored", "filled"}
  /\ doing # "idle" => query \in Queries
  /\ regToDo \in Nat /\ frame \in Nat /\ rejected \in BOOLEAN
  /\ doing \in {"stored", "filled"} => regToDo >= query[2]
  /\ doing \in {"mb_regWrite", "stored"} /\ ~rejected /\ M!Writable
       => AtOwnWords /\ \A a \in M!Starts : a < query[1] + regToDo => StoredOwn(a)
  /\ doing \in {"mb_regRead", "filled"} /\ M!Readable
       => AtOwnWords /\ \A a \in M!Starts : a < query[1] + regToDo => SentOwn(a)

LEMMA RegsInit == M!Init => RegsInv
<1> SUFFICES ASSUME M!Init PROVE RegsInv
  OBVIOUS
<1>1. \A a \in DOMAIN Table :
        (IF a \in M!Longs THEN <<0, 0>> ELSE 0) \in RegValue(a)
  BY DEF RegValue, M!Word
<1>2. \A a \in DOMAIN Table : value[a] \in RegValue(a)
  BY <1>1 DEF M!Init
<1>3. value \in [DOMAIN Table -> UNION {RegValue(a) : a \in DOMAIN Table}]
  BY <1>1 DEF M!Init
<1>4. /\ rxFrame \in [DOMAIN Table -> M!Word] /\ txFrame \in [DOMAIN Table -> M!Word]
      /\ doing = "idle" /\ regToDo = 0 /\ frame = 1 /\ rejected = FALSE
  BY DEF M!Init, M!Word
<1> QED
  BY <1>2, <1>3, <1>4 DEF RegsInv

LEMMA StartsAreRegisters ==
  ASSUME query \in Queries
  PROVE  M!Starts \subseteq DOMAIN Table
<1>1. PICK first, count : first = query[1] /\ count = query[2]
  OBVIOUS
<1>2. /\ first \in Nat \ {0} /\ count \in Nat \ {0} /\ first + count - 1 \in DOMAIN Table
  BY <1>1, RegsAssumption
<1>3. PICK m \in Nat : DOMAIN Table = 1..m
  BY LenProperties, RegsAssumption
<1>4. first..first + count - 1 \subseteq 1..m
  BY <1>2, <1>3
<1> QED
  BY <1>1, <1>3, <1>4 DEF M!Starts

(* A register where a turn may begin, its words and the next one.          *)
LEMMA Turn ==
  ASSUME RegsInv, doing # "idle", AtOwnWords, regToDo < query[2]
  PROVE  LET a == query[1] + regToDo
             n == M!Size(Table[a])
         IN  /\ a \in M!Starts /\ a \in DOMAIN Table /\ M!Place(a) = frame
             /\ frame \in DOMAIN Table
             /\ a \in M!Longs => frame + 1 \in DOMAIN Table
             /\ n = IF a \in M!Longs THEN 2 ELSE 1
             /\ regToDo + n <= query[2] /\ query[1] + (regToDo + n) - 1 \notin M!Longs
             /\ \A b \in M!Starts : b < query[1] + (regToDo + n) => b < a \/ b = a
             /\ \A b \in M!Starts : b < a => /\ M!Place(b) \in 1..frame - 1
                                             /\ b \in M!Longs => M!Place(b) + 1 \in 1..frame - 1
<1>1. PICK first, count : first = query[1] /\ count = query[2]
  OBVIOUS
<1>2. /\ first \in Nat \ {0} /\ count \in Nat \ {0} /\ regToDo \in Nat /\ regToDo < count
      /\ first + count - 1 \in DOMAIN Table \ M!Longs
      /\ frame = regToDo + 1 /\ first + regToDo - 1 \notin M!Longs
  BY <1>1, RegsAssumption DEF RegsInv, AtOwnWords
<1>3. PICK m \in Nat : DOMAIN Table = 1..m
  BY LenProperties, RegsAssumption
<1>4. PICK a : a = first + regToDo
  OBVIOUS
<1>5. /\ a \in Nat /\ a \in first..first + count - 1 /\ a - 1 \notin M!Longs /\ a \in DOMAIN Table
      /\ frame = a - first + 1 /\ frame \in DOMAIN Table
  BY <1>2, <1>3, <1>4
<1>6. PICK n : n = M!Size(Table[a])
  OBVIOUS
<1>7. n = IF a \in M!Longs THEN 2 ELSE 1
  BY <1>5, <1>6 DEF M!Size, M!Longs
<1>8. ASSUME a \in M!Longs
      PROVE  /\ a + 1 \in DOMAIN Table \ M!Longs /\ a + 1 \in first..first + count - 1
             /\ frame + 1 \in DOMAIN Table
  <2>1. a + 1 \in DOMAIN Table \ M!Longs /\ a # first + count - 1
    BY <1>2, <1>8, RegsAssumption
  <2>2. a + 1 \in first..first + count - 1
    BY <1>2, <1>5, <2>1
  <2>3. frame + 1 \in DOMAIN Table
    BY <1>2, <1>3, <1>5, <2>2
  <2> QED
    BY <2>1, <2>2, <2>3
<1>9. regToDo + n <= count /\ first + (regToDo + n) - 1 \notin M!Longs
  <2>1. CASE a \in M!Longs
    <3>1. n = 2 /\ first + (regToDo + n) - 1 = a + 1
      BY <1>2, <1>4, <1>7, <2>1
    <3>2. regToDo + 2 <= count
      BY <1>2, <1>4, <1>8, <2>1
    <3> QED
      BY <1>8, <2>1, <3>1, <3>2
  <2>2. CASE a \notin M!Longs
    <3>1. n = 1 /\ first + (regToDo + n) - 1 = a
      BY <1>2, <1>4, <1>7, <2>2
    <3> QED
      BY <1>2, <2>2, <3>1
  <2> QED
    BY <2>1, <2>2
<1>10. ASSUME NEW b \in M!Starts
       PROVE  /\ b < first + (regToDo + n) => b < a \/ b = a
              /\ b < a => /\ b - first + 1 \in 1..frame - 1
                          /\ b \in M!Longs => (b - first + 1) + 1 \in 1..frame - 1
  <2>1. b \in first..first + count - 1 /\ b - 1 \notin M!Longs /\ b \in Int
    BY <1>1, <1>2 DEF M!Starts
  <2>2. CASE a \in M!Longs
    <3>1. b # a + 1
      <4>1. a = (a + 1) - 1
        BY <1>5
      <4> QED
        BY <2>1, <2>2, <4>1
    <3>2. n = 2
      BY <1>7, <2>2
    <3>3. b < first + (regToDo + n) => b < a \/ b = a
      BY <1>2, <1>4, <1>5, <2>1, <3>1, <3>2
    <3>4. b \in M!Longs => b + 1 # a
      <4>1. (b + 1) - 1 = b
        BY <2>1
      <4> QED
        BY <1>5, <4>1
    <3> QED
      BY <1>2, <1>5, <2>1, <3>3, <3>4
  <2>3. CASE a \notin M!Longs
    <3>1. n = 1
      BY <1>7, <2>3
    <3>2. b < first + (regToDo + n) => b < a \/ b = a
      BY <1>2, <1>4, <1>5, <2>1, <3>1
    <3>3. b \in M!Longs => b + 1 # a
      <4>1. (b + 1) - 1 = b
        BY <2>1
      <4> QED
        BY <1>5, <4>1
    <3> QED
      BY <1>2, <1>5, <2>1, <3>2, <3>3
  <2> QED
    BY <2>2, <2>3
<1>11. a \in M!Starts /\ M!Place(a) = frame
  BY <1>1, <1>5 DEF M!Starts, M!Place
<1>12. \A b : M!Place(b) = b - first + 1
  BY <1>1 DEF M!Place
<1> QED
  BY <1>1, <1>4, <1>5, <1>6, <1>7, <1>8, <1>9, <1>10, <1>11, <1>12

(* A query begins: nothing of it has been moved yet.                       *)
LEMMA RegsAsked ==
  ASSUME RegsInv, NEW q \in Queries, NEW how \in {"mb_regWrite", "mb_regRead"}, M!Ask(q, how),
         value' \in [DOMAIN Table -> UNION {RegValue(a) : a \in DOMAIN Table}],
         \A a \in DOMAIN Table : value'[a] \in RegValue(a),
         rxFrame' \in [DOMAIN Table -> M!Word], txFrame' \in [DOMAIN Table -> M!Word]
  PROVE  RegsInv'
<1>1. /\ query' = q /\ doing' = how /\ regToDo' = 0 /\ frame' = 1 /\ rejected' = FALSE
  BY DEF M!Ask
<1>2. q[1] \in Nat /\ q[2] \in Nat /\ q[1] - 1 \notin M!Longs
  BY RegsAssumption
<1>3. AtOwnWords'
  BY <1>1, <1>2 DEF AtOwnWords, M!Longs
<1>4. \A a \in M!Starts' : ~(a < (query[1] + regToDo)')
  BY <1>1, <1>2 DEF M!Starts
<1>5. \A a : RegValue(a)' = RegValue(a)
  BY DEF RegValue, M!Longs, M!Word
<1> QED
  BY <1>1, <1>3, <1>4, <1>5 DEF RegsInv, M!Word, M!Longs

LEMMA RegsQueries ==
  ASSUME RegsInv, M!mbRxFrameParse \/ M!mbTxGenFrame
  PROVE  RegsInv'
<1>1. CASE M!mbRxFrameParse
  <2>1. PICK q \in Queries, words \in [1..2 -> M!Word] :
          /\ M!Ask(q, "mb_regWrite")
          /\ rxFrame' = [i \in DOMAIN rxFrame |->
                           IF i <= q[2] THEN words[1 + (i % 2)] ELSE rxFrame[i]]
    BY <1>1 DEF M!mbRxFrameParse
  <2>2. ASSUME NEW i \in DOMAIN Table
        PROVE  words[1 + (i % 2)] \in M!Word
    <3>1. i \in Nat
      BY LenProperties, RegsAssumption
    <3>2. 1 + (i % 2) \in 1..2
      BY <3>1
    <3> QED
      BY <2>1, <3>2
  <2>3. rxFrame' \in [DOMAIN Table -> M!Word]
    <3>1. rxFrame \in [DOMAIN Table -> M!Word]
      BY DEF RegsInv
    <3> QED
      BY <2>1, <2>2, <3>1
  <2>4. UNCHANGED <<value, txFrame>>
    BY <1>1 DEF M!mbRxFrameParse
  <2> QED
    BY <2>1, <2>3, <2>4, RegsAsked DEF RegsInv
<1>2. CASE M!mbTxGenFrame
  <2>1. PICK q \in Queries, w \in M!Word :
          /\ M!Ask(q, "mb_regRead")
          /\ value' = [value EXCEPT ![q[1]] = M!Stored(Table[q[1]], value[q[1]], w, 3 - w)]
    BY <1>2 DEF M!mbTxGenFrame
  <2>2. PICK b \in DOMAIN Table : b = q[1]
    <3>1. /\ q[1] \in Nat \ {0} /\ q[2] \in Nat \ {0} /\ q[1] + q[2] - 1 \in DOMAIN Table
      BY RegsAssumption
    <3>2. PICK m \in Nat : DOMAIN Table = 1..m
      BY LenProperties, RegsAssumption
    <3>3. q[1] \in 1..m
      BY <3>1, <3>2
    <3> QED
      BY <3>2, <3>3
  <2>3. PICK new : new = M!Stored(Table[b], value[b], w, 3 - w)
    OBVIOUS
  <2>4. new \in RegValue(b)
    <3>1. 3 - w \in M!Word
      BY DEF M!Word
    <3>2. value[b] \in RegValue(b)
      BY DEF RegsInv
    <3> QED
      BY <2>3, <3>1, <3>2, StoredIsValue
  <2>5. value' = [value EXCEPT ![b] = new]
    BY <2>1, <2>2, <2>3
  <2>6. /\ value' \in [DOMAIN Table -> UNION {RegValue(a) : a \in DOMAIN Table}]
        /\ \A a \in DOMAIN Table : value'[a] \in RegValue(a)
    BY <2>4, <2>5 DEF RegsInv
  <2>7. UNCHANGED <<rxFrame, txFrame>>
    BY <1>2 DEF M!mbTxGenFrame
  <2>8. rxFrame' \in [DOMAIN Table -> M!Word] /\ txFrame' \in [DOMAIN Table -> M!Word]
    BY <2>7 DEF RegsInv
  <2>9. "mb_regRead" \in {"mb_regWrite", "mb_regRead"}
    OBVIOUS
  <2> QED
    BY <2>1, <2>6, <2>8, <2>9, RegsAsked
<1> QED
  BY <1>1, <1>2

(* A register is stored from the words the pointer is at, or left out.     *)
LEMMA RegsWritten ==
  ASSUME RegsInv, M!WriteReg
  PROVE  RegsInv'
<1>a. PICK a, reg : a = query[1] + regToDo /\ reg = Table[a]
  OBVIOUS
<1>w. PICK w, x : w = M!At(rxFrame, frame) /\ x = M!At(rxFrame, frame + 1)
  OBVIOUS
<1>n. PICK new : new = M!Stored(reg, value[a], w, x)
  OBVIOUS
<1>1. /\ doing = "mb_regWrite" /\ regToDo < query[2] /\ M!Reg = reg
      /\ UNCHANGED <<rxFrame, txFrame, query, doing, queries>>
      /\ \/ ~reg.write /\ M!Move(M!Size(reg), M!Skipped(reg)) /\ UNCHANGED <<value, rejected>>
         \/ reg.write /\ rejected' = TRUE /\ M!Move(1, 0) /\ UNCHANGED value
         \/ /\ reg.write /\ value' = [value EXCEPT ![a] = new] /\ UNCHANGED rejected
            /\ M!Move(M!Size(reg), M!Size(reg))
  BY <1>a, <1>w, <1>n DEF M!WriteReg, M!Reg
<1>2. /\ w \in M!Word /\ x \in M!Word
  BY <1>w DEF M!At, RegsInv, M!Word
<1>3. ASSUME a \in DOMAIN Table
      PROVE  new \in RegValue(a)
  <2>1. value[a] \in RegValue(a)
    BY <1>3 DEF RegsInv
  <2> QED
    BY <1>a, <1>n, <1>2, <1>3, <2>1, StoredIsValue
<1>4. M!Size(reg) \in {1, 2} /\ M!Skipped(reg) \in {0, 1, 2}
  BY DEF M!Size, M!Skipped
<1>5. /\ value' = value \/ value' = [value EXCEPT ![a] = new]
      /\ regToDo' \in Nat /\ frame' \in Nat /\ rejected' \in BOOLEAN
  <2>1. regToDo \in Nat /\ frame \in Nat /\ rejected \in BOOLEAN
    BY DEF RegsInv
  <2>2. rejected' \in BOOLEAN
    BY <1>1, <2>1
  <2>3. value' = value \/ value' = [value EXCEPT ![a] = new]
    BY <1>1
  <2>4. \E registers \in {1, 2}, words \in {0, 1, 2} : M!Move(registers, words)
    BY <1>1, <1>4
  <2>5. regToDo' \in Nat /\ frame' \in Nat
    BY <2>1, <2>4 DEF M!Move
  <2> QED
    BY <2>2, <2>3, <2>5
<1>6. /\ value' \in [DOMAIN Table -> UNION {RegValue(b) : b \in DOMAIN Table}]
      /\ \A b \in DOMAIN Table : value'[b] \in RegValue(b)
  <2>1. CASE value' = value \/ a \notin DOMAIN Table
    <3>1. value' = value
      BY <1>5, <2>1 DEF RegsInv
    <3> QED
      BY <3>1 DEF RegsInv
  <2>2. CASE value' = [value EXCEPT ![a] = new] /\ a \in DOMAIN Table
    BY <1>3, <2>2 DEF RegsInv
  <2> QED
    BY <1>5, <2>1, <2>2
<1>7. ASSUME ~rejected', M!Writable'
      PROVE  AtOwnWords' /\ \A b \in M!Starts' : b < (query[1] + regToDo)' => StoredOwn(b)'
  <2>1. M!Writable /\ ~rejected /\ M!Starts' = M!Starts
    BY <1>1, <1>7 DEF M!Writable, M!Starts, M!Longs, RegsInv
  <2>2. AtOwnWords /\ \A b \in M!Starts : b < a => StoredOwn(b)
    BY <1>a, <1>1, <2>1 DEF RegsInv
  <2>3. PICK n : n = M!Size(reg)
    OBVIOUS
  <2>4. /\ a \in M!Starts /\ a \in DOMAIN Table /\ M!Place(a) = frame /\ frame \in DOMAIN Table
        /\ a \in M!Longs => frame + 1 \in DOMAIN Table
        /\ n = IF a \in M!Longs THEN 2 ELSE 1
        /\ regToDo + n <= query[2] /\ query[1] + (regToDo + n) - 1 \notin M!Longs
        /\ \A b \in M!Starts : b < query[1] + (regToDo + n) => b < a \/ b = a
    BY <1>a, <1>1, <2>2, <2>3, Turn
  <2>5. reg.write \/ reg.type # "flags"
    BY <1>a, <2>1, <2>4 DEF M!Writable
  <2>6. /\ regToDo' = regToDo + n /\ frame' = frame + n
        /\ reg.write => value' = [value EXCEPT ![a] = new]
    BY <1>1, <1>7, <2>3, <2>5 DEF M!Move, M!Skipped
  <2>7. AtOwnWords'
    BY <1>a, <1>1, <2>2, <2>4, <2>6 DEF AtOwnWords, M!Longs, RegsInv
  <2>8. \A b \in DOMAIN Table \ {a} : value'[b] = value[b]
    BY <1>5 DEF RegsInv
  <2>9. \A b : M!Place(b)' = M!Place(b)
    BY <1>1 DEF M!Place
  <2>10. StoredOwn(a)'
    <3> SUFFICES ASSUME reg.write
                 PROVE  StoredOwn(a)'
      BY <1>a DEF StoredOwn
    <3>1. w = rxFrame[M!Place(a)] /\ (a \in M!Longs => x = rxFrame[M!Place(a) + 1])
      BY <1>w, <2>4 DEF M!At, RegsInv
    <3>2. value'[a] = M!Stored(reg, value[a], w, x)
      BY <1>n, <2>4, <2>6 DEF RegsInv
    <3>3. PICK v, place : v = value'[a] /\ place = M!Place(a)
      OBVIOUS
    <3>4. rxFrame' = rxFrame /\ M!Place(a)' = place
      BY <1>1, <2>9, <3>3
    <3>5. CASE reg.type \in {"word", "text"}
      BY <1>a, <3>1, <3>2, <3>3, <3>4, <3>5 DEF StoredOwn, M!Stored
    <3>6. CASE reg.type = "byte"
      BY <1>a, <3>1, <3>2, <3>3, <3>4, <3>6 DEF StoredOwn, M!Stored
    <3>7. CASE reg.type = "long"
      <4>1. a \in M!Longs
        BY <1>a, <2>4, <3>7 DEF M!Longs
      <4> QED
        BY <1>a, <3>1, <3>2, <3>3, <3>4, <3>7, <4>1 DEF StoredOwn, M!Stored
    <3>8. reg.type \in {"byte", "word", "long", "flags", "text"}
      <4>1. PICK S : S = [type : {"byte", "word", "long", "flags", "text"}, write : BOOLEAN,
                          read : BOOLEAN, validate : BOOLEAN, max : Nat]
        OBVIOUS
      <4>2. Table \in Seq(S) /\ a \in DOMAIN Table
        BY <2>4, <4>1, RegsAssumption
      <4>3. Table[a] \in S
        BY <4>2
      <4> QED
        BY <1>a, <4>1, <4>3
    <3>9. CASE reg.type = "flags"
      <4>1. value[a] \in M!Word
        BY <1>a, <2>4, <3>9 DEF RegsInv, RegValue, M!Longs
      <4>2. (v \div 2 ^ (w % 2)) % 2 = w \div 2
        BY <1>2, <3>2, <3>3, <3>9, <4>1, FlagsStored
      <4> QED
        BY <1>a, <3>1, <3>3, <3>4, <3>9, <4>2 DEF StoredOwn
    <3> QED
      BY <3>5, <3>6, <3>7, <3>8, <3>9
  <2>11. ASSUME NEW b \in M!Starts, b < a
         PROVE  StoredOwn(b)'
    <3>0. b \in Int /\ a \in Int
      BY <2>4, RegsAssumption, LenProperties DEF M!Starts
    <3>1. StoredOwn(b) /\ b # a
      BY <2>2, <2>11, <3>0
    <3>2. value'[b] = value[b]
      <4>1. b \in DOMAIN Table
        BY <1>1, StartsAreRegisters DEF RegsInv
      <4> QED
        BY <1>5, <3>1, <4>1 DEF RegsInv
    <3> QED
      BY <1>1, <2>9, <3>1, <3>2 DEF StoredOwn
  <2>12. (query[1] + regToDo)' = query[1] + (regToDo + n)
    BY <1>1, <2>6
  <2> QED
    BY <2>1, <2>4, <2>7, <2>10, <2>11, <2>12
<1> QED
  BY <1>1, <1>5, <1>6, <1>7 DEF RegsInv, M!Longs, M!Word, RegValue

(* The words a register is sent as.                                        *)
LEMMA SentWords ==
  ASSUME NEW a \in DOMAIN Table, NEW val \in RegValue(a)
  PROVE  LET words == M!Sent(Table[a], val)
         IN  /\ DOMAIN words = 1..(IF a \in M!Longs THEN 2 ELSE 1)
             /\ \A i \in DOMAIN words : words[i] \in M!Word
             /\ CASE Table[a].type = "long" -> <<words[1], words[2]>> = val
                  [] Table[a].type = "text" -> words[1] \div 2 = val % 2
                  [] OTHER -> words[1] = val
<1>1. CASE Table[a].type = "long"
  <2>1. val \in M!Word \X M!Word /\ a \in M!Longs
    BY <1>1 DEF RegValue, M!Longs
  <2>2. val = <<val[1], val[2]>> /\ DOMAIN val = 1..2
    BY <2>1
  <2> QED
    BY <1>1, <2>1, <2>2 DEF M!Sent
<1>2. CASE Table[a].type = "text"
  <2>1. val \in M!Word /\ a \notin M!Longs
    BY <1>2 DEF RegValue, M!Longs
  <2>2. val % 2 \in 0..1 /\ val \div 2 \in 0..1
    BY <2>1, TwoBits
  <2>3. PICK w : w = 2 * (val % 2) + (val \div 2)
    OBVIOUS
  <2>4. w \in M!Word /\ w \div 2 = val % 2
    BY <2>2, <2>3 DEF M!Word
  <2>5. M!Sent(Table[a], val) = <<w>>
    BY <1>2, <2>3 DEF M!Sent
  <2> QED
    BY <1>2, <2>1, <2>4, <2>5
<1>3. CASE Table[a].type \notin {"long", "text"}
  <2>1. val \in M!Word /\ a \notin M!Longs
    BY <1>3 DEF RegValue, M!Longs
  <2> QED
    BY <1>3, <2>1 DEF M!Sent
<1> QED
  BY <1>1, <1>2, <1>3

(* A register is put into the words the pointer is at.                     *)
LEMMA RegsRead ==
  ASSUME RegsInv, M!ReadReg
  PROVE  RegsInv'
<1>a. PICK a, reg : a = query[1] + regToDo /\ reg = Table[a]
  OBVIOUS
<1>n. PICK words : words = M!Sent(reg, value[a])
  OBVIOUS
<1>1. /\ doing = "mb_regRead" /\ regToDo < query[2] /\ M!Reg = reg
      /\ UNCHANGED <<value, rxFrame, query, doing, rejected, queries>>
      /\ \/ ~reg.read /\ M!Move(1, M!Skipped(reg)) /\ UNCHANGED txFrame
         \/ /\ reg.read /\ M!Move(M!Size(reg), M!Size(reg))
            /\ txFrame' = [i \in DOMAIN txFrame |->
                             IF i - frame + 1 \in DOMAIN words THEN words[i - frame + 1]
                             ELSE txFrame[i]]
  BY <1>a, <1>n DEF M!ReadReg, M!Reg
<1>2. regToDo' \in Nat /\ frame' \in Nat
  <2>1. regToDo \in Nat /\ frame \in Nat
    BY DEF RegsInv
  <2>2. M!Size(reg) \in {1, 2} /\ M!Skipped(reg) \in {0, 1, 2}
    BY DEF M!Size, M!Skipped
  <2>3. \E registers \in {1, 2}, moved \in {0, 1, 2} : M!Move(registers, moved)
    BY <1>1, <2>2
  <2> QED
    BY <2>1, <2>3 DEF M!Move
<1>3. a \in DOMAIN Table => /\ DOMAIN words = 1..(IF a \in M!Longs THEN 2 ELSE 1)
                            /\ \A i \in DOMAIN words : words[i] \in M!Word
                            /\ CASE reg.type = "long" -> <<words[1], words[2]>> = value[a]
                                 [] reg.type = "text" -> words[1] \div 2 = value[a] % 2
                                 [] OTHER -> words[1] = value[a]
  BY <1>a, <1>n, SentWords DEF RegsInv
<1>4. a \in DOMAIN Table
  <2>1. /\ query[1] \in Nat \ {0} /\ query[2] \in Nat \ {0} /\ regToDo \in Nat
        /\ query[1] + query[2] - 1 \in DOMAIN Table
    BY <1>1, RegsAssumption DEF RegsInv
  <2>2. PICK m \in Nat : DOMAIN Table = 1..m
    BY LenProperties, RegsAssumption
  <2> QED
    BY <1>a, <1>1, <2>1, <2>2
<1>5. txFrame' \in [DOMAIN Table -> M!Word]
  <2>1. txFrame \in [DOMAIN Table -> M!Word]
    BY DEF RegsInv
  <2> QED
    BY <1>1, <1>3, <1>4, <2>1
<1>6. ASSUME M!Readable'
      PROVE  AtOwnWords' /\ \A b \in M!Starts' : b < (query[1] + regToDo)' => SentOwn(b)'
  <2>1. M!Readable /\ M!Starts' = M!Starts
    BY <1>1, <1>6 DEF M!Readable, M!Starts, M!Longs
  <2>2. AtOwnWords /\ \A b \in M!Starts : b < a => SentOwn(b)
    BY <1>a, <1>1, <2>1 DEF RegsInv
  <2>3. PICK n : n = M!Size(reg)
    OBVIOUS
  <2>4. /\ a \in M!Starts /\ M!Place(a) = frame /\ frame \in DOMAIN Table
        /\ a \in M!Longs => frame + 1 \in DOMAIN Table
        /\ n = IF a \in M!Longs THEN 2 ELSE 1
        /\ regToDo + n <= query[2] /\ query[1] + (regToDo + n) - 1 \notin M!Longs
        /\ \A b \in M!Starts : b < query[1] + (regToDo + n) => b < a \/ b = a
        /\ \A b \in M!Starts : b < a => /\ M!Place(b) \in 1..frame - 1
                                        /\ b \in M!Longs => M!Place(b) + 1 \in 1..frame - 1
    BY <1>a, <1>1, <2>2, <2>3, Turn
  <2>5. reg.read
    BY <1>a, <2>1, <2>4 DEF M!Readable
  <2>6. /\ regToDo' = regToDo + n /\ frame' = frame + n
        /\ txFrame' = [i \in DOMAIN txFrame |->
                         IF i - frame + 1 \in DOMAIN words THEN words[i - frame + 1]
                         ELSE txFrame[i]]
    BY <1>1, <2>3, <2>5 DEF M!Move
  <2>7. AtOwnWords'
    BY <1>a, <1>1, <2>2, <2>4, <2>6 DEF AtOwnWords, M!Longs, RegsInv
  <2>8. \A b : M!Place(b)' = M!Place(b)
    BY <1>1 DEF M!Place
  <2>9. PICK m \in Nat : DOMAIN Table = 1..m
    BY LenProperties, RegsAssumption
  <2>10. /\ DOMAIN txFrame = 1..m /\ frame \in 1..m
         /\ txFrame'[frame] = words[1]
         /\ a \in M!Longs => txFrame'[frame + 1] = words[2]
         /\ \A i \in 1..frame - 1 : txFrame'[i] = txFrame[i]
    <3>1. DOMAIN txFrame = 1..m /\ frame \in 1..m /\ (a \in M!Longs => frame + 1 \in 1..m)
      BY <2>4, <2>9 DEF RegsInv
    <3>2. frame - frame + 1 = 1 /\ (frame + 1) - frame + 1 = 2
      BY <3>1
    <3>3. 1 \in DOMAIN words /\ (a \in M!Longs => 2 \in DOMAIN words)
      BY <1>3, <1>4
    <3>4. \A i \in 1..frame - 1 : i \in 1..m /\ i - frame + 1 \notin DOMAIN words
      BY <1>3, <1>4, <3>1
    <3> QED
      BY <2>6, <3>1, <3>2, <3>3, <3>4
  <2>11. SentOwn(a)'
    <3>1. PICK place, one, two : place = M!Place(a) /\ one = txFrame'[place]
                                 /\ two = txFrame'[place + 1]
      OBVIOUS
    <3>2. one = words[1] /\ (reg.type = "long" => two = words[2])
      BY <1>a, <1>4, <2>4, <2>10, <3>1 DEF M!Longs
    <3>3. M!Place(a)' = place /\ value' = value
      BY <1>1, <2>8, <3>1
    <3>4. /\ reg.type = "long" => <<words[1], words[2]>> = value[a]
          /\ reg.type = "text" => words[1] \div 2 = value[a] % 2
          /\ reg.type \notin {"long", "text"} => words[1] = value[a]
      BY <1>3, <1>4
    <3>5. CASE reg.type = "long"
      BY ONLY <1>a, <3>1, <3>2, <3>3, <3>4, <3>5 DEF SentOwn
    <3>6. CASE reg.type = "text"
      BY ONLY <1>a, <3>1, <3>2, <3>3, <3>4, <3>6 DEF SentOwn
    <3>7. CASE reg.type \notin {"long", "text"}
      BY ONLY <1>a, <3>1, <3>2, <3>3, <3>4, <3>7 DEF SentOwn
    <3> QED
      BY <3>5, <3>6, <3>7
  <2>12. ASSUME NEW b \in M!Starts, b < a
         PROVE  SentOwn(b)'
    <3>1. SentOwn(b)
      BY <2>2, <2>12
    <3>2. PICK place : place = M!Place(b)
      OBVIOUS
    <3>3. /\ txFrame'[place] = txFrame[place]
          /\ b \in M!Longs => txFrame'[place + 1] = txFrame[place + 1]
      BY <2>4, <2>10, <2>12, <3>2
    <3>4. b \in DOMAIN Table
      BY <1>1, StartsAreRegisters DEF RegsInv
    <3>5. M!Place(b)' = place /\ value' = value
      BY <1>1, <2>8, <3>2
    <3> QED
      BY <3>1, <3>2, <3>3, <3>4, <3>5 DEF SentOwn, M!Longs
  <2>13. (query[1] + regToDo)' = query[1] + (regToDo + n)
    BY <1>1, <2>6
  <2> QED
    BY <2>1, <2>4, <2>7, <2>11, <2>12, <2>13
<1> QED
  BY <1>1, <1>2, <1>5, <1>6 DEF RegsInv, M!Longs, M!Word, RegValue

LEMMA RegsStep ==
  ASSUME RegsInv, M!Next \/ UNCHANGED regVars
  PROVE  RegsInv'
<1> USE DEF RegsInv, AtOwnWords, StoredOwn, SentOwn, RegValue, M!Longs, M!Word, M!Starts,
            M!Place, M!Writable, M!Readable
<1>1. CASE UNCHANGED regVars
  BY <1>1 DEF regVars
<1>2. CASE M!Done
  <2>1. /\ UNCHANGED <<value, rxFrame, txFrame, query, regToDo, frame, rejected>>
        /\ regToDo >= query[2]
        /\ \/ doing = "mb_regWrite" /\ doing' = "stored"
           \/ doing = "mb_regRead" /\ doing' = "filled"
    BY <1>2 DEF M!Done
  <2> QED
    BY <2>1
<1> QED
  BY <1>1, <1>2, RegsQueries, RegsWritten, RegsRead DEF M!Next

(* At the end the turn has passed every register of the query.             *)
LEMMA RegsOwn == RegsInv => M!RegsOwnWords
<1> SUFFICES ASSUME RegsInv PROVE M!RegsOwnWords
  OBVIOUS
<1>1. ASSUME doing \in {"stored", "filled"}, NEW a \in M!Starts
      PROVE  a < query[1] + regToDo
  <2>1. PICK first, count : first = query[1] /\ count = query[2]
    OBVIOUS
  <2>2. first \in Nat /\ count \in Nat /\ regToDo \in Nat /\ regToDo >= count
    BY <1>1, <2>1, RegsAssumption DEF RegsInv
  <2>3. a \in first..first + count - 1
    BY <2>1 DEF M!Starts
  <2> QED
    BY <2>1, <2>2, <2>3
<1>2. doing = "stored" /\ ~rejected /\ M!Writable => \A a \in M!Starts : StoredOwn(a)
  BY <1>1 DEF RegsInv
<1>3. doing = "filled" /\ M!Readable => \A a \in M!Starts : SentOwn(a)
  BY <1>1 DEF RegsInv
<1> QED
  BY <1>2, <1>3 DEF M!RegsOwnWords, StoredOwn, SentOwn

(***************************************************************************)
(* A serial port that is not opened again before it is closed              *)
(* (MaxOpens = 1), for any tasks.                                          *)
(***************************************************************************)
(* What a step of one task relies on the others to keep.                   *)
UserIsOwner == \A t \in Task : portAt[t] \in P!Using => ownerTask = t

HolderIsAlone ==
  \A t \in Task : portAt[t] \in P!Holding => ownershipMutex = t /\ ownerTask = NULL

OpenMutex == (opens = 0) <=> (ownershipMutex = NULL)

PortInv ==
  P!TypeOK /\ P!OwnerHoldsMutex /\ P!NoOrphanLock
         /\ UserIsOwner /\ HolderIsAlone /\ OpenMutex

LEMMA PortInit == P!Init => PortInv
BY PortAssumption
DEF P!Init, PortInv, P!TypeOK, P!OwnerHoldsMutex, P!NoOrphanLock, UserIsOwner,
    HolderIsAlone, OpenMutex, P!Steps, P!Using, P!Holding

LEMMA PortSetupStep ==
  ASSUME MaxOpens = 1, PortInv,
         P!SER_registerHandlers \/ P!SER_openPort \/ P!SER_closePort
  PROVE  PortInv'
<1> USE PortAssumption
    DEF PortInv, P!TypeOK, P!OwnerHoldsMutex, P!NoOrphanLock, UserIsOwner,
        HolderIsAlone, OpenMutex, P!Steps, P!Using, P!Holding
<1>1. CASE P!SER_registerHandlers
  BY <1>1 DEF P!SER_registerHandlers
<1>2. CASE P!SER_openPort
  BY <1>2 DEF P!SER_openPort
<1>3. CASE P!SER_closePort
  BY <1>3 DEF P!SER_closePort
<1> QED
  BY <1>1, <1>2, <1>3

LEMMA PortTaskStep ==
  ASSUME PortInv, NEW t \in Task, P!TaskStep(t)
  PROVE  PortInv'
<1> USE PortAssumption
    DEF PortInv, P!TypeOK, P!OwnerHoldsMutex, P!NoOrphanLock, UserIsOwner,
        HolderIsAlone, OpenMutex, P!Steps, P!Using, P!Holding, P!Move
<1>1. CASE P!AcquireTake(t)
  BY <1>1 DEF P!AcquireTake, P!Take
<1>2. CASE P!AcquireSign(t)
  BY <1>2 DEF P!AcquireSign
<1>3. CASE P!ReleaseClear(t)
  BY <1>3 DEF P!ReleaseClear
<1>4. CASE P!ReleaseGive(t)
  BY <1>4 DEF P!ReleaseGive
<1>5. CASE P!AskTake(t)
  BY <1>5 DEF P!AskTake, P!Take
<1>6. CASE P!AskGive(t)
  BY <1>6 DEF P!AskGive
<1>7. CASE P!SendBegin(t) \/ P!ReceiveBegin(t)
  BY <1>7 DEF P!SendBegin, P!ReceiveBegin
<1>8. CASE P!UseEnd(t)
  BY <1>8 DEF P!UseEnd
<1>9. CASE P!AcquireWait(t) \/ P!AskWait(t) \/ P!Timeout(t)
  BY <1>9 DEF P!AcquireWait, P!AskWait, P!Block, P!Timeout
<1> QED
  BY <1>1, <1>2, <1>3, <1>4, <1>5, <1>6, <1>7, <1>8, <1>9 DEF P!TaskStep

LEMMA PortStep ==
  ASSUME MaxOpens = 1, PortInv, P!Next \/ UNCHANGED portVars
  PROVE  PortInv'
<1>1. CASE UNCHANGED portVars
  BY <1>1 DEF portVars, PortInv, P!TypeOK, P!OwnerHoldsMutex, P!NoOrphanLock,
              UserIsOwner, HolderIsAlone, OpenMutex, P!Using, P!Holding
<1>2. CASE P!Next
  BY <1>2, PortSetupStep, PortTaskStep DEF P!Next
<1> QED
  BY <1>1, <1>2

(***************************************************************************)
(* The queue object.                                                       *)
(***************************************************************************)
QueueInv == Q!TypeOK /\ Q!IndexesAgree

LEMMA UnitAtType ==
  ASSUME Q!TypeOK, NEW at
  PROVE  Q!UnitAt(at) \in Q!Unit
BY DEF Q!TypeOK, Q!UnitAt, Q!Unit

LEMMA QueueInitInv == Q!Init => QueueInv
BY QueueAssumption DEF Q!Init, QueueInv, Q!TypeOK, Q!IndexesAgree, Q!Unit

(* One step of any call, or of none, preserves the invariant.              *)
LEMMA QueueStep ==
  ASSUME QueueInv, Q!Next \/ UNCHANGED queueVars
  PROVE  QueueInv'
<1> USE QueueAssumption DEF QueueInv
<1>1. ASSUME NEW len \in 0..MaxLength, NEW typ \in {0, 1}, Q!QUE_Init(len, typ)
      PROVE  QueueInv'
  BY <1>1 DEF Q!QUE_Init, Q!TypeOK, Q!IndexesAgree
<1>2. ASSUME Q!Fail
      PROVE  QueueInv'
  BY <1>2 DEF Q!Fail, Q!TypeOK, Q!IndexesAgree
<1>3. ASSUME NEW v \in Value, Q!Insert(v)
      PROVE  QueueInv'
  <2>1. CASE ~Q!Fail
    <3>1. Q!TypeOK'
      BY <1>3, <2>1 DEF Q!Insert, Q!Wrap, Q!TypeOK, Q!IndexesAgree, Q!Unit, Q!Cells
    <3>2. Q!IndexesAgree'
      BY <1>3, <2>1 DEF Q!Insert, Q!Wrap, Q!TypeOK, Q!IndexesAgree
    <3> QED  BY <3>1, <3>2
  <2> QED  BY <2>1, <1>2
<1>4. ASSUME Q!DeleteFifo
      PROVE  QueueInv'
  <2>1. Q!TypeOK'
    BY <1>4 DEF Q!DeleteFifo, Q!TakeFrom, Q!Wrap, Q!TypeOK, Q!IndexesAgree, Q!Unit, Q!Cells
  <2>2. Q!IndexesAgree'
    BY <1>4 DEF Q!DeleteFifo, Q!TakeFrom, Q!Wrap, Q!TypeOK, Q!IndexesAgree
  <2> QED  BY <2>1, <2>2
<1>5. ASSUME Q!DeleteLifo
      PROVE  QueueInv'
  <2>1. Q!TypeOK'
    BY <1>5 DEF Q!DeleteLifo, Q!TakeFrom, Q!TypeOK, Q!IndexesAgree, Q!Unit, Q!Cells
  <2>2. Q!IndexesAgree'
    BY <1>5 DEF Q!DeleteLifo, Q!TakeFrom, Q!TypeOK, Q!IndexesAgree
  <2> QED  BY <2>1, <2>2
<1>6. ASSUME NEW nth \in 0..MaxLength, NEW dir \in {0, 1}, Q!Peek(nth, dir)
      PROVE  QueueInv'
  <2>1. CASE ~Q!Fail
    BY <1>6, <2>1, UnitAtType DEF Q!Peek, Q!TypeOK, Q!IndexesAgree
  <2> QED  BY <2>1, <1>2
<1>7. CASE UNCHANGED queueVars
  BY <1>7 DEF queueVars, Q!TypeOK, Q!IndexesAgree
<1> QED
  BY <1>1, <1>2, <1>3, <1>4, <1>5, <1>6, <1>7 DEF Q!Next, Q!Delete

(* Items is a sequence of count units, each in a cell of the buffer.       *)
ItemsOK ==
  /\ Q!Items \in Seq(Q!Unit)
  /\ Len(Q!Items) = queueCount
  /\ \A i \in 1..queueCount : Q!Slot(i) \in Q!Cells /\ Q!Items[i] = queueBuffer[Q!Slot(i)]

LEMMA ItemsTyped == QueueInv => ItemsOK
<1> SUFFICES ASSUME QueueInv PROVE ItemsOK
  OBVIOUS
<1>1. \A i \in 1..queueCount : Q!Slot(i) \in Q!Cells
  BY QueueAssumption DEF QueueInv, Q!TypeOK, Q!IndexesAgree, Q!Slot, Q!Cells
<1>2. Q!Items \in [1..queueCount -> Q!Unit]
  BY <1>1 DEF QueueInv, Q!TypeOK, Q!Items
<1>3. queueCount \in Nat
  BY QueueAssumption DEF QueueInv, Q!TypeOK
<1>4. Q!Items \in Seq(Q!Unit)
  BY <1>2, <1>3, SeqDef
<1> QED
  BY <1>1, <1>2, <1>3, <1>4, LenProperties DEF Q!Items, ItemsOK

LEMMA ItemsFacts ==
  ASSUME QueueInv
  PROVE  /\ Q!Items \in Seq(Q!Unit)
         /\ Len(Q!Items) = queueCount
         /\ \A i \in 1..queueCount : Q!Slot(i) \in Q!Cells /\ Q!Items[i] = queueBuffer[Q!Slot(i)]
BY ItemsTyped DEF ItemsOK

LEMMA ItemsFactsNext ==
  ASSUME QueueInv'
  PROVE  /\ Q!Items' \in Seq(Q!Unit)
         /\ Len(Q!Items') = queueCount'
         /\ \A i \in 1..queueCount' : Q!Items'[i] = queueBuffer'[Q!Slot(i)']
<1>1. QueueInv' => ItemsOK'
  BY ItemsTyped, PTL
<1> QED
  BY <1>1 DEF ItemsOK

(* A call that touches neither the counters nor the buffer leaves the      *)
(* items alone.                                                            *)
LEMMA ItemsUnchanged ==
  UNCHANGED <<queueBuffer, length, queueCount, done, type>> => Q!Items' = Q!Items
<1> SUFFICES ASSUME UNCHANGED <<queueBuffer, length, queueCount, done, type>>
             PROVE  Q!Items' = Q!Items
  OBVIOUS
<1>1. \A i : Q!Slot(i)' = Q!Slot(i)
  BY DEF Q!Slot
<1> QED
  BY <1>1 DEF Q!Items

(* What SubSeq returns for a prefix.                                       *)
LEMMA FrontProperties ==
  ASSUME NEW S, NEW s \in Seq(S), NEW n \in Nat, n =< Len(s)
  PROVE  /\ SubSeq(s, 1, n) \in Seq(S)
         /\ Len(SubSeq(s, 1, n)) = n
         /\ \A i \in 1..n : SubSeq(s, 1, n)[i] = s[i]
OBVIOUS

(* Insertion appends: no live cell is overwritten and no item moves.       *)
LEMMA InsertAppends ==
  ASSUME QueueInv, QueueInv', NEW v \in Value, Q!Insert(v), queueCount < length
  PROVE  Q!Items' = Append(Q!Items, v)
<1>1. /\ queueCount' = queueCount + 1
      /\ queueBuffer' = [queueBuffer EXCEPT ![todo] = v]
      /\ UNCHANGED <<length, done, type>>
  BY DEF Q!Insert, Q!Fail, QueueInv, Q!TypeOK
<1>2. v \in Q!Unit
  BY DEF Q!Unit
<1>3. \A i \in 1..queueCount' : Q!Slot(i)' = Q!Slot(i)
  BY <1>1 DEF Q!Slot
<1>4. Q!Slot(queueCount') = todo
  BY <1>1, QueueAssumption DEF Q!Slot, QueueInv, Q!TypeOK, Q!IndexesAgree
<1>5. \A i \in 1..queueCount : Q!Slot(i) # todo
  BY <1>1, QueueAssumption DEF Q!Slot, QueueInv, Q!TypeOK, Q!IndexesAgree
<1>6. \A i \in 1..queueCount' :
        Q!Items'[i] = IF i = queueCount' THEN v ELSE Q!Items[i]
  BY <1>1, <1>3, <1>4, <1>5, ItemsFacts, ItemsFactsNext, QueueAssumption
  DEF QueueInv, Q!TypeOK, Q!Cells
<1>7. /\ Append(Q!Items, v) \in Seq(Q!Unit)
      /\ Len(Append(Q!Items, v)) = queueCount'
      /\ \A i \in 1..queueCount' : Append(Q!Items, v)[i] = Q!Items'[i]
  BY <1>1, <1>2, <1>6, ItemsFacts, AppendProperties, QueueAssumption
  DEF QueueInv, Q!TypeOK
<1> QED
  BY <1>7, ItemsFactsNext, SeqEqual

(* In a ring, removal takes the first item and keeps the others in order.  *)
LEMMA DeleteFifoTakesFirst ==
  ASSUME QueueInv, QueueInv', Q!DeleteFifo
  PROVE  Q!Items # <<>> /\ queueData' = Q!Items[1] /\ Q!Items' = Tail(Q!Items)
<1>1. /\ type = 0 /\ queueCount > 0 /\ queueCount' = queueCount - 1
      /\ queueData' = queueBuffer[done] /\ done' = Q!Wrap(done + 1)
      /\ queueBuffer' = [queueBuffer EXCEPT ![done] = Zero]
      /\ UNCHANGED <<length, type, todo>>
  BY DEF Q!DeleteFifo, Q!TakeFrom
<1>2. Q!Slot(1) = done /\ \A i \in 1..queueCount' : Q!Slot(i)' = Q!Slot(i + 1)
  BY <1>1, QueueAssumption DEF Q!Slot, Q!Wrap, QueueInv, Q!TypeOK, Q!IndexesAgree
<1>3. \A i \in 1..queueCount' : Q!Slot(i + 1) # done
  BY <1>1, QueueAssumption DEF Q!Slot, QueueInv, Q!TypeOK, Q!IndexesAgree
<1>4. queueData' = Q!Items[1] /\ Q!Items # <<>>
  <2>1. queueCount \in 1..queueCount
    BY <1>1, QueueAssumption DEF QueueInv, Q!TypeOK
  <2>2. queueData' = Q!Items[1]
    BY <1>1, <1>2, <2>1, ItemsFacts
  <2>3. Q!Items # <<>>
    BY <1>1, ItemsFacts, EmptySeq
  <2> QED  BY <2>2, <2>3
<1>5. \A i \in 1..queueCount' : Q!Items'[i] = Q!Items[i + 1]
  BY <1>1, <1>2, <1>3, ItemsFacts, ItemsFactsNext, QueueAssumption, SMTT(60)
  DEF QueueInv, Q!TypeOK, Q!Cells
<1>6. /\ Tail(Q!Items) \in Seq(Q!Unit)
      /\ Len(Tail(Q!Items)) = Len(Q!Items) - 1
      /\ \A i \in 1..Len(Tail(Q!Items)) : Tail(Q!Items)[i] = Q!Items[i + 1]
  BY <1>4, ItemsFacts, HeadTailProperties
<1>7. Len(Tail(Q!Items)) = Len(Q!Items')
  BY <1>1, <1>6, ItemsFacts, ItemsFactsNext
<1>8. \A i \in 1..Len(Tail(Q!Items)) : Tail(Q!Items)[i] = Q!Items'[i]
  BY <1>5, <1>6, <1>7, ItemsFactsNext
<1> QED
  BY <1>4, <1>6, <1>7, <1>8, ItemsFactsNext, SeqEqual

(* In a stack, removal takes the last item and keeps the others.           *)
LEMMA DeleteLifoTakesLast ==
  ASSUME QueueInv, QueueInv', Q!DeleteLifo
  PROVE  /\ Q!Items # <<>>
         /\ queueData' = Q!Items[Len(Q!Items)]
         /\ Q!Items' = SubSeq(Q!Items, 1, Len(Q!Items) - 1)
<1>1. /\ type = 1 /\ queueCount > 0 /\ queueCount' = queueCount - 1
      /\ queueData' = queueBuffer[todo - 1]
      /\ queueBuffer' = [queueBuffer EXCEPT ![todo - 1] = Zero]
      /\ UNCHANGED <<length, type, done>>
  BY DEF Q!DeleteLifo, Q!TakeFrom
<1>2. Q!Slot(queueCount) = todo - 1 /\ \A i \in 1..queueCount' : Q!Slot(i)' = Q!Slot(i)
  BY <1>1, QueueAssumption DEF Q!Slot, QueueInv, Q!TypeOK, Q!IndexesAgree
<1>3. \A i \in 1..queueCount' : Q!Slot(i) # todo - 1
  BY <1>1, QueueAssumption DEF Q!Slot, QueueInv, Q!TypeOK, Q!IndexesAgree
<1>4. queueData' = Q!Items[Len(Q!Items)] /\ Q!Items # <<>>
  <2>1. queueCount \in 1..queueCount
    BY <1>1, QueueAssumption DEF QueueInv, Q!TypeOK
  <2>2. queueData' = Q!Items[Len(Q!Items)]
    BY <1>1, <1>2, <2>1, ItemsFacts
  <2>3. Q!Items # <<>>
    BY <1>1, ItemsFacts, EmptySeq
  <2> QED  BY <2>2, <2>3
<1>5. \A i \in 1..queueCount' : Q!Items'[i] = Q!Items[i]
  BY <1>1, <1>2, <1>3, ItemsFacts, ItemsFactsNext, QueueAssumption
  DEF QueueInv, Q!TypeOK, Q!Cells
<1>6. /\ SubSeq(Q!Items, 1, queueCount') \in Seq(Q!Unit)
      /\ Len(SubSeq(Q!Items, 1, queueCount')) = queueCount'
      /\ \A i \in 1..queueCount' : SubSeq(Q!Items, 1, queueCount')[i] = Q!Items'[i]
  <2>1. queueCount' \in Nat /\ queueCount' =< Len(Q!Items)
    BY <1>1, ItemsFacts, QueueAssumption DEF QueueInv, Q!TypeOK
  <2> QED
    BY <1>5, <2>1, ItemsFacts, FrontProperties
<1>7. Q!Items' = SubSeq(Q!Items, 1, queueCount')
  BY <1>6, ItemsFactsNext, SeqEqual
<1> QED
  BY <1>1, <1>4, <1>7, ItemsFacts

(* An offset that fits in sixteen bits leads back to the cell it came      *)
(* from.                                                                   *)
LEMMA OffsetFindsCell ==
  ASSUME NEW c \in Q!Cells, c * UnitSize < 65536
  PROVE  Q!UnitAt((c * UnitSize) % 65536) = queueBuffer[c]
<1>1. c * UnitSize \in Nat
  BY QueueAssumption DEF Q!Cells
<1>2. (c * UnitSize) % 65536 = c * UnitSize
  BY <1>1
<1>3. \A e \in Q!Cells : e * UnitSize = c * UnitSize => e = c
  BY QueueAssumption DEF Q!Cells
<1> QED
  BY <1>2, <1>3 DEF Q!UnitAt

(* The cells the two loops of _QUE_Peek reach, and the two subscripts of a *)
(* stack, hold the item asked for.                                         *)
LEMMA PeekReachesItem ==
  ASSUME QueueInv, NEW nth \in Nat, NEW dir \in {0, 1}, nth < queueCount
  PROVE  /\ Q!PeekCell(nth, dir) \in 0..length - 1
         /\ queueBuffer[Q!PeekCell(nth, dir)] = Q!Abs!Nth(nth, dir)
<1> DEFINE i == IF (dir = 1) = (type = 0) THEN nth + 1 ELSE queueCount - nth
<1>1. i \in 1..queueCount /\ Q!PeekCell(nth, dir) = Q!Slot(i)
  BY QueueAssumption
  DEF QueueInv, Q!TypeOK, Q!IndexesAgree, Q!Slot, Q!PeekCell, Q!StepForward, Q!StepBack
<1>2. Q!Slot(i) \in 0..length - 1
  BY <1>1, QueueAssumption DEF QueueInv, Q!TypeOK, Q!IndexesAgree, Q!Slot
<1>3. Q!Abs!Nth(nth, dir) = Q!Items[i]
  BY ItemsFacts DEF Q!Abs!Nth
<1> QED
  BY <1>1, <1>2, <1>3, ItemsFacts

(* A look from either end hands out what the abstract queue would.         *)
LEMMA PeekRefines ==
  ASSUME QueueInv, MaxLength * UnitSize =< 65536,
         NEW nth \in 0..MaxLength, NEW dir \in {0, 1}, Q!Peek(nth, dir)
  PROVE  Q!Abs!APeek(nth, dir)
<1>1. UNCHANGED <<queueBuffer, length, queueCount, todo, done, type>>
  BY DEF Q!Peek, Q!Fail
<1>2. Q!Items' = Q!Items
  BY <1>1, ItemsUnchanged
<1>3. CASE nth < queueCount /\ ret' = "PASS"
  <2>1. /\ Q!PeekCell(nth, dir) \in 0..length - 1
        /\ queueBuffer[Q!PeekCell(nth, dir)] = Q!Abs!Nth(nth, dir)
    BY <1>3, PeekReachesItem
  <2>2. /\ Q!PeekCell(nth, dir) \in Q!Cells
        /\ Q!PeekCell(nth, dir) * UnitSize < 65536
    BY <2>1, QueueAssumption DEF QueueInv, Q!TypeOK, Q!Cells
  <2>3. queueData' = Q!Abs!Nth(nth, dir)
    BY <1>3, <2>1, <2>2, OffsetFindsCell DEF Q!Peek, Q!PeekOffset, Q!Fail
  <2> QED
    BY <1>1, <1>2, <1>3, <2>3, ItemsFacts DEF Q!Abs!APeek
<1>4. CASE nth >= queueCount /\ Q!Fail
  BY <1>2, <1>4, ItemsFacts DEF Q!Abs!APeek, Q!Abs!ARefuse, Q!Fail
<1> QED
  BY <1>3, <1>4 DEF Q!Peek, QueueInv, Q!TypeOK, Q!Fail

(* Every call of the implementation is a call of the abstract queue, with  *)
(* the same result.                                                        *)
LEMMA StepRefines ==
  ASSUME MaxLength * UnitSize =< 65536, QueueInv, QueueInv',
         Q!Next \/ UNCHANGED queueVars
  PROVE  [Q!Abs!ANext]_(Q!Abs!avars)
<1>1. ASSUME NEW len \in 0..MaxLength, NEW typ \in {0, 1}, Q!QUE_Init(len, typ)
      PROVE  Q!Abs!AReset(len, typ)
  <2>1. Q!Items' = <<>>
    BY <1>1, ItemsFactsNext, EmptySeq DEF Q!QUE_Init
  <2> QED
    BY <1>1, <2>1 DEF Q!QUE_Init, Q!Abs!AReset
<1>2. ASSUME Q!Fail
      PROVE  Q!Abs!ARefuse /\ Q!Items' = Q!Items
  BY <1>2, ItemsUnchanged DEF Q!Fail, Q!Abs!ARefuse
<1>3. ASSUME NEW v \in Value, Q!Insert(v)
      PROVE  Q!Abs!AInsert(v)
  <2>1. CASE queueCount < length
    BY <1>3, <2>1, InsertAppends, ItemsFacts
    DEF Q!Insert, Q!Fail, Q!Abs!AInsert, QueueInv, Q!TypeOK
  <2>2. CASE Q!Fail /\ queueCount = length
    BY <1>2, <2>2, ItemsFacts, QueueAssumption
    DEF Q!Fail, Q!Abs!AInsert, Q!Abs!ARefuse, QueueInv, Q!TypeOK
  <2> QED
    BY <1>3, <2>1, <2>2 DEF Q!Insert
<1>4. ASSUME Q!Delete
      PROVE  Q!Abs!ADelete
  <2>1. CASE Q!DeleteFifo
    BY <2>1, DeleteFifoTakesFirst DEF Q!DeleteFifo, Q!TakeFrom, Q!Abs!ADelete
  <2>2. CASE Q!DeleteLifo
    BY <2>2, DeleteLifoTakesLast DEF Q!DeleteLifo, Q!TakeFrom, Q!Abs!ADelete
  <2>3. CASE queueCount = 0 /\ Q!Fail
    <3>1. Q!Items = <<>>
      BY <2>3, ItemsFacts, EmptySeq
    <3> QED
      BY <1>2, <2>3, <3>1 DEF Q!Abs!ADelete
  <2> QED
    BY <1>4, <2>1, <2>2, <2>3 DEF Q!Delete
<1>5. CASE UNCHANGED queueVars
  BY <1>5, ItemsUnchanged DEF queueVars, Q!Abs!avars
<1>6. ASSUME NEW nth \in 0..MaxLength, NEW dir \in {0, 1}, Q!Peek(nth, dir)
      PROVE  Q!Abs!APeek(nth, dir)
  BY <1>6, PeekRefines
<1> QED
  BY <1>1, <1>3, <1>4, <1>5, <1>6 DEF Q!Next, Q!Abs!ANext

LEMMA InitRefines == Q!Init => Q!Abs!AInit
<1> SUFFICES ASSUME Q!Init PROVE Q!Abs!AInit
  OBVIOUS
<1>1. Q!Items = <<>>
  BY QueueInitInv, ItemsFacts, EmptySeq DEF Q!Init
<1> QED
  BY <1>1 DEF Q!Init, Q!Abs!AInit


(* A call writes no cell behind the buffer.                                *)
LEMMA CellsBehind ==
  ASSUME QueueInv, Q!Next \/ UNCHANGED queueVars, NEW c \in Q!Cells, c >= length
  PROVE  queueBuffer'[c] = queueBuffer[c]
<1>1. CASE UNCHANGED queueBuffer
  BY <1>1
<1>2. ASSUME NEW v \in Value, Q!Insert(v), queueCount < length
      PROVE  queueBuffer'[c] = queueBuffer[c]
  BY <1>2, QueueAssumption DEF Q!Insert, QueueInv, Q!TypeOK, Q!IndexesAgree, Q!Cells, Q!Fail
<1>3. CASE Q!DeleteFifo
  BY <1>3, QueueAssumption
  DEF Q!DeleteFifo, Q!TakeFrom, QueueInv, Q!TypeOK, Q!IndexesAgree, Q!Cells
<1>4. CASE Q!DeleteLifo
  BY <1>4, QueueAssumption
  DEF Q!DeleteLifo, Q!TakeFrom, QueueInv, Q!TypeOK, Q!IndexesAgree, Q!Cells
<1> QED
  BY <1>1, <1>2, <1>3, <1>4
  DEF Q!Next, Q!QUE_Init, Q!Insert, Q!Delete, Q!Peek, Q!Fail, queueVars

(***************************************************************************)
(* A step is one of the part that runs, and leaves the others as they are. *)
(***************************************************************************)
LEMMA StepOfOne ==
  ASSUME [Next]_vars
  PROVE  /\ D!Next \/ UNCHANGED debugVars
         /\ R!Next \/ UNCHANGED rtcVars
         /\ I!AnalogNext \/ UNCHANGED I!analogVars
         /\ I!DigitalNext \/ UNCHANGED I!digitalVars
         /\ F!Next \/ UNCHANGED flashVars
         /\ M!Next \/ UNCHANGED regVars
         /\ N!Next \/ UNCHANGED nodeVars
         /\ P!Next \/ UNCHANGED portVars
         /\ Q!Next \/ UNCHANGED queueVars
         /\ part' = part
         /\ \/ UNCHANGED busVars
            \/ part = "canrx" /\ B!ReceiveNext
            \/ part = "cantx" /\ B!SendNext
            \/ part = "nmt" /\ N!Next
<1>1. CASE Next
  <2>1. /\ D!Next \/ UNCHANGED debugVars
        /\ R!Next \/ UNCHANGED rtcVars
        /\ F!Next \/ UNCHANGED flashVars
        /\ M!Next \/ UNCHANGED regVars
        /\ N!Next \/ UNCHANGED nodeVars
        /\ P!Next \/ UNCHANGED portVars
        /\ Q!Next \/ UNCHANGED queueVars
        /\ part' = part
        /\ \/ UNCHANGED busVars
           \/ part = "canrx" /\ B!ReceiveNext
           \/ part = "cantx" /\ B!SendNext
           \/ part = "nmt" /\ N!Next
        /\ \/ UNCHANGED ioVars
           \/ I!AnalogNext
           \/ I!DigitalNext
    BY <1>1 DEF Next, CliNext, DebugNext, RtcNext, AnalogNext, DigitalNext, FlashNext,
                RegsNext, CanNext, NmtNext, PortNext, QueueNext, Only
  <2>2. UNCHANGED ioVars => UNCHANGED I!analogVars /\ UNCHANGED I!digitalVars
    BY DEF ioVars, I!analogVars, I!digitalVars
  <2>3. I!AnalogNext => UNCHANGED I!digitalVars
    BY DEF I!AnalogNext, I!ioProcessAnalogChannel, I!IO_ConfigureAnalogEMA,
           I!IO_setAnalogCalibration, I!digitalVars
  <2>4. I!DigitalNext => UNCHANGED I!analogVars
    BY DEF I!DigitalNext, I!ioProcessDigitalChannel, I!IO_ConfigureDigitalChannel, I!analogVars
  <2> QED
    BY <2>1, <2>2, <2>3, <2>4
<1>2. CASE UNCHANGED vars
  <2>1. /\ UNCHANGED <<part, debugVars, rtcVars, ioVars, flashVars, regVars, busVars, nodeVars,
                   portVars, queueVars>>
    BY <1>2 DEF vars
  <2>2. UNCHANGED I!analogVars /\ UNCHANGED I!digitalVars
    BY <2>1 DEF ioVars, I!analogVars, I!digitalVars
  <2> QED
    BY <2>1, <2>2
<1> QED
  BY <1>1, <1>2

LEMMA InitOfAll ==
  Init => D!Init /\ R!Init /\ I!Init /\ F!Init /\ M!Init /\ N!Init /\ B!CanInit
          /\ P!Init /\ Q!Init
BY DEF Init, N!Init, N!CanInit, B!CanInit

RxUnchanged == UNCHANGED <<fifo, rxQueue, arrived, dispatched>>
TxUnchanged == UNCHANGED <<txQueue, mailbox, queued, wire>>

(* What the receiving side of a node does in a step, whichever part it is. *)
LEMMA RxSteps ==
  ASSUME [Next]_vars
  PROVE  \/ RxUnchanged
         \/ /\ arrived' = arrived + 1 /\ UNCHANGED <<rxQueue, dispatched>>
            /\ \E f \in Arrivals :
                 LET here == [ident |-> f.ident, data |-> f.data, number |-> arrived + 1]
                 IN  \/ Len(fifo) < Places /\ fifo' = Append(fifo, here)
                     \/ fifo' = fifo
                     \/ ~(Len(fifo) < Places) /\ fifo' = [fifo EXCEPT ![Places] = here]
         \/ /\ fifo' = <<>> /\ UNCHANGED <<arrived, dispatched>>
            /\ \E room \in {RxLength, 1} :
                 rxQueue' = rxQueue \o SubSeq(fifo, 1, B!Least(Len(fifo), room - Len(rxQueue)))
         \/ \E callback : B!Receive(callback)
<1>1. CASE UNCHANGED busVars
  BY <1>1 DEF busVars, RxUnchanged
<1>2. CASE part = "canrx" /\ B!ReceiveNext
  <2>1. CASE B!Arrive
    BY <1>2, <2>1 DEF B!Arrive, Places
  <2>2. CASE B!HAL_CAN_RxFifo1MsgPendingCallback
    BY <1>2, <2>2 DEF B!HAL_CAN_RxFifo1MsgPendingCallback
  <2> QED
    BY <1>2, <2>1, <2>2 DEF B!ReceiveNext
<1>3. CASE part = "cantx" /\ B!SendNext
  BY <1>3 DEF B!SendNext, B!CBUS_sendData, B!CO_CANsend, B!cbusTxThread, B!Transmit,
              B!rxVars, RxUnchanged
<1>4. CASE part = "nmt" /\ N!Next
  <2>1. CASE N!Arrive
    <3>1. PICK f \in {a \in Arrivals : a.ident # "else"} :
            LET here == [ident |-> f.ident, data |-> f.data, number |-> arrived + 1]
            IN  IF Len(fifo) < 1 THEN fifo' = Append(fifo, here)
                ELSE fifo' \in {fifo, [fifo EXCEPT ![1] = here]}
      BY <2>1 DEF N!Arrive
    <3> QED
      BY <1>4, <2>1, <3>1 DEF N!Arrive, Places
  <2>2. CASE N!HAL_CAN_RxFifo1MsgPendingCallback
    BY <1>4, <2>2 DEF N!HAL_CAN_RxFifo1MsgPendingCallback, N!Least, B!Least
  <2>3. ASSUME NEW callback, N!Receive(callback)
        PROVE  B!Receive(callback)
    BY <2>3 DEF N!Receive, B!Receive, N!CO_CANrxDispatch, B!CO_CANrxDispatch, N!Matches,
                B!Matches, N!txVars, B!txVars
  <2>4. CASE N!CO_NMT_receive \/ N!OtherReceive
    BY <2>3, <2>4 DEF N!CO_NMT_receive, N!OtherReceive
  <2>5. CASE \/ N!ReadCommand \/ N!ClearCommand \/ N!EndProcess
             \/ N!OD_write_1017 \/ N!ErrorChanges
    BY <2>5 DEF N!ReadCommand, N!ClearCommand, N!EndProcess, N!OD_write_1017, N!ErrorChanges,
                N!canVars, N!rxVars, RxUnchanged
  <2>6. CASE N!SendHeartbeat \/ N!cbusTxThread \/ N!Transmit
    BY <2>6 DEF N!SendHeartbeat, N!StateSentWith, N!CO_CANsend, N!cbusTxThread, N!Transmit,
                N!canVars, N!rxVars, RxUnchanged
  <2> QED
    BY <1>4, <2>1, <2>2, <2>4, <2>5, <2>6 DEF N!Next
<1> QED
  BY <1>1, <1>2, <1>3, <1>4, StepOfOne

LEMMA RxStep ==
  ASSUME RxInv, [Next]_vars
  PROVE  RxInv'
<1>0. part' = part
  BY StepOfOne
<1>1. CASE RxUnchanged
  BY <1>0, <1>1 DEF RxUnchanged, RxInv, RxInOrder, Places
<1>2. CASE /\ arrived' = arrived + 1 /\ UNCHANGED <<rxQueue, dispatched>>
           /\ \E f \in Arrivals :
                LET here == [ident |-> f.ident, data |-> f.data, number |-> arrived + 1]
                IN  \/ Len(fifo) < Places /\ fifo' = Append(fifo, here)
                    \/ fifo' = fifo
                    \/ ~(Len(fifo) < Places) /\ fifo' = [fifo EXCEPT ![Places] = here]
  <2>1. PICK f \in Arrivals :
          LET here == [ident |-> f.ident, data |-> f.data, number |-> arrived + 1]
          IN  \/ Len(fifo) < Places /\ fifo' = Append(fifo, here)
              \/ fifo' = fifo
              \/ ~(Len(fifo) < Places) /\ fifo' = [fifo EXCEPT ![Places] = here]
    BY <1>2
  <2>2. PICK here : here = [ident |-> f.ident, data |-> f.data, number |-> arrived + 1]
    OBVIOUS
  <2>3. arrived \in Nat /\ Len(fifo) \in Nat /\ Places \in Nat
    BY RxSets, CanAssumption DEF RxInv, Places
  <2>4. here \in RxFrame /\ here.number = arrived + 1
    BY <2>2, <2>3 DEF RxFrame
  <2>5. \/ Len(fifo) < Places /\ fifo' = Append(fifo, here)
        \/ fifo' = fifo
        \/ Len(fifo) >= Places /\ fifo' = [fifo EXCEPT ![Places] = here]
    BY <2>1, <2>2, <2>3
  <2> QED
    BY <1>0, <1>2, <2>4, <2>5, RxArrives
<1>3. CASE /\ fifo' = <<>> /\ UNCHANGED <<arrived, dispatched>>
           /\ \E room \in {RxLength, 1} :
                rxQueue' = rxQueue \o SubSeq(fifo, 1, B!Least(Len(fifo), room - Len(rxQueue)))
  <2>1. PICK room \in {RxLength, 1} :
          rxQueue' = rxQueue \o SubSeq(fifo, 1, B!Least(Len(fifo), room - Len(rxQueue)))
    BY <1>3
  <2>2. PICK n : n = B!Least(Len(fifo), room - Len(rxQueue))
    OBVIOUS
  <2>3. n \in Int /\ n <= Len(fifo)
    BY <2>2, RxSets, CanAssumption DEF B!Least
  <2>4. rxQueue' = rxQueue \o SubSeq(fifo, 1, n)
    BY <2>1, <2>2
  <2> QED
    BY <1>0, <1>3, <2>3, <2>4, RxMoves
<1>4. CASE \E callback : B!Receive(callback)
  BY <1>0, <1>4, RxDispatches
<1> QED
  BY <1>1, <1>2, <1>3, <1>4, RxSteps

(* What the sending side does.                                             *)
LEMMA TxSteps ==
  ASSUME NmtInv, [Next]_vars
  PROVE  \/ TxUnchanged
         \/ /\ queued' = queued + 1 /\ UNCHANGED <<mailbox, wire>>
            /\ \E ident \in {"app", "hb"}, d \in {"data"} \cup NodeStates :
                 txQueue' = Append(txQueue, [ident |-> ident, data |-> d, number |-> queued + 1])
         \/ /\ txQueue # <<>> /\ txQueue' = Tail(txQueue) /\ UNCHANGED <<queued, wire>>
            /\ mailbox' = mailbox \/ mailbox' = Append(mailbox, Head(txQueue))
         \/ B!Transmit
<1>1. CASE UNCHANGED busVars
  BY <1>1 DEF busVars, TxUnchanged
<1>2. CASE part = "canrx" /\ B!ReceiveNext
  BY <1>2 DEF B!ReceiveNext, B!Arrive, B!HAL_CAN_RxFifo1MsgPendingCallback, B!Receive,
              B!txVars, TxUnchanged
<1>3. CASE part = "cantx" /\ B!SendNext
  <2>1. CASE B!CBUS_sendData("app")
    BY <2>1 DEF B!CBUS_sendData, B!CO_CANsend
  <2>2. CASE B!cbusTxThread
    BY <2>2 DEF B!cbusTxThread
  <2> QED
    BY <1>3, <2>1, <2>2 DEF B!SendNext
<1>4. CASE part = "nmt" /\ N!Next
  <2>1. CASE \/ N!Arrive \/ N!HAL_CAN_RxFifo1MsgPendingCallback
             \/ N!CO_NMT_receive \/ N!OtherReceive
    BY <2>1 DEF N!Arrive, N!HAL_CAN_RxFifo1MsgPendingCallback, N!CO_NMT_receive,
                N!OtherReceive, N!Receive, N!txVars, TxUnchanged
  <2>2. CASE \/ N!ReadCommand \/ N!ClearCommand \/ N!EndProcess
             \/ N!OD_write_1017 \/ N!ErrorChanges
    BY <2>2 DEF N!ReadCommand, N!ClearCommand, N!EndProcess, N!OD_write_1017, N!ErrorChanges,
                N!canVars, N!txVars, TxUnchanged
  <2>3. CASE N!SendHeartbeat
    <3>1. CASE N!CO_CANsend("hb", operatingState)
      BY <3>1 DEF N!CO_CANsend, NmtInv
    <3>2. CASE UNCHANGED N!canVars
      BY <3>2 DEF N!canVars, N!txVars, TxUnchanged
    <3> QED
      BY <2>3, <3>1, <3>2 DEF N!SendHeartbeat, N!StateSentWith
  <2>4. CASE N!cbusTxThread
    BY <2>4 DEF N!cbusTxThread
  <2>5. CASE N!Transmit
    BY <2>5 DEF N!Transmit, B!Transmit, N!rxVars, B!rxVars
  <2> QED
    BY <1>4, <2>1, <2>2, <2>3, <2>4, <2>5 DEF N!Next
<1> QED
  BY <1>1, <1>2, <1>3, <1>4, StepOfOne

LEMMA TxStep ==
  ASSUME TxInv, NmtInv, [Next]_vars
  PROVE  TxInv'
<1>1. CASE TxUnchanged
  BY <1>1 DEF TxUnchanged, TxInv, TxInOrder
<1>2. CASE /\ queued' = queued + 1 /\ UNCHANGED <<mailbox, wire>>
           /\ \E ident \in {"app", "hb"}, d \in {"data"} \cup NodeStates :
                txQueue' = Append(txQueue, [ident |-> ident, data |-> d, number |-> queued + 1])
  <2>1. PICK ident \in {"app", "hb"}, d \in {"data"} \cup NodeStates :
          txQueue' = Append(txQueue, [ident |-> ident, data |-> d, number |-> queued + 1])
    BY <1>2
  <2>2. PICK f : f = [ident |-> ident, data |-> d, number |-> queued + 1]
    OBVIOUS
  <2>3. f \in TxFrame /\ f.number = queued + 1 /\ txQueue' = Append(txQueue, f)
    BY <2>1, <2>2 DEF TxFrame, TxInv
  <2> QED
    BY <1>2, <2>3, TxQueues
<1>3. CASE /\ txQueue # <<>> /\ txQueue' = Tail(txQueue) /\ UNCHANGED <<queued, wire>>
           /\ mailbox' = mailbox \/ mailbox' = Append(mailbox, Head(txQueue))
  BY <1>3, TxTakes
<1>4. CASE B!Transmit
  <2>1. PICK i \in DOMAIN mailbox :
          /\ mailbox' = SubSeq(mailbox, 1, i - 1) \o SubSeq(mailbox, i + 1, Len(mailbox))
          /\ wire' = Append(wire, mailbox[i].number)
    BY <1>4 DEF B!Transmit
  <2>2. i \in 1..Len(mailbox)
    BY <2>1, TxSets
  <2> QED
    BY <1>4, <2>1, <2>2, TxSends DEF B!Transmit
<1> QED
  BY <1>1, <1>2, <1>3, <1>4, TxSteps

LEMMA BusInOrder == RxInv /\ TxInv => B!CanInOrder
<1> SUFFICES ASSUME RxInv, TxInv PROVE B!CanInOrder
  OBVIOUS
<1>0. /\ DOMAIN dispatched = 1..Len(dispatched) /\ Len(dispatched) \in Nat
      /\ DOMAIN wire = 1..Len(wire) /\ Len(wire) \in Nat
  BY RxSets, TxSets
<1>1. ASSUME NEW i \in 1..Len(dispatched), NEW j \in 1..Len(dispatched), i < j
      PROVE  dispatched[i].number < dispatched[j].number
  <2>1. <<dispatched[i], dispatched[j]>> \in NumberOrder
    BY <1>1 DEF RxInv, RxInOrder, Sorted
  <2> QED
    BY <2>1 DEF NumberOrder
<1>2. ASSUME NEW i \in 1..Len(dispatched)
      PROVE  \E k \in DOMAIN rxArray :
               /\ rxArray[k].callback = dispatched[i].to /\ rxArray[k].callback # "NULL"
               /\ dispatched[i].ident \in rxArray[k].idents
  <2>1. dispatched[i] \in Callee
    BY DEF RxInv
  <2> QED
    BY <2>1 DEF Callee
<1>3. ASSUME NEW i \in 1..Len(wire), NEW j \in 1..Len(wire), i # j
      PROVE  wire[i] # wire[j]
  <2>1. i < j \/ j < i
    BY <1>0, <1>3
  <2>2. <<wire[i], wire[j]>> \in Unlike \/ <<wire[j], wire[i]>> \in Unlike
    BY <2>1 DEF TxInv, TxInOrder, Sorted
  <2> QED
    BY <2>2 DEF Unlike
<1> QED
  BY <1>0, <1>1, <1>2, <1>3 DEF B!CanInOrder

(* However often the clock is set in between, a count of                   *)
(* RTC_IncrementSeconds is one second of the calendar, over the ends of    *)
(* minutes, hours, days, months and years and over leap days (rtc.c:52).   *)
THEOREM SecondsAreCounted == Spec => []RtcCounts
<1>1. Init => RtcInv
  BY InitOfAll, RtcInit
<1>2. RtcInv /\ [Next]_vars => RtcInv'
  BY StepOfOne, RtcStep
<1>3. RtcInv => RtcCounts
  BY DEF RtcInv, RtcCounts, R!RtcCounts
<1> QED
  BY <1>1, <1>2, <1>3, PTL DEF Spec

(* A node that sends heartbeats has told every state before it leaves it,  *)
(* but for the one its boot-up message announces                           *)
(* (CO_NMT_Heartbeat.c:176).                                               *)
THEOREM StatesAreReported == Spec => StatesReported
<1> DEFINE Told == operatingState' # operatingState /\ HBproducerTime # 0
                   => lastHb = operatingState \/ lastHb = "INITIALIZING"
<1>1. Init => NmtInv
  BY InitOfAll, NmtInit
<1>2. NmtInv /\ [Next]_vars => NmtInv'
  BY StepOfOne, NmtStep
<1>3. NmtInv /\ [Next]_vars => [Told]_(N!vars)
  BY StepOfOne, NmtChanges DEF NmtInv
<1>4. Spec => [][Told]_(N!vars)
  BY <1>1, <1>2, <1>3, PTL DEF Spec
<1> QED
  BY <1>4 DEF StatesReported, N!StatesReported

(* What the port sends is parts of the messages in the order in which they *)
(* were logged, however many tasks log and whatever the stream has no room *)
(* for (debug.c:120), as long as every transmission ends before            *)
(* UART_writeData's timeout does.  One that outlasts it goes on from a     *)
(* buffer that is filled anew, and nothing is said from there on.          *)
THEOREM LogsAreInOrder == Spec => []LogInOrder
<1>1. Init => DebugInv
  BY InitOfAll, DebugInit
<1>2. DebugInv /\ [Next]_vars => DebugInv'
  BY StepOfOne, DebugStep
<1>3. DebugInv => LogInOrder
  BY DebugInOrder DEF LogInOrder
<1> QED
  BY <1>1, <1>2, <1>3, PTL DEF Spec

(* The frames of the bus reach the callback registered for them in their   *)
(* order and at most once, and no frame is sent twice, whatever the        *)
(* controller and the queues lose and however large they are               *)
(* (CO_driver_stm32.c:133).                                                *)
THEOREM FramesAreInOrder == Spec => []CanInOrder
<1>1. Init => RxInv /\ TxInv /\ NmtInv
  BY InitOfAll, RxInitial, TxInitial, NmtInit
<1>2. RxInv /\ TxInv /\ NmtInv /\ [Next]_vars => (RxInv /\ TxInv /\ NmtInv)'
  BY RxStep, TxStep, StepOfOne, NmtStep
<1>3. RxInv /\ TxInv /\ NmtInv => CanInOrder
  BY BusInOrder DEF CanInOrder
<1> QED
  BY <1>1, <1>2, <1>3, PTL DEF Spec

(* Whatever the samples, and however the filter, the gain (which may be    *)
(* negative) and the offset change between any two samples, the filtered   *)
(* count stays between the least and the greatest sample, and the value,   *)
(* rounded twice, between what its own calibration makes of these two      *)
(* (io.c:120).  What analog_data_t cannot hold is left out.                *)
THEOREM FilterStaysWithin == Spec => []FilteredWithin
<1>1. Init => AnalogInv
  BY InitOfAll, AnalogInit
<1>2. AnalogInv /\ [Next]_vars => AnalogInv'
  BY StepOfOne, AnalogStep
<1>3. AnalogInv => FilteredWithin
  BY AnalogWithin DEF FilteredWithin
<1> QED
  BY <1>1, <1>2, <1>3, PTL DEF Spec

(* The state of a pin changes only after readings of the new level for the *)
(* whole debounce time, none of them older than its configuration          *)
(* (io.c:206).                                                             *)
THEOREM LevelsHaveLasted == Spec => Debounced
<1>1. Init => DigitalInv
  BY InitOfAll, DigitalInit
<1>2. DigitalInv /\ [Next]_vars => DigitalInv' /\ [Lasted]_(I!vars)
  BY StepOfOne, DigitalStep
<1>3. Spec => [][Lasted]_(I!vars)
  BY <1>1, <1>2, PTL DEF Spec
<1> QED
  BY <1>3 DEF Debounced, I!Debounced, Lasted

(* Whatever the sizes of pages, sectors and blocks and wherever a transfer *)
(* fails: a call whose range lies in the memory, and in whole sectors for  *)
(* the smart erase, does all it was asked if it reports success, and       *)
(* touches nothing outside its range in any case (flash.c:187).  Of other  *)
(* calls, which flash.c does not refuse when their sums wrap, nothing is   *)
(* said.                                                                   *)
THEOREM CallsDoAsTheySay == Spec => []FlashDoes
<1>1. Init => FlashInv
  BY InitOfAll, FlashInit
<1>2. FlashInv /\ [Next]_vars => FlashInv'
  BY StepOfOne, FlashStep
<1>3. FlashInv => FlashDoes
  BY FlashDid DEF FlashDoes
<1> QED
  BY <1>1, <1>2, <1>3, PTL DEF Spec

(* For every table of registers and every range that divides no long, each *)
(* register is stored from and sent in the words of its own address        *)
(* (modbus_register_interface.c:38), as long as no branch that forgets to  *)
(* move on in the frame was taken: a value out of range, flags that may    *)
(* not be written, a register that may not be read.                        *)
THEOREM RegistersHaveTheirWords == Spec => []RegsOwnWords
<1>1. Init => RegsInv
  BY InitOfAll, RegsInit
<1>2. RegsInv /\ [Next]_vars => RegsInv'
  BY StepOfOne, RegsStep
<1>3. RegsInv => RegsOwnWords
  BY RegsOwn DEF RegsOwnWords
<1> QED
  BY <1>1, <1>2, <1>3, PTL DEF Spec

LEMMA PortInvariance ==
  ASSUME MaxOpens = 1
  PROVE  Spec => []PortInv
<1>1. Init => PortInv
  BY InitOfAll, PortInit
<1>2. PortInv /\ [Next]_vars => PortInv'
  BY StepOfOne, PortStep
<1> QED
  BY <1>1, <1>2, PTL DEF Spec

(* The task in ownerTask holds the mutex of the port, for any number of    *)
(* tasks, although the two are written apart (SERIAL.c:155).               *)
THEOREM OwnershipIsLocked ==
  ASSUME MaxOpens = 1
  PROVE  Spec => []OwnerHoldsMutex
<1>1. PortInv => OwnerHoldsMutex
  BY DEF PortInv, OwnerHoldsMutex
<1> QED
  BY <1>1, PortInvariance, PTL

(* At most one task at a time is inside the port's driver or its receive   *)
(* ring, although each looks at ownerTask only on entry (SERIAL.c:199).    *)
THEOREM UseIsExclusive ==
  ASSUME MaxOpens = 1
  PROVE  Spec => []ExclusiveUse
<1>1. PortInv => ExclusiveUse
  BY PortAssumption DEF PortInv, UserIsOwner, ExclusiveUse, P!ExclusiveUse
<1> QED
  BY <1>1, PortInvariance, PTL

(* The mutex of a port is always held by somebody who is able to give it   *)
(* back (SERIAL.c:170).                                                    *)
THEOREM LockIsNeverOrphaned ==
  ASSUME MaxOpens = 1
  PROVE  Spec => []NoOrphanLock
<1>1. PortInv => NoOrphanLock
  BY DEF PortInv, NoOrphanLock
<1> QED
  BY <1>1, PortInvariance, PTL

LEMMA QueueInvariance == Spec => []QueueInv
<1>1. Init => QueueInv
  BY InitOfAll, QueueInitInv
<1>2. QueueInv /\ [Next]_vars => QueueInv'
  BY StepOfOne, QueueStep
<1> QED
  BY <1>1, <1>2, PTL DEF Spec

(* The counters of a queue object stay inside its buffer, for every length *)
(* and unit size (sys_queue.c:58).                                         *)
THEOREM QueueTypeCorrect == Spec => []Q!TypeOK
BY QueueInvariance, PTL DEF QueueInv

(* The counters of a queue object, updated apart, agree for every length   *)
(* and unit size, whatever the calls and their order (sys_queue.c:58).     *)
THEOREM QueueCountersAgree == Spec => []CountersAgree
<1>1. QueueInv => CountersAgree
  BY DEF QueueInv, CountersAgree
<1> QED
  BY <1>1, QueueInvariance, PTL

(* No sequence of calls writes memory behind the buffer of a queue object  *)
(* (sys_queue.c:58).                                                       *)
THEOREM NeverOverruns == Spec => Q!NoOverrun
<1>1. QueueInv /\ [Next]_vars
        => [\A c \in Q!Cells : c >= length => queueBuffer'[c] = queueBuffer[c]]_(Q!vars)
  BY StepOfOne, CellsBehind
<1>2. Spec => [][\A c \in Q!Cells : c >= length
                   => queueBuffer'[c] = queueBuffer[c]]_(Q!vars)
  BY <1>1, QueueInvariance, PTL DEF Spec
<1> QED
  BY <1>2 DEF Q!NoOverrun

(* The queue object implements the bounded FIFO or LIFO, every result and  *)
(* every unit handed out included, as long as every byte offset of the     *)
(* buffer fits in the uint16_t of _QUE_Peek (sys_queue.c:144).             *)
THEOREM QueueIsBounded ==
  ASSUME MaxLength * UnitSize =< 65536
  PROVE  Spec => QueueRefines
<1>1. Init => Q!Abs!AInit
  BY InitOfAll, InitRefines
<1>2. QueueInv /\ QueueInv' /\ [Next]_vars => [Q!Abs!ANext]_(Q!Abs!avars)
  BY StepOfOne, StepRefines
<1>3. Spec => Q!Abs!AInit /\ [][Q!Abs!ANext]_(Q!Abs!avars)
  BY <1>1, <1>2, QueueInvariance, PTL DEF Spec
<1> QED
  BY <1>3 DEF QueueRefines, Q!Refines, Q!Abs!ASpec
=============================================================================
