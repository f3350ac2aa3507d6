--------------------------- MODULE VoiceTimeProofs ---------------------------
(***************************************************************************)
(* For every day and every sentence: the reminder of a voice task precedes *)
(* its start, so that the voice dialog needs no check of its own, and by   *)
(* five minutes; the day found is the day named; and what the task dialog  *)
(* shows of such a reminder.                                               *)
(***************************************************************************)
EXTENDS VoiceTime, FiniteSetTheorems, TLAPS

Clock == [year : Int, month : Int, day : Int, hour : Int, minute : Int]

Date == [year : Int, month : Int, day : Int]

(* The days of a month are a whole number.                                 *)
LEMMA DaysInIsInt ==
    ASSUME NEW y, NEW m
    PROVE  DaysIn(y, m) \in Int
<1>1. CASE m \in {4, 6, 9, 11}
    BY <1>1 DEF DaysIn
<1>2. CASE m = 2
    BY <1>2 DEF DaysIn
<1>3. CASE m \notin {4, 6, 9, 11} /\ m # 2
    BY <1>3 DEF DaysIn
<1>. QED  BY <1>1, <1>2, <1>3

(* Adding days to a date gives whole numbers, whatever the date: the same  *)
(* month, the next one or the next year's first.                           *)
LEMMA AddDaysIsDate ==
    ASSUME NEW d \in Date, NEW n \in Int
    PROVE  LET room == DaysIn(d.year, d.month)
               e == AddDays(d, n)
           IN  /\ e \in Date
               /\ d.day + n <= room =>
                     e.year = d.year /\ e.month = d.month /\ e.day = d.day + n
               /\ ~(d.day + n <= room) /\ d.month < 12 =>
                     e.year = d.year /\ e.month = d.month + 1 /\ e.day = d.day + n - room
               /\ ~(d.day + n <= room) /\ ~(d.month < 12) =>
                     e.year = d.year + 1 /\ e.month = 1 /\ e.day = d.day + n - room
<1>. DEFINE room == DaysIn(d.year, d.month)
            e == AddDays(d, n)
<1>1. room \in Int
    BY DaysInIsInt
<1>2. d.year \in Int /\ d.month \in Int /\ d.day \in Int
    BY DEF Date
<1>3. CASE d.day + n <= room
    <2>1. e = [d EXCEPT !.day = d.day + n]
        BY <1>3 DEF AddDays
    <2>. HIDE DEF room, e
    <2>2. e \in Date /\ e.year = d.year /\ e.month = d.month /\ e.day = d.day + n
        BY <2>1, <1>2 DEF Date
    <2>. QED  BY <1>3, <2>2 DEF room, e
<1>4. CASE ~(d.day + n <= room) /\ d.month < 12
    <2>1. e = [year |-> d.year, month |-> d.month + 1, day |-> d.day + n - room]
        BY <1>4 DEF AddDays, Date
    <2>. HIDE DEF room, e
    <2>2. e \in Date /\ e.year = d.year /\ e.month = d.month + 1 /\ e.day = d.day + n - room
        BY <2>1, <1>1, <1>2 DEF Date
    <2>. QED  BY <1>4, <2>2 DEF room, e
<1>5. CASE ~(d.day + n <= room) /\ ~(d.month < 12)
    <2>1. e = [year |-> d.year + 1, month |-> 1, day |-> d.day + n - room]
        BY <1>5 DEF AddDays
    <2>. HIDE DEF room, e
    <2>2. e \in Date /\ e.year = d.year + 1 /\ e.month = 1 /\ e.day = d.day + n - room
        BY <2>1, <1>1, <1>2 DEF Date
    <2>. QED  BY <1>5, <2>2 DEF room, e
<1>. QED  BY <1>3, <1>4, <1>5

(* A part of an interval has a whole number of elements.                   *)
LEMMA PartOfInterval ==
    ASSUME NEW a \in Int, NEW b \in Int, NEW S \in SUBSET (a..b)
    PROVE  Cardinality(S) \in Int
<1>1. IsFiniteSet(a..b)
    BY FS_Interval
<1>2. IsFiniteSet(S)
    BY <1>1, FS_Subset
<1>3. Cardinality(S) \in Nat
    BY <1>2, FS_CardinalityType
<1>. QED  BY <1>3

(* The day of the week is a whole number.                                  *)
LEMMA DayOfWeekIsInt ==
    ASSUME NEW d \in Date
    PROVE  DayOfWeek(d) \in Int
<1>. DEFINE leapYears == {y \in 2026..(d.year - 1) : LeapYear(y)}
            longMonths == {m \in 1..(d.month - 1) : DaysIn(d.year, m) = 31}
            short == IF d.month > 2 THEN 30 - DaysIn(d.year, 2) ELSE 0
<1>1. d.year \in Int /\ d.month \in Int /\ d.day \in Int
    BY DEF Date
<1>2. Cardinality(leapYears) \in Int
    <2>. DEFINE first == 2026
                last == d.year - 1
    <2>1. first \in Int /\ last \in Int
        BY <1>1
    <2>2. leapYears \in SUBSET (first..last)
        OBVIOUS
    <2>. HIDE DEF leapYears, first, last
    <2>. QED  BY <2>1, <2>2, PartOfInterval
<1>3. Cardinality(longMonths) \in Int
    <2>. DEFINE last == d.month - 1
    <2>1. 1 \in Int /\ last \in Int
        BY <1>1
    <2>2. longMonths \in SUBSET (1..last)
        OBVIOUS
    <2>. HIDE DEF longMonths, last
    <2>. QED  BY <2>1, <2>2, PartOfInterval
<1>4. short \in Int
    BY DaysInIsInt
<1>5. DayNumber(d) = 365 * (d.year - 2026) + Cardinality(leapYears) + 30 * (d.month - 1)
                     + Cardinality(longMonths) - short + d.day - 1
    BY DEF DayNumber
<1>. HIDE DEF leapYears, longMonths, short
<1>6. DayNumber(d) \in Int
    BY <1>1, <1>2, <1>3, <1>4, <1>5
<1>. QED  BY <1>6 DEF DayOfWeek

(* The day that extractDateTime hears is made of whole numbers.            *)
LEMMA HeardDayIsDate ==
    ASSUME NEW d \in Date, NEW s \in Sentences
    PROVE  HeardDay(s, d) \in Date
<1>1. CASE HeardWeekday(s) = NoDay
    <2>1. AddDays(d, 1) \in Date /\ AddDays(d, 2) \in Date /\ AddDays(d, 3) \in Date
        BY AddDaysIsDate
    <2>2. RelativeDay(s, d) \in Date
        BY <2>1 DEF RelativeDay
    <2>. QED  BY <1>1, <2>2 DEF HeardDay
<1>2. CASE HeardWeekday(s) # NoDay
    <2>1. HeardWeekday(s) \in Int
        BY VoiceTimeAssumption, <1>2 DEF HeardWeekday, NoDay
    <2>2. DaysAhead(HeardWeekday(s), d) \in Int
        BY <2>1, DayOfWeekIsInt DEF DaysAhead
    <2>. QED  BY <1>2, <2>2, AddDaysIsDate DEF HeardDay
<1>. QED  BY <1>1, <1>2

(* Five minutes earlier is earlier, also where an hour, a day or a month   *)
(* has to be gone back.                                                    *)
LEMMA RemindIsBefore ==
    ASSUME NEW t \in Clock
    PROVE  Before(Remind(t), t)
<1>1. t.day \in Int /\ t.hour \in Int /\ t.minute \in Int
    BY DEF Clock
<1>2. CASE t.minute >= 5
    <2>1. Remind(t) = [t EXCEPT !.minute = t.minute - 5]
        BY <1>2 DEF Remind
    <2>. QED  BY <1>1, <2>1 DEF Before, Clock
<1>3. CASE ~(t.minute >= 5) /\ t.hour > 0
    <2>1. Remind(t) = [t EXCEPT !.minute = t.minute + 55, !.hour = t.hour - 1]
        BY <1>3 DEF Remind
    <2>. QED  BY <1>1, <2>1 DEF Before, Clock
<1>4. CASE ~(t.minute >= 5) /\ ~(t.hour > 0)
    <2>1. Remind(t) = [t EXCEPT !.minute = t.minute + 55, !.hour = 23, !.day = t.day - 1]
        BY <1>4 DEF Remind
    <2>. QED  BY <1>1, <2>1 DEF Before, Clock
<1>. QED  BY <1>2, <1>3, <1>4

(* What extractDateTime writes into the spin boxes is made of whole        *)
(* numbers.                                                                *)
LEMMA ExtractIsClock ==
    ASSUME NEW d \in Todays, NEW s \in Sentences, NEW m \in Minutes
    PROVE  /\ ExtractDateTime(s, m, d) \in Clock
           /\ ExtractDateTime(s, m, d).hour >= 0
           /\ ExtractDateTime(s, m, d).minute >= 0
<1>1. d \in Date
    BY VoiceTimeAssumption DEF Date
<1>2. HeardDay(s, d) \in Date
    BY <1>1, HeardDayIsDate
<1>3. d.year \in Int /\ HeardDay(s, d).month \in Int /\ HeardDay(s, d).day \in Int
    BY <1>1, <1>2 DEF Date
<1>4. s.hour \in Int
    BY VoiceTimeAssumption DEF NoHour
<1>5. HeardHour(s) \in Int
    <2>1. CASE s.hour # NoHour
        BY <1>4, <2>1 DEF HeardHour
    <2>2. CASE s.hour = NoHour
        BY <2>2 DEF HeardHour
    <2>. QED  BY <2>1, <2>2
<1>6. HeardMinute(s, m) \in Int
    BY VoiceTimeAssumption DEF HeardMinute
<1>7. ExtractDateTime(s, m, d) \in Clock
    BY <1>3, <1>5, <1>6 DEF ExtractDateTime, SpinBoxes, Bound, Clock
<1>8. ExtractDateTime(s, m, d).hour >= 0 /\ ExtractDateTime(s, m, d).minute >= 0
    BY <1>5, <1>6 DEF ExtractDateTime, SpinBoxes, Bound
<1>. QED  BY <1>7, <1>8

TimesInv ==
    /\ today \in Todays
    /\ RemindFirst

(* In every task of the voice dialog the reminder precedes the start, for  *)
(* every date, sentence and correction of the fields (getTask, lines       *)
(* 463-483): what validateInput checks for the other dialog holds here.    *)
THEOREM RemindAlwaysFirst == Spec => []RemindFirst
<1>1. Init => TimesInv
    <2>1. Nothing \in Clock
        BY DEF Nothing, Clock
    <2>. QED  BY <2>1, RemindIsBefore DEF Init, TimesInv, RemindFirst
<1>2. TimesInv /\ [Next]_vars => TimesInv'
    <2>. SUFFICES ASSUME TimesInv, [Next]_vars
                  PROVE  TimesInv'
        OBVIOUS
    <2>1. ASSUME NEW s, NEW t \in Clock, Show(s, t)
          PROVE  TimesInv'
        BY <2>1, RemindIsBefore DEF TimesInv, Show, RemindFirst
    <2>2. ASSUME NEW s \in Sentences, NEW m \in Minutes, Say(s, m)
          PROVE  TimesInv'
        BY <2>1, <2>2, ExtractIsClock DEF Say, TimesInv
    <2>3. ASSUME NEW t \in Corrections, Correct(t)
          PROVE  TimesInv'
        <3>1. t \in Clock
            BY VoiceTimeAssumption DEF Clock
        <3>. QED  BY <2>1, <2>3, <3>1 DEF Correct
    <2>4. CASE Reopen
        <3>1. Nothing \in Clock
            BY DEF Nothing, Clock
        <3>. QED  BY <2>1, <2>4, <3>1 DEF Reopen
    <2>5. CASE UNCHANGED vars
        BY <2>5 DEF TimesInv, RemindFirst, vars
    <2>. QED  BY <2>2, <2>3, <2>4, <2>5 DEF Next
<1>3. TimesInv => RemindFirst
    BY DEF TimesInv
<1>. QED  BY <1>1, <1>2, <1>3, PTL DEF Spec

-----------------------------------------------------------------------------
(* Exactly five minutes.                                                   *)

(* Within a month the number of the day goes up with the day.              *)
LEMMA DayNumberInMonth ==
    ASSUME NEW d \in Clock, NEW e \in Clock, e.year = d.year, e.month = d.month
    PROVE  /\ DayNumber(d) \in Int /\ DayNumber(e) \in Int
           /\ DayNumber(d) - DayNumber(e) = d.day - e.day
<1>. DEFINE leapYears == {y \in 2026..(d.year - 1) : LeapYear(y)}
            longMonths == {m \in 1..(d.month - 1) : DaysIn(d.year, m) = 31}
            short == IF d.month > 2 THEN 30 - DaysIn(d.year, 2) ELSE 0
            first == 2026
            one == 1
            lastYear == d.year - 1
            lastMonth == d.month - 1
<1>1. d.year \in Int /\ d.month \in Int /\ d.day \in Int /\ e.day \in Int
    BY DEF Clock
<1>2. /\ first \in Int /\ one \in Int /\ lastYear \in Int /\ lastMonth \in Int
      /\ leapYears \in SUBSET (first..lastYear) /\ longMonths \in SUBSET (one..lastMonth)
    BY <1>1
<1>3. short \in Int
    BY DaysInIsInt
<1>4. /\ DayNumber(d) = 365 * (d.year - 2026) + Cardinality(leapYears) + 30 * (d.month - 1)
                           + Cardinality(longMonths) - short + d.day - 1
      /\ DayNumber(e) = 365 * (d.year - 2026) + Cardinality(leapYears) + 30 * (d.month - 1)
                           + Cardinality(longMonths) - short + e.day - 1
    BY DEF DayNumber
<1>. HIDE DEF leapYears, longMonths, short, first, one, lastYear, lastMonth
<1>5. Cardinality(leapYears) \in Int /\ Cardinality(longMonths) \in Int
    BY <1>2, PartOfInterval
<1>. QED  BY <1>1, <1>3, <1>4, <1>5

LEMMA RemindIsFive ==
    ASSUME NEW t \in Clock, t.hour >= 0, t.minute >= 0, Valid(t),
           ~(t.day = 1 /\ t.hour = 0 /\ t.minute < 5)
    PROVE  Valid(Remind(t)) /\ MinuteNumber(t) - MinuteNumber(Remind(t)) = 5
<1>. DEFINE r == Remind(t)
<1>1. t.day \in Int /\ t.hour \in Int /\ t.minute \in Int /\ t.year \in Int /\ t.month \in Int
    BY DEF Clock
<1>2. /\ r \in Clock /\ r.year = t.year /\ r.month = t.month
      /\ \/ r.day = t.day /\ 60 * r.hour + r.minute = 60 * t.hour + t.minute - 5
         \/ /\ r.day = t.day - 1 /\ 60 * r.hour + r.minute = 60 * t.hour + t.minute + 1435
            /\ t.day # 1
    <2>1. CASE t.minute >= 5
        <3>1. r = [t EXCEPT !.minute = t.minute - 5]
            BY <2>1 DEF Remind
        <3>. QED  BY <1>1, <3>1 DEF Clock
    <2>2. CASE ~(t.minute >= 5) /\ t.hour > 0
        <3>1. r = [t EXCEPT !.minute = t.minute + 55, !.hour = t.hour - 1]
            BY <2>2 DEF Remind
        <3>. HIDE DEF r
        <3>2. /\ r.year = t.year /\ r.month = t.month /\ r.day = t.day
              /\ r.hour = t.hour - 1 /\ r.minute = t.minute + 55
            BY <3>1 DEF Clock
        <3>3. r \in Clock
            <4>. DEFINE c == [t EXCEPT !.minute = t.minute + 55]
            <4>1. c \in Clock
                BY <1>1 DEF Clock
            <4>2. r = [c EXCEPT !.hour = t.hour - 1]
                BY <3>1 DEF Clock
            <4>. HIDE DEF c
            <4>. QED  BY <1>1, <4>1, <4>2 DEF Clock
        <3>. QED  BY <1>1, <3>2, <3>3
    <2>3. CASE ~(t.minute >= 5) /\ ~(t.hour > 0)
        <3>1. r = [t EXCEPT !.minute = t.minute + 55, !.hour = 23, !.day = t.day - 1]
            BY <2>3 DEF Remind
        <3>2. t.hour = 0 /\ t.day # 1
            BY <1>1, <2>3
        <3>. HIDE DEF r
        <3>3. /\ r.year = t.year /\ r.month = t.month /\ r.day = t.day - 1
              /\ r.hour = 23 /\ r.minute = t.minute + 55
            BY <3>1 DEF Clock
        <3>4. r \in Clock
            <4>. DEFINE c == [t EXCEPT !.minute = t.minute + 55]
            <4>. DEFINE d == [c EXCEPT !.hour = 23]
            <4>1. c \in Clock
                BY <1>1 DEF Clock
            <4>2. r = [d EXCEPT !.day = t.day - 1]
                BY <3>1 DEF Clock
            <4>. HIDE DEF c
            <4>3. d \in Clock
                BY <4>1 DEF Clock
            <4>. HIDE DEF d
            <4>. QED  BY <1>1, <4>2, <4>3 DEF Clock
        <3>. QED  BY <1>1, <3>2, <3>3, <3>4
    <2>. QED  BY <2>1, <2>2, <2>3
<1>. HIDE DEF r
<1>3. r.day \in Int /\ r.hour \in Int /\ r.minute \in Int
    BY <1>2 DEF Clock
<1>4. DayNumber(t) \in Int /\ DayNumber(r) \in Int /\ DayNumber(t) - DayNumber(r) = t.day - r.day
    BY <1>2, DayNumberInMonth
<1>5. MinuteNumber(t) - MinuteNumber(r) = 5
    BY <1>1, <1>2, <1>3, <1>4 DEF MinuteNumber
<1>6. Valid(r)
    <2>1. DaysIn(t.year, t.month) \in Int
        BY DaysInIsInt
    <2>. QED  BY <1>1, <1>2, <1>3, <2>1 DEF Valid
<1>. QED  BY <1>5, <1>6 DEF r

ExactInv ==
    /\ today \in Todays
    /\ start \in Clock /\ start.hour >= 0 /\ start.minute >= 0
    /\ remind = Remind(start)

(* Outside the first five minutes of a month the reminder of a voice task  *)
(* is a time of the calendar and comes exactly five minutes before the     *)
(* start, over the ends of hours and days (getTask).                       *)
THEOREM FiveMinutesKept == Spec => []FiveMinutes
<1>0. Nothing \in Clock /\ Nothing.hour >= 0 /\ Nothing.minute >= 0
    BY DEF Nothing, Clock
<1>1. Init => ExactInv
    BY <1>0 DEF Init, ExactInv
<1>2. ExactInv /\ [Next]_vars => ExactInv'
    <2>. SUFFICES ASSUME ExactInv, [Next]_vars
                  PROVE  ExactInv'
        OBVIOUS
    <2>1. ASSUME NEW s, NEW t \in Clock, t.hour >= 0, t.minute >= 0, Show(s, t)
          PROVE  ExactInv'
        BY <2>1 DEF ExactInv, Show
    <2>2. ASSUME NEW s \in Sentences, NEW m \in Minutes, Say(s, m)
          PROVE  ExactInv'
        BY <2>1, <2>2, ExtractIsClock DEF Say, ExactInv
    <2>3. ASSUME NEW t \in Corrections, Correct(t)
          PROVE  ExactInv'
        <3>1. t \in Clock /\ t.hour >= 0 /\ t.minute >= 0
            BY VoiceTimeAssumption DEF Clock
        <3>. QED  BY <2>1, <2>3, <3>1 DEF Correct
    <2>4. CASE Reopen
        BY <1>0, <2>1, <2>4 DEF Reopen
    <2>5. CASE UNCHANGED vars
        BY <2>5 DEF ExactInv, vars
    <2>. QED  BY <2>2, <2>3, <2>4, <2>5 DEF Next
<1>3. ExactInv => FiveMinutes
    BY RemindIsFive DEF ExactInv, FiveMinutes, FirstMinutesOfMonth, IsFiveMinutesBefore
<1>. QED  BY <1>1, <1>2, <1>3, PTL DEF Spec

-----------------------------------------------------------------------------
(* The calendar.  The number of a day is made of the days before its year, *)
(* those before its month and those before it; addDays adds to it over the *)
(* end of a month and of a year.                                           *)

InCalendar == [year : 2026..2030, month : 1..12, day : 1..31]

(* The days on which the dialog is used.                                   *)
LEMMA TodaysInCalendar ==
    ASSUME NEW d \in Todays
    PROVE  /\ d \in InCalendar
           /\ d.year \in 2026..2030 /\ d.month \in 1..12 /\ d.day \in 1..31
           /\ d.year \in Int /\ d.month \in Int /\ d.day \in Int
<1>0. Todays \subseteq InCalendar
    BY VoiceTimeAssumption DEF InCalendar
<1>1. d \in InCalendar
    BY <1>0
<1>2. d.year \in 2026..2030 /\ d.month \in 1..12 /\ d.day \in 1..31
    BY <1>1 DEF InCalendar
<1>. QED  BY <1>1, <1>2

Leaps(y) == (2026..(y - 1)) \cap {k \in Int : LeapYear(k)}

Longs(y, m) == (1..(m - 1)) \cap {k \in Int : DaysIn(y, k) = 31}

ShortBy(y, m) == IF m > 2 THEN 30 - DaysIn(y, 2) ELSE 0

YearPart(y) == 365 * (y - 2026) + Cardinality(Leaps(y))

MonthPart(y, m) == 30 * (m - 1) + Cardinality(Longs(y, m)) - ShortBy(y, m)

(* Counting in an interval: none in an empty one, at most one more in one  *)
(* that is longer by one.                                                  *)
LEMMA CountNext ==
    ASSUME NEW a \in Int, NEW b \in Int, a <= b, NEW P
    PROVE  Cardinality((a..b) \cap P) =
              Cardinality((a..(b - 1)) \cap P) + (IF b \in P THEN 1 ELSE 0)
<1>. DEFINE S == (a..(b - 1)) \cap P
            T == (a..b) \cap P
            c == b - 1
<1>1. c \in Int /\ S \in SUBSET (a..c)
    OBVIOUS
<1>. HIDE DEF c
<1>2. IsFiniteSet(S) /\ Cardinality(S) \in Nat
    BY <1>1, FS_Interval, FS_Subset, FS_CardinalityType
<1>3. b \notin S /\ T = IF b \in P THEN S \cup {b} ELSE S
    OBVIOUS
<1>. HIDE DEF S, T
<1>4. b \in P => Cardinality(T) = Cardinality(S) + 1
    BY <1>2, <1>3, FS_AddElement
<1>5. b \notin P => Cardinality(T) = Cardinality(S) + 0
    BY <1>2, <1>3
<1>6. Cardinality(T) = Cardinality(S) + (IF b \in P THEN 1 ELSE 0)
    BY <1>4, <1>5
<1>. QED  BY <1>6 DEF S, T

LEMMA CountNone ==
    ASSUME NEW a \in Int, NEW P
    PROVE  Cardinality((a..(a - 1)) \cap P) = 0
<1>1. (a..(a - 1)) \cap P = {}
    OBVIOUS
<1>. QED  BY <1>1, FS_EmptySet

LEMMA LeapsAreInt ==
    ASSUME NEW y \in Int
    PROVE  Cardinality(Leaps(y)) \in Int
<1>. DEFINE first == 2026
            last == y - 1
            S == Leaps(y)
<1>1. first \in Int /\ last \in Int /\ S \in SUBSET (first..last)
    BY DEF Leaps
<1>. HIDE DEF first, last, S
<1>2. Cardinality(S) \in Int
    BY <1>1, PartOfInterval
<1>. QED  BY <1>2 DEF S

LEMMA LongsAreInt ==
    ASSUME NEW y, NEW m \in Int
    PROVE  Cardinality(Longs(y, m)) \in Int
<1>. DEFINE first == 1
            last == m - 1
            S == Longs(y, m)
<1>1. first \in Int /\ last \in Int /\ S \in SUBSET (first..last)
    BY DEF Longs
<1>. HIDE DEF first, last, S
<1>2. Cardinality(S) \in Int
    BY <1>1, PartOfInterval
<1>. QED  BY <1>2 DEF S

LEMMA PartsAreInt ==
    ASSUME NEW y \in Int, NEW m \in Int
    PROVE  YearPart(y) \in Int /\ MonthPart(y, m) \in Int
<1>1. ShortBy(y, m) \in Int
    BY DaysInIsInt DEF ShortBy
<1>2. Cardinality(Leaps(y)) \in Int
    BY LeapsAreInt
<1>3. Cardinality(Longs(y, m)) \in Int
    BY LongsAreInt
<1>. QED  BY <1>1, <1>2, <1>3 DEF YearPart, MonthPart

LEMMA DayNumberParts ==
    ASSUME NEW d, d.year \in Int, d.month \in Int, d.day \in Int
    PROVE  DayNumber(d) = YearPart(d.year) + MonthPart(d.year, d.month) + d.day - 1
<1>1. {y \in 2026..(d.year - 1) : LeapYear(y)} = Leaps(d.year)
    BY DEF Leaps
<1>2. {m \in 1..(d.month - 1) : DaysIn(d.year, m) = 31} = Longs(d.year, d.month)
    BY DEF Longs
<1>3. DayNumber(d) = 365 * (d.year - 2026) + Cardinality(Leaps(d.year)) + 30 * (d.month - 1)
                     + Cardinality(Longs(d.year, d.month)) - ShortBy(d.year, d.month) + d.day - 1
    BY <1>1, <1>2 DEF DayNumber, ShortBy
<1>. DEFINE leaps == Cardinality(Leaps(d.year))
            longs == Cardinality(Longs(d.year, d.month))
<1>4. ShortBy(d.year, d.month) \in Int
    BY DaysInIsInt DEF ShortBy
<1>5. leaps \in Int
    BY LeapsAreInt
<1>6. longs \in Int
    BY LongsAreInt
<1>7. /\ YearPart(d.year) = 365 * (d.year - 2026) + leaps
      /\ MonthPart(d.year, d.month) = 30 * (d.month - 1) + longs - ShortBy(d.year, d.month)
    BY DEF YearPart, MonthPart
<1>8. DayNumber(d) = 365 * (d.year - 2026) + leaps + 30 * (d.month - 1)
                     + longs - ShortBy(d.year, d.month) + d.day - 1
    BY <1>3
<1>. HIDE DEF leaps, longs
<1>. QED  BY <1>4, <1>5, <1>6, <1>7, <1>8

(* The next month begins DaysIn days later.                                *)
LEMMA NextMonth ==
    ASSUME NEW y \in Int, NEW m \in 1..11
    PROVE  MonthPart(y, m + 1) = MonthPart(y, m) + DaysIn(y, m)
<1>. DEFINE P == {k \in Int : DaysIn(y, k) = 31}
            longs == Cardinality((1..(m - 1)) \cap P)
            more == Cardinality((1..m) \cap P)
            feb == DaysIn(y, 2)
<1>1. more = longs + (IF m \in P THEN 1 ELSE 0)
    <2>. DEFINE one == 1
    <2>1. one \in Int /\ m \in Int /\ one <= m
        OBVIOUS
    <2>. HIDE DEF P
    <2>2. Cardinality((one..m) \cap P) =
             Cardinality((one..(m - 1)) \cap P) + (IF m \in P THEN 1 ELSE 0)
        <3>. HIDE DEF one
        <3>. QED  BY <2>1, CountNext
    <2>. QED  BY <2>2
<1>2. m \in P <=> DaysIn(y, m) = 31
    OBVIOUS
<1>3. (m + 1) - 1 = m /\ m \in Int
    OBVIOUS
<1>4. /\ MonthPart(y, m) = 30 * (m - 1) + longs - ShortBy(y, m)
      /\ MonthPart(y, m + 1) = 30 * m + more - ShortBy(y, m + 1)
    BY <1>3 DEF MonthPart, Longs
<1>5. /\ ShortBy(y, m) = IF m > 2 THEN 30 - feb ELSE 0
      /\ ShortBy(y, m + 1) = IF m + 1 > 2 THEN 30 - feb ELSE 0
    BY DEF ShortBy
<1>6. feb \in Int /\ feb # 31
    BY DaysInIsInt DEF DaysIn
<1>7. m # 2 => DaysIn(y, m) \in {30, 31}
    BY DEF DaysIn
<1>8. longs \in Int
    <2>1. longs = Cardinality(Longs(y, m))
        BY DEF Longs
    <2>2. Cardinality(Longs(y, m)) \in Int
        BY LongsAreInt
    <2>. QED  BY <2>1, <2>2
<1>. HIDE DEF longs, more
<1>9. CASE m = 2
    <2>1. DaysIn(y, m) = feb
        BY <1>9
    <2>. HIDE DEF P, feb
    <2>. QED  BY <1>1, <1>2, <1>4, <1>5, <1>6, <1>8, <1>9, <2>1
<1>10. CASE m # 2
    <2>1. ShortBy(y, m + 1) = ShortBy(y, m) /\ ShortBy(y, m) \in Int
        <3>. HIDE DEF feb
        <3>. QED  BY <1>5, <1>6, <1>10
    <2>. HIDE DEF P, feb
    <2>. QED  BY <1>1, <1>2, <1>4, <1>7, <1>8, <1>10, <2>1
<1>. QED  BY <1>9, <1>10

(* The eleven months before December have 330 days and one for each of the *)
(* six long ones, less what February lacks.                                *)
LEMMA DecemberPart ==
    ASSUME NEW y \in Int
    PROVE  MonthPart(y, 12) = 306 + DaysIn(y, 2) /\ MonthPart(y, 1) = 0
<1>1. MonthPart(y, 1) = 0
    <2>. DEFINE one == 1
                P == {k \in Int : DaysIn(y, k) = 31}
    <2>1. one \in Int
        OBVIOUS
    <2>2. Cardinality((one..(one - 1)) \cap P) = 0
        <3>. HIDE DEF one, P
        <3>. QED  BY <2>1, CountNone
    <2>3. Cardinality(Longs(y, 1)) = 0
        BY <2>2 DEF Longs
    <2>. QED  BY <2>3 DEF MonthPart, ShortBy
<1>2. \A m \in 1..11 : MonthPart(y, m + 1) = MonthPart(y, m) + DaysIn(y, m)
    BY NextMonth
<1>3. \A m \in 1..12 : MonthPart(y, m) \in Int
    BY PartsAreInt
<1>4. /\ MonthPart(y, 2) = MonthPart(y, 1) + DaysIn(y, 1)
      /\ MonthPart(y, 3) = MonthPart(y, 2) + DaysIn(y, 2)
      /\ MonthPart(y, 4) = MonthPart(y, 3) + DaysIn(y, 3)
      /\ MonthPart(y, 5) = MonthPart(y, 4) + DaysIn(y, 4)
      /\ MonthPart(y, 6) = MonthPart(y, 5) + DaysIn(y, 5)
      /\ MonthPart(y, 7) = MonthPart(y, 6) + DaysIn(y, 6)
      /\ MonthPart(y, 8) = MonthPart(y, 7) + DaysIn(y, 7)
      /\ MonthPart(y, 9) = MonthPart(y, 8) + DaysIn(y, 8)
      /\ MonthPart(y, 10) = MonthPart(y, 9) + DaysIn(y, 9)
      /\ MonthPart(y, 11) = MonthPart(y, 10) + DaysIn(y, 10)
      /\ MonthPart(y, 12) = MonthPart(y, 11) + DaysIn(y, 11)
    <2>1. \A m \in 1..11 : \A k \in 2..12 :
             k = m + 1 => MonthPart(y, k) = MonthPart(y, m) + DaysIn(y, m)
        BY <1>2
    <2>. QED  BY <2>1
<1>5. /\ DaysIn(y, 1) = 31 /\ DaysIn(y, 3) = 31 /\ DaysIn(y, 4) = 30 /\ DaysIn(y, 5) = 31
      /\ DaysIn(y, 6) = 30 /\ DaysIn(y, 7) = 31 /\ DaysIn(y, 8) = 31 /\ DaysIn(y, 9) = 30
      /\ DaysIn(y, 10) = 31 /\ DaysIn(y, 11) = 30
    BY DEF DaysIn
<1>6. DaysIn(y, 2) \in Int
    BY DaysInIsInt
<1>7. MonthPart(y, 12) = 306 + DaysIn(y, 2)
    BY <1>1, <1>3, <1>4, <1>5, <1>6
<1>. QED  BY <1>1, <1>7

(* The next year begins 31 days after the first of December.               *)
LEMMA NextYear ==
    ASSUME NEW y \in Int, y >= 2026
    PROVE  YearPart(y + 1) + MonthPart(y + 1, 1) = YearPart(y) + MonthPart(y, 12) + 31
<1>. DEFINE P == {k \in Int : LeapYear(k)}
            first == 2026
            leaps == Cardinality((first..(y - 1)) \cap P)
            more == Cardinality((first..y) \cap P)
<1>1. first \in Int /\ first <= y
    OBVIOUS
<1>2. more = leaps + (IF y \in P THEN 1 ELSE 0)
    <2>. HIDE DEF first, P
    <2>. QED  BY <1>1, CountNext
<1>3. leaps \in Int
    <2>1. leaps = Cardinality(Leaps(y))
        BY DEF Leaps
    <2>2. Cardinality(Leaps(y)) \in Int
        BY LeapsAreInt
    <2>. QED  BY <2>1, <2>2
<1>4. y \in P <=> LeapYear(y)
    OBVIOUS
<1>5. (y + 1) - 1 = y
    OBVIOUS
<1>6. /\ YearPart(y) = 365 * (y - 2026) + leaps
      /\ YearPart(y + 1) = 365 * ((y + 1) - 2026) + more
    BY <1>5 DEF YearPart, Leaps
<1>7. DaysIn(y, 2) = IF LeapYear(y) THEN 29 ELSE 28
    BY DEF DaysIn
<1>8. MonthPart(y, 12) = 306 + DaysIn(y, 2) /\ MonthPart(y + 1, 1) = 0
    <2>1. y + 1 \in Int
        OBVIOUS
    <2>. QED  BY <2>1, DecemberPart
<1>. HIDE DEF P, leaps, more, first
<1>9. CASE LeapYear(y)
    BY <1>2, <1>3, <1>4, <1>6, <1>7, <1>8, <1>9
<1>10. CASE ~LeapYear(y)
    BY <1>2, <1>3, <1>4, <1>6, <1>7, <1>8, <1>10
<1>. QED  BY <1>9, <1>10

(* Within a week addDays adds to the number of the day, and gives a month  *)
(* and a day that the spin boxes hold.                                     *)
LEMMA AddDaysNumber ==
    ASSUME NEW d \in InCalendar, NEW n \in 0..7
    PROVE  /\ DayNumber(AddDays(d, n)) = DayNumber(d) + n
           /\ DayNumber(d) \in Int
           /\ AddDays(d, n) \in Date
           /\ AddDays(d, n).month \in 1..12
           /\ AddDays(d, n).day \in 1..31
<1>. DEFINE room == DaysIn(d.year, d.month)
            e == AddDays(d, n)
            y == YearPart(d.year)
            m == MonthPart(d.year, d.month)
<1>1. /\ d \in Date /\ d.year \in Int /\ d.month \in Int /\ d.day \in Int
      /\ d.year >= 2026 /\ d.month \in 1..12 /\ d.day \in 1..31
    BY DEF InCalendar, Date
<1>2. room \in 28..31
    BY DEF DaysIn
<1>3. /\ e \in Date
      /\ d.day + n <= room => e.year = d.year /\ e.month = d.month /\ e.day = d.day + n
      /\ ~(d.day + n <= room) /\ d.month < 12 =>
            e.year = d.year /\ e.month = d.month + 1 /\ e.day = d.day + n - room
      /\ ~(d.day + n <= room) /\ ~(d.month < 12) =>
            e.year = d.year + 1 /\ e.month = 1 /\ e.day = d.day + n - room
    <2>1. n \in Int
        OBVIOUS
    <2>2. d \in Date
        BY <1>1
    <2>. QED  BY <2>1, <2>2, AddDaysIsDate, Zenon
<1>4. /\ y \in Int /\ m \in Int
      /\ YearPart(d.year + 1) \in Int /\ MonthPart(d.year + 1, 1) \in Int
    <2>. DEFINE a == d.year
                b == d.month
                c == d.year + 1
                one == 1
    <2>1. a \in Int /\ b \in Int /\ c \in Int /\ one \in Int
        BY <1>1
    <2>2. /\ YearPart(a) \in Int /\ MonthPart(a, b) \in Int
          /\ YearPart(c) \in Int /\ MonthPart(c, one) \in Int
        <3>. HIDE DEF a, b, c, one
        <3>. QED  BY <2>1, PartsAreInt
    <2>. QED  BY <2>2
<1>5. DayNumber(d) = y + m + d.day - 1
    BY <1>1, DayNumberParts
<1>6. DayNumber(e) = YearPart(e.year) + MonthPart(e.year, e.month) + e.day - 1
    BY <1>3, DayNumberParts DEF Date
<1>7. DayNumber(d) \in Int
    BY <1>1, <1>4, <1>5
<1>8. CASE d.day + n <= room
    <2>1. e.year = d.year /\ e.month = d.month /\ e.day = d.day + n
        BY <1>3, <1>8
    <2>2. DayNumber(e) = y + m + (d.day + n) - 1
        BY <1>6, <2>1
    <2>. HIDE DEF room, e, y, m
    <2>3. DayNumber(e) = DayNumber(d) + n
        BY <1>1, <1>4, <1>5, <2>2
    <2>4. e.month \in 1..12 /\ e.day \in 1..31
        BY <1>1, <1>2, <1>8, <2>1
    <2>. QED  BY <1>3, <1>7, <2>3, <2>4 DEF e
<1>9. CASE ~(d.day + n <= room) /\ d.month < 12
    <2>1. e.year = d.year /\ e.month = d.month + 1 /\ e.day = d.day + n - room
        BY <1>3, <1>9
    <2>2. MonthPart(d.year, d.month + 1) = m + room
        <3>1. d.month \in 1..11
            BY <1>1, <1>9
        <3>. QED  BY <1>1, <3>1, NextMonth
    <2>3. DayNumber(e) = y + (m + room) + (d.day + n - room) - 1
        BY <1>6, <2>1, <2>2
    <2>. HIDE DEF room, e, y, m
    <2>4. DayNumber(e) = DayNumber(d) + n
        BY <1>1, <1>2, <1>4, <1>5, <2>3
    <2>5. e.month \in 1..12 /\ e.day \in 1..31
        BY <1>1, <1>2, <1>9, <2>1
    <2>. QED  BY <1>3, <1>7, <2>4, <2>5 DEF e
<1>10. CASE ~(d.day + n <= room) /\ ~(d.month < 12)
    <2>1. e.year = d.year + 1 /\ e.month = 1 /\ e.day = d.day + n - room
        BY <1>3, <1>10
    <2>2. d.month = 12 /\ room = 31
        BY <1>1, <1>10 DEF DaysIn
    <2>3. YearPart(d.year + 1) + MonthPart(d.year + 1, 1) = y + m + 31
        BY <1>1, <2>2, NextYear
    <2>. HIDE DEF room, e, y, m
    <2>4. DayNumber(e) = y + m + 31 + (d.day + n - room) - 1
        BY <1>1, <1>2, <1>4, <1>6, <2>1, <2>3
    <2>5. DayNumber(e) = DayNumber(d) + n
        BY <1>1, <1>4, <1>5, <2>2, <2>4
    <2>6. e.month \in 1..12 /\ e.day \in 1..31
        BY <1>1, <1>2, <1>10, <2>1
    <2>. QED  BY <1>3, <1>7, <2>5, <2>6 DEF e
<1>. QED  BY <1>8, <1>9, <1>10

-----------------------------------------------------------------------------
(* The day that is heard.                                                  *)

(* Seven days in a row have seven names: of those ahead, one has the name  *)
(* that was said, and it is the one the code takes.                        *)
LEMMA DaysAheadIsMeant ==
    ASSUME NEW d \in InCalendar, NEW dow \in 1..7
    PROVE  /\ DaysAhead(dow, d) \in 1..7
           /\ (CHOOSE n \in 1..7 : DayOfWeek(AddDays(d, n)) = dow) = DaysAhead(dow, d)
<1>. DEFINE num == DayNumber(d)
            a == DaysAhead(dow, d)
<1>1. num \in Int
    <2>1. 0 \in 0..7
        OBVIOUS
    <2>. QED  BY <2>1, AddDaysNumber
<1>2. \A n \in 1..7 : DayOfWeek(AddDays(d, n)) = ((num + n + 3) % 7) + 1
    BY AddDaysNumber DEF DayOfWeek
<1>3. DayOfWeek(d) = ((num + 3) % 7) + 1
    BY DEF DayOfWeek
<1>. HIDE DEF num
<1>4. a \in 1..7 /\ ((num + a + 3) % 7) + 1 = dow
    BY <1>1, <1>3 DEF DaysAhead
<1>5. \A n \in 1..7 : ((num + n + 3) % 7) + 1 = dow => n = a
    BY <1>1, <1>3 DEF DaysAhead
<1>. HIDE DEF a
<1>6. \A n \in 1..7 : DayOfWeek(AddDays(d, n)) = dow <=> n = a
    BY <1>2, <1>4, <1>5
<1>7. (CHOOSE n \in 1..7 : DayOfWeek(AddDays(d, n)) = dow) = a
    BY <1>4, <1>6
<1>. QED  BY <1>4, <1>7 DEF a

(* For a day of next week whose name is already gone this week, or is      *)
(* today's, the next day of that name is the one meant.                    *)
LEMMA HeardDayIsMeant ==
    ASSUME today \in Todays, NEW s \in Sentences,
           NamesOneDay(s), ~Misheard(s)
    PROVE  /\ DaysOff(s) \in 0..7
           /\ \/ HeardDay(s, today) = AddDays(today, DaysOff(s))
              \/ HeardDay(s, today) = today /\ DaysOff(s) = 0
<1>1. today \in InCalendar
    BY TodaysInCalendar
<1>2. /\ s.weekday \in {NoDay} \cup 1..7 /\ s.week \in {"zhou", "xiazhou"}
      /\ HeardWeekday(s) = s.weekday
    BY VoiceTimeAssumption DEF WeekForms, NextWeek, Misheard, HeardWeekday
<1>3. CASE s.weekday = NoDay
    <2>1. /\ Contains(s, "tomorrow") <=> "tomorrow" \in s.words
          /\ Contains(s, "in2days") <=> "in2days" \in s.words
          /\ ~Contains(s, "in3days")
        BY DEF Contains, Misheard
    <2>2. HeardDay(s, today) = RelativeDay(s, today)
        BY <1>2, <1>3 DEF HeardDay
    <2>3. "in3days" \notin s.words
        BY DEF Misheard
    <2>4. DaysOff(s) = IF "tomorrow" \in s.words THEN 1
                       ELSE IF "in2days" \in s.words THEN 2 ELSE 0
        BY <1>3, <2>3 DEF DaysOff
    <2>5. RelativeDay(s, today) = IF "tomorrow" \in s.words THEN AddDays(today, 1)
                                  ELSE IF "in2days" \in s.words THEN AddDays(today, 2)
                                  ELSE today
        BY <2>1 DEF RelativeDay
    <2>. QED  BY <2>2, <2>4, <2>5
<1>4. CASE s.weekday # NoDay
    <2>1. s.weekday \in 1..7
        BY <1>2, <1>4
    <2>2. /\ DaysAhead(s.weekday, today) \in 1..7
          /\ (CHOOSE n \in 1..7 : DayOfWeek(AddDays(today, n)) = s.weekday)
                = DaysAhead(s.weekday, today)
        BY <1>1, <2>1, DaysAheadIsMeant
    <2>3. HeardDay(s, today) = AddDays(today, DaysAhead(s.weekday, today))
        BY <1>2, <1>4 DEF HeardDay
    <2>4. CASE s.week \notin NextWeek
        <3>1. DaysOff(s) = DaysAhead(s.weekday, today)
            BY <1>4, <2>2, <2>4 DEF DaysOff, WeekdayOff
        <3>. QED  BY <2>2, <2>3, <3>1
    <2>5. CASE s.week \in NextWeek
        <3>1. DayOfWeek(today) \in Int
            <4>1. today \in Date
                BY <1>1 DEF InCalendar, Date
            <4>. QED  BY <4>1, DayOfWeekIsInt
        <3>2. s.weekday <= DayOfWeek(today)
            <4>1. s.week = "xiazhou"
                BY <1>2, <2>5 DEF NextWeek
            <4>. QED  BY <2>1, <3>1, <4>1 DEF Misheard
        <3>3. DaysOff(s) = s.weekday + 7 - DayOfWeek(today)
            BY <1>4, <2>5 DEF DaysOff, WeekdayOff
        <3>4. DaysOff(s) = DaysAhead(s.weekday, today)
            BY <2>1, <3>1, <3>2, <3>3 DEF DaysAhead
        <3>. QED  BY <2>2, <2>3, <3>4
    <2>. QED  BY <2>4, <2>5
<1>. QED  BY <1>3, <1>4

LEMMA ExtractIsMeant ==
    ASSUME today \in Todays, NEW s \in Sentences, NEW minute \in Minutes,
           start = ExtractDateTime(s, minute, today),
           NamesOneDay(s), ~Misheard(s)
    PROVE  DayNumber(start) = DayNumber(today) + DaysOff(s)
<1>. DEFINE e == HeardDay(s, today)
<1>1. today \in InCalendar
    BY TodaysInCalendar
<1>2. DaysOff(s) \in 0..7
    BY HeardDayIsMeant
<1>3. /\ DayNumber(e) = DayNumber(today) + DaysOff(s)
      /\ e.year = today.year /\ e.month \in 1..12 /\ e.day \in 1..31
    <2>1. CASE e = AddDays(today, DaysOff(s))
        BY <1>1, <1>2, <2>1, AddDaysNumber DEF Misheard
    <2>2. CASE e = today /\ DaysOff(s) = 0
        <3>1. DayNumber(today) \in Int
            BY <1>1, <1>2, AddDaysNumber
        <3>. QED  BY <1>1, <2>2, <3>1 DEF InCalendar
    <2>. QED  BY <2>1, <2>2, HeardDayIsMeant
<1>. HIDE DEF e
<1>4. today.year \in 2026..2030
    BY TodaysInCalendar
<1>5. start.year = e.year /\ start.month = e.month /\ start.day = e.day
    BY <1>3, <1>4 DEF ExtractDateTime, SpinBoxes, Bound, e
<1>6. DayNumber(start) = DayNumber(e)
    <2>1. e.year \in Int /\ e.month \in Int /\ e.day \in Int
        BY <1>3, <1>4
    <2>. QED  BY <1>5, <2>1, DayNumberParts
<1>. QED  BY <1>3, <1>6

HeardInv ==
    /\ today \in Todays
    /\ sentence # Quiet =>
          /\ sentence \in Sentences
          /\ \E minute \in Minutes : start = ExtractDateTime(sentence, minute, today)

(* Every sentence that names a day is given that day, over the end of a    *)
(* month and in leap years, whatever the day of the week is today          *)
(* (extractDateTime); the exceptions are those Misheard names, among them  *)
(* a day of next week whose name this week has still ahead.                *)
THEOREM DayAlwaysHeard == Spec => []DateHeard
<1>1. Init => HeardInv
    BY DEF Init, HeardInv
<1>2. HeardInv /\ [Next]_vars => HeardInv'
    <2>. SUFFICES ASSUME HeardInv, [Next]_vars
                  PROVE  HeardInv'
        OBVIOUS
    <2>1. ASSUME NEW s \in Sentences, NEW minute \in Minutes, Say(s, minute)
          PROVE  HeardInv'
        BY <2>1 DEF Say, Show, HeardInv
    <2>2. CASE (\E t \in Corrections : Correct(t)) \/ Reopen
        BY <2>2 DEF Correct, Reopen, Show, HeardInv
    <2>3. CASE UNCHANGED vars
        BY <2>3 DEF HeardInv, vars
    <2>. QED  BY <2>1, <2>2, <2>3 DEF Next
<1>3. HeardInv => DateHeard
    <2>. SUFFICES ASSUME HeardInv, sentence # Quiet,
                         NamesOneDay(sentence), ~Misheard(sentence)
                  PROVE  DayMeant
        BY DEF DateHeard
    <2>1. /\ today \in Todays /\ sentence \in Sentences
          /\ \E minute \in Minutes : start = ExtractDateTime(sentence, minute, today)
        BY DEF HeardInv
    <2>. QED  BY <2>1, ExtractIsMeant DEF DayMeant
<1>. QED  BY <1>1, <1>2, <1>3, PTL DEF Spec

-----------------------------------------------------------------------------
(* The task dialog has the same ranges.  When it is opened on a voice task *)
(* it shows the reminder as it is, or, where that is on day 0, the first   *)
(* of the month just before midnight, which is after the start: the        *)
(* assumption of MainWindow.tla about FiveBefore.                          *)
THEOREM ShownReminder ==
    ASSUME NEW t \in Clock, SpinBoxes(t) = t
    PROVE  \/ SpinBoxes(Remind(t)) = Remind(t)
           \/ Before(t, SpinBoxes(Remind(t)))
<1>1. /\ t.year \in 2026..2030 /\ t.month \in 1..12 /\ t.day \in 1..31
      /\ t.hour \in 0..23 /\ t.minute \in 0..59
    <2>1. /\ SpinBoxes(t).year \in 2026..2030 /\ SpinBoxes(t).month \in 1..12
          /\ SpinBoxes(t).day \in 1..31 /\ SpinBoxes(t).hour \in 0..23
          /\ SpinBoxes(t).minute \in 0..59
        BY DEF SpinBoxes, Bound, Clock
    <2>. QED  BY <2>1
<1>2. CASE t.minute >= 5
    <2>1. Remind(t) = [year |-> t.year, month |-> t.month, day |-> t.day, hour |-> t.hour,
                       minute |-> t.minute - 5]
        BY <1>2 DEF Remind, Clock
    <2>. QED  BY <1>1, <1>2, <2>1 DEF SpinBoxes, Bound
<1>3. CASE ~(t.minute >= 5) /\ t.hour > 0
    <2>1. Remind(t) = [year |-> t.year, month |-> t.month, day |-> t.day, hour |-> t.hour - 1,
                       minute |-> t.minute + 55]
        BY <1>3 DEF Remind, Clock
    <2>. QED  BY <1>1, <1>3, <2>1 DEF SpinBoxes, Bound
<1>4. CASE ~(t.minute >= 5) /\ ~(t.hour > 0)
    <2>1. Remind(t) = [year |-> t.year, month |-> t.month, day |-> t.day - 1, hour |-> 23,
                       minute |-> t.minute + 55]
        BY <1>4 DEF Remind, Clock
    <2>2. CASE t.day > 1
        BY <1>1, <1>4, <2>1, <2>2 DEF SpinBoxes, Bound
    <2>3. CASE t.day = 1
        <3>1. /\ SpinBoxes(Remind(t)).year = t.year /\ SpinBoxes(Remind(t)).month = t.month
              /\ SpinBoxes(Remind(t)).day = 1 /\ SpinBoxes(Remind(t)).hour = 23
            BY <1>1, <1>4, <2>1, <2>3 DEF SpinBoxes, Bound
        <3>. QED  BY <1>1, <1>4, <2>3, <3>1 DEF Before
    <2>. QED  BY <1>1, <2>2, <2>3
<1>. QED  BY <1>1, <1>2, <1>3, <1>4
=============================================================================
