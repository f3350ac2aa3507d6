------------------------------ MODULE VoiceTime ------------------------------
(***************************************************************************)
(* How the voice dialog makes times (voiceinputdialog.cpp): the date and   *)
(* the hour that extractDateTime hears in a sentence when the service does *)
(* not answer, the five spin boxes they go through, and the reminder that  *)
(* getTask puts five minutes before the start.                             *)
(*                                                                         *)
(* A sentence is a set of words, the first day of the week among those     *)
(* named and how it is said, and the digits of an hour.  The year is       *)
(* always this year's: extractDateTime takes month and day from the day it *)
(* finds, and not the year.                                                *)
(***************************************************************************)
EXTENDS Integers, FiniteSets

CONSTANTS
    Todays,     \* the dates on which the dialog is used
    Sentences,  \* records of words, day of the week, its form and hour
    Minutes,    \* the minutes said after an hour
    Corrections \* times the user, or the service, puts into the spin boxes

Relative == {"today", "tomorrow", "in2days", "in3days"}
DayParts == {"morning", "noon", "afternoon", "evening"}
NoDay == 0
NoHour == -1

(* A day of the week is zhou or xingqi (or libai) and a number; with xia   *)
(* before it, it is one of next week.  "zhou" is also the form of a        *)
(* sentence that says nothing of a week.                                   *)
NextWeek == {"xiazhou", "xiaxingqi"}
WeekForms == {"zhou", "xingqi"} \cup NextWeek

ASSUME VoiceTimeAssumption ==
    /\ Todays \subseteq [year : 2026..2030, month : 1..12, day : 1..31]
    /\ \A s \in Sentences :
          /\ s.words \subseteq Relative \cup DayParts
          /\ s.weekday \in {NoDay} \cup 1..7
          /\ s.week \in WeekForms
          /\ s.hour \in {NoHour} \cup 0..99
    /\ Minutes \subseteq 0..99
    /\ Corrections \subseteq [year : 2026..2030, month : 1..12, day : 1..31,
                              hour : 0..23, minute : 0..59]

-----------------------------------------------------------------------------
(* QDate.                                                                  *)

LeapYear(y) == y % 4 = 0 /\ (y % 100 # 0 \/ y % 400 = 0)

DaysIn(y, m) ==
    CASE m \in {4, 6, 9, 11} -> 30
      [] m = 2 -> IF LeapYear(y) THEN 29 ELSE 28
      [] OTHER -> 31

Valid(d) == d.month \in 1..12 /\ d.day \in 1..DaysIn(d.year, d.month)

(* addDays, for fewer days than the next month has.                        *)
AddDays(d, n) ==
    LET room == DaysIn(d.year, d.month) IN
    IF d.day + n <= room THEN [d EXCEPT !.day = @ + n]
    ELSE IF d.month < 12 THEN [d EXCEPT !.month = @ + 1, !.day = d.day + n - room]
    ELSE [year |-> d.year + 1, month |-> 1, day |-> d.day + n - room]

(* Days from the first of January 2026, a Thursday, counted by months.     *)
DayNumber(d) ==
    LET leaps == Cardinality({y \in 2026..(d.year - 1) : LeapYear(y)})
        long  == Cardinality({m \in 1..(d.month - 1) : DaysIn(d.year, m) = 31})
        short == IF d.month > 2 THEN 30 - DaysIn(d.year, 2) ELSE 0
    IN  365 * (d.year - 2026) + leaps + 30 * (d.month - 1) + long - short + d.day - 1

DayOfWeek(d) == ((DayNumber(d) + 3) % 7) + 1

-----------------------------------------------------------------------------
(* extractDateTime.                                                        *)

(* The words for 2 days are part of the word for 3 days, so that the text  *)
(* contains both and the test for 3 days is never reached.                 *)
Contains(s, word) ==
    word \in s.words \/ (word = "in2days" /\ "in3days" \in s.words)

RelativeDay(s, today) ==
    IF Contains(s, "tomorrow") THEN AddDays(today, 1)
    ELSE IF Contains(s, "in2days") THEN AddDays(today, 2)
    ELSE IF Contains(s, "in3days") THEN AddDays(today, 3)
    ELSE today

(* The next day of that name, in a week if it is today.  Mutant: the days  *)
(* already gone this week are not moved to the next one.                   *)
AheadThisWeek(dow, today) == dow - DayOfWeek(today)

DaysAhead(dow, today) ==
    LET n == dow - DayOfWeek(today) IN IF n <= 0 THEN n + 7 ELSE n

(* Of the four forms the text is searched for zhou and a number only, with *)
(* or without a xia before it.                                             *)
HeardWeekday(s) == IF s.week \in {"zhou", "xiazhou"} THEN s.weekday ELSE NoDay

(* A day of the week outweighs a relative day.                             *)
HeardDay(s, today) ==
    IF HeardWeekday(s) = NoDay THEN RelativeDay(s, today)
    ELSE AddDays(today, DaysAhead(HeardWeekday(s), today))

(* An hour in digits is moved by the part of the day; without one, the     *)
(* part of the day has an hour of its own.                                 *)
HeardHour(s) ==
    CASE s.hour # NoHour /\ s.words \cap {"afternoon", "evening"} # {} ->
            IF s.hour \in 1..11 THEN s.hour + 12 ELSE s.hour
      [] s.hour # NoHour /\ s.words \cap {"afternoon", "evening"} = {} ->
            IF "noon" \in s.words /\ s.hour \in 1..2 THEN s.hour + 12 ELSE s.hour
      [] s.hour = NoHour /\ "morning" \in s.words -> 9
      [] s.hour = NoHour /\ "morning" \notin s.words /\ "afternoon" \in s.words -> 15
      [] s.hour = NoHour /\ s.words \cap {"morning", "afternoon"} = {}
            /\ "evening" \in s.words -> 20
      [] s.hour = NoHour /\ s.words \cap DayParts = {"noon"} -> 12
      [] OTHER -> 9

HeardMinute(s, minute) == IF s.hour = NoHour THEN 0 ELSE minute

Bound(low, n, high) == IF n < low THEN low ELSE IF n > high THEN high ELSE n

(* What the ranges of the spin boxes, here and in the task dialog, make of *)
(* a time; qBound does the same at the end of extractDateTime.             *)
SpinBoxes(t) ==
    [year   |-> Bound(2026, t.year, 2030),
     month  |-> Bound(1, t.month, 12),
     day    |-> Bound(1, t.day, 31),
     hour   |-> Bound(0, t.hour, 23),
     minute |-> Bound(0, t.minute, 59)]

ExtractDateTime(s, minute, today) ==
    SpinBoxes([year |-> today.year,
               month |-> HeardDay(s, today).month, day |-> HeardDay(s, today).day,
               hour |-> HeardHour(s), minute |-> HeardMinute(s, minute)])

-----------------------------------------------------------------------------
(* getTask: five minutes earlier.  Mutants: the hour is left as it is; the *)
(* hour before midnight is not put back to 23.                             *)
RemindWithoutBorrow(t) == [t EXCEPT !.minute = (@ + 55) % 60]

RemindKeepsHour(t) ==
    IF t.minute >= 5 THEN [t EXCEPT !.minute = @ - 5]
    ELSE IF t.hour > 0 THEN [t EXCEPT !.minute = @ + 55, !.hour = @ - 1]
    ELSE [t EXCEPT !.minute = @ + 55, !.day = @ - 1]

Remind(t) ==
    IF t.minute >= 5 THEN [t EXCEPT !.minute = @ - 5]
    ELSE IF t.hour > 0 THEN [t EXCEPT !.minute = @ + 55, !.hour = @ - 1]
    ELSE [t EXCEPT !.minute = @ + 55, !.hour = 23, !.day = @ - 1]

(* Time::operator<.                                                        *)
Before(s, t) ==
    \/ s.year < t.year
    \/ s.year = t.year /\ s.month < t.month
    \/ s.year = t.year /\ s.month = t.month /\ s.day < t.day
    \/ s.year = t.year /\ s.month = t.month /\ s.day = t.day /\ s.hour < t.hour
    \/ s.year = t.year /\ s.month = t.month /\ s.day = t.day /\ s.hour = t.hour
       /\ s.minute < t.minute

-----------------------------------------------------------------------------
VARIABLES
    today,     \* QDate::currentDate()
    sentence,  \* the text that was recognised
    start,     \* the start time in the spin boxes
    remind     \* the reminder of the task

vars == <<today, sentence, start, remind>>

Nothing == [year |-> 2026, month |-> 1, day |-> 1, hour |-> 9, minute |-> 0]

Quiet == [words |-> {}, weekday |-> NoDay, week |-> "zhou", hour |-> NoHour]

Init ==
    /\ today \in Todays
    /\ sentence = Quiet
    /\ start = Nothing
    /\ remind = Remind(Nothing)

(* The dialog opens with the hour at 9 and hears a sentence, or a field is *)
(* set; every time it opens it starts anew.                                *)
Show(s, t) ==
    /\ sentence' = s
    /\ start' = t
    /\ remind' = Remind(t)
    /\ UNCHANGED today

Say(s, minute) == start = Nothing /\ Show(s, ExtractDateTime(s, minute, today))

Correct(t) == start = Nothing /\ Show(Quiet, t)

Reopen == start # Nothing /\ Show(Quiet, Nothing)

Next ==
    \/ \E s \in Sentences, minute \in Minutes : Say(s, minute)
    \/ \E t \in Corrections : Correct(t)
    \/ Reopen

Spec == Init /\ [][Next]_vars

-----------------------------------------------------------------------------
MinuteNumber(t) == 1440 * DayNumber(t) + 60 * t.hour + t.minute

(* A task from the voice dialog is never refused for its reminder, which   *)
(* precedes its start in the order of Time also where the day becomes 0:   *)
(* the voice dialog does not call validateInput, which checks it.          *)
RemindFirst == Before(remind, start)

IsFiveMinutesBefore ==
    Valid(remind) /\ MinuteNumber(start) - MinuteNumber(remind) = 5

FirstMinutesOfMonth == start.day = 1 /\ start.hour = 0 /\ start.minute < 5

(* Except where the start is in the first minutes of a month, the reminder *)
(* is a time of the calendar and comes exactly five minutes earlier.       *)
FiveMinutes == Valid(start) /\ ~FirstMinutesOfMonth => IsFiveMinutesBefore

(* A day of the week or a relative day, or neither, which means today.     *)
NamesOneDay(s) ==
    \/ s.weekday # NoDay /\ s.words \cap Relative = {}
    \/ s.weekday = NoDay /\ s.week \notin NextWeek
       /\ \E day \in Relative : s.words \cap Relative \subseteq {day}

(* How many days ahead the day is that the speaker names: of next week,    *)
(* which begins on Monday, or the next day with that name, or a relative   *)
(* day.                                                                    *)
WeekdayOff(s) ==
    IF s.week \in NextWeek THEN s.weekday + 7 - DayOfWeek(today)
    ELSE CHOOSE n \in 1..7 : DayOfWeek(AddDays(today, n)) = s.weekday

DaysOff(s) ==
    IF s.weekday # NoDay THEN WeekdayOff(s)
    ELSE IF "tomorrow" \in s.words THEN 1
    ELSE IF "in2days" \in s.words THEN 2
    ELSE IF "in3days" \in s.words THEN 3
    ELSE 0

DayMeant == DayNumber(start) = DayNumber(today) + DaysOff(sentence)

(* What extractDateTime does not hear as it is meant: the word for 3 days, *)
(* a day called xingqi, a day of next week whose name this week has still  *)
(* ahead, and a day of the next year.                                      *)
Misheard(s) ==
    \/ "in3days" \in s.words
    \/ s.week \in {"xingqi", "xiaxingqi"}
    \/ s.week = "xiazhou" /\ s.weekday > DayOfWeek(today)
    \/ AddDays(today, DaysOff(s)).year # today.year

(* extractDateTime finds the day that a sentence names, over the end of a  *)
(* month and in leap years, this week's or the next one's, except where    *)
(* Misheard says: the Wednesday of next week (xiazhou san, the example of  *)
(* deepseekclient.h 5), said on a Monday, is taken for this week's.        *)
DateHeard ==
    sentence # Quiet /\ NamesOneDay(sentence) /\ ~Misheard(sentence) => DayMeant
=============================================================================
