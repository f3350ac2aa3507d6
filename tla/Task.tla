-------------------------------- MODULE Task --------------------------------
(***************************************************************************)
(* The pure part of the schedule: struct Time and class Task of task.h and *)
(* task.cpp, the line format of tasks.txt, and the std::sort that          *)
(* taskmanager.cpp applies to the task list.                               *)
(*                                                                         *)
(* A Time is a number: its rank in the order of Time::operator<.  A name   *)
(* is the sequence of its pieces between '|' characters, so a name without *)
(* a bar has one piece.  A line of tasks.txt is the sequence of its        *)
(* '|'-separated fields, where the five integers of a Time travel as one   *)
(* field and the two enum fields, which no property looks at, are left     *)
(* out: the 14 fields of task.cpp become the FieldCount fields below.      *)
(***************************************************************************)
EXTENDS Naturals, Sequences, FiniteSets, Functions

CONSTANTS
    Pieces,         \* what stands between two '|' of a task's name
    Names,          \* the names typed by the user, nonempty sequences of pieces
    Times,          \* the values of struct Time, ranked by operator<
    CalendarTimes,  \* those whose year, month and day form a real date
    Misread         \* what a torn line can have in the place of the two times

ASSUME NamesAssumption == Names \subseteq Seq(Pieces) \ {<<>>}

ASSUME TimesAssumption == /\ Times \subseteq Nat \ {0}
                          /\ CalendarTimes \subseteq Times

ASSUME MisreadAssumption ==
    Misread \in [Names \X Times \X Times -> SUBSET ((Times \cup Pieces) \X (Times \cup Pieces))]

(* A name that was read from a torn line is a piece of a name.             *)
TaskNames == Names \cup {<<p>> : p \in Pieces}

Tasks == [id : Nat, name : TaskNames, start : Times, remind : Times]

FieldCount == 4

Fields == Nat \cup Pieces

Serialize(t) == <<t.id>> \o t.name \o <<t.start, t.remind>>

(* deserialize() accepts a line exactly when it has the right number of    *)
(* fields, and then reads them by position.                                *)
Parses(line) == Len(line) = FieldCount

(* stoi throws where a field of a time holds no number.                    *)
Throws(line) == Parses(line) /\ ~({line[3], line[4]} \subseteq Times)

Deserialize(line) ==
    [id |-> line[1], name |-> <<line[2]>>, start |-> line[3], remind |-> line[4]]

(* What a crash or a full disk can leave of a line, where deserialize()    *)
(* finds the right number of fields in it.  A line of a name without a bar *)
(* is never such (TornLineHarmless in TaskLine.tla); a name with bars has  *)
(* fields to spare, so that its pieces and the times after them are read   *)
(* one or more places too early: as other times, or as words.              *)
Torn(t) ==
    IF Len(t.name) = 1 THEN {}
    ELSE {<<t.id, t.name[1], m[1], m[2]>> : m \in Misread[<<t.name, t.start, t.remind>>]}

(* The tasks nobody entered that can be read in the place of t.            *)
Misreadings(t) == {Deserialize(line) : line \in {x \in Torn(t) : ~Throws(x)}}

(* The instant a Time denotes for QDateTime.  The spin boxes and the voice *)
(* dialog can produce a day that its month does not have; the QDateTime    *)
(* built from it is invalid and compares as the epoch.                     *)
Epoch == 0

Instant(time) == IF time \in CalendarTimes THEN time ELSE Epoch

Ids(s) == {s[i].id : i \in DOMAIN s}

SortedByStart(s) == \A i, j \in DOMAIN s : i < j => s[i].start <= s[j].start

(* The lists std::sort can leave when it is given the tasks in the range   *)
(* of f: the order of equal start times is not specified.                  *)
Sortings(f) ==
    {s \in {[i \in 1..Cardinality(DOMAIN f) |-> f[p[i]]] :
                p \in Bijection(1..Cardinality(DOMAIN f), DOMAIN f)} :
        SortedByStart(s)}
=============================================================================
