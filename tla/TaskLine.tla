------------------------------ MODULE TaskLine ------------------------------
(***************************************************************************)
(* One line of tasks.txt with all its fields: Task::serialize writes it,   *)
(* the disk keeps all of it or, if it fills up or the machine goes down,   *)
(* the part up to some character, and the next start of the program gives  *)
(* what is there to Task::deserialize (task.cpp).                          *)
(*                                                                         *)
(* A field is <<n>> for a number n, <<w>> for a word w, which is what stoi *)
(* refuses, or Blank.  A name is the sequence of its fields between '|'    *)
(* characters, so that a name without a bar has one.  TaskManager.tla      *)
(* counts fields and leaves what they hold to this module.                 *)
(***************************************************************************)
EXTENDS Naturals, Sequences

CONSTANTS
    Words,    \* fields that do not begin with a number, or with one too large
    Numbers,  \* the values of the number fields, and numbers in names
    Names,    \* what the user typed: nonempty sequences of fields
    Moments   \* the five numbers of a struct Time

Blank == <<>>

IsNumber(field) == field \in {<<n>> : n \in Numbers}

Fields == {Blank} \cup {<<x>> : x \in Words \cup Numbers}

ASSUME LineAssumption ==
    /\ Words \cap Numbers = {}
    /\ 0..2 \subseteq Numbers
    /\ Numbers \subseteq 0..9999
    /\ \A n \in Numbers : n >= 10 => n \div 10 \in Numbers
    /\ Names \subseteq Seq(Fields) \ {<<>>}
    /\ Moments \subseteq [1..5 -> Numbers]

Tasks == [id : Numbers, name : Names, start : Moments, remind : Moments, enums : [1..2 -> 0..2]]

VARIABLES
    task,    \* the task that was saved
    line,    \* the fields of its line in the file, <<>> before the save
    loaded   \* what deserialize made of the line

vars == <<task, line, loaded>>

Pending == [outcome |-> "pending"]
Dropped == [outcome |-> "dropped"]
Throws == [outcome |-> "throws"]
Loaded(t) == [outcome |-> "loaded", task |-> t]

-----------------------------------------------------------------------------
AsFields(numbers) == [i \in DOMAIN numbers |-> <<numbers[i]>>]

Serialize(t) ==
    <<<<t.id>>>> \o t.name
        \o AsFields(t.start) \o AsFields(t.remind) \o AsFields(t.enums)

(* What can be left of a field that is cut inside: nothing, fewer digits,  *)
(* the beginning of the word.                                              *)
Shorter(field) ==
    {Blank} \cup IF IsNumber(field) THEN {<<Head(field) \div d>> : d \in {e \in {10, 100, 1000} : e <= Head(field)}}
                 ELSE {field}

(* The lines that can be left: all of it; or its first k fields, the last  *)
(* of them cut or just complete.                                           *)
Torn(fields) ==
    {fields} \cup
    UNION {{Append(SubSeq(fields, 1, k - 1), f) : f \in Shorter(fields[k]) \cup {fields[k]}} :
              k \in DOMAIN fields}

(* getline stops at the end of the text, so that nothing after the last    *)
(* bar is no field.  Mutant: it is an empty one.                           *)
SplitKeepsEmpty(fields) == fields

Split(fields) ==
    IF fields # <<>> /\ fields[Len(fields)] = Blank
    THEN SubSeq(fields, 1, Len(fields) - 1)
    ELSE fields

FieldCount == 14

NumberFields == (1..FieldCount) \ {2}

Numerals(parts, first, last) == [i \in 1..(last - first + 1) |-> Head(parts[first + i - 1])]

Deserialize(fields) ==
    LET parts == Split(fields) IN
    IF Len(parts) # FieldCount THEN Dropped
    ELSE IF \E i \in NumberFields : ~IsNumber(parts[i]) THEN Throws
    ELSE Loaded([id     |-> Head(parts[1]),
                 name   |-> <<parts[2]>>,
                 start  |-> Numerals(parts, 3, 7),
                 remind |-> Numerals(parts, 8, 12),
                 enums  |-> Numerals(parts, 13, 14)])

-----------------------------------------------------------------------------
Init ==
    /\ task \in Tasks
    /\ line = <<>>
    /\ loaded = Pending

Save ==
    /\ line = <<>>
    /\ line' \in Torn(Serialize(task))
    /\ UNCHANGED <<task, loaded>>

(* loadFromFile skips a line that is refused; an exception leaves the      *)
(* constructor of the main window and ends the program.                    *)
Load ==
    /\ line # <<>> /\ loaded = Pending
    /\ loaded' = Deserialize(line)
    /\ UNCHANGED <<task, line>>

Next == Save \/ Load

Spec == Init /\ [][Next]_vars

-----------------------------------------------------------------------------
Barless == Len(task.name) = 1

(* A line of a task whose name has no bar, however it was torn, either     *)
(* gives back exactly that task or is skipped: it never ends the program   *)
(* while it starts, and never becomes a task nobody entered.               *)
TornIsSkippedOrWhole ==
    loaded = Pending \/ loaded = Dropped \/ ~Barless
        \/ (loaded = Loaded(task) /\ line = Serialize(task))

(* With bars in its name a whole line is always skipped.  A torn one can   *)
(* have 14 fields by chance; it ends the program only if a field of the    *)
(* name other than the first is not a number.                              *)
ThrowsOnlyOnWords ==
    loaded = Throws =>
        /\ line # Serialize(task)
        /\ \E i \in 2..Len(task.name) : ~IsNumber(task.name[i])
=============================================================================
