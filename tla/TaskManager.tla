----------------------------- MODULE TaskManager -----------------------------
(***************************************************************************)
(* class TaskManager (taskmanager.cpp): the task list in memory, its copy  *)
(* in tasks.txt, the id counter Task::next_id and the set of ids already   *)
(* reminded, over any number of runs of the program.                       *)
(*                                                                         *)
(* The GUI thread is the only one that changes the list.  addTask,         *)
(* deleteTask and updateTask hold m_mutex from their first step to the end *)
(* of the save, so checkReminders, which the reminder thread calls under   *)
(* the same mutex, happens only between them.  The save itself is several  *)
(* steps, because the process may die between any two of them.             *)
(***************************************************************************)
EXTENDS Task, SequencesExt

CONSTANTS
    MaxId,        \* bound on the ids handed out by one run of the program
    Instants,     \* what QDateTime::currentDateTime() may return
    ReadFaults,   \* TRUE if tasks.txt may exist and refuse to be opened for reading
    WriteFaults,  \* TRUE if tasks.txt may refuse to be opened for writing
    DiskFaults    \* TRUE if writes to the opened file may fail (disk full)

ASSUME BoundsAssumption ==
    /\ MaxId \in Nat
    /\ Instants \subseteq Nat
    /\ {ReadFaults, WriteFaults, DiskFaults} \subseteq BOOLEAN

VARIABLES
    tasks,     \* m_tasks
    nextId,    \* Task::next_id
    reminded,  \* m_reminded_ids
    file,      \* the lines of tasks.txt; a missing file reads as an empty one
    pc,        \* where the GUI thread is
    synced     \* (observed) the last load or save went through in full

vars == <<tasks, nextId, reminded, file, pc, synced>>

(* The set of tasks that loadFromFile would restore from the lines f: none *)
(* if a line makes it throw.                                               *)
Readable(f) == {i \in DOMAIN f : Parses(f[i])}

Unreadable(f) == \E i \in DOMAIN f : Throws(f[i])

Recover(f) == IF Unreadable(f) THEN {} ELSE {Deserialize(f[i]) : i \in Readable(f)}

Init ==
    /\ tasks = <<>>
    /\ nextId = 1
    /\ reminded = {}
    /\ file = <<>>
    /\ pc = "off"
    /\ synced = TRUE

-----------------------------------------------------------------------------
(* The constructor of MainWindow loads the file once per run.              *)

(* Mutants of LoadFromFile: the counter is set to the largest id instead   *)
(* of the next one; to the number of tasks.                                *)
LoadWith(next) ==
    /\ pc = "off"
    /\ ~Unreadable(file)
    /\ pc' = "idle"
    /\ tasks' \in Sortings([i \in Readable(file) |-> Deserialize(file[i])])
    /\ nextId' = next
    /\ reminded' = {}
    /\ synced' = TRUE
    /\ UNCHANGED file

LoadForgetsToAddOne ==
    \E m \in {0} \cup {Deserialize(file[i]).id : i \in Readable(file)} :
        LoadWith(m) /\ \A id \in Ids(tasks') : id <= m

LoadCountsTasks == LoadWith(Cardinality(Readable(file)) + 1)

LoadFromFile ==
    /\ pc = "off"
    /\ ~Unreadable(file)
    /\ pc' = "idle"
    /\ tasks' \in Sortings([i \in Readable(file) |-> Deserialize(file[i])])
    /\ \E maxId \in Ids(tasks') \cup {0} :
          /\ \A id \in Ids(tasks') : id <= maxId
          /\ nextId' = maxId + 1
    /\ reminded' = {}
    /\ synced' = TRUE
    /\ UNCHANGED file

(* Nothing catches what stoi throws: the program ends while it starts, and *)
(* will every time.                                                        *)
LoadThrows == pc = "off" /\ Unreadable(file) /\ UNCHANGED vars

LoadFails ==
    /\ ReadFaults
    /\ pc = "off"
    /\ pc' = "idle"
    /\ tasks' = <<>>
    /\ nextId' = 1
    /\ reminded' = {}
    /\ synced' = FALSE
    /\ UNCHANGED file

-----------------------------------------------------------------------------
(* What the dialogs return: the constructor of Task takes the next id even *)
(* if the task is then refused, or is an edit that keeps its old id, and   *)
(* validateInput has refused a reminder after the start.                   *)

(* Mutant: the constructor does not advance the counter.                   *)
NewIdNotTaken(id) ==
    /\ nextId <= MaxId
    /\ id = nextId
    /\ nextId' = nextId

NewId(id) ==
    /\ nextId <= MaxId
    /\ id = nextId
    /\ nextId' = nextId + 1

(* Mutants: validateInput is not called; addTask compares the new task     *)
(* with the last one of the sorted list only.                              *)
EnteredUnchecked(t) == t \in Tasks

Entered(t) == t \in Tasks /\ t.remind <= t.start

ConflictWithLast(t) == tasks # <<>> /\ Last(tasks).start = t.start

Conflict(t) == \E i \in DOMAIN tasks : tasks[i].start = t.start

AddTask(t) ==
    /\ pc = "idle"
    /\ Entered(t)
    /\ NewId(t.id)
    /\ ~Conflict(t)
    /\ tasks' \in Sortings(Append(tasks, t))
    /\ pc' = "save"
    /\ UNCHANGED <<reminded, file, synced>>

AddRejected(t) ==
    /\ pc = "idle"
    /\ Entered(t)
    /\ NewId(t.id)
    /\ Conflict(t)
    /\ UNCHANGED <<tasks, reminded, file, pc, synced>>

(* find_if and the loop of updateTask take the first task with the id.     *)
IsFirst(i, id) == tasks[i].id = id /\ \A j \in 1..(i - 1) : tasks[j].id # id

DeleteTask(id) ==
    /\ pc = "idle"
    /\ \E i \in DOMAIN tasks : IsFirst(i, id) /\ tasks' = RemoveAt(tasks, i)
    /\ pc' = "save"
    /\ UNCHANGED <<nextId, reminded, file, synced>>

(* Mutants: the edited list is not sorted again; it is not saved.          *)
UpdateUnsorted(t) ==
    /\ pc = "idle"
    /\ Entered(t)
    /\ NewId(nextId)
    /\ \E i \in DOMAIN tasks : IsFirst(i, t.id) /\ tasks' = [tasks EXCEPT ![i] = t]
    /\ pc' = "save"
    /\ UNCHANGED <<reminded, file, synced>>

UpdateUnsaved(t) ==
    /\ pc = "idle"
    /\ Entered(t)
    /\ NewId(nextId)
    /\ \E i \in DOMAIN tasks :
          IsFirst(i, t.id) /\ tasks' \in Sortings([tasks EXCEPT ![i] = t])
    /\ UNCHANGED <<pc, reminded, file, synced>>

UpdateTask(t) ==
    /\ pc = "idle"
    /\ Entered(t)
    /\ NewId(nextId)
    /\ \E i \in DOMAIN tasks :
          IsFirst(i, t.id) /\ tasks' \in Sortings([tasks EXCEPT ![i] = t])
    /\ pc' = "save"
    /\ UNCHANGED <<reminded, file, synced>>

-----------------------------------------------------------------------------
(* saveToFile, called at the end of the three operations.  Its result is   *)
(* ignored; the lock is released when the GUI thread is back to "idle".    *)

SaveOpenFails ==
    /\ WriteFaults
    /\ pc = "save"
    /\ pc' = "idle"
    /\ synced' = FALSE
    /\ UNCHANGED <<tasks, nextId, reminded, file>>

(* Mutant: the file is opened without being truncated.                     *)
SaveAppends ==
    /\ pc = "save"
    /\ pc' = "write"
    /\ UNCHANGED <<tasks, nextId, reminded, file, synced>>

SaveOpen ==
    /\ pc = "save"
    /\ pc' = "write"
    /\ file' = <<>>
    /\ UNCHANGED <<tasks, nextId, reminded, synced>>

SaveLine ==
    /\ pc = "write"
    /\ Len(file) < Len(tasks)
    /\ file' = Append(file, Serialize(tasks[Len(file) + 1]))
    /\ UNCHANGED <<tasks, nextId, reminded, pc, synced>>

(* The file where the next line was begun and is long enough to be read.   *)
Cuts ==
    IF pc = "write" /\ Len(file) < Len(tasks)
    THEN {Append(file, line) : line \in Torn(tasks[Len(file) + 1])}
    ELSE {}

(* The stream's status is not looked at: if the disk refuses the rest,     *)
(* from between two lines or within one, saveToFile returns true all the   *)
(* same.                                                                   *)
SaveClose ==
    /\ pc = "write"
    /\ \/ Len(file) = Len(tasks) /\ UNCHANGED file
       \/ DiskFaults /\ Len(file) < Len(tasks) /\ file' \in {file} \cup Cuts
    /\ pc' = "idle"
    /\ synced' = (Len(file) = Len(tasks))
    /\ UNCHANGED <<tasks, nextId, reminded>>

-----------------------------------------------------------------------------
(* checkReminders: one pass under the lock, at the instant read first.     *)

(* Mutant: the start time is not looked at.                                *)
DueEvenIfStarted(now) ==
    {i \in DOMAIN tasks : /\ Instant(tasks[i].remind) <= now
                          /\ tasks[i].id \notin reminded}

Due(now) ==
    {i \in DOMAIN tasks : /\ Instant(tasks[i].remind) <= now
                          /\ tasks[i].id \notin reminded
                          /\ now <= Instant(tasks[i].start)}

CheckReminders(now) ==
    /\ pc = "idle"
    /\ reminded' = reminded \cup {tasks[i].id : i \in Due(now)}
    /\ UNCHANGED <<tasks, nextId, file, pc, synced>>

(* The program is closed, or dies at any point, also in the middle of a    *)
(* save or of a line; only the file survives.                              *)
ProcessEnds ==
    /\ pc # "off"
    /\ pc' = "off"
    /\ tasks' = <<>>
    /\ nextId' = 1
    /\ reminded' = {}
    /\ file' \in {file} \cup Cuts
    /\ UNCHANGED synced

Save == SaveOpenFails \/ SaveOpen \/ SaveLine \/ SaveClose

Candidates == [id : 1..MaxId, name : Names, start : Times, remind : Times]

Next ==
    \/ LoadFromFile
    \/ LoadFails
    \/ LoadThrows
    \/ \E t \in Candidates : AddTask(t) \/ AddRejected(t) \/ UpdateTask(t)
    \/ \E id \in Ids(tasks) : DeleteTask(id)
    \/ Save
    \/ \E now \in Instants : CheckReminders(now)
    \/ ProcessEnds

Spec == Init /\ [][Next]_vars

-----------------------------------------------------------------------------
(* The variables keep the types of taskmanager.h: a list of tasks, an id   *)
(* counter, a set of ids, lines of fields.                                 *)
TypeOK ==
    /\ tasks \in Seq(Tasks)
    /\ nextId \in Nat \ {0}
    /\ reminded \subseteq Nat
    /\ file \in Seq(Seq(Fields))
    /\ pc \in {"off", "idle", "save", "write"}
    /\ synced \in BOOLEAN

(* No two tasks of the list share an id, whatever was edited, deleted,     *)
(* half saved and loaded again: deleteTask, updateTask and findTask, which *)
(* all stop at the first task with the id, name the task the user picked.  *)
IdsDistinct ==
    \A i, j \in DOMAIN tasks : tasks[i].id = tasks[j].id => i = j

(* The counter is ahead of every id in the list and of every id marked as  *)
(* reminded, so that the next task added cannot be born already reminded   *)
(* and stay silent for ever.                                               *)
CounterAhead == \A id \in Ids(tasks) \cup reminded : id < nextId

(* The list stays sorted by start time, also after an edit that moves a    *)
(* task and after a reload: refreshTable shows it in list order.           *)
ListSorted == SortedByStart(tasks)

(* While the save runs the file holds a prefix of the new list and nothing *)
(* of the old one: a crash can lose tasks but cannot bring back a deleted  *)
(* task or the former version of an edited one.                            *)
FileIsPrefix ==
    pc = "write" =>
        /\ Len(file) <= Len(tasks)
        /\ \A i \in DOMAIN file : file[i] = Serialize(tasks[i])

(* The tasks of the list whose line deserialize() will accept.             *)
Storable == {tasks[i] : i \in {j \in DOMAIN tasks : Parses(Serialize(tasks[j]))}}

(* Between two operations, if the last load or save went through in full,  *)
(* a restart would give back exactly the tasks in memory whose names can   *)
(* be stored: no edit or deletion is left in memory only.                  *)
Durable == pc = "idle" /\ synced => Recover(file) = Storable

(* A task that appears in the list during a run carries an id that no task *)
(* had and no reminder used in this run: checkReminders will not skip it.  *)
AddedIsFresh ==
    [][pc = "idle" /\ pc' # "off" =>
          \A id \in Ids(tasks') \ Ids(tasks) : id \notin reminded']_vars

-----------------------------------------------------------------------------
(* What serialize wrote deserialize reads (test_calendar.cpp 23), so that  *)
(* a saved list is loaded again in full: a '|' in a name breaks the line.  *)
SurvivesReload == pc = "idle" /\ synced => Recover(file) = Range(tasks)

-----------------------------------------------------------------------------
(* What the tasks of a run promise to the user, and how this module keeps  *)
(* the promise: Schedule.tla.                                              *)
Promise == INSTANCE Schedule WITH
    Universe <- Candidates,
    schedule <- Range(tasks),
    stored   <- Recover(file),
    alerted  <- reminded,
    up       <- pc # "off",
    dirty    <- pc # "idle" \/ ~synced

Implements == Promise!Spec
=============================================================================
