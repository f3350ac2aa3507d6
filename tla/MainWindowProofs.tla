-------------------------- MODULE MainWindowProofs --------------------------
(***************************************************************************)
(* The main window for every value of its constants: it does nothing to    *)
(* the task manager that TaskManager does not allow, so that everything    *)
(* proved there holds under it; what it shows is current; only edits and   *)
(* torn lines give two tasks one start time; the operations act on the     *)
(* selected row, and an untouched edit changes nothing.                    *)
(***************************************************************************)
EXTENDS MainWindow, TaskManagerProofs

-----------------------------------------------------------------------------
(* Every step of the window is one of the task manager or leaves it alone. *)

LEMMA ManagerInit == WindowInit => Init
BY DEF WindowInit

LEMMA ManagerStep == [WindowNext]_windowVars => [Next]_vars
<1>. SUFFICES ASSUME [WindowNext]_windowVars
              PROVE  [Next]_vars
    OBVIOUS
<1>1. CASE UNCHANGED windowVars
    BY <1>1 DEF windowVars
<1>2. CASE OpenThrows \/ \E today \in Dates : OpenWindow(today)
    BY <1>2 DEF OpenThrows, OpenWindow, Next
<1>3. CASE \/ \E date \in Dates : OnDateClicked(date)
           \/ ShowAllTasks \/ OnRefresh
           \/ \E i \in DOMAIN rows : SelectRow(i)
           \/ OnAddTask \/ OnDeleteTask \/ OnEditTask \/ TouchForm \/ Cancel
    BY <1>3 DEF OnDateClicked, ShowAllTasks, OnRefresh, SelectRow, OnAddTask, OnDeleteTask,
                OnEditTask, OpenDialog, TouchForm, Cancel
<1>4. CASE ConfirmDelete
    <2>1. PICK i \in DOMAIN tasks : tasks[i].id = dialog.id
        BY <1>4 DEF ConfirmDelete, DeleteTask, IsFirst
    <2>2. dialog.id \in Ids(tasks)
        BY <2>1 DEF Ids
    <2>. QED  BY <1>4, <2>2 DEF ConfirmDelete, Next
<1>5. CASE \E t \in Candidates : AcceptAdd(t) \/ AcceptVoice(t) \/ AcceptEdit(t)
    BY <1>5 DEF AcceptAdd, AcceptVoice, AcceptEdit, Next
<1>6. CASE SaveGoesOn \/ TasksChanged \/ WindowEnds
    BY <1>6 DEF SaveGoesOn, TasksChanged, WindowEnds, Next, Save
<1>. QED  BY <1>1, <1>2, <1>3, <1>4, <1>5, <1>6 DEF WindowNext

(* The window is a user of the task manager: its steps are steps of the    *)
(* manager (onAddTask, onDeleteTask, onEditTask, onVoiceInput).            *)
THEOREM WindowUsesManager == WindowSpec => Spec
BY ManagerInit, ManagerStep, PTL DEF WindowSpec, Spec

(* So what TaskManager keeps of Schedule.tla's promise is kept under the   *)
(* window: nothing the user can click loses a task or brings one back.     *)
THEOREM WindowKeepsSchedule == WindowSpec => Implements
BY WindowUsesManager, ScheduleKept, PTL

(* The selected row's id always names one task of the list.                *)
THEOREM WindowIdsSafe == WindowSpec => []IdsDistinct
BY WindowUsesManager, IdsSafe, PTL

-----------------------------------------------------------------------------
LEMMA ViewInit == WindowInit => ViewCurrent
BY DEF WindowInit, Init, ViewCurrent

LEMMA ViewStep == ViewCurrent /\ [WindowNext]_windowVars => ViewCurrent'
<1>. SUFFICES ASSUME ViewCurrent, [WindowNext]_windowVars, pc' = "idle"
              PROVE  /\ rows' = Shown(tasks', selectedDate')
                     /\ highlighted' = TaskDates(tasks')
    BY DEF ViewCurrent
<1>1. CASE OpenThrows \/ UNCHANGED windowVars
    BY <1>1 DEF OpenThrows, windowVars, vars, view, ViewCurrent
<1>2. CASE \E today \in Dates : OpenWindow(today)
    BY <1>2 DEF OpenWindow, RefreshTable, UpdateCalendar
<1>3. CASE \/ \E date \in Dates : OnDateClicked(date)
           \/ ShowAllTasks \/ OnRefresh
    BY <1>3 DEF OnDateClicked, ShowAllTasks, OnRefresh, Usable, RefreshTable, vars, ViewCurrent
<1>4. CASE \/ \E i \in DOMAIN rows : SelectRow(i)
           \/ OnAddTask \/ OnDeleteTask \/ OnEditTask \/ TouchForm \/ Cancel
    BY <1>4 DEF SelectRow, OnAddTask, OnDeleteTask, OnEditTask, OpenDialog, TouchForm, Cancel,
                Close, vars, view, ViewCurrent
<1>5. CASE ConfirmDelete \/ SaveGoesOn \/ WindowEnds
    BY <1>5 DEF ConfirmDelete, DeleteTask, SaveGoesOn, SaveOpen, SaveLine, WindowEnds, ProcessEnds
<1>6. CASE \E t \in Candidates : AcceptAdd(t) \/ AcceptVoice(t) \/ AcceptEdit(t)
    BY <1>6 DEF AcceptAdd, AcceptVoice, AcceptEdit, AddTask, AddRejected, UpdateTask, Close,
                view, ViewCurrent
<1>7. CASE TasksChanged
    BY <1>7 DEF TasksChanged, SaveOpenFails, SaveClose, RefreshTable, UpdateCalendar
<1>. QED  BY <1>1, <1>2, <1>3, <1>4, <1>5, <1>6, <1>7 DEF WindowNext

(* What the window shows is what the manager holds, whatever was changed,  *)
(* saved or not saved, selected or restarted (refreshTable,                *)
(* updateCalendar).                                                        *)
THEOREM ViewAlwaysCurrent == WindowSpec => []ViewCurrent
BY ViewInit, ViewStep, PTL DEF WindowSpec

-----------------------------------------------------------------------------
(* What the observers keep: a task that an edit made or that was read from *)
(* a torn line stays noted as such while it is in the list or in the file, *)
(* and a task that a save adds to the file was in the list or is noted.    *)

LEMMA StaysGarbled ==
    ASSUME [WindowNext]_windowVars
    PROVE  garbled \cap (Range(tasks) \cup Recover(file)) \subseteq garbled'
<1>1. CASE TasksChanged \/ WindowEnds
    BY <1>1 DEF TasksChanged, WindowEnds, NoteGarbled
<1>2. CASE UNCHANGED garbled
    BY <1>2
<1>3. CASE ~(TasksChanged \/ WindowEnds) /\ WindowNext
    BY <1>2, <1>3 DEF WindowNext, OpenWindow, OpenThrows, OnDateClicked, ShowAllTasks, OnRefresh,
                SelectRow, OnAddTask, OnDeleteTask, OnEditTask, OpenDialog, TouchForm, Cancel,
                ConfirmDelete, AcceptAdd, AcceptVoice, AcceptEdit, SaveGoesOn, windowVars
<1>. QED  BY <1>1, <1>2, <1>3 DEF windowVars

LEMMA GarbledByCut ==
    ASSUME TasksChanged \/ WindowEnds
    PROVE  /\ edited' = edited
           /\ Range(tasks') \subseteq Range(tasks)
           /\ Recover(file') \subseteq Recover(file) \cup garbled'
           /\ garbled \cap (Range(tasks) \cup Recover(file)) \subseteq garbled'
<1>1. edited' = edited
    BY DEF TasksChanged, WindowEnds
<1>2. NoteGarbled
    BY DEF TasksChanged, WindowEnds
<1>3. tasks' = tasks \/ tasks' = <<>>
    BY DEF TasksChanged, SaveOpenFails, SaveClose, WindowEnds, ProcessEnds
<1>4. Range(tasks') \subseteq Range(tasks)
    BY <1>3 DEF Range
<1>. QED  BY <1>1, <1>2, <1>4 DEF NoteGarbled

-----------------------------------------------------------------------------
(* Start times.  A set of tasks clashes only by an edit or a torn line; the *)
(* invariant says so of the tasks in memory and of those a restart would    *)
(* bring back, which are other ones after a save that failed or was cut     *)
(* short.                                                                   *)

Excused == edited \cup garbled

ByEdit(S) == \A t, u \in S : t # u /\ t.start = u.start => t \in Excused \/ u \in Excused

WInv == IInv /\ ByEdit(Range(tasks)) /\ ByEdit(Recover(file))

LEMMA WInvClash == WInv => ClashOnlyByEdit
<1>. SUFFICES ASSUME WInv, NEW i \in DOMAIN tasks, NEW j \in DOMAIN tasks,
                     i # j, tasks[i].start = tasks[j].start
              PROVE  tasks[i] \in Excused \/ tasks[j] \in Excused
    BY DEF ClashOnlyByEdit, Excused
<1>1. tasks[i] # tasks[j]
    BY DEF WInv, IInv, IdsDistinct
<1>2. tasks[i] \in Range(tasks) /\ tasks[j] \in Range(tasks)
    BY DEF Range
<1>. QED  BY <1>1, <1>2 DEF WInv, ByEdit

LEMMA WInvInit == WindowInit => WInv
<1>. SUFFICES ASSUME WindowInit
              PROVE  WInv
    OBVIOUS
<1>1. IInv
    BY ManagerInit, InitIInv
<1>2. tasks = <<>> /\ file = <<>>
    BY ManagerInit DEF Init
<1>3. Range(tasks) = {} /\ Recover(file) = {}
    BY <1>2 DEF Range, Recover, Readable
<1>. QED  BY <1>1, <1>3 DEF WInv, ByEdit

(* What the save has written so far gives back tasks of the list.          *)
LEMMA WrittenRange ==
    ASSUME NEW q \in Seq(Tasks), NEW f \in Seq(Seq(Fields)), Len(f) <= Len(q),
           \A i \in DOMAIN f : f[i] = Serialize(q[i])
    PROVE  Recover(f) \subseteq Range(q)
<1>1. /\ DOMAIN f = 1..Len(f) /\ Len(f) \in Nat
      /\ DOMAIN q = 1..Len(q) /\ Len(q) \in Nat
    BY DomainsFinite
<1>2. \A i \in DOMAIN f : i \in DOMAIN q /\ f[i] = Serialize(q[i]) /\ q[i] \in Tasks
    BY <1>1, ListIds
<1>3. \A i \in Readable(f) : Deserialize(f[i]) = q[i] /\ i \in DOMAIN q
    BY <1>2, RoundTrip DEF Readable
<1>. QED  BY <1>3 DEF Recover, Range

LEMMA WInvStep == WInv /\ [WindowNext]_windowVars => WInv'
<1>. SUFFICES ASSUME WInv, [WindowNext]_windowVars
              PROVE  ByEdit(Range(tasks))' /\ ByEdit(Recover(file))'
    BY ManagerStep, NextIInv DEF WInv
<1>. USE DEF WInv
<1>0. IInv'
    BY ManagerStep, NextIInv
<1>1. CASE OpenThrows \/ UNCHANGED windowVars
    BY <1>1 DEF OpenThrows, windowVars, vars, ByEdit, Excused
<1>2. CASE \E today \in Dates : OpenWindow(today)
    <2>1. Excused' = Excused /\ file' = file /\ (LoadFromFile \/ LoadFails)
        BY <1>2 DEF OpenWindow, LoadFromFile, LoadFails, Excused
    <2>2. Range(tasks') \subseteq Recover(file)
        <3>1. CASE LoadFromFile
            BY <3>1, LoadedList DEF LoadFromFile
        <3>2. CASE LoadFails
            BY <3>2 DEF LoadFails, Range
        <3>. QED  BY <2>1, <3>1, <3>2
    <2>. QED  BY <2>1, <2>2 DEF ByEdit
<1>3. CASE \/ \E date \in Dates : OnDateClicked(date)
           \/ ShowAllTasks \/ OnRefresh
           \/ \E i \in DOMAIN rows : SelectRow(i)
           \/ OnAddTask \/ OnDeleteTask \/ OnEditTask \/ TouchForm \/ Cancel
    <2>1. UNCHANGED <<tasks, file, Excused>>
        BY <1>3 DEF OnDateClicked, ShowAllTasks, OnRefresh, SelectRow, OnAddTask, OnDeleteTask,
                    OnEditTask, OpenDialog, TouchForm, Cancel, vars, Excused
    <2>. QED  BY <2>1 DEF ByEdit
<1>4. CASE ConfirmDelete
    <2>1. Excused' = Excused /\ file' = file /\ DeleteTask(dialog.id)
        BY <1>4 DEF ConfirmDelete, DeleteTask, Excused
    <2>2. Range(tasks') \subseteq Range(tasks)
        BY <2>1, DeletedRange
    <2>. QED  BY <2>1, <2>2 DEF ByEdit
<1>5. ASSUME NEW t \in Candidates, AcceptAdd(t) \/ AcceptVoice(t)
      PROVE  ByEdit(Range(tasks))' /\ ByEdit(Recover(file))'
    <2>1. Excused' = Excused /\ file' = file /\ (AddTask(t) \/ AddRejected(t))
        BY <1>5 DEF AcceptAdd, AcceptVoice, AddTask, AddRejected, Excused
    <2>2. CASE AddTask(t)
        <3>1. Range(tasks') = Range(tasks) \cup {t}
            BY <2>2, AddedRange
        <3>2. \A u \in Range(tasks) : u.start # t.start
            BY <2>2 DEF AddTask, Conflict, Range
        <3>. QED  BY <2>1, <3>1, <3>2 DEF ByEdit
    <2>3. CASE AddRejected(t)
        BY <2>1, <2>3 DEF AddRejected, ByEdit
    <2>. QED  BY <2>1, <2>2, <2>3
<1>6. ASSUME NEW t \in Candidates, AcceptEdit(t)
      PROVE  ByEdit(Range(tasks))' /\ ByEdit(Recover(file))'
    <2>1. /\ t \in Excused'
          /\ Excused \cap (Range(tasks) \cup Recover(file)) \subseteq Excused'
          /\ file' = file /\ UpdateTask(t)
        BY <1>6 DEF AcceptEdit, UpdateTask, Excused
    <2>2. Range(tasks') \subseteq Range(tasks) \cup {t}
        BY <2>1, UpdatedRange
    <2>. QED  BY <2>1, <2>2 DEF ByEdit
<1>7. CASE SaveGoesOn
    <2>1. Excused' = Excused /\ tasks' = tasks /\ pc' = "write"
        BY <1>7 DEF SaveGoesOn, SaveOpen, SaveLine, Excused
    <2>2. Recover(file') \subseteq Range(tasks')
        <3>1. /\ tasks' \in Seq(Tasks) /\ file' \in Seq(Seq(Fields))
              /\ Len(file') <= Len(tasks')
              /\ \A i \in DOMAIN file' : file'[i] = Serialize(tasks'[i])
            BY <1>0, <2>1 DEF IInv, TypeOK, FileIsPrefix
        <3>. QED  BY <3>1, WrittenRange
    <2>. QED  BY <2>1, <2>2 DEF ByEdit
<1>8. CASE TasksChanged \/ WindowEnds
    <2>1. /\ Excused \cap (Range(tasks) \cup Recover(file)) \subseteq Excused'
          /\ Range(tasks') \subseteq Range(tasks)
          /\ Recover(file') \subseteq Recover(file) \cup Excused'
        BY <1>8, GarbledByCut DEF Excused
    <2>. QED  BY <2>1 DEF ByEdit
<1>. QED  BY <1>1, <1>2, <1>3, <1>4, <1>5, <1>6, <1>7, <1>8 DEF WindowNext

(* Two tasks start at the same time only if one of them was edited or read *)
(* from a torn line: no sequence of additions, failed saves and reloads of *)
(* an older file brings it about (addTask, updateTask, loadFromFile).      *)
THEOREM ClashesOnlyEdited == WindowSpec => []ClashOnlyByEdit
BY WInvInit, WInvStep, WInvClash, PTL DEF WindowSpec

-----------------------------------------------------------------------------
(* What the user selected.  The table holds tasks of the list, a dialog    *)
(* that edits or deletes carries the id of the selected row, and none is   *)
(* open while an operation is under way.                                   *)

SelectionInv ==
    /\ selected \in DOMAIN rows \cup {0}
    /\ pc # "idle" => dialog = NoDialog
    /\ dialog.kind \in {"edit", "delete"} => selected # 0 /\ dialog.id = rows[selected].id

SInv == IInv /\ ViewCurrent /\ SelectionInv

(* The rows of a list are tasks of the list.                               *)
LEMMA ShownRange ==
    ASSUME NEW q \in Seq(Tasks), NEW date
    PROVE  /\ Shown(q, date) \in Seq(Range(q))
           /\ \A i \in DOMAIN Shown(q, date) : Shown(q, date)[i] \in Range(q)
<1>. DEFINE S == Range(q)
            row(i) == IF IsShown(q[i], date) THEN <<q[i]>> ELSE <<>>
            turns == [i \in DOMAIN q |-> row(i)]
<1>1. DOMAIN q = 1..Len(q) /\ Len(q) \in Nat /\ \A i \in DOMAIN q : q[i] \in S
    BY DomainsFinite DEF Range
<1>2. \A i \in DOMAIN q : row(i) \in Seq(S)
    BY <1>1
<1>. HIDE DEF row
<1>3. turns \in [1..Len(q) -> Seq(S)]
    BY <1>1, <1>2
<1>4. turns \in Seq(Seq(S))
    BY <1>1, <1>3, SeqDef
<1>. HIDE DEF S, turns
<1>5. FlattenSeq(turns) \in Seq(S)
    BY <1>4, FlattenType
<1>6. Shown(q, date) \in Seq(S)
    BY <1>5 DEF Shown, turns, row
<1>. DEFINE r == Shown(q, date)
<1>. HIDE DEF r
<1>7. r \in Seq(S)
    BY <1>6 DEF r
<1>8. \A i \in DOMAIN r : r[i] \in S
    BY <1>7, LenProperties
<1>. QED  BY <1>7, <1>8 DEF r, S

LEMMA SelectionInit == WindowInit => SInv
<1>. SUFFICES ASSUME WindowInit
              PROVE  SInv
    OBVIOUS
<1>1. IInv /\ ViewCurrent
    BY ManagerInit, InitIInv, ViewInit
<1>2. SelectionInv
    BY DEF WindowInit, SelectionInv, NoDialog
<1>. QED  BY <1>1, <1>2 DEF SInv

LEMMA SelectionStep == SInv /\ [WindowNext]_windowVars => SInv'
<1>. SUFFICES ASSUME SInv, [WindowNext]_windowVars
              PROVE  SelectionInv'
    BY ManagerStep, NextIInv, ViewStep DEF SInv
<1>. USE DEF SInv, SelectionInv, NoDialog
<1>1. CASE OpenThrows \/ UNCHANGED windowVars
    BY <1>1 DEF OpenThrows, windowVars, vars, view
<1>2. CASE \/ \E today \in Dates : OpenWindow(today)
           \/ WindowEnds
    BY <1>2 DEF OpenWindow, WindowEnds, RefreshTable
<1>3. CASE \/ \E date \in Dates : OnDateClicked(date)
           \/ ShowAllTasks \/ OnRefresh
    BY <1>3 DEF OnDateClicked, ShowAllTasks, OnRefresh, Usable, RefreshTable, vars
<1>4. CASE \E i \in DOMAIN rows : SelectRow(i)
    BY <1>4 DEF SelectRow, Usable, vars
<1>5. CASE OnAddTask \/ OnDeleteTask \/ OnEditTask
    BY <1>5 DEF OnAddTask, OnDeleteTask, OnEditTask, OpenDialog, SelectedTaskId, Usable, vars, view
<1>6. CASE TouchForm
    <2>1. /\ dialog.kind = "edit" /\ pc' = pc /\ rows' = rows /\ selected' = selected
          /\ dialog' = [dialog EXCEPT !.touched = TRUE]
        BY <1>6 DEF TouchForm, vars, view
    <2>2. pc = "idle"
        BY <2>1
    <2>3. dialog'.id = dialog.id
        BY <2>1
    <2>. QED  BY <2>1, <2>2, <2>3
<1>7. CASE Cancel \/ ConfirmDelete
    BY <1>7 DEF Cancel, ConfirmDelete, Close, view
<1>8. CASE \E t \in Candidates : AcceptAdd(t) \/ AcceptVoice(t) \/ AcceptEdit(t)
    BY <1>8 DEF AcceptAdd, AcceptVoice, AcceptEdit, Close, view
<1>9. CASE SaveGoesOn
    BY <1>9 DEF SaveGoesOn, SaveOpen, SaveLine, view
<1>10. CASE TasksChanged
    BY <1>10 DEF TasksChanged, SaveOpenFails, SaveClose, RefreshTable
<1>. QED  BY <1>1, <1>2, <1>3, <1>4, <1>5, <1>6, <1>7, <1>8, <1>9, <1>10 DEF WindowNext

(* The steps that start a save are the accepted dialogs.                   *)
LEMMA WhatStartsASave ==
    ASSUME WindowNext, pc = "idle", pc' = "save"
    PROVE  \/ dialog.kind = "delete" /\ DeleteTask(dialog.id)
           \/ \E t \in Candidates :
                 \/ dialog.kind = "edit" /\ InForm(t) /\ UpdateTask(t)
                 \/ dialog.kind \in {"none", "add"} /\ AddTask(t)
<1>1. CASE \/ OpenThrows
           \/ \E today \in Dates : OpenWindow(today)
           \/ \E date \in Dates : OnDateClicked(date)
           \/ ShowAllTasks \/ OnRefresh
           \/ \E i \in DOMAIN rows : SelectRow(i)
           \/ OnAddTask \/ OnDeleteTask \/ OnEditTask \/ TouchForm \/ Cancel
           \/ SaveGoesOn \/ TasksChanged \/ WindowEnds
    BY <1>1 DEF OpenThrows, windowVars, OpenWindow, LoadFromFile, LoadFails, OnDateClicked,
                ShowAllTasks, OnRefresh, SelectRow, OnAddTask, OnDeleteTask, OnEditTask, OpenDialog, TouchForm, Cancel,
                SaveGoesOn, SaveOpen, SaveLine, TasksChanged, SaveOpenFails, SaveClose,
                WindowEnds, ProcessEnds, vars
<1>2. CASE ConfirmDelete
    BY <1>2 DEF ConfirmDelete
<1>3. CASE \E t \in Candidates : AcceptAdd(t) \/ AcceptVoice(t) \/ AcceptEdit(t)
    BY <1>3 DEF AcceptAdd, AcceptVoice, AcceptEdit, AddRejected, Usable, NoDialog
<1>. QED  BY <1>1, <1>2, <1>3 DEF WindowNext

(* The selected row shows the task whose id the dialog carries.            *)
LEMMA RowIsTask ==
    ASSUME SInv, pc = "idle", dialog.kind \in {"edit", "delete"},
           NEW i \in DOMAIN tasks, tasks[i].id = dialog.id
    PROVE  rows[selected] = tasks[i] /\ rows[selected].id = dialog.id
<1>1. /\ rows = Shown(tasks, selectedDate)
      /\ selected \in DOMAIN rows /\ dialog.id = rows[selected].id
    BY DEF SInv, ViewCurrent, SelectionInv
<1>2. rows[selected] \in Range(tasks)
    BY <1>1, ShownRange DEF SInv, IInv, TypeOK
<1>3. PICK j \in DOMAIN tasks : rows[selected] = tasks[j]
    BY <1>2 DEF Range
<1>4. i = j
    BY <1>1, <1>3 DEF SInv, IInv, IdsDistinct
<1>. QED  BY <1>1, <1>3, <1>4

LEMMA SelectedStep ==
    ASSUME SInv, [WindowNext]_windowVars, pc = "idle", pc' = "save"
    PROVE  LET lost == Range(tasks) \ Range(tasks')
               new  == Range(tasks') \ Range(tasks)
           IN  CASE dialog.kind = "delete" -> lost = {rows[selected]} /\ new = {}
                 [] dialog.kind = "edit"   -> /\ lost \subseteq {rows[selected]}
                                              /\ \A t \in new : t.id = rows[selected].id
                 [] OTHER                  -> lost = {} /\ Len(tasks') = Len(tasks) + 1
<1>1. WindowNext
    BY DEF windowVars, vars
<1>2. CASE dialog.kind = "delete" /\ DeleteTask(dialog.id)
    <2>1. PICK i \in DOMAIN tasks :
             tasks[i].id = dialog.id /\ Range(tasks') = Range(tasks) \ {tasks[i]}
        BY <1>2, DeletedRange DEF SInv
    <2>2. rows[selected] = tasks[i] /\ tasks[i] \in Range(tasks)
        BY <1>2, <2>1, RowIsTask DEF Range
    <2>. QED  BY <1>2, <2>1, <2>2
<1>3. ASSUME NEW t, dialog.kind = "edit", InForm(t), UpdateTask(t)
      PROVE  /\ Range(tasks) \ Range(tasks') \subseteq {rows[selected]}
             /\ \A u \in Range(tasks') \ Range(tasks) : u.id = rows[selected].id
    <2>1. PICK i \in DOMAIN tasks :
             /\ tasks[i].id = t.id
             /\ Range(tasks') = (Range(tasks) \ {tasks[i]}) \cup {t}
        BY <1>3, UpdatedRange DEF SInv
    <2>2. t.id = dialog.id
        BY <1>3 DEF InForm
    <2>3. rows[selected] = tasks[i] /\ rows[selected].id = dialog.id
        BY <1>3, <2>1, <2>2, RowIsTask
    <2>. QED  BY <2>1, <2>2, <2>3
<1>4. ASSUME NEW t, AddTask(t)
      PROVE  Range(tasks) \ Range(tasks') = {} /\ Len(tasks') = Len(tasks) + 1
    BY <1>4, AddedRange DEF SInv
<1>. QED  BY <1>1, <1>2, <1>3, <1>4, WhatStartsASave

(* Delete removes the task of the selected row and nothing else, edit      *)
(* replaces no other, add replaces none: the selection is not left over    *)
(* from a table that has changed since (selectedTaskId, onDeleteTask,      *)
(* onEditTask, refreshTable).                                              *)
THEOREM ActsOnSelectedRow == WindowSpec => ActsOnSelected
<1>1. WindowInit => SInv
    BY SelectionInit
<1>2. SInv /\ [WindowNext]_windowVars => SInv'
    BY SelectionStep
<1>3. SInv /\ [WindowNext]_windowVars =>
         [pc = "idle" /\ pc' = "save" =>
             LET lost == Range(tasks) \ Range(tasks')
                 new  == Range(tasks') \ Range(tasks)
             IN  CASE dialog.kind = "delete" -> lost = {rows[selected]} /\ new = {}
                   [] dialog.kind = "edit"   -> /\ lost \subseteq {rows[selected]}
                                                /\ \A t \in new : t.id = rows[selected].id
                   [] OTHER                  -> lost = {} /\ Len(tasks') = Len(tasks) + 1
         ]_windowVars
    BY SelectedStep
<1>. QED  BY <1>1, <1>2, <1>3, PTL DEF WindowSpec, ActsOnSelected

-----------------------------------------------------------------------------
(* What an edit shows.  Every task was made by a form, and then the spin   *)
(* boxes hold its times as they are, or by the voice dialog, whose         *)
(* reminder they may not hold, or was read from a torn line; so were those *)
(* in the file.                                                            *)

FitsForm(t) == SpinBoxes[t.start] = t.start /\ SpinBoxes[t.remind] = t.remind

FromVoice(t) == t.start \in DOMAIN FiveBefore /\ t.remind = FiveBefore[t.start]

FormInv ==
    /\ IInv
    /\ \A t \in Range(tasks) \cup Recover(file) : FitsForm(t) \/ FromVoice(t) \/ t \in garbled

(* The tasks after a step were there before it, in memory or in the file,  *)
(* or were entered in a dialog that the step accepts, or are noted as read *)
(* from a torn line.                                                       *)
LEMMA WhereTasksComeFrom ==
    ASSUME IInv, [WindowNext]_windowVars,
           NEW u \in Range(tasks') \cup Recover(file')
    PROVE  \/ u \in Range(tasks) \cup Recover(file)
           \/ AcceptAdd(u) \/ AcceptVoice(u) \/ AcceptEdit(u)
           \/ u \in garbled'
<1>0. IInv'
    BY ManagerStep, NextIInv
<1>1. CASE UNCHANGED <<tasks, file>>
    BY <1>1
<1>2. CASE \E today \in Dates : OpenWindow(today)
    <2>1. file' = file /\ (LoadFromFile \/ LoadFails)
        BY <1>2 DEF OpenWindow, LoadFromFile, LoadFails
    <2>2. CASE LoadFromFile
        BY <2>1, <2>2, LoadedList DEF LoadFromFile
    <2>3. CASE LoadFails
        BY <2>1, <2>3 DEF LoadFails, Range
    <2>. QED  BY <2>1, <2>2, <2>3
<1>3. CASE ConfirmDelete
    <2>1. file' = file /\ DeleteTask(dialog.id)
        BY <1>3 DEF ConfirmDelete, DeleteTask
    <2>2. Range(tasks') \subseteq Range(tasks)
        BY <2>1, DeletedRange
    <2>. QED  BY <2>1, <2>2
<1>4. ASSUME NEW t \in Candidates, AcceptAdd(t) \/ AcceptVoice(t)
      PROVE  \/ u \in Range(tasks) \cup Recover(file)
             \/ AcceptAdd(u) \/ AcceptVoice(u)
    <2>1. file' = file /\ (AddTask(t) \/ AddRejected(t))
        BY <1>4 DEF AcceptAdd, AcceptVoice, AddTask, AddRejected
    <2>2. Range(tasks') \subseteq Range(tasks) \cup {t}
        <3>1. CASE AddTask(t)
            BY <3>1, AddedRange
        <3>2. CASE AddRejected(t)
            BY <3>2 DEF AddRejected
        <3>. QED  BY <2>1, <3>1, <3>2
    <2>3. u \in Range(tasks) \cup Recover(file) \/ u = t
        BY <2>1, <2>2
    <2>. QED  BY <1>4, <2>3
<1>5. ASSUME NEW t \in Candidates, AcceptEdit(t)
      PROVE  u \in Range(tasks) \cup Recover(file) \/ AcceptEdit(u)
    <2>1. file' = file /\ UpdateTask(t)
        BY <1>5 DEF AcceptEdit, UpdateTask
    <2>2. Range(tasks') \subseteq Range(tasks) \cup {t}
        BY <2>1, UpdatedRange
    <2>3. u \in Range(tasks) \cup Recover(file) \/ u = t
        BY <2>1, <2>2
    <2>. QED  BY <1>5, <2>3
<1>6. CASE SaveGoesOn
    <2>1. tasks' = tasks /\ pc' = "write"
        BY <1>6 DEF SaveGoesOn, SaveOpen, SaveLine
    <2>2. /\ tasks' \in Seq(Tasks) /\ file' \in Seq(Seq(Fields))
          /\ Len(file') <= Len(tasks')
          /\ \A i \in DOMAIN file' : file'[i] = Serialize(tasks'[i])
        BY <1>0, <2>1 DEF IInv, TypeOK, FileIsPrefix
    <2>3. Recover(file') \subseteq Range(tasks')
        BY <2>2, WrittenRange
    <2>. QED  BY <2>1, <2>3
<1>7. CASE TasksChanged \/ WindowEnds
    BY <1>7, GarbledByCut
<1>8. CASE \/ OpenThrows \/ UNCHANGED windowVars
           \/ \E date \in Dates : OnDateClicked(date)
           \/ ShowAllTasks \/ OnRefresh
           \/ \E i \in DOMAIN rows : SelectRow(i)
           \/ OnAddTask \/ OnDeleteTask \/ OnEditTask \/ TouchForm \/ Cancel
    <2>1. UNCHANGED <<tasks, file>>
        BY <1>8 DEF OpenThrows, windowVars, vars, OnDateClicked, ShowAllTasks, OnRefresh,
                    SelectRow, OnAddTask, OnDeleteTask, OnEditTask, OpenDialog, TouchForm,
                    Cancel
    <2>. QED  BY <1>1, <2>1
<1>. QED  BY <1>2, <1>3, <1>4, <1>5, <1>6, <1>7, <1>8 DEF WindowNext

(* What the user types fits the boxes, and so does what setTask puts there. *)
LEMMA FormsFit ==
    ASSUME NEW t, Typed(t) \/ \E v \in Tasks : t = SetTask(v)
    PROVE  FitsForm(t)
<1>1. \A time \in Range(SpinBoxes) : SpinBoxes[time] = time
    BY WindowAssumption DEF Range
<1>2. CASE Typed(t)
    BY <1>1, <1>2, WindowAssumption DEF Typed, FitsForm
<1>3. ASSUME NEW v \in Tasks, t = SetTask(v)
      PROVE  FitsForm(t)
    <2>1. v.start \in Times /\ v.remind \in Times
        BY DEF Tasks
    <2>2. t.start = SpinBoxes[v.start] /\ t.remind = SpinBoxes[v.remind]
        BY <1>3 DEF SetTask, Tasks
    <2>. QED  BY <2>1, <2>2, WindowAssumption DEF FitsForm
<1>. QED  BY <1>2, <1>3

LEMMA FormInit == WindowInit => FormInv
<1>. SUFFICES ASSUME WindowInit
              PROVE  FormInv
    OBVIOUS
<1>1. IInv /\ tasks = <<>> /\ file = <<>>
    BY ManagerInit, InitIInv DEF Init
<1>2. Range(tasks) = {} /\ Recover(file) = {}
    BY <1>1 DEF Range, Recover, Readable
<1>. QED  BY <1>1, <1>2 DEF FormInv

LEMMA FormStep == FormInv /\ [WindowNext]_windowVars => FormInv'
<1>. SUFFICES ASSUME FormInv, [WindowNext]_windowVars
              PROVE  FormInv'
    OBVIOUS
<1>1. IInv /\ IInv'
    BY ManagerStep, NextIInv DEF FormInv
<1>2. ASSUME NEW u \in Range(tasks') \cup Recover(file')
      PROVE  FitsForm(u) \/ FromVoice(u) \/ u \in garbled'
    <2>1. CASE u \in Range(tasks) \cup Recover(file)
        BY <2>1, StaysGarbled DEF FormInv
    <2>2. CASE AcceptAdd(u)
        BY <2>2, FormsFit DEF AcceptAdd
    <2>3. CASE AcceptVoice(u)
        BY <2>3 DEF AcceptVoice, FromVoice
    <2>4. CASE AcceptEdit(u)
        <3>1. \A i \in DOMAIN tasks : tasks[i] \in Tasks
            BY <1>1, ListIds DEF IInv, TypeOK
        <3>2. Typed(u) \/ \E v \in Tasks : u = SetTask(v)
            BY <2>4, <3>1 DEF AcceptEdit, InForm
        <3>. QED  BY <3>2, FormsFit
    <2>. QED  BY <1>1, <2>1, <2>2, <2>3, <2>4, WhereTasksComeFrom
<1>. QED  BY <1>1, <1>2 DEF FormInv, FitsForm, FromVoice

(* A form that shows other times than the task has is refused.             *)
LEMMA ShownAsItIs ==
    ASSUME NEW v \in Tasks, FitsForm(v) \/ FromVoice(v), Entered(SetTask(v))
    PROVE  SetTask(v) = v
<1>1. v.start \in Times /\ v.remind \in Times
    BY DEF Tasks
<1>2. SetTask(v) = [v EXCEPT !.start = SpinBoxes[v.start], !.remind = SpinBoxes[v.remind]]
    BY DEF SetTask
<1>3. SetTask(v).start = SpinBoxes[v.start] /\ SetTask(v).remind = SpinBoxes[v.remind]
    BY <1>2 DEF Tasks
<1>4. SpinBoxes[v.remind] <= SpinBoxes[v.start]
    BY <1>3 DEF Entered
<1>5. CASE FitsForm(v)
    BY <1>2, <1>5 DEF FitsForm, Tasks
<1>6. CASE FromVoice(v)
    <2>1. SpinBoxes[v.start] = v.start
        BY <1>6, WindowAssumption DEF FromVoice
    <2>2. SpinBoxes[v.remind] = v.remind \/ v.start < SpinBoxes[v.remind]
        BY <1>6, WindowAssumption DEF FromVoice
    <2>3. v.start \in Nat /\ SpinBoxes[v.remind] \in Nat
        BY <1>1, WindowAssumption, TimesAssumption
    <2>4. SpinBoxes[v.remind] = v.remind
        BY <1>4, <2>1, <2>2, <2>3
    <2>. QED  BY <1>2, <2>1, <2>4 DEF Tasks
<1>. QED  BY <1>5, <1>6

LEMMA UntouchedStep ==
    ASSUME FormInv, SInv, [WindowNext]_windowVars,
           dialog.kind = "edit", ~dialog.touched, pc' = "save",
           rows[selected] \notin garbled
    PROVE  Range(tasks') = Range(tasks)
<1>1. CASE tasks' = tasks
    BY <1>1
<1>2. CASE pc = "idle" /\ WindowNext
    <2>1. PICK t \in Candidates : InForm(t) /\ UpdateTask(t)
        BY <1>2, WhatStartsASave
    <2>2. PICK i \in DOMAIN tasks : IsFirst(i, dialog.id) /\ t = SetTask(tasks[i])
        BY <2>1 DEF InForm
    <2>3. tasks[i] \in Tasks /\ tasks[i] \in Range(tasks)
        BY ListIds DEF FormInv, IInv, TypeOK, Range
    <2>0. tasks[i] \notin garbled
        BY <1>2, <2>2, RowIsTask DEF IsFirst
    <2>4. t = tasks[i]
        BY <2>0, <2>1, <2>2, <2>3, ShownAsItIs DEF UpdateTask, FormInv
    <2>5. PICK j \in DOMAIN tasks :
             /\ tasks[j].id = t.id
             /\ Range(tasks') = (Range(tasks) \ {tasks[j]}) \cup {t}
        BY <2>1, UpdatedRange DEF FormInv
    <2>6. tasks[j] = t
        BY <2>4, <2>5 DEF FormInv, IInv, IdsDistinct
    <2>. QED  BY <2>3, <2>4, <2>5, <2>6
<1>3. CASE UNCHANGED windowVars
    BY <1>1, <1>3 DEF windowVars, vars
<1>4. CASE pc # "idle" /\ WindowNext
    BY <1>4, <1>3 DEF WindowNext, OpenThrows, OpenWindow, LoadFromFile, LoadFails,
                OnDateClicked, ShowAllTasks, OnRefresh, SelectRow, OnAddTask, OnDeleteTask, OnEditTask, OpenDialog, TouchForm,
                Cancel, ConfirmDelete, DeleteTask, AcceptAdd, AcceptVoice, AcceptEdit, AddTask,
                AddRejected, UpdateTask, SaveGoesOn, SaveOpen, SaveLine, TasksChanged,
                SaveOpenFails, SaveClose, WindowEnds, ProcessEnds, Usable, vars
<1>. QED  BY <1>2, <1>3, <1>4

(* Opening a task and confirming the form as it is shown changes nothing,  *)
(* whatever way the task was entered and however often it was saved and    *)
(* loaded: setTask shows it as it is, or the form is refused               *)
(* (TaskDialog::setTask, validateInput, onEditTask).                       *)
THEOREM UntouchedIsKept == WindowSpec => UntouchedEditKeeps
<1>1. WindowInit => FormInv /\ SInv
    BY FormInit, SelectionInit
<1>2. FormInv /\ SInv /\ [WindowNext]_windowVars => (FormInv /\ SInv)'
    BY FormStep, SelectionStep
<1>3. FormInv /\ SInv /\ [WindowNext]_windowVars =>
         [dialog.kind = "edit" /\ ~dialog.touched /\ pc' = "save"
             /\ rows[selected] \notin garbled
             => Range(tasks') = Range(tasks)]_windowVars
    BY UntouchedStep
<1>. QED  BY <1>1, <1>2, <1>3, PTL DEF WindowSpec, UntouchedEditKeeps
=============================================================================
