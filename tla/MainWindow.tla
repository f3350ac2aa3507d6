----------------------------- MODULE MainWindow -----------------------------
(***************************************************************************)
(* The main window (mainwindow.cpp) and the task dialog (taskdialog.cpp)   *)
(* over the task manager: the table that shows the tasks of the selected   *)
(* date, the dates highlighted in the calendar, the selected row, and the  *)
(* dialogs that add, edit and delete.                                      *)
(*                                                                         *)
(* Everything here runs on the GUI thread.  A dialog is modal: while it is *)
(* open the window takes no clicks, so the row that was selected when it   *)
(* opened is still selected when it is confirmed.  The table and the       *)
(* highlights are copies; tasksChanged, which the manager emits when the   *)
(* save has ended, well or not, has them made again.  The reminder thread  *)
(* changes nothing the window shows and is left to ReminderThread.tla.     *)
(***************************************************************************)
EXTENDS TaskManager

CONSTANTS
    Dates,      \* the dates the user can click in the calendar
    DateOf,     \* the date of each time, real or not
    SpinBoxes,  \* what the spin boxes of the task dialog make of each time
    AllDates,   \* the invalid QDate, which selects every date
    Typings,    \* bound: the start times and reminders the user types
    FiveBefore  \* the reminder the voice dialog makes for each start it hears

ASSUME WindowAssumption ==
    /\ DOMAIN DateOf = Times
    /\ AllDates \notin Dates
    /\ SpinBoxes \in [Times -> Times]
    /\ \A time \in Times : SpinBoxes[SpinBoxes[time]] = SpinBoxes[time]
    /\ Typings \subseteq Range(SpinBoxes) \X Range(SpinBoxes)
    /\ \A time \in DOMAIN FiveBefore :
          /\ time \in Times /\ FiveBefore[time] \in Times /\ FiveBefore[time] < time
          \* the boxes of the voice dialog are those of the task dialog, so the
          \* start fits them; a reminder that does not is shown later than it
          /\ SpinBoxes[time] = time
          /\ \/ SpinBoxes[FiveBefore[time]] = FiveBefore[time]
             \/ time < SpinBoxes[FiveBefore[time]]

VARIABLES
    selectedDate,  \* m_selectedDate
    rows,          \* m_model: the tasks whose text the table shows
    highlighted,   \* m_highlightedDates
    selected,      \* the selected row, 0 for none
    dialog,        \* the modal dialog that is open
    edited,        \* (observed) the tasks in the list or the file that an edit made
    garbled        \* (observed) those that nobody entered, read from a torn line

view == <<selectedDate, rows, highlighted, selected>>
windowVars == <<vars, view, dialog, edited, garbled>>

NoDialog == [kind |-> "none", id |-> 0, touched |-> FALSE]

WindowInit ==
    /\ Init
    /\ selectedDate = AllDates
    /\ rows = <<>>
    /\ highlighted = {}
    /\ selected = 0
    /\ dialog = NoDialog
    /\ edited = {}
    /\ garbled = {}

-----------------------------------------------------------------------------
(* refreshTable empties the table, and with it the selection, and copies   *)
(* the tasks of the date in the order of the list.                         *)
IsShown(t, date) == date = AllDates \/ DateOf[t.start] = date

Shown(list, date) ==
    FlattenSeq([i \in DOMAIN list |-> IF IsShown(list[i], date) THEN <<list[i]>> ELSE <<>>])

(* Mutant: the rows of before are not removed.                             *)
RefreshAppends(list, date) ==
    /\ rows' = rows \o Shown(list, date)
    /\ selected' = 0

RefreshTable(list, date) ==
    /\ rows' = Shown(list, date)
    /\ selected' = 0

(* updateCalendar: the dates that exist.                                   *)
TaskDates(list) ==
    {DateOf[list[i].start] : i \in {j \in DOMAIN list : list[j].start \in CalendarTimes}}

(* Mutant: the highlights of before are kept.                              *)
UpdateCalendarAdds(list) == highlighted' = highlighted \cup TaskDates(list)

UpdateCalendar(list) == highlighted' = TaskDates(list)

-----------------------------------------------------------------------------
(* The constructor loads the file and shows today.                         *)
OpenWindow(today) ==
    /\ LoadFromFile \/ LoadFails
    /\ selectedDate' = today
    /\ RefreshTable(tasks', today)
    /\ UpdateCalendar(tasks')
    /\ dialog' = NoDialog
    /\ UNCHANGED <<edited, garbled>>

(* Or the program ends in the constructor.                                 *)
OpenThrows == LoadThrows /\ UNCHANGED windowVars

(* The window can be used: no dialog, and no operation under way.          *)
Usable == pc = "idle" /\ dialog = NoDialog

OnDateClicked(date) ==
    /\ Usable
    /\ selectedDate' = date
    /\ RefreshTable(tasks, date)
    /\ UNCHANGED <<vars, highlighted, dialog, edited, garbled>>

ShowAllTasks ==
    /\ Usable
    /\ selectedDate' = AllDates
    /\ RefreshTable(tasks, AllDates)
    /\ UNCHANGED <<vars, highlighted, dialog, edited, garbled>>

OnRefresh ==
    /\ Usable
    /\ RefreshTable(tasks, selectedDate)
    /\ UNCHANGED <<vars, selectedDate, highlighted, dialog, edited, garbled>>

SelectRow(i) ==
    /\ Usable
    /\ selected' = i
    /\ UNCHANGED <<vars, selectedDate, rows, highlighted, dialog, edited, garbled>>

-----------------------------------------------------------------------------
(* The dialogs.  Edit is also what a double click on a row does.           *)

(* Mutant: the row is used as a place in the list.                         *)
SelectedByPlace == tasks[selected].id

SelectedTaskId == rows[selected].id

OpenDialog(kind, id) ==
    /\ Usable
    /\ dialog' = [kind |-> kind, id |-> id, touched |-> FALSE]
    /\ UNCHANGED <<vars, view, edited, garbled>>

OnAddTask == OpenDialog("add", 0)

OnDeleteTask == Usable /\ selected # 0 /\ OpenDialog("delete", SelectedTaskId)

OnEditTask ==
    /\ Usable /\ selected # 0
    /\ SelectedTaskId \in Ids(tasks)
    /\ OpenDialog("edit", SelectedTaskId)

(* The user changes something in the form.                                 *)
TouchForm ==
    /\ dialog.kind = "edit" /\ ~dialog.touched
    /\ dialog' = [dialog EXCEPT !.touched = TRUE]
    /\ UNCHANGED <<vars, view, edited, garbled>>

(* What the fields of a form can hold, and what setTask puts there.        *)
Typed(t) == <<t.start, t.remind>> \in Typings

SetTask(t) == [t EXCEPT !.start = SpinBoxes[@], !.remind = SpinBoxes[@]]

InForm(t) ==
    /\ t.id = dialog.id
    /\ IF dialog.touched THEN Typed(t)
       ELSE \E i \in DOMAIN tasks : IsFirst(i, dialog.id) /\ t = SetTask(tasks[i])

(* Closing a dialog: an operation that changed the list refreshes the      *)
(* window when its save has ended; a refused or cancelled one does not.    *)
Close == dialog' = NoDialog /\ UNCHANGED view

Cancel ==
    /\ pc = "idle" /\ dialog.kind # "none"
    /\ Close
    /\ UNCHANGED <<vars, edited, garbled>>

AcceptAdd(t) ==
    /\ dialog.kind = "add" /\ Typed(t)
    /\ AddTask(t) \/ AddRejected(t)
    /\ Close
    /\ UNCHANGED <<edited, garbled>>

AcceptVoice(t) ==
    /\ Usable
    /\ t.start \in DOMAIN FiveBefore /\ t.remind = FiveBefore[t.start]
    /\ AddTask(t) \/ AddRejected(t)
    /\ Close
    /\ UNCHANGED <<edited, garbled>>

AcceptEdit(t) ==
    /\ dialog.kind = "edit" /\ InForm(t)
    /\ UpdateTask(t)
    /\ edited' = {t} \cup (edited \cap (Range(tasks) \cup Recover(file)))
    /\ UNCHANGED garbled
    /\ Close

ConfirmDelete ==
    /\ dialog.kind = "delete"
    /\ DeleteTask(dialog.id)
    /\ UNCHANGED <<edited, garbled>>
    /\ Close

-----------------------------------------------------------------------------
SaveGoesOn ==
    /\ SaveOpen \/ SaveLine
    /\ UNCHANGED <<view, dialog, edited, garbled>>

(* A save that ends in the middle of a line can add a task to the file.    *)
NoteGarbled ==
    garbled' = (garbled \cap (Range(tasks) \cup Recover(file)))
                  \cup (Recover(file') \ Recover(file))

(* tasksChanged is emitted whatever became of the save.                    *)
TasksChanged ==
    /\ SaveOpenFails \/ SaveClose
    /\ RefreshTable(tasks, selectedDate)
    /\ UpdateCalendar(tasks)
    /\ NoteGarbled
    /\ UNCHANGED <<selectedDate, dialog, edited>>

WindowEnds ==
    /\ ProcessEnds
    /\ selectedDate' = AllDates
    /\ rows' = <<>>
    /\ highlighted' = {}
    /\ selected' = 0
    /\ dialog' = NoDialog
    /\ NoteGarbled
    /\ UNCHANGED edited

WindowNext ==
    \/ \E today \in Dates : OpenWindow(today)
    \/ OpenThrows
    \/ \E date \in Dates : OnDateClicked(date)
    \/ ShowAllTasks \/ OnRefresh
    \/ \E i \in DOMAIN rows : SelectRow(i)
    \/ OnAddTask \/ OnDeleteTask \/ OnEditTask \/ TouchForm \/ Cancel \/ ConfirmDelete
    \/ \E t \in Candidates : AcceptAdd(t) \/ AcceptVoice(t) \/ AcceptEdit(t)
    \/ SaveGoesOn \/ TasksChanged
    \/ WindowEnds

WindowSpec == WindowInit /\ [][WindowNext]_windowVars

-----------------------------------------------------------------------------
(* Whenever the user can act, the table shows exactly the tasks of the     *)
(* selected date in the order of the list and the calendar highlights      *)
(* exactly the dates that have tasks: the copies follow every add, edit    *)
(* and delete, also one whose save failed, every change of the date and    *)
(* every restart.                                                          *)
ViewCurrent ==
    pc = "idle" =>
        /\ rows = Shown(tasks, selectedDate)
        /\ highlighted = TaskDates(tasks)

(* What is deleted or edited is the task the user saw in the row he had    *)
(* selected, and nothing else; an added task replaces none.                *)
ActsOnSelected ==
    [][pc = "idle" /\ pc' = "save" =>
          LET lost == Range(tasks) \ Range(tasks')
              new  == Range(tasks') \ Range(tasks)
          IN  CASE dialog.kind = "delete" -> lost = {rows[selected]} /\ new = {}
                [] dialog.kind = "edit"   -> /\ lost \subseteq {rows[selected]}
                                             /\ \A t \in new : t.id = rows[selected].id
                [] OTHER                  -> lost = {} /\ Len(tasks') = Len(tasks) + 1
      ]_windowVars

(* An edit that is confirmed without touching the form leaves every task   *)
(* as it was, although the spin boxes cannot hold the day 0 that a voice   *)
(* task of the first of a month may have in its reminder: such a form is   *)
(* refused, because the reminder it shows is after the start.  Only the    *)
(* times of a task read from a torn line can be others than the form's.    *)
UntouchedEditKeeps ==
    [][dialog.kind = "edit" /\ ~dialog.touched /\ pc' = "save"
          /\ rows[selected] \notin garbled
          => Range(tasks') = Range(tasks)]_windowVars

(* "Start times of tasks cannot be the same" (task.h 26, taskmanager.h     *)
(* 57): two tasks share a start only if one of them was edited, since      *)
(* updateTask does not look, or read from a torn line, since loadFromFile  *)
(* does not.  Adding, by hand or by voice, crashes between the lines and   *)
(* reloads never bring it about.                                           *)
ClashOnlyByEdit ==
    \A i, j \in DOMAIN tasks :
        i # j /\ tasks[i].start = tasks[j].start =>
            {tasks[i], tasks[j]} \cap (edited \cup garbled) # {}
=============================================================================
