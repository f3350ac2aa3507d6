--------------------------- MODULE ReminderThread ---------------------------
(***************************************************************************)
(* One run of the main window: the GUI thread with its TaskManager, the    *)
(* reminder thread of MainWindow::reminderLoop, the mutex between them,    *)
(* the queue of calls posted back to the GUI thread, the wall clock, and   *)
(* the end of the window (mainwindow.cpp).                                 *)
(*                                                                         *)
(* The GUI thread holds m_mutex while pc is "save" or "write"; the         *)
(* reminder thread holds it while rpc is "scan".  checkReminders, one step *)
(* in TaskManager, is here the loop it is in the code.                     *)
(***************************************************************************)
EXTENDS TaskManager

CONSTANTS
    Period,    \* sleep_for(10 seconds), in ticks of the clock
    MaxClock,  \* bound on the clock: it stays there once it has come there
    DayLength  \* ticks in a day

ASSUME TimingAssumption ==
    /\ Period \in Nat \ {0}
    /\ DayLength \in Nat \ {0}
    /\ MaxClock \in Nat
    /\ 0..MaxClock \subseteq Instants

VARIABLES
    clock,    \* QDateTime::currentDateTime()
    delayed,  \* (observed) time has passed while one of the threads was at work
    window,   \* the main window: not opened yet, in its event loop, in its
              \* destructor, gone
    running,  \* m_running
    rpc,      \* where the reminder thread is
    left,     \* ticks that its sleep still lasts
    now,      \* checkReminders' now
    index,    \* its position in m_tasks
    due,      \* its result
    queue,    \* calls posted to the GUI thread and not run yet: lists of tasks
    shown,    \* (observed) ids of the tasks in the reminder boxes, in order
    since,    \* (observed) when the task with an id last got its times
    marked    \* (observed) when an id was marked as reminded

threadVars ==
    <<clock, delayed, window, running, rpc, left, now, index, due, queue, shown, since, marked>>

allVars == <<vars, threadVars>>

ThreadInit ==
    /\ Init
    /\ clock = 0
    /\ delayed = FALSE
    /\ window = "none"
    /\ running = FALSE
    /\ rpc = "none"
    /\ left = 0
    /\ now = 0
    /\ index = 1
    /\ due = <<>>
    /\ queue = <<>>
    /\ shown = <<>>
    /\ since = [id \in 1..MaxId |-> 0]
    /\ marked = [id \in 1..MaxId |-> 0]

-----------------------------------------------------------------------------
(* The GUI thread.                                                         *)

(* The constructor: load the tasks, then start the thread.                 *)
Open ==
    /\ window = "none"
    /\ LoadFromFile
    /\ window' = "open"
    /\ running' = TRUE
    /\ rpc' = "sleep"
    /\ left' = Period
    /\ UNCHANGED <<clock, delayed, now, index, due, queue, shown, since, marked>>

(* Mutant: the operations of the GUI thread do not take the mutex.         *)
GuiIgnoresLock == window = "open"

(* The mutex: an operation waits until the reminder thread is out of its   *)
(* loop.                                                                   *)
GuiHasLock == window = "open" /\ rpc # "scan"

Stamp(id) == since' = [since EXCEPT ![id] = clock]

Add(t) ==
    /\ GuiHasLock
    /\ AddTask(t)
    /\ Stamp(t.id)
    /\ UNCHANGED <<clock, delayed, window, running, rpc, left, now, index, due, queue, shown, marked>>

Update(t) ==
    /\ GuiHasLock
    /\ UpdateTask(t)
    /\ Stamp(t.id)
    /\ UNCHANGED <<clock, delayed, window, running, rpc, left, now, index, due, queue, shown, marked>>

Delete(id) ==
    /\ GuiHasLock
    /\ DeleteTask(id)
    /\ UNCHANGED threadVars

Reject(t) ==
    /\ GuiHasLock
    /\ AddRejected(t)
    /\ UNCHANGED threadVars

Saving ==
    /\ Save
    /\ UNCHANGED threadVars

(* Mutant: only the first task of a posted list gets a box.                *)
ShowFirstOnly ==
    /\ window = "open"
    /\ pc = "idle"
    /\ queue # <<>>
    /\ shown' = Append(shown, Head(queue)[1].id)
    /\ queue' = Tail(queue)
    /\ UNCHANGED <<vars, clock, delayed, window, running, rpc, left, now, index, due, since, marked>>

(* The event loop, of the window or of a dialog on top of it, runs the     *)
(* call that the reminder thread posted: one box per task of its list.     *)
ShowReminders ==
    /\ window = "open"
    /\ pc = "idle"
    /\ queue # <<>>
    /\ shown' = shown \o [i \in DOMAIN Head(queue) |-> Head(queue)[i].id]
    /\ queue' = Tail(queue)
    /\ UNCHANGED <<vars, clock, delayed, window, running, rpc, left, now, index, due, since, marked>>

(* Mutant: the destructor joins the thread without telling it first.       *)
CloseWithoutTelling ==
    /\ window = "open"
    /\ pc = "idle"
    /\ window' = "closing"
    /\ UNCHANGED <<vars, clock, delayed, running, rpc, left, now, index, due, queue, shown, since, marked>>

(* ~MainWindow: tell the thread, join it; calls still posted to the window *)
(* are dropped with it.                                                    *)
Close ==
    /\ window = "open"
    /\ pc = "idle"
    /\ window' = "closing"
    /\ running' = FALSE
    /\ UNCHANGED <<vars, clock, delayed, rpc, left, now, index, due, queue, shown, since, marked>>

Joined ==
    /\ window = "closing"
    /\ rpc = "done"
    /\ window' = "gone"
    /\ queue' = <<>>
    /\ UNCHANGED <<vars, clock, delayed, running, rpc, left, now, index, due, shown, since, marked>>

-----------------------------------------------------------------------------
(* The reminder thread.                                                    *)

(* while (m_running): back to sleep, or out of the loop.                   *)
LoopHead ==
    IF running THEN rpc' = "sleep" /\ left' = Period
               ELSE rpc' = "done" /\ left' = 0

Wake ==
    /\ rpc = "sleep"
    /\ left = 0
    /\ rpc' = IF running THEN "lock" ELSE "done"
    /\ UNCHANGED <<vars, clock, delayed, window, running, left, now, index, due, queue, shown, since, marked>>

(* Mutant: the loop starts one place too early.                            *)
AcquireAtZero ==
    /\ rpc = "lock"
    /\ pc = "idle"
    /\ rpc' = "scan"
    /\ now' = clock
    /\ index' = 0
    /\ due' = <<>>
    /\ UNCHANGED <<vars, clock, delayed, window, running, left, queue, shown, since, marked>>

(* checkReminders takes the lock and then reads the clock.                 *)
Acquire ==
    /\ rpc = "lock"
    /\ pc = "idle"
    /\ rpc' = "scan"
    /\ now' = clock
    /\ index' = 1
    /\ due' = <<>>
    /\ UNCHANGED <<vars, clock, delayed, window, running, left, queue, shown, since, marked>>

(* The reminder has come and the start has not passed, at the instant read *)
(* first.  Mutant: the start instant itself is too late.                   *)
InWindowStrictly(t) == Instant(t.remind) <= now /\ now < Instant(t.start)

InWindow(t) == Instant(t.remind) <= now /\ now <= Instant(t.start)

(* m_reminded_ids.push_back.  Mutant: the id is not marked.                *)
MarkNothing(id) == UNCHANGED <<reminded, marked>>

Mark(id) ==
    /\ reminded' = reminded \cup {id}
    /\ marked' = [marked EXCEPT ![id] = now]

(* One turn of the loop.                                                   *)
ScanTask ==
    /\ rpc = "scan"
    /\ index <= Len(tasks)
    /\ LET t == tasks[index] IN
          IF InWindow(t) /\ t.id \notin reminded
          THEN due' = Append(due, t) /\ Mark(t.id)
          ELSE UNCHANGED <<due, reminded, marked>>
    /\ index' = index + 1
    /\ UNCHANGED <<tasks, nextId, file, pc, synced>>
    /\ UNCHANGED <<clock, delayed, window, running, rpc, left, now, queue, shown, since>>

(* The end of the loop releases the lock; an empty result is not posted.   *)
ScanEnd ==
    /\ rpc = "scan"
    /\ index > Len(tasks)
    /\ IF due = <<>> THEN LoopHead ELSE rpc' = "post" /\ UNCHANGED left
    /\ UNCHANGED <<vars, clock, delayed, window, running, now, index, due, queue, shown, since, marked>>

Post ==
    /\ rpc = "post"
    /\ queue' = Append(queue, due)
    /\ due' = <<>>
    /\ LoopHead
    /\ UNCHANGED <<vars, clock, delayed, window, running, now, index, shown, since, marked>>

-----------------------------------------------------------------------------
(* Time passes, also while the two threads are at work.                    *)
AtRest == pc \in {"off", "idle"} /\ rpc \in {"none", "sleep", "done"}
          /\ (rpc = "sleep" => left > 0)

Tick ==
    /\ window # "none"
    /\ clock < MaxClock \/ left > 0
    /\ clock' = IF clock < MaxClock THEN clock + 1 ELSE clock
    /\ left' = IF left > 0 THEN left - 1 ELSE 0
    /\ delayed' = (delayed \/ ~AtRest)
    /\ UNCHANGED <<vars, window, running, rpc, now, index, due, queue, shown, since, marked>>

ReminderStep == Wake \/ Acquire \/ ScanTask \/ ScanEnd \/ Post

ThreadNext ==
    \/ Open
    \/ \E t \in Candidates : Add(t) \/ Update(t) \/ Reject(t)
    \/ \E id \in Ids(tasks) : Delete(id)
    \/ Saving
    \/ ShowReminders
    \/ Close
    \/ Joined
    \/ ReminderStep
    \/ Tick

(* The scheduler runs both threads and time passes.  A user owes nothing.  *)
(* ShowReminders is strongly fair because the event loop runs posted calls *)
(* each time the GUI thread comes back to it.                              *)
Fairness ==
    /\ WF_allVars(Saving)
    /\ SF_allVars(ShowReminders)
    /\ WF_allVars(Joined)
    /\ WF_allVars(ReminderStep)
    /\ WF_allVars(Tick)

ThreadSpec == ThreadInit /\ [][ThreadNext]_allVars /\ Fairness

-----------------------------------------------------------------------------
(* Both threads keep their variables in range.                             *)
ThreadTypeOK ==
    /\ TypeOK
    /\ clock \in 0..MaxClock
    /\ delayed \in BOOLEAN
    /\ window \in {"none", "open", "closing", "gone"}
    /\ running \in BOOLEAN
    /\ rpc \in {"none", "sleep", "lock", "scan", "post", "done"}
    /\ left \in 0..Period
    /\ now \in 0..MaxClock
    /\ index \in Nat \ {0}
    /\ due \in Seq(Tasks)
    /\ queue \in Seq(Seq(Tasks))
    /\ shown \in Seq(Nat)
    /\ since \in [1..MaxId -> 0..MaxClock]
    /\ marked \in [1..MaxId -> 0..MaxClock]

(* The ids announced so far: in boxes, in posted calls, in the result of   *)
(* the check that is under way.                                            *)
Announced ==
    LET pending == FlattenSeq(queue) \o due
    IN  shown \o [i \in DOMAIN pending |-> pending[i].id]

(* Every id marked as reminded has its box, or a call that will show it,   *)
(* exactly once, and nothing is announced that is not marked: with the     *)
(* window up no reminder is lost or shown twice, whatever the GUI thread   *)
(* does between the check and the box.                                     *)
MarkedOnce ==
    /\ IsInjective(Announced)
    /\ window = "open" => Range(Announced) = reminded

(* The loop of the reminder thread, step by step and beside the GUI        *)
(* thread, amounts to the one step CheckReminders at the instant it ends.  *)
Atomic == INSTANCE TaskManager WITH
    reminded <- IF rpc = "scan" THEN reminded \ Ids(due) ELSE reminded

ChecksAtomic == Atomic!Spec

(* The window of a task, from its reminder or from its last change until   *)
(* its start, is long enough to contain a wake-up of the thread.           *)
LongWindow(t) ==
    /\ {t.remind, t.start} \subseteq CalendarTimes
    /\ t.remind + Period <= t.start
    /\ since[t.id] + Period <= t.start

(* A task whose window lasts a whole period has been announced when its    *)
(* start time has passed: polling does not skip it, as long as the threads *)
(* and the disk take no time themselves.                                   *)
WindowNotMissed ==
    ~delayed /\ window = "open" =>
        \A i \in DOMAIN tasks :
            LongWindow(tasks[i]) /\ tasks[i].start < clock => tasks[i].id \in reminded

(* Closing the window ends: the destructor holds no lock while it joins,   *)
(* and the thread looks at m_running at least once per period.             *)
ClosingEnds == window = "closing" ~> window = "gone"

(* What was marked is shown, unless the user closes the window first.      *)
MarkedIsShown ==
    \A id \in 1..MaxId :
        id \in reminded ~> id \in Range(shown) \/ window # "open"

-----------------------------------------------------------------------------
(* "And this task has not been reminded yet today" (taskmanager.cpp 174):  *)
(* a task whose reminder lies after the pass that marked it, so that its   *)
(* times were edited since, is passed over in its new window only if that  *)
(* pass was on the same day.  m_reminded_ids is never cleared, so an edit  *)
(* that moves a reminded task to a later day leaves it silent there.       *)
Day(time) == time \div DayLength

EditedSinceMarked(t) == marked[t.id] < Instant(t.remind)

SkippedWasToday ==
    rpc = "scan" /\ index > Len(tasks) =>
        \A i \in DOMAIN tasks :
            InWindow(tasks[i]) /\ EditedSinceMarked(tasks[i]) =>
                Day(marked[tasks[i].id]) = Day(now)
=============================================================================
