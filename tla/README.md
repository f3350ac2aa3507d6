# A verification development of Daily-Routine-System

Daily-Routine-System is a Qt desktop program: a user logs in, keeps a list of
tasks with a start and a reminder time, is reminded by a background thread, and
may dictate a task. These modules model what it does, TLC checks them on small
instances, and TLAPS proves the main results for every value of the constants.
Source paths below are relative to `src/src/`.

## 1. The system

| Part | State | Operations | Talks to |
|---|---|---|---|
| Task, Time (`task.h`, `task.cpp`) | fields of a task, the static id counter | `serialize`, `deserialize`, order of times | used by everything |
| TaskManager (`taskmanager.cpp`) | `m_tasks`, `m_reminded_ids`, `tasks.txt`, a recursive mutex | load, save, add, delete, edit, find, `checkReminders` | called by the GUI thread and the reminder thread; `tasksChanged` to the window |
| Reminder thread (`mainwindow.cpp` 367-381) | `m_running`, its sleep, the due tasks | sleep 10 s, check, post a call | TaskManager under the mutex; the GUI thread by posted calls |
| MainWindow (`mainwindow.cpp`) | table, selected date, highlighted dates | add, edit, delete, filter, voice entry, reminder boxes | TaskManager, dialogs |
| TaskDialog (`taskdialog.cpp`) | fields, edit id | validate, build a task | MainWindow |
| Accounts (`auth.cpp`, `loginwindow.cpp`, `main.cpp`) | `users.txt`, the login form | register, login | the file is shared by all running copies of the program |
| VoiceInputDialog (`voiceinputdialog.cpp`) | `m_recording`, buttons, fields | press, release, finished, parse, confirm | recorder, recogniser, service |
| AudioRecorder (`audiorecorder.cpp`) | `m_recording`, the `arecord` process, a WAV file | start, stop | signals to the dialog |
| SpeechRecognizer (`speechrecognizer.cpp`, `whisper_stt.py`) | `m_ready` | `recognize`, blocking, at most two minutes | a Python process |
| DeepSeekClient (`deepseekclient.cpp`) | none | `parseTask`, an event loop until the reply | the network |
| voice_test (`voice_test.cpp`) | a child process, the terminal mode | keys | stand-alone tool |

What is hard in it:

* the save rewrites `tasks.txt` in place, and the program may die at any line of it;
* the id counter lives in memory and is rebuilt from whatever the file gives back;
* the reminder thread walks the list that the GUI thread changes, and its result
  crosses to the GUI thread in a queue while the list moves on;
* several copies of the program search and append `users.txt`;
* the window shows copies of the list, made again when a save has ended, well or not,
  and its dialogs act on the row the user selected in the copy;
* Python and `arecord` may be missing, hang, die or outlive their caller;
* the voice dialog calls `processEvents()` inside its handlers, so that handlers nest,
  and its destructor may start a recognition;
* none of the results of saves and of file streams is looked at.

`PROJECT.json` lists every such place ("hazards") with the properties that watch it.

## 2. Modules

| Module | What it is |
|---|---|
| `Task` | Tasks, the order of times, the line format, `std::sort` as "any sorted rearrangement" |
| `TaskLine` | One line of `tasks.txt` with all its fields, cut anywhere and read again |
| `Schedule` | The abstract promise of the task manager: a set of tasks, what would survive a restart, what was announced |
| `TaskManager` | `class TaskManager`, with crashes and restarts; its refinement mapping to `Schedule` |
| `ReminderThread` | `TaskManager` + reminder thread + mutex + posted calls + clock + destructor; its refinement to `TaskManager` |
| `MainWindow` | `TaskManager` + table, date filter, selection, highlights, dialogs |
| `Auth` | `users.txt` and the login dialogs of several instances |
| `VoiceInputDialog` | The dialog, the recorder, the service and their nested handlers |
| `VoiceTime` | The date and time heard in a sentence, and the reminder time |
| `SpeechRecognizer` | The checks of the constructor, `recognize()`, its processes and the script |
| `VoiceTest` | The terminal tool `voice_test` over several runs in one terminal |
| `*Proofs` | Theorems and their proofs (section 5) |
| `MC*` | Values for TLC |

How state and actions correspond to the code:

* **Task.** A time is its rank in the order of `operator<`; some ranks are not dates of
  the calendar (a 31 June can be typed, day 0 can be computed), and `Instant` maps them to
  the epoch, as an invalid `QDateTime` compares. A name is the sequence of its pieces
  between `|`. A line is a sequence of fields; the five numbers of a time travel as one field and
  the enums are left out, so 14 fields become 4; a name with a bar still changes the count.
* **TaskLine** keeps all 14 fields and the digits of numbers as far as a cut can shorten them.
  `Torn` gives every line a full disk or a crash can leave; `Split` is the loop with
  `getline`, for which nothing after the last bar is no field; `Deserialize` drops, loads or
  throws.
* **TaskManager.** One action per operation. `AddTask`, `DeleteTask` and `UpdateTask`
  include the sort and go to `pc = "save"`; `SaveOpen` truncates, `SaveLine` writes one
  task, `SaveClose` ends. `ProcessEnds` may come anywhere. `NewId` is the constructor of
  `Task`, which takes an id for every dialog that is accepted, including edits and refused tasks.
  A crash (`ProcessEnds`) or a full disk (`SaveClose`) may cut the line being written. A cut line
  of a name without a bar has fewer fields and is skipped by `deserialize`, like no line at all
  (`TornLineHarmless` in `TaskLineProofs`); one of a name with bars can have the right number,
  and is then in `Cuts`: its name is the first piece, and for its times it has what the constant `Misread` gives.
  If these are times, the next load takes it for a task (`Misreadings`) that nobody entered; if
  one is a word, `stoi` throws, nothing catches it, and the program ends at every start (`LoadThrows`).
  `synced` only observes whether the last load or save went through in full, whatever it reported.
* **ReminderThread.** `rpc` is the place in `reminderLoop` and `checkReminders`
  (`sleep`, `lock`, `scan`, `post`, `done`); the GUI thread holds the mutex while `pc` is
  `save` or `write`, the reminder thread while `rpc` is `scan`. `since`, `shown`, `marked`
  and `delayed` only observe.
* **MainWindow.** `rows` is what `refreshTable` put into the table, `highlighted` what
  `updateCalendar` gave the calendar; both are made again by `TasksChanged`, which ends an
  operation whatever became of the save. `dialog` is the modal dialog that is open; `SetTask`
  shows a task through the spin boxes, `Typed` is what they can hold. `edited` and `garbled` only observe:
  the tasks that an edit made, and those that were read from a torn line.
* **Auth.** `register_user` is two actions, because the file is closed between search and
  append. A line is name words, then the hash; `StoredUser` cuts at the first space.
* **VoiceInputDialog.** A handler is a frame on `stack`, at the place where it
  dispatches events. `ReplyUsed`, `Extract` and `LocalParse` are the ways `parseText`
  fills the form; the category is kept apart from the other fields because a reply with an
  unknown category leaves the box alone. `Destroy` and `Destroyed` are the two destructors.
  `upset`, `odd` and `late` only observe.
* **VoiceTime.** A sentence is a set of words, with the day of the week it names, how it names it
  (`week`: 周, 星期, or either with 下 before it, for next week) and the digits of an hour. The code
  searches for 周 with a number (`HeardWeekday`), and so finds 周三 within 下周三. `extractDateTime`
  is `ExtractDateTime`, `getTask`'s reminder is `Remind`.
* **SpeechRecognizer.** `proc` is the state and exit code of each `QProcess`; a
  process that has not ended has exit code 0, one that never started 0 or 255, since Qt does
  not promise which. `WaitOver` is `waitForFinished`, whose result the code does not look at.
* **VoiceTest.** `child` is the state of every process forked, `orig` the copy of
  `orig_termios` each has, `wav` who wrote the file and who has it open. `alone` and `upset`
  only observe.

## 3. Runs

| Run | Shows | Bounds |
|---|---|---|
| `manager` | types, ids, counter, order, file prefix, durability, fresh ids; refinement of `Schedule` | 3 ids per run, 2 times (one no real date), both kinds of name, all faults, lines cut to another task or to one that throws |
| `reminders` | atomicity of the check, every mark shown once, no long window missed, closing ends, marks are shown | 2 tasks, period 2, a window of one period, clock to 5 |
| `main_window` | the copies are current, edit and delete reach the selected task, an untouched edit keeps it, only edits and torn lines bring two tasks to one start | 3 ids, 5 times on 3 dates, one clickable date, both kinds of name, saves that fail, torn lines |
| `task_line` | every cut of a line is skipped or loads the task; when a start of the program can throw | names of 1 to 3 fields (words, numbers, blanks), two moments |
| `accounts` | registration needed, passwords stay | 2 instances, 3 lines, a name with a space, a file that may refuse writes |
| `voice` | one recording, latest fields and category confirmed, confirmed fields kept, closing ends, the record button comes back, no late signal | 3 recordings in a dialog, all faults |
| `voice_time` | reminders, named days | month ends, year ends, leap year; three days of the week in four forms |
| `recognizer` | ready only on a machine that has what is needed, unless a check overslept; calls end and leave no process | no bound: finite |
| `voice_test` | the terminal is given back, the transcript is that of the last recording | 4 forks over all runs |

The other runs expect a violation: each shows that a sentence of the documentation, a
message or a test does not hold, and `findings` in `PROJECT.json` quotes it:

| Run | The behaviour it finds |
|---|---|
| `survives_reload` | a task with `\|` in its name is saved and not loaded again |
| `skipped_today` | a task reminded once, whose times are edited after that, stays silent on the later day they name |
| `login_space` | an account with a space in its name is registered and cannot log in |

Other limits of the code appear as exceptions that the properties state, and nowhere else:

* an edit may put a task on the start time of another, against `task.h` 26
  (`ClashOnlyByEdit` allows the edited task, and one read from a torn line);
* a torn line of a task with bars in its name can be loaded as a task nobody entered. `Schedule`
  allows this for the task whose storing was cut off and for no other (`Garble`, `Stop`);
  `ClashOnlyByEdit` and `UntouchedEditKeeps` except such a task;
* when `arecord` does not start, the release disables the record button for good, and a
  release handled before its press has the same effect (`OnlyUpsetDisables`);
* `DateHeard` excepts four things (`Misheard`): the word for 3 days is heard as 2 days, since it
  contains the word for 2; a day called 星期 or 礼拜 is not searched for; next week's day of a name
  that this week still has ahead (下周三, the example of `deepseekclient.h` 5, said on a Monday) is taken for
  this week's; and the year of a date heard is always the current one;
* the reminder of a task in the first five minutes of a month is on day 0 (`FiveMinutes`);
  the task dialog shows it as day 1, after the start, and then refuses an edit that changed
  nothing (`UntouchedEditKeeps`);
* a category the service does not know leaves the one of the sentence before (`CategoryIsLatest`);
* a check of the recogniser that is too slow counts as passed (`ReadyUnlessOverslept`);
* a torn line of a task with bars in its name can make `stoi` throw at every start
  (`ThrowsOnlyOnWords`);
* a child of `voice_test` whose exec failed takes the terminal out of raw mode, and `q` during a
  recording leaves an `arecord` that writes to the file of the next run (`TerminalMode`,
  `TranscriptIsLatest`).

Why the bounds are enough. Three ids let a task be added, edited past a second one and
deleted between two saves; ids restart from the file after each run of the program,
so the number of runs is not bounded. Two times
suffice for conflicts, for order and for a date that is none; the second piece of a name with a bar
is read as a number that makes a time, and as a word; instants before, at and after
the real one make a reminder early, due and too late. The file is as long as the list. In
`ReminderThread` two tasks make lists of two, and a period of two ticks lets
everything happen within a sleep; the window of a task lasts exactly one period, the shortest
that may not be missed. In `MainWindow` the times are one that only the voice dialog makes, two
on the first of the month, one on another day, one on no day. What is typed and what is dictated
start on different dates, so that the clicked date shows some of the list; torn
lines give the start of another task, a reminder that no form can show, and a word. Dialogs are modal, so one is
open at a time. In `TaskLine` three fields of a name are one more than what the shortest cut
with 14 fields needs. In `Auth` two instances give the race, three lines one more than the
names. In `VoiceInputDialog` handlers nest at most two deep, which `DialogTypeOK` checks, and a third
recording starts from every state the second can leave. In `VoiceTest` four forks are a
left-over recorder, a failed exec and two more. The bounds are `MaxClock`,
`MaxId`, `MaxLines`, `MaxTalks`, `MaxForks`, and `Typings` for what is typed.

Deadlock is not checked in the runs of `ReminderThread`, where a closed window is the end,
and in `task_line`, where a line that has been read is.

## 4. Fairness

`ReminderThread`: both threads are scheduled (weak fairness of the save and of the
reminder thread, which always finds the mutex free again, because a save ends), time
passes, and posted calls are run (strong fairness: the event loop runs them each time the
GUI thread returns to it). Nothing is assumed of the user. `WindowNotMissed` is a safety property of the
behaviours in which time has only passed while everyone slept or idled (`delayed` is false);
without this no polling thread can promise it.

`VoiceInputDialog`: handlers go on, since all their waits have timeouts in the code
(3, 5 + 2 and 120 seconds), except for the wait for the reply, which has none; so
`ClosedEnds` assumes in its statement that no wait for a reply lasts for ever.

`SpeechRecognizer`: weak fairness of the steps after a wait, which `waitForFinished` lets go
on after 3, 5 or 120 seconds whether or not the process has ended. Of the processes
nothing is assumed.

## 5. Proofs

All of these hold for all values of the constants under the named assumptions
(`NamesAssumption`, `TimesAssumption`, `MisreadAssumption`, `BoundsAssumption`, `TimingAssumption`,
`WindowAssumption`, `AccountsAssumption`, `TalksAssumption`, `VoiceTimeAssumption`,
`ForksAssumption`, `LineAssumption`), which state the types of the constants (of `Misread` no more: a
torn line may have anything in the place of its times, words included) and, for the main
window, that spin boxes keep what they can hold, that a voice reminder comes before its start, and
that they show it as it is or as a time after the start; of the last two `RemindAlwaysFirst` and
`ShownReminder` prove that they hold of `VoiceTime`. `sha256` is modelled as an injective function.

Several proofs go over a list from its front. The induction rules of the library take an
operator as a parameter, which the provers cannot instantiate; `Induct` in
`TaskManagerProofs` is the same rule for a set of numbers, from the order of the naturals being
well-founded. With it the facts about `FlattenSeq`, a recursive function, are lemmas: what
holds its elements (`FlattenType`), and what one more sequence at the end (`FlattenAppend`) or one
less at the front (`FlattenHead`) makes of it.

*Task manager* (`TaskManagerProofs`). `IInv` is the inductive invariant: `TypeOK`, `IdsDistinct`, `CounterAhead`,
`ListSorted`, `FileIsPrefix`, and two facts about the file. The wanted properties are
not inductive alone, because a restart replaces the list by what the file holds: distinct ids in
memory need distinct ids in the file. `LinesWritten` says that every line is `Serialize` of some
task or a cut of it, and `LineIdsDistinct` that no two lines carry one id. During a save the
file is a prefix of the list, from which both follow; the line that a crash or a full disk cuts has the id of
the task that came next (`TornFields`, `CutLines`). Loading is the step with content: `Sortings` permutes the
readable lines (`SortingsFacts`), and `deserialize` undoes `serialize` on the lines it accepts
(`RoundTrip`). `NextIInv` has one lemma per action. From `IInv` follow `TypeCorrect`,
`IdsSafe`, `CounterSafe`, `AlwaysSorted`, `PrefixWhileSaving`, `DurableAlways` and the action property
`NewTaskIsFresh`.

*Refinement* (`TaskManagerProofs`). `ScheduleKept`: every behaviour of `TaskManager`
is one of `Schedule` under the mapping in `TaskManager` (the list to its range, the file to
what a load would restore). One lemma per action maps the step to an abstract step or to
a stutter. A line that was cut adds nothing to what a load would restore, or one misreading of a task of
the list, or it leaves nothing that can be restored (`RecoverAfterCut`). A save that the disk cut short is one, because the abstract schedule then stays
dirty; that `saveToFile` reports success all the same is not a matter of the promise.

*Reminder thread* (`ReminderThreadProofs`). `TInv` adds to `IInv` the types and `ScanInv`: while the
thread walks the list no operation is under way, and the tasks it has collected are those up to
the present index that were due and not marked before. This is what the mutex is for:
without it `ScanInv` does not survive an `UpdateTask`. From it follows
`ChecksAreAtomic`: the walk is a stutter of `TaskManager` until its end, which is one `CheckReminders`.
`PollingMissesNone` needs `PollInv`: the time of the next check is never after the start of an
unmarked task with a long window, in each of the places the thread can stand.
`EachAnnouncedOnce` (invariant `MarkInv`) follows every id from the scan that marks it through the
posted call to its box. What is announced is a sequence of which a scan appends to the end, and a
post or a shown call moves a cut; both leave it as it is (`PostMoves`, `ShowMoves`). An id can be
appended once because it was not marked before, and what is announced is marked.
`ThreadsKeepSchedule` carries the abstract promise over to both threads: `Schedule` is instantiated
once more, with the ids of a scan under way left out of what is announced, and every step of
either thread is a step of it or a stutter.

*Main window* (`MainWindowProofs`). `WindowUsesManager` maps each action of the window to one of the
manager, so that `IInv` holds there too, and with it `Schedule` (`WindowKeepsSchedule`).
`ClashOnlyByEdit` is not inductive: after a
restart the list comes from the file, so `WInv` asks the same (`ByEdit`) of what the file would
give back; what a torn line adds to that is in `garbled` (`GarbledByCut`) and stays there (`StaysGarbled`). `ActsOnSelectedRow` joins three facts: the id in the dialog is that of the selected row
(`SelectionInv`), every row is a task of the list (`ShownRange`), and ids are distinct (`IInv`), so that
the task found by its id is the one in the row. `UntouchedIsKept` rests on `FormInv`: a task was
either typed, and then the spin boxes show it as it is, or is a voice task with the reminder five
minutes before, or is in `garbled`; the same of the tasks in the file. In the second case the boxes may show another
reminder, but then it is after the start and the form is refused.

*Accounts* (`AuthProofs`). `IInv` says that every line of `users.txt` is that of an account
whose owner was told so. `PasswordsSafe` is an action property: the first line of a name
decides and lines are only appended.

*Voice dialog* (`VoiceInputDialogProofs`). `DInv` says which handlers can be under way
together (`StackInv`), what the buttons are while they are (`ButtonInv`), and how the two
`m_recording` flags agree unless a press went wrong (`UpsetInv`). None of the properties is
inductive without the other parts: `OneRecording` rests on the button that is disabled while a handler
waits, `NeverLate` on the agreement of the flags.

*Voice times* (`VoiceTimeProofs`). `RemindAlwaysFirst`: the reminder precedes the start for every date and
sentence, so that the voice dialog, which does not call `validateInput`, never produces what the task
dialog refuses. This is the assumption `Entered` of `TaskManager`. `FiveMinutesKept` counts
minutes over the calendar: `DayNumber` of two days of one month differs as the days do.
`DayAlwaysHeard` needs more of the calendar. `DayNumber` counts leap years and long months with
cardinalities; `DayNumberParts` writes it as a sum, from which follow what the first of the next
month (`NextMonth`) and of the next year (`NextYear`) add, and that `AddDays` adds as many to the
number as were asked for (`AddDaysNumber`). `ShownReminder` says what the boxes of the task dialog
make of a voice reminder.

*Lines* (`TaskLineProofs`). A torn line is the whole line up to a field, and of that field a part
(`TornFields`). `CutBarless`: such a line of a task without bars is always dropped, because its last field is
one digit, so that a cut leaves fewer than 14 fields. `CutThrows`: a cut line of 14
fields moves fields of the name to where numbers are expected, and numbers cut short remain numbers.

*Terminal tool* (`VoiceTestProofs`). `ModeInv`: the tool still knows the mode it found,
whatever it has forked. `FileInv`: while a recording that began alone goes on, no other `arecord`
lives, so nobody else is in the file once its own has made it.

Only model-checked:

* liveness (`ClosingEnds`, `MarkedIsShown`, `ClosedEnds`, `CallsEnd`): progress under fairness is
  beyond the prover;
* `ReadyUnlessOverslept`: `SpeechRecognizer` has no constants and finitely many states, so TLC's
  run covers every instance there is.

## 6. Not modelled

* Two copies of the program that share `tasks.txt`: each save replaces the file by its own
  list, the last one wins, and no code or document says more.
* Which words of a sentence give which name, priority and category: plain searches in a text.
* The text that `parseTask` sends, and the display text of a task.
* The main window becoming usable while a closed voice dialog waits in its destructor.
* What the callers are told when a save or a registration was not written (both report
  success) is in the models as what the code does; no property speaks of the report.
* `read()` at the end of the input of `voice_test`, which is retried for ever.
* `test_calendar.cpp`, which does not compile as it stands; the build files; widgets, wording and layout.
* `whisper.cpp`, the vendored speech recogniser that makes up nearly all lines of the
  repository. It is third-party code that this program runs as a process or not at all, and
  its numerical kernels have no state that the program's own logic could meet. All program files of
  the repository's own are modelled, so the share of lines covered is bounded by it.

## 7. What could come next

1. `TwoInstances`, if the program is given a lock or a merge for `tasks.txt`.
2. The voice dialog and the main window in one model: what the window does while the
   dialog that was closed still waits for its reply.
