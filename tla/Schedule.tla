------------------------------ MODULE Schedule ------------------------------
(***************************************************************************)
(* What the task manager promises, without list, lock, counter or file     *)
(* format: a set of tasks, the set that would survive a restart, and which *)
(* tasks have been announced in this run.  While "dirty" is FALSE the      *)
(* stored tasks are those of the schedule; a change makes it dirty, and    *)
(* storing starts again from nothing.  A task whose name has a bar is not  *)
(* stored; while storing is cut off, it can leave a task in its place that *)
(* nobody entered, under its id, or nothing stored that can be read.       *)
(***************************************************************************)
EXTENDS Task

CONSTANTS
    Universe,  \* the tasks that may be entered
    Instants   \* the instants at which reminders are looked for

VARIABLES
    schedule,  \* the tasks the user sees
    stored,    \* the tasks a restart would give back
    alerted,   \* ids of the tasks announced in this run
    up,        \* the program runs
    dirty      \* the stored tasks may differ from the schedule

vars == <<schedule, stored, alerted, up, dirty>>

CanBeStored(t) == Len(t.name) = 1

TaskIds == {t.id : t \in schedule}

Init ==
    /\ schedule = {}
    /\ stored = {}
    /\ alerted = {}
    /\ up = FALSE
    /\ dirty = TRUE

Start ==
    /\ ~up
    /\ up' = TRUE
    /\ alerted' = {}
    /\ \/ schedule' = stored /\ dirty' = FALSE
       \/ schedule' = {} /\ dirty' = TRUE
    /\ UNCHANGED stored

Add(t) ==
    /\ up
    /\ t.id \notin TaskIds \cup alerted
    /\ \A u \in schedule : u.start # t.start
    /\ schedule' = schedule \cup {t}
    /\ dirty' = TRUE
    /\ UNCHANGED <<stored, alerted, up>>

Delete(t) ==
    /\ up
    /\ schedule' = schedule \ {t}
    /\ dirty' = TRUE
    /\ UNCHANGED <<stored, alerted, up>>

Replace(t, u) ==
    /\ up
    /\ u.id = t.id
    /\ schedule' = (schedule \ {t}) \cup {u}
    /\ dirty' = TRUE
    /\ UNCHANGED <<stored, alerted, up>>

(* Storing forgets everything first, then adds tasks of the schedule.      *)
Forget ==
    /\ up /\ dirty
    /\ stored' = {}
    /\ UNCHANGED <<schedule, alerted, up, dirty>>

Store(t) ==
    /\ up /\ dirty
    /\ CanBeStored(t)
    /\ stored' = stored \cup {t}
    /\ UNCHANGED <<schedule, alerted, up, dirty>>

Garble(t) ==
    /\ up /\ dirty
    /\ \E u \in Misreadings(t) : stored' = stored \cup {u}
    /\ UNCHANGED <<schedule, alerted, up, dirty>>

Commit ==
    /\ up
    /\ stored = {t \in schedule : CanBeStored(t)}
    /\ dirty' = FALSE
    /\ UNCHANGED <<schedule, stored, alerted, up>>

InWindow(t, now) == Instant(t.remind) <= now /\ now <= Instant(t.start)

Alert(now) ==
    /\ up
    /\ alerted' = alerted \cup {t.id : t \in {u \in schedule : InWindow(u, now)}}
    /\ UNCHANGED <<schedule, stored, up, dirty>>

Stop ==
    /\ up
    /\ up' = FALSE
    /\ schedule' = {}
    /\ alerted' = {}
    /\ dirty' = TRUE
    /\ \/ UNCHANGED stored
       \/ dirty /\ stored' = {}
       \/ dirty /\ \E t \in schedule : \E u \in Misreadings(t) : stored' = stored \cup {u}

Next ==
    \/ Start
    \/ \E t \in Universe : Add(t)
    \/ \E t \in schedule : Delete(t) \/ Store(t) \/ Garble(t)
    \/ \E t \in schedule, u \in Universe : Replace(t, u)
    \/ Forget
    \/ Commit
    \/ \E now \in Instants : Alert(now)
    \/ Stop

Spec == Init /\ [][Next]_vars
=============================================================================
