--------------------------- MODULE MCReminderThread ---------------------------
(* A small instance of ReminderThread: one name, few times, all real dates. *)
EXTENDS ReminderThread

CONSTANTS a

MCPieces == {a}

MCNames == {<<a>>}

(* A window that lasts a whole period.                                     *)
MCTimes == {2, 4}

(* Windows that last a period, or more, or less.                           *)
MCMoreTimes == {1, 3, 4}

MCMisread == [x \in MCNames \X Times \X Times |-> {}]

MCInstants == 0..MaxClock
=============================================================================
