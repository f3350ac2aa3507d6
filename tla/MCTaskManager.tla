---------------------------- MODULE MCTaskManager ----------------------------
(* A small instance of TaskManager: one name that fits in a line and one   *)
(* with a '|' in it; real dates and a day that its month does not have.    *)
EXTENDS TaskManager

CONSTANTS a, b

MCPieces == {a, b}

MCNames == {<<a>>, <<a, b>>}

MCTimes == {1, 2, 3}

MCCalendarTimes == {1, 3}

MCInstants == {1, 2, 3}

(* A name with a bar torn early enough: its second piece, a number or a    *)
(* word, comes to stand where the start time is looked for.                *)
MCMisread ==
    [x \in MCNames \X Times \X Times |->
        IF Len(x[1]) = 1 THEN {} ELSE {<<1, x[2]>>, <<b, x[2]>>}]

(* Fewer times where the runs need more tasks.                             *)
MCTwoTimes == {1, 2}

MCOneCalendarTime == {2}

(* One name without a bar where names do not matter.                       *)
MCOneName == {<<a>>}
=============================================================================
