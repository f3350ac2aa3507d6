---------------------------- MODULE MCMainWindow ----------------------------
(* Five times: 1 is 23:57 on day 0, which only the voice dialog makes, 2 is *)
(* 00:02 and 3 is 23:57 on the first of the month, 4 is on the second, 5 on *)
(* a day that does not exist.                                               *)
EXTENDS MainWindow

CONSTANTS a, b

MCPieces == {a, b}

MCNames == {<<a>>, <<a, b>>}

(* The second piece is a word, which throws, or has numbers that give      *)
(* other times: the start of another task, or a reminder no form can show. *)
MCMisread ==
    [x \in MCNames \X Times \X Times |->
        CASE Len(x[1]) = 2 /\ x[2] = 2 -> {<<5, 1>>, <<b, 2>>}
          [] Len(x[1]) = 2 /\ x[2] = 4 -> {<<2, 1>>}
          [] OTHER                     -> {}]

MCTimes == 1..5

MCCalendarTimes == {2, 3, 4}

MCDates == {2}

MCDateOf == <<0, 1, 1, 2, 31>>

MCSpinBoxes == <<3, 2, 3, 4, 5>>

MCTypings == {<<4, 2>>}

MCFiveBefore == 2 :> 1
=============================================================================
