----------------------------- MODULE MCTaskLine -----------------------------
(* Names of one to three fields; two moments, of several digits.           *)
EXTENDS TaskLine

CONSTANT word

MCWords == {word}

MCNumbers == {0, 1, 2, 3, 20, 202, 2026}

MCNames ==
    UNION {[1..n -> {<<word>>, Blank, <<3>>}] : n \in 1..3} \ {<<Blank>>}

MCMoments == {<<2026, 3, 20, 1, 0>>, <<2026, 3, 20, 0, 20>>}
=============================================================================
