------------------------------- MODULE MCAuth -------------------------------
(* Small instances of Auth: a name of one word and a name of two words.    *)
EXTENDS Auth

CONSTANTS u, v

MCWords == {u, v}

MCNames == {<<u>>, <<u, v>>}
=============================================================================
