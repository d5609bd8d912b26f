------------------------------ MODULE MCEditor ------------------------------
(* A small instance of Editor. *)
EXTENDS Editor

CONSTANTS t1, t2

MCTask == {t1, t2}
MCInFile == {1, 3}

(* The tasks are alike. *)
Symmetric == Permutations(MCTask)
=============================================================================
