------------------------------ MODULE MCTokens ------------------------------
(* A small instance of TokenVerification. *)
EXTENDS TokenVerification, TLC

CONSTANTS c1, c2, k1, k2

MCCaller == {c1, c2}
MCKey == {k1, k2}

(* The requests are alike. *)
Symmetric == Permutations(MCCaller)
=============================================================================
