------------------------------- MODULE MCAuth -------------------------------
(* A small instance of AuthManager. *)
EXTENDS AuthManager

CONSTANTS t1, t2

MCTask == {t1, t2}
=============================================================================
