------------------------------- MODULE MCSync -------------------------------
(* Small instances of SyncClient. *)
EXTENDS SyncClient

CONSTANTS r1, r2, n1, s1, s2, s3

MCReport == {r1, r2}
MCNote == {n1}
MCSocket == {s1, s2, s3}
=============================================================================
