-------------------------------- MODULE MCHub --------------------------------
(* Instances of Hub for TLC: two editors of one organisation, one of which *)
(* watches one file; a bug in a file, a bug without one, a triage.         *)
EXTENDS Hub, TLC

CONSTANTS h1, h2, e1, e2, s1, s2, s3, acme, fa, fb, pa, c1, c2, t1

MCCovers == pa :> {fa}
MCOrgOf == [e \in Editor |-> acme]
MCMaxOps == [e \in Editor |-> IF e = e1 THEN 2 ELSE 0]
MCWatchOf == [e \in Editor |-> IF e = e1 THEN {pa} ELSE {}]
MCSubjectOf == [v \in Event |-> IF v = t1 THEN "bug.triaged" ELSE "bug.created"]
MCBugOrg == [v \in Event |-> acme]
MCBugFile == [v \in Event |-> IF v = c1 THEN fb ELSE IF v = c2 THEN NoFile ELSE fa]
=============================================================================
