------------------------------ MODULE MCPipeline ------------------------------
(* Instances of BugPipeline for TLC.                                       *)
EXTENDS BugPipeline

CONSTANTS r1, acme, w1, d1, cls, dir, a1, h1

Row(r) == [report |-> r, try |-> 0]
MCBug == {Row(r) : r \in Report}
MCKey == Report \cup MCBug
MCNewId == [r \in Report |-> [n \in 1..MaxDeliver |-> Row(r)]]
MCReportOf == [b \in MCBug |-> b.report]
MCExtId == 1..MaxSeq
MCOrg == [r \in Report |-> acme]
MCAll == Report \X Report
MCTaskOf == [t \in Scorer |-> IF t = dir THEN "severity-scorer-direct"
                                         ELSE "severity-scorer"]
MCRequested == [key : {Row(r1)}, copy : {1}]
MCInline == MCRequested
=============================================================================
