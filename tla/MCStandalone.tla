----------------------------- MODULE MCStandalone -----------------------------
(* An instance of Standalone for TLC.                                      *)
EXTENDS Standalone

CONSTANTS r1, seed, g1, g2, h1, h2

Row(r) == [report |-> r]
MCBug == {Row(r) : r \in Report}
MCKey == Report \cup MCBug
MCReportOf == [b \in MCBug |-> b.report]
MCReplicaOf == [h \in Handler |-> IF h = h1 THEN g1 ELSE g2]
MCSample == {Row(seed)}
MCSampleId == [b \in MCSample |-> 1]
MCSampleStatus == [b \in MCSample |-> "in_progress"]
=============================================================================
