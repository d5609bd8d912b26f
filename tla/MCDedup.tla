------------------------------- MODULE MCDedup -------------------------------
(* Instances of DedupEngine for TLC: two submissions with the same text    *)
(* and a third one, near to them or of another organisation.               *)
EXTENDS DedupEngine

CONSTANTS r1, r2, r3, acme, globex, d1, d2

MCBug == {[report |-> r, try |-> 0] : r \in Report}
MCKey == Report \cup MCBug
MCTwoOrgs == [r \in Report |-> IF r = r3 THEN globex ELSE acme]
MCSameText == {<<r, r>> : r \in Report} \cup {<<r1, r2>>, <<r2, r1>>}
MCClose == Report \X Report
MCExtId == 1..3
MCReportOf == [b \in MCBug |-> b.report]
=============================================================================
