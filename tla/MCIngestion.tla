----------------------------- MODULE MCIngestion -----------------------------
(* Instances of IngestionWorker for TLC: three submissions, one from the   *)
(* gateway (it carries its id), one that a client sent through the hub     *)
(* without an id (each delivery draws a new one), and a third one, which   *)
(* does not unmarshal in the runs that say so.                             *)
EXTENDS IngestionWorker

CONSTANTS api, ide, bad, w1, w2

Row(r, n) == [report |-> r, try |-> n]

MCReport == {api, ide, bad}
MCBug == {Row(api, 0), Row(bad, 0)} \cup {Row(ide, n) : n \in 1..MaxDeliver}
MCKey == MCReport \cup MCBug
MCNewId == [r \in MCReport |->
              [n \in 1..MaxDeliver |-> IF r = ide THEN Row(r, n) ELSE Row(r, 0)]]
MCReportOf == [b \in MCBug |-> b.report]
MCExtId == 1..MaxSeq
=============================================================================
