------------------------------ MODULE MCDashboard ------------------------------
(* An instance of Dashboard for TLC. One of its tables has room for a row   *)
(* and is written to. The others stay as they are: one fills a listing and  *)
(* one has two rows over, they have all other statuses between them, and    *)
(* two duplicates of one bug that the deduplication page lists or does not. *)
EXTENDS Dashboard

CONSTANTS s1, s2

At(name) == [name |-> name, id |-> 0]
Detail(i) == [name |-> "detail", id |-> i]
A(status, canonical) == [status |-> status, canonical |-> canonical]

MCPage == {At("overview"), At("analytics"), At("bugs"), At("dedup"), Detail(1), Detail(2)}
MCLimit == [overview |-> 1, analytics |-> 5, bugs |-> 3, dedup |-> 4]
MCSeeded ==
    {<<A("open", 0), A("closed", 1)>>,
     <<A("wont_fix", 0), A("closed", 1), A("closed", 1), A("in_review", 0)>>,
     <<A("triaged", 0), A("resolved", 0), A("closed", 1), A("closed", 1), A("in_progress", 0),
       A("closed", 5)>>}
=============================================================================
