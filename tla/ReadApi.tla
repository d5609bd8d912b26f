-------------------------------- MODULE ReadApi --------------------------------
(***************************************************************************)
(* services/api-gateway/src/server.ts: the endpoints that only read.       *)
(*                                                                         *)
(* An endpoint runs one or more statements, each on bug_reports as it is   *)
(* when the statement runs: no transaction ties them.  The states the      *)
(* table goes through are kept in order, so a statement's answer is the    *)
(* number of the state it read.  Rows are numbered by created_at; only the *)
(* columns the pages' figures are computed from are kept.                  *)
(***************************************************************************)
EXTENDS Naturals, Sequences, FiniteSetsExt

CONSTANTS MovedTo,      \* bound: the statuses POST /transition gives here
          Cap,          \* the largest page of a listing (100 in the code)
          Seeded,       \* the tables the pages may first be opened on
          MaxRows,      \* bound: rows of a table that is written to
          MaxWrites     \* bound: writes in one behaviour

VARIABLE history        \* the states of the table, the current one last

(* The CHECK on bug_reports.status.                                        *)
Status == {"open", "triaged", "in_progress", "in_review", "resolved",
           "closed", "wont_fix"}

Row == [status : Status, canonical : Nat]    \* 0: canonical_id IS NULL

ASSUME ReadApiAssumption == /\ MovedTo \subseteq Status
                            /\ Cap \in Nat \ {0} /\ {MaxRows, MaxWrites} \subseteq Nat
                            /\ Seeded \subseteq Seq(Row)

Now == Len(history)
Table == history[Now]

-----------------------------------------------------------------------------
(* The writers: the pipeline and POST /transition (BugPipeline has them in *)
(* full).                                                                  *)
Write(table) ==
    /\ Now <= MaxWrites /\ Len(table) <= MaxRows
    /\ history' = Append(history, table)

Reported == Write(Append(Table, [status |-> "open", canonical |-> 0]))
Moved ==
    \E b \in DOMAIN Table, st \in MovedTo :
        st # Table[b].status /\ Write([Table EXCEPT ![b].status = st])
Deduplicated ==
    \E b, c \in DOMAIN Table :
        /\ b # c /\ Table[b].canonical = 0
        /\ Write([Table EXCEPT ![b] = [status |-> "closed", canonical |-> c]])

-----------------------------------------------------------------------------
(* The statements of an endpoint.  GET /stats runs six at once: by_status  *)
(* and, as one here, the others.                                           *)
Statements == [list     |-> {"count", "rows"},
               stats    |-> {"by_status", "others"},
               bug      |-> {"bug", "entries", "duplicates"},
               activity |-> {"log"}]

(* The statements an endpoint awaits before it runs this one.              *)
Awaited(statement) == CASE statement = "rows"       -> {"count"}
                        [] statement = "entries"    -> {"bug"}
                        [] statement = "duplicates" -> {"bug", "entries"}
                        [] OTHER                    -> {}

(* GET /bugs: the newest rows, at most Cap of them.                        *)
Listing(table, limit) ==
    {b \in DOMAIN table : b + (IF limit < Cap THEN limit ELSE Cap) > Len(table)}

(* GET /stats: by_status.                                                  *)
ByStatus(table, st) == Cardinality({b \in DOMAIN table : table[b].status = st})
=============================================================================
