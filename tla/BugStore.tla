------------------------------- MODULE BugStore -------------------------------
(***************************************************************************)
(* The tables bug_reports and bug_activity of PostgreSQL and the SQL       *)
(* statements the services run on them (infra/db/init.sql and the          *)
(* repositories in each service).  A statement is atomic; two statements   *)
(* of one handler are not, since no handler opens a transaction.           *)
(*                                                                         *)
(* Only the columns the pipeline's promises are about are kept.  A column  *)
(* is a function of the primary key, meaningful for the keys in `rows'.    *)
(***************************************************************************)
EXTENDS Naturals, Sequences

CONSTANTS Bug,          \* primary keys (UUIDs)
          NoBug,        \* canonical_id IS NULL
          ExtId         \* external ids (EBUG-0001, ...), numbered

VARIABLES rows,         \* the primary keys present
          externalId,   \* external_id, 0 when there is no row
          status,       \* status
          canonical,    \* canonical_id; is_duplicate is canonical # NoBug
          embedded,     \* embedding_id IS NOT NULL
          scored,       \* severity_score IS NOT NULL
          analyzed,     \* root_cause_suggestion IS NOT NULL
          activity      \* bug_activity: the entries of each bug, oldest first

columns == <<externalId, status, canonical, embedded, scored, analyzed>>
storeVars == <<rows, columns, activity>>

ASSUME StoreAssumption == NoBug \notin Bug /\ ExtId \subseteq Nat \ {0}

Status == {"open", "triaged", "in_progress", "in_review", "resolved",
           "closed", "wont_fix"}

(* An activity entry: what was done, and for a status change the old and   *)
(* the new status.                                                         *)
PlainEntry == [action : {"severity_scored", "root_cause_analyzed", "updated"}]
ChangeEntry == [action : {"status_change"}, old : Status, new : Status]

StoreTypeOK ==
    /\ rows \in SUBSET Bug
    /\ externalId \in [Bug -> ExtId \cup {0}]
    /\ status \in [Bug -> Status]
    /\ canonical \in [Bug -> Bug \cup {NoBug}]
    /\ embedded \in [Bug -> BOOLEAN]
    /\ scored \in [Bug -> BOOLEAN]
    /\ analyzed \in [Bug -> BOOLEAN]
    /\ activity \in [Bug -> Seq(PlainEntry \cup ChangeEntry)]

StoreInit ==
    /\ rows = {}
    /\ externalId = [b \in Bug |-> 0]
    /\ status = [b \in Bug |-> "open"]
    /\ canonical = [b \in Bug |-> NoBug]
    /\ embedded = [b \in Bug |-> FALSE]
    /\ scored = [b \in Bug |-> FALSE]
    /\ analyzed = [b \in Bug |-> FALSE]
    /\ activity = [b \in Bug |-> <<>>]

(* PRIMARY KEY and UNIQUE (external_id).                                   *)
KeysFree(b, x) == b \notin rows /\ \A c \in rows : externalId[c] # x

(* persistBug: INSERT, status 'open'.                                      *)
InsertBug(b, x) ==
    /\ KeysFree(b, x)
    /\ rows' = rows \cup {b}
    /\ externalId' = [externalId EXCEPT ![b] = x]
    /\ status' = [status EXCEPT ![b] = "open"]
    /\ UNCHANGED <<canonical, embedded, scored, analyzed, activity>>

(* An UPDATE ... WHERE id = b changes nothing when there is no such row.   *)
Column(col, b, v) == IF b \in rows THEN [col EXCEPT ![b] = v] ELSE col

(* DedupRepository.mark_duplicate: closes the bug whatever its status.     *)
MarkDuplicate(b, c) ==
    /\ c \in rows           \* canonical_id REFERENCES bug_reports(id)
    /\ canonical' = Column(canonical, b, c)
    /\ status' = Column(status, b, "closed")
    /\ UNCHANGED <<rows, externalId, embedded, scored, analyzed, activity>>

(* DedupRepository.store_embedding_id.                                     *)
StoreEmbeddingId(b) ==
    /\ embedded' = Column(embedded, b, TRUE)
    /\ UNCHANGED <<rows, externalId, status, canonical, scored, analyzed, activity>>

(* Mutation of UpdateSeverity: triaged whatever the status was.            *)
AlwaysTriaged(b) ==
    /\ scored' = Column(scored, b, TRUE)
    /\ status' = Column(status, b, "triaged")
    /\ UNCHANGED <<rows, externalId, canonical, embedded, analyzed, activity>>

(* BugRepository.update_severity: only an open bug becomes triaged.        *)
UpdateSeverity(b) ==
    /\ scored' = Column(scored, b, TRUE)
    /\ status' = IF status[b] = "open" THEN Column(status, b, "triaged")
                                       ELSE status
    /\ UNCHANGED <<rows, externalId, canonical, embedded, analyzed, activity>>

(* BugRepository.update_root_cause.                                        *)
UpdateRootCause(b) ==
    /\ analyzed' = Column(analyzed, b, TRUE)
    /\ status' = IF status[b] \in {"open", "triaged"}
                 THEN Column(status, b, "triaged") ELSE status
    /\ UNCHANGED <<rows, externalId, canonical, embedded, scored, activity>>

(* INSERT INTO bug_activity; bug_id REFERENCES bug_reports(id).            *)
Record(b, entry) ==
    /\ b \in rows
    /\ activity' = [activity EXCEPT ![b] = Append(@, entry)]
    /\ UNCHANGED <<rows, columns>>

(* The gateway's POST /transition.                                         *)
SetStatus(b, st) ==
    /\ status' = Column(status, b, st)
    /\ UNCHANGED <<rows, externalId, canonical, embedded, scored, analyzed, activity>>
=============================================================================
