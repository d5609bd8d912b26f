------------------------------ MODULE BugPipeline ------------------------------
(***************************************************************************)
(* The whole path of a bug report: gateway or hub, ingestion worker, dedup *)
(* engine, severity scorer, root cause analyzer, and the users who change  *)
(* statuses through the gateway meanwhile.  The services share the stream  *)
(* and the database (Platform) and nothing else.  Every gateway replica is *)
(* connected to the stream; Standalone has the ones that are not.          *)
(***************************************************************************)
EXTENDS IngestionWorker, DedupEngine, SeverityScorer, RootCauseAnalyzer, Gateway

CONSTANT Requested      \* the score requests somebody may send

vars == <<platformVars, ingestVars, dedupVars, sw, rw, gatewayVars>>

TypeOK ==
    /\ PlatformTypeOK /\ IngestTypeOK /\ DedupTypeOK /\ ScorerTypeOK
    /\ AnalyzerTypeOK /\ GatewayTypeOK

Init ==
    /\ PlatformInit /\ IngestInit /\ DedupInit /\ ScorerInit /\ AnalyzerInit
    /\ GatewayInit

(* Somebody outside asks for a score: no service in the repository         *)
(* publishes on bug.score.request.                                         *)
AskForScore ==
    /\ \E m \in Requested : Publish("bug.score.request", m)
    /\ UNCHANGED <<storeVars, faults>>

Producers ==
    /\ \/ (\E r \in Report : Submit(r))
            /\ UNCHANGED gatewayVars
       \/ AskForScore /\ UNCHANGED gatewayVars
       \/ \E h \in Handler : Transition(h)
    /\ UNCHANGED <<ingestVars, dedupVars, sw, rw>>

IngestionSteps ==
    /\ \/ \E w \in Ingester : IngestWork(w) \/ IngestFaults(w)
       \/ \E m \in unacked[Ingestion] : RequestExpires(m) \/ RequestLate(m)
    /\ UNCHANGED <<dedupVars, sw, rw, gatewayVars>>

DedupSteps ==
    /\ \/ \E d \in Deduper : DedupWork(d) \/ DedupFaults(d)
       \/ \E m \in unacked[Dedup] : CreatedExpires(m) \/ CreatedLate(m)
    /\ UNCHANGED <<ingestVars, sw, rw, gatewayVars>>

ScorerSteps ==
    /\ \/ \E t \in Scorer : ScorerWork(t) \/ ScorerFaults(t)
       \/ \E c \in ScorerConsumer : \E m \in unacked[c] :
            ClassifiedExpires(c, m) \/ ClassifiedLate(c, m)
    /\ UNCHANGED <<ingestVars, dedupVars, rw, gatewayVars>>

AnalyzerSteps ==
    /\ \/ \E a \in Analyzer : AnalyzerWork(a) \/ AnalyzerFaults(a)
       \/ \E m \in unacked[Rca] : ScoredExpires(m) \/ AnalysisLate(m)
    /\ UNCHANGED <<ingestVars, dedupVars, sw, gatewayVars>>

(* A message nobody holds any more is offered again.                       *)
Redelivery ==
    /\ \/ (\E m \in unacked[Ingestion] : RequestExpires(m))
            /\ UNCHANGED <<dedupVars, sw, rw>>
       \/ (\E m \in unacked[Dedup] : CreatedExpires(m))
            /\ UNCHANGED <<ingestVars, sw, rw>>
       \/ (\E c \in ScorerConsumer : \E m \in unacked[c] : ClassifiedExpires(c, m))
            /\ UNCHANGED <<ingestVars, dedupVars, rw>>
       \/ (\E m \in unacked[Rca] : ScoredExpires(m))
            /\ UNCHANGED <<ingestVars, dedupVars, sw>>
    /\ UNCHANGED gatewayVars

Next == Producers \/ IngestionSteps \/ DedupSteps \/ ScorerSteps \/ AnalyzerSteps

Spec == Init /\ [][Next]_vars

(* Live replicas make progress and lost messages are delivered again; no   *)
(* fault, no request and no user is ever obliged to happen.                *)
Fairness ==
    /\ \A w \in Ingester : WF_vars(IngestWork(w) /\ UNCHANGED
            <<dedupVars, sw, rw, gatewayVars>>)
    /\ \A d \in Deduper : WF_vars(DedupWork(d) /\ UNCHANGED
            <<ingestVars, sw, rw, gatewayVars>>)
    /\ \A t \in Scorer : WF_vars(ScorerWork(t) /\ UNCHANGED
            <<ingestVars, dedupVars, rw, gatewayVars>>)
    /\ \A a \in Analyzer : WF_vars(AnalyzerWork(a) /\ UNCHANGED
            <<ingestVars, dedupVars, sw, gatewayVars>>)
    /\ WF_vars(Redelivery)

LiveSpec == Spec /\ Fairness

-----------------------------------------------------------------------------
(* The facts of BugLifecycle, as the database and the stream show them.    *)
Facts == [b \in Bug |->
    {f \in {"stored", "announced", "classified", "deduplicated",
            "asked", "scored", "triaged"} :
        CASE f = "stored"       -> b \in rows
          [] f = "announced"    -> b \in Published("bug.created")
          [] f = "classified"   -> b \in Published("bug.classified")
          [] f = "deduplicated" -> b \in Published("bug.deduplicated")
          [] f = "asked"        -> b \in Published("bug.score.request")
          [] f = "scored"       -> b \in Published("bug.scored")
          [] f = "triaged"      -> b \in Published("bug.triaged")}]

Lifecycle == INSTANCE BugLifecycle WITH facts <- Facts

(* The pipeline implements BugLifecycle: no event runs ahead of what it    *)
(* rests on, in spite of redelivery, crashes and concurrent replicas.      *)
LifecycleKept == Lifecycle!Spec

(* The services leave alone what people decided.  A status changes only by *)
(* a user's transition, by a dedup verdict that closes the bug, or from    *)
(* open to triaged: a late or repeated score or analysis never reopens or  *)
(* demotes a bug that somebody is already working on or has closed.        *)
StatusRespected ==
    [][\A b \in rows : status'[b] # status[b] =>
        \/ status[b] = "open" /\ status'[b] = "triaged"
        \/ status'[b] = "closed" /\ \E d \in Deduper :
                dw[d].pc = "mark" /\ dw[d].bug = b /\ dw'[d].pc # "mark"
        \/ \E h \in Handler :
                gw[h].pc = "update" /\ gw[h].bug = b /\ gw'[h].pc = "log"]_vars

(* Somebody asked for a score with the bug's fields in the message.        *)
AskedInline(b) == \E m \in Inline \cap published["bug.score.request"] : m.key = b

(* An event is a receipt: bug.scored and bug.triaged are out only when the *)
(* row holds the result and the audit trail has the entry, provided the    *)
(* services on the way have their database.  (An inline score request can  *)
(* overtake the insertion of its row: the UPDATE then finds no row, and    *)
(* the activity and the event come out all the same.  And a scorer without *)
(* a database announces a score for a row that may not exist yet.)         *)
Logged(b, action) == \E i \in DOMAIN activity[b] : activity[b][i].action = action

EventsAreReceipts ==
    /\ Scorer \cap Detached = {} => \A b \in Published("bug.scored") :
            (scored[b] \/ AskedInline(b)) /\ Logged(b, "severity_scored")
    /\ (Scorer \cup Analyzer) \cap Detached = {} => \A b \in Published("bug.triaged") :
            analyzed[b] /\ Logged(b, "root_cause_analyzed")

(* Work is never dropped between two services: an event either is still    *)
(* owed to the next service or has been answered by that service's own.    *)
(* (A scorer without a database does drop what it reads.)                  *)
NoEventDropped ==
    /\ \A m \in published["bug.created"] : \/ m \in Outstanding(Dedup)
            \/ m.key \in Published("bug.classified")
            \/ m.key \in Published("bug.deduplicated")
    /\ Scorer \cap Detached = {} => \A m \in published["bug.classified"] :
            m \in Outstanding("severity-scorer") \/ m.key \in Published("bug.scored")
    /\ \A m \in published["bug.scored"] :
            m \in Outstanding(Rca) \/ m.key \in Published("bug.triaged")

(* Every announced bug comes out of the pipeline: triaged, or closed as a  *)
(* duplicate, even when one service fails on the way.                      *)
BugsConclude ==
    \A b \in Bug : b \in Published("bug.created") ~>
        b \in Published("bug.triaged") \cup Published("bug.deduplicated")

(* A score request that carries the bug's fields is answered, with a score *)
(* and then an analysis, once the row exists: one that comes before the    *)
(* row is refused by the audit trail's foreign key and tried again.        *)
InlineRequestsConclude ==
    \A m \in Inline :
        m \in published["bug.score.request"] /\ m.key \in rows
            ~> m.key \in Published("bug.triaged")
=============================================================================
