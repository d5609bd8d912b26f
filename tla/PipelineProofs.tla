---------------------------- MODULE PipelineProofs ----------------------------
(***************************************************************************)
(* The promises of BugPipeline hold for any number of replicas of every    *)
(* service, users, reports and faults, and it implements BugLifecycle.     *)
(*                                                                         *)
(* The services meet only on the stream and in the table, so the proof is  *)
(* by service.  Each service's steps leave a small footprint: the queues   *)
(* it reads, the subjects it publishes on, the columns it writes.  The     *)
(* invariants of the ingestion worker and of the dedup engine were proved  *)
(* of these services alone; here every other step is shown to preserve     *)
(* them because its footprint is elsewhere.  The scorer and the analyzer   *)
(* get theirs: what a task has done for its message at each program        *)
(* counter, and what an event that is out rests on.                        *)
(***************************************************************************)
EXTENDS BugPipeline, DedupProofs

ScoredSubject == "bug.scored"
TriagedSubject == "bug.triaged"

(* What waits or is held was published.                                    *)
Feeds == \A c \in Consumer : Outstanding(c) \subseteq published[Filter[c]]

(* A busy task works on the bug of a message of its subject.               *)
TaskHolds(t) ==
    sw[t].pc # "idle" => /\ sw[t].msg \in published[Filter[TaskOf[t]]]
                         /\ sw[t].bug = sw[t].msg.key

ScorerHolds == \A t \in Scorer : TaskHolds(t)

(* What task t has behind it: the bug was found; with a database, the      *)
(* score is in the row (if the row was there) and then in the trail, which *)
(* takes an entry only for a row; and before the ack the score is out.     *)
TaskProgress(t) ==
    /\ sw[t].pc \in {"update", "record", "publish"} => HasBug(t)
    /\ t \notin Detached =>
        /\ sw[t].pc \in {"record", "publish"} =>
                scored[sw[t].bug] \/ AskedInline(sw[t].bug)
        /\ sw[t].pc = "publish" => /\ sw[t].bug \in rows
                                   /\ Logged(sw[t].bug, "severity_scored")
        /\ sw[t].pc = "ack" /\ TaskOf[t] = "severity-scorer" =>
                sw[t].bug \in Published(ScoredSubject)

ScorerProgress == \A t \in Scorer : TaskProgress(t)

(* What a score that is out rests on.                                      *)
ScoresRest ==
    Scorer \cap Detached = {} => \A b \in Published(ScoredSubject) :
        /\ b \in rows /\ (scored[b] \/ AskedInline(b))
        /\ Logged(b, "severity_scored")
        /\ b \in Published("bug.classified") \cup Published("bug.score.request")

(* What was classified is still owed to the scorer, or scored.             *)
ClassifiedOwed ==
    Scorer \cap Detached = {} => \A m \in published["bug.classified"] :
        m \in Outstanding("severity-scorer") \/ m.key \in Published(ScoredSubject)

ScorerInv ==
    ScorerTypeOK /\ ScorerHolds /\ ScorerProgress /\ ScoresRest /\ ClassifiedOwed

ReplicaHolds(a) ==
    rw[a].pc # "idle" => /\ rw[a].msg \in published[ScoredSubject]
                         /\ rw[a].bug = rw[a].msg.key

AnalyzerHolds == \A a \in Analyzer : ReplicaHolds(a)

ReplicaProgress(a) ==
    /\ (Scorer \cup Analyzer) \cap Detached = {} =>
        /\ rw[a].pc \in {"record", "publish"} => analyzed[rw[a].bug]
        /\ rw[a].pc = "publish" => Logged(rw[a].bug, "root_cause_analyzed")
    /\ rw[a].pc = "ack" => rw[a].bug \in Published(TriagedSubject)

AnalyzerProgress == \A a \in Analyzer : ReplicaProgress(a)

TriagesRest ==
    /\ Published(TriagedSubject) \subseteq Published(ScoredSubject)
    /\ (Scorer \cup Analyzer) \cap Detached = {} =>
        \A b \in Published(TriagedSubject) :
            analyzed[b] /\ Logged(b, "root_cause_analyzed")

ScoredOwed ==
    \A m \in published[ScoredSubject] :
        m \in Outstanding(Rca) \/ m.key \in Published(TriagedSubject)

AnalyzerInv ==
    AnalyzerTypeOK /\ AnalyzerHolds /\ AnalyzerProgress /\ TriagesRest /\ ScoredOwed

PipelineInv ==
    IngestionInv /\ DedupInv /\ Feeds /\ ScorerInv /\ AnalyzerInv /\ GatewayTypeOK

-----------------------------------------------------------------------------
(* Footprints.                                                             *)

(* What c is owed stays owed, and what comes in is owed.                   *)
QueueKept(c) ==
    /\ Outstanding(c) \subseteq Outstanding(c)'
    /\ published'[Filter[c]] \subseteq published[Filter[c]] \cup Outstanding(c)'

(* On the stream: the queues of C are read and the subjects S published on.*)
Touches(C, S) ==
    /\ \A s \in Subject : published[s] \subseteq published'[s]
    /\ \A s \in Subject \ S : published'[s] = published[s]
    /\ \A c \in Consumer \ C :
        /\ QueueKept(c)
        /\ unacked'[c] = unacked[c] /\ deliveries'[c] = deliveries[c]
        /\ published'[Filter[c]] = published[Filter[c]] => ready'[c] = ready[c]

(* In the database: rows are added, and no result and no entry goes away.  *)
Grows ==
    /\ rows \subseteq rows'
    /\ \A b \in Bug : /\ scored[b] => scored'[b]
                      /\ analyzed[b] => analyzed'[b]
                      /\ \A act : Logged(b, act) => Logged(b, act)'

LEMMA Wiring ==
    /\ \A c \in Consumer : Filter[c] \in Subject
    /\ Consumer = {Ingestion, Dedup, "severity-scorer", "severity-scorer-direct", Rca}
    /\ ScorerConsumer \subseteq Consumer /\ Rca \in Consumer
    /\ Filter[Ingestion] = RequestSubject /\ Filter[Dedup] = CreatedSubject
    /\ Filter["severity-scorer"] = "bug.classified"
    /\ Filter["severity-scorer-direct"] = "bug.score.request"
    /\ Filter[Rca] = ScoredSubject
    /\ {RequestSubject, CreatedSubject, "bug.classified", "bug.deduplicated",
        "bug.score.request", ScoredSubject, TriagedSubject} = Subject
BY DEF Filter, Consumer, Subject, Ingestion, Dedup, Rca, ScorerConsumer,
   RequestSubject, CreatedSubject, ScoredSubject, TriagedSubject

LEMMA PublishTouches ==
    ASSUME StreamTypeOK, Feeds, NEW s \in Subject, NEW m, Publish(s, m),
           NEW C, NEW S, s \in S
    PROVE  StreamTypeOK' /\ Touches(C, S) /\ Feeds'
<1>1. /\ StreamTypeOK' /\ m \in Msg /\ m \notin published[s]
      /\ published'[s] = published[s] \cup {m}
      /\ \A t \in Subject \ {s} : published'[t] = published[t]
      /\ \A c \in Consumer : ready'[c] =
               IF Filter[c] = s THEN ready[c] \cup {m} ELSE ready[c]
      /\ UNCHANGED <<unacked, deliveries>>
  BY PublishFacts
<1>2. \A t \in Subject : published[t] \subseteq published'[t]
  BY <1>1
<1>3. ASSUME NEW c \in Consumer
      PROVE  QueueKept(c) /\ Outstanding(c)' \subseteq published'[Filter[c]]
  <2>1. Filter[c] \in Subject /\ Outstanding(c) \subseteq published[Filter[c]]
    BY Wiring DEF Feeds
  <2>2. CASE Filter[c] = s
    BY <1>1, <2>1, <2>2 DEF QueueKept, Outstanding
  <2>3. CASE Filter[c] # s
    BY <1>1, <2>1, <2>3 DEF QueueKept, Outstanding
  <2> QED
    BY <2>2, <2>3
<1>4. Touches(C, S)
  BY <1>1, <1>2, <1>3 DEF Touches
<1> QED
  BY <1>1, <1>3, <1>4 DEF Feeds

LEMMA PublishAboutTouches ==
    ASSUME StreamTypeOK, Feeds, NEW s \in Subject, NEW b, PublishAbout(s, b),
           NEW C, NEW S, s \in S
    PROVE  StreamTypeOK' /\ Touches(C, S) /\ Feeds'
BY PublishTouches DEF PublishAbout

(* The operations of one consumer touch only its queue.                    *)
LEMMA ReadTouches ==
    ASSUME StreamTypeOK, Feeds, NEW c \in Consumer, NEW m,
           Deliver(c, m) \/ Ack(c, m) \/ Requeue(c, m),
           NEW C, NEW S, c \in C
    PROVE  StreamTypeOK' /\ Touches(C, S) /\ Feeds' /\ UNCHANGED published
<1>1. /\ StreamTypeOK' /\ UNCHANGED published
      /\ Outstanding(c)' \subseteq Outstanding(c)
      /\ \A d \in Consumer \ {c} : /\ ready'[d] = ready[d]
                                   /\ unacked'[d] = unacked[d]
                                   /\ deliveries'[d] = deliveries[d]
  <2>1. CASE Deliver(c, m)
    BY <2>1, DeliverFacts DEF Outstanding
  <2>2. CASE Ack(c, m)
    BY <2>2, AckFacts DEF Outstanding
  <2>3. CASE Requeue(c, m)
    BY <2>3, RequeueFacts DEF Outstanding
  <2> QED
    BY <2>1, <2>2, <2>3
<1>2. \A d \in Consumer \ {c} : QueueKept(d) /\ Outstanding(d)' = Outstanding(d)
  BY <1>1 DEF QueueKept, Outstanding
<1>3. Touches(C, S)
  BY <1>1, <1>2 DEF Touches
<1>4. Feeds'
  BY <1>1, <1>2 DEF Feeds
<1> QED
  BY <1>1, <1>3, <1>4

LEMMA StillTouches ==
    ASSUME StreamTypeOK, Feeds, UNCHANGED streamVars, NEW C, NEW S
    PROVE  StreamTypeOK' /\ Touches(C, S) /\ Feeds'
BY SameTypes DEF streamVars, Feeds, Touches, QueueKept, Outstanding

(* A consumer that is not read keeps what it is owed; one without a limit  *)
(* gets back what is nakked.                                               *)
LEMMA RequeueKept ==
    ASSUME StreamTypeOK, Feeds, NEW c \in Consumer, ~Limited(c), NEW m, Requeue(c, m)
    PROVE  QueueKept(c)
BY RequeueFacts DEF QueueKept, Outstanding, Spent

LEMMA DeliverKept ==
    ASSUME StreamTypeOK, Feeds, NEW c \in Consumer, NEW m, Deliver(c, m)
    PROVE  QueueKept(c)
BY DeliverFacts DEF QueueKept, Outstanding

LEMMA AckKept ==
    ASSUME StreamTypeOK, Feeds, NEW c \in Consumer, NEW m, Ack(c, m)
    PROVE  /\ UNCHANGED published
           /\ \A n \in Outstanding(c) : n # m => n \in Outstanding(c)'
BY AckFacts DEF Outstanding

(* The statements only add to what is stored.                              *)
LEMMA SameGrows == UNCHANGED storeVars => Grows
BY DEF storeVars, columns, Grows, Logged

LEMMA InsertGrows ==
    ASSUME StoreTypeOK, NEW b \in Bug, NEW x \in ExtId, InsertBug(b, x)
    PROVE  StoreTypeOK' /\ Grows
BY InsertFacts DEF Grows, Logged

LEMMA RecordFacts ==
    ASSUME StoreTypeOK, NEW b \in Bug, NEW e \in PlainEntry \cup ChangeEntry,
           Record(b, e)
    PROVE  /\ StoreTypeOK' /\ Grows /\ b \in rows /\ Logged(b, e.action)'
           /\ UNCHANGED <<rows, columns>>
<1>1. /\ b \in rows /\ UNCHANGED <<rows, columns>>
      /\ activity' = [activity EXCEPT ![b] = Append(@, e)]
  BY DEF Record
<1>2. activity[b] \in Seq(PlainEntry \cup ChangeEntry)
  BY DEF StoreTypeOK
<1> DEFINE s == activity[b]
<1>3. /\ Append(s, e) \in Seq(PlainEntry \cup ChangeEntry)
      /\ DOMAIN Append(s, e) = 1..(Len(s) + 1) /\ DOMAIN s = 1..Len(s)
      /\ Append(s, e)[Len(s) + 1] = e /\ Len(s) \in Nat
      /\ \A i \in DOMAIN s : Append(s, e)[i] = s[i]
  BY <1>2
<1>4. activity'[b] = Append(s, e) /\ \A c \in Bug \ {b} : activity'[c] = activity[c]
  BY <1>1 DEF StoreTypeOK
<1>5. StoreTypeOK'
  BY <1>1, <1>3, <1>4 DEF StoreTypeOK, columns
<1>6. Logged(b, e.action)'
  BY <1>3, <1>4 DEF Logged
<1>7. \A c \in Bug : \A act : Logged(c, act) => Logged(c, act)'
  BY <1>3, <1>4 DEF Logged
<1>8. Grows
  BY <1>1, <1>7 DEF Grows, columns
<1> QED
  BY <1>1, <1>5, <1>6, <1>8

LEMMA SeverityFacts ==
    ASSUME StoreTypeOK, NEW b \in Bug, NEW t, Sql(t, UpdateSeverity(b))
    PROVE  /\ StoreTypeOK' /\ Grows
           /\ UNCHANGED <<rows, externalId, canonical, embedded, analyzed, activity>>
           /\ t \notin Detached /\ b \in rows => scored'[b]
<1>1. CASE t \in Detached
  BY <1>1, SameTypes, SameGrows DEF Sql, storeVars, columns
<1>2. CASE t \notin Detached
  <2>1. /\ scored' = Column(scored, b, TRUE)
        /\ status' = IF status[b] = "open" THEN Column(status, b, "triaged")
                                           ELSE status
        /\ UNCHANGED <<rows, externalId, canonical, embedded, analyzed, activity>>
    BY <1>2 DEF Sql, UpdateSeverity
  <2>2. scored' \in [Bug -> BOOLEAN] /\ \A c \in Bug : scored[c] => scored'[c]
    BY <2>1 DEF Column, StoreTypeOK
  <2>3. status' \in [Bug -> Status]
    BY <2>1 DEF Column, StoreTypeOK, Status
  <2>4. b \in rows => scored'[b]
    BY <2>1 DEF Column, StoreTypeOK
  <2> QED
    BY <1>2, <2>1, <2>2, <2>3, <2>4 DEF StoreTypeOK, Grows, Logged
<1> QED
  BY <1>1, <1>2

LEMMA RootCauseFacts ==
    ASSUME StoreTypeOK, NEW b \in Bug, NEW a, Sql(a, UpdateRootCause(b))
    PROVE  /\ StoreTypeOK' /\ Grows
           /\ UNCHANGED <<rows, externalId, canonical, embedded, scored, activity>>
           /\ a \notin Detached /\ b \in rows => analyzed'[b]
<1>1. CASE a \in Detached
  BY <1>1, SameTypes, SameGrows DEF Sql, storeVars, columns
<1>2. CASE a \notin Detached
  <2>1. /\ analyzed' = Column(analyzed, b, TRUE)
        /\ status' = IF status[b] \in {"open", "triaged"}
                     THEN Column(status, b, "triaged") ELSE status
        /\ UNCHANGED <<rows, externalId, canonical, embedded, scored, activity>>
    BY <1>2 DEF Sql, UpdateRootCause
  <2>2. analyzed' \in [Bug -> BOOLEAN] /\ \A c \in Bug : analyzed[c] => analyzed'[c]
    BY <2>1 DEF Column, StoreTypeOK
  <2>3. status' \in [Bug -> Status]
    BY <2>1 DEF Column, StoreTypeOK, Status
  <2>4. b \in rows => analyzed'[b]
    BY <2>1 DEF Column, StoreTypeOK
  <2> QED
    BY <1>2, <2>1, <2>2, <2>3, <2>4 DEF StoreTypeOK, Grows, Logged
<1> QED
  BY <1>1, <1>2

LEMMA SetStatusFacts ==
    ASSUME StoreTypeOK, NEW b, NEW st \in Status, SetStatus(b, st)
    PROVE  /\ StoreTypeOK' /\ Grows
           /\ UNCHANGED <<rows, externalId, canonical, embedded, scored, analyzed,
                          activity>>
<1>1. /\ status' = Column(status, b, st)
      /\ UNCHANGED <<rows, externalId, canonical, embedded, scored, analyzed, activity>>
  BY DEF SetStatus
<1>2. status' \in [Bug -> Status]
  BY <1>1 DEF Column, StoreTypeOK
<1> QED
  BY <1>1, <1>2 DEF StoreTypeOK, Grows, Logged

(* The entry of a service's own, or nothing without a database.            *)
LEMMA SqlRecordFacts ==
    ASSUME StoreTypeOK, NEW b \in Bug, NEW p,
           NEW act \in {"severity_scored", "root_cause_analyzed"},
           Sql(p, Record(b, [action |-> act]))
    PROVE  /\ StoreTypeOK' /\ Grows /\ UNCHANGED <<rows, columns>>
           /\ p \notin Detached => b \in rows /\ Logged(b, act)'
<1> DEFINE e == [action |-> act]
<1>1. CASE p \in Detached
  BY <1>1, SameTypes, SameGrows DEF Sql, storeVars
<1>2. CASE p \notin Detached
  <2>1. e \in PlainEntry \cup ChangeEntry /\ e.action = act
    BY DEF PlainEntry
  <2>2. Record(b, e)
    BY <1>2 DEF Sql
  <2> HIDE DEF e
  <2> QED
    BY <1>2, <2>1, <2>2, RecordFacts
<1> QED
  BY <1>1, <1>2

-----------------------------------------------------------------------------
(* The invariant gives every type, and what a busy replica works on.       *)
LEMMA Types ==
    ASSUME PipelineInv
    PROVE  /\ StreamTypeOK /\ StoreTypeOK /\ faults \in 0..MaxFaults
           /\ PlatformTypeOK /\ TypeOK /\ Feeds
           /\ iw \in [Ingester -> {Idle} \cup IngestStep]
           /\ dw \in [Deduper -> {Idle} \cup DedupStep]
           /\ sw \in [Scorer -> {Idle} \cup ScorerStep]
           /\ rw \in [Analyzer -> {Idle} \cup AnalyzerStep]
BY DEF PipelineInv, IngestionInv, IngestionTypeOK, DedupInv, DedupEngineTypeOK,
   ScorerInv, AnalyzerInv, PlatformTypeOK, IngestTypeOK, DedupTypeOK,
   ScorerTypeOK, AnalyzerTypeOK, TypeOK

LEMMA IngesterBusy ==
    ASSUME PipelineInv, NEW w \in Ingester, iw[w].pc # "idle"
    PROVE  iw[w] \in IngestStep /\ iw[w].bug \in Bug /\ iw[w].ext \in ExtId
BY Types DEF Idle, IngestStep

LEMMA ScorerBusy ==
    ASSUME PipelineInv, NEW t \in Scorer, sw[t].pc # "idle"
    PROVE  /\ sw[t] \in ScorerStep /\ sw[t].bug \in Bug /\ sw[t].msg \in Msg
           /\ sw[t].msg \in published[Filter[TaskOf[t]]]
           /\ sw[t].bug = sw[t].msg.key
           /\ TaskOf[t] \in ScorerConsumer
<1>1. sw[t] \in ScorerStep
  BY Types DEF Idle
<1> QED
  BY <1>1, ScorerAssumption
  DEF ScorerStep, PipelineInv, ScorerInv, ScorerHolds, TaskHolds, ScorerConsumer

LEMMA AnalyzerBusy ==
    ASSUME PipelineInv, NEW a \in Analyzer, rw[a].pc # "idle"
    PROVE  /\ rw[a] \in AnalyzerStep /\ rw[a].bug \in Bug /\ rw[a].msg \in Msg
           /\ rw[a].msg \in published[ScoredSubject]
           /\ rw[a].bug = rw[a].msg.key /\ rw[a].bug \in Published(ScoredSubject)
<1>1. rw[a] \in AnalyzerStep
  BY Types DEF Idle
<1> QED
  BY <1>1 DEF AnalyzerStep, PipelineInv, AnalyzerInv, AnalyzerHolds, ReplicaHolds, Published

-----------------------------------------------------------------------------
(* The footprint of each service, and what its steps can have changed.     *)
LEMMA ProducersFootprint ==
    ASSUME PipelineInv, Producers
    PROVE  /\ PlatformTypeOK' /\ Feeds' /\ Grows
           /\ Touches({}, {RequestSubject, "bug.score.request"})
           /\ UNCHANGED <<rows, externalId, canonical, embedded, scored, analyzed,
                          ingestVars, dedupVars, sw, rw>>
           /\ \/ UNCHANGED published
              \/ \A s \in Subject \ {RequestSubject} : published'[s] = published[s]
              \/ \E m \in Msg : Publish("bug.score.request", m)
           /\ GatewayTypeOK'
<1> DEFINE S == {RequestSubject, "bug.score.request"}
<1>1. StreamTypeOK /\ StoreTypeOK /\ faults \in 0..MaxFaults /\ Feeds /\ GatewayTypeOK
  BY Types DEF PipelineInv
<1>2. UNCHANGED <<ingestVars, dedupVars, sw, rw>>
  BY DEF Producers
<1>3. CASE (\E r \in Report : Submit(r)) /\ UNCHANGED gatewayVars
  <2> PICK r \in Report : Submit(r)
    BY <1>3
  <2>1. /\ Publish(RequestSubject, Request(r)) /\ UNCHANGED <<storeVars, faults>>
    BY DEF Submit, RequestSubject
  <2>2. /\ StreamTypeOK' /\ Touches({}, S) /\ Feeds'
        /\ \A s \in Subject \ {RequestSubject} : published'[s] = published[s]
    BY <1>1, <2>1, PublishTouches, PublishFacts, ConsumerFacts
  <2> QED
    BY <1>1, <1>2, <1>3, <2>1, <2>2, SameTypes, SameGrows
    DEF PlatformTypeOK, storeVars, columns, GatewayTypeOK, gatewayVars
<1>4. CASE AskForScore /\ UNCHANGED gatewayVars
  <2> PICK m \in Requested : Publish("bug.score.request", m)
    BY <1>4 DEF AskForScore
  <2>1. UNCHANGED <<storeVars, faults>>
    BY <1>4 DEF AskForScore
  <2>2. m \in Msg /\ StreamTypeOK' /\ Touches({}, S) /\ Feeds'
    BY <1>1, PublishTouches, PublishFacts, Wiring
  <2> QED
    BY <1>1, <1>2, <1>4, <2>1, <2>2, SameTypes, SameGrows
    DEF PlatformTypeOK, storeVars, columns, GatewayTypeOK, gatewayVars
<1>5. ASSUME NEW h \in Handler, Transition(h)
      PROVE  /\ StreamTypeOK' /\ StoreTypeOK' /\ faults' \in 0..MaxFaults /\ Grows
             /\ UNCHANGED streamVars
             /\ UNCHANGED <<rows, externalId, canonical, embedded, scored, analyzed>>
             /\ GatewayTypeOK'
  <2>1. gw[h].pc # "idle" =>
            /\ gw[h] \in GatewayStep /\ gw[h].bug \in Bug
            /\ gw[h].old \in Status /\ gw[h].new \in Status
    BY <1>1 DEF GatewayTypeOK, GatewayStep, Idle
  <2> USE SameTypes, SameGrows
  <2>2. ASSUME NEW b \in Bug, NEW new \in Asked, RequestTransition(h, b, new)
        PROVE  /\ UNCHANGED platformVars /\ GatewayTypeOK'
    <3>1. [pc |-> "select", bug |-> b, old |-> "open", new |-> new] \in GatewayStep
      BY GatewayAssumption DEF GatewayStep, Status
    <3>2. requests + 1 \in 0..MaxRequests
      BY <1>1, <2>2, GatewayAssumption DEF GatewayTypeOK, RequestTransition
    <3> QED
      BY <1>1, <2>2, <3>1, <3>2 DEF RequestTransition, GatewayTypeOK
  <2>3. ASSUME SelectStatus(h)
        PROVE  /\ UNCHANGED platformVars /\ GatewayTypeOK'
    <3>1. status[gw[h].bug] \in Status /\ gw[h] \in GatewayStep
      BY <1>1, <2>1, <2>3 DEF SelectStatus, StoreTypeOK
    <3>2. [gw[h] EXCEPT !.pc = "update", !.old = status[gw[h].bug]] \in GatewayStep
      BY <3>1 DEF GatewayStep
    <3>3. gw' = [gw EXCEPT ![h] = [gw[h] EXCEPT !.pc = "update",
                                                !.old = status[gw[h].bug]]]
      BY <1>1, <2>3 DEF SelectStatus, GatewayTypeOK
    <3> QED
      BY <1>1, <2>3, <3>2, <3>3 DEF SelectStatus, GatewayTypeOK
  <2>4. ASSUME TransitionUnknown(h)
        PROVE  /\ UNCHANGED platformVars /\ GatewayTypeOK'
    BY <1>1, <2>4 DEF TransitionUnknown, GatewayTypeOK
  <2>5. ASSUME UpdateStatus(h)
        PROVE  /\ UNCHANGED <<streamVars, faults>> /\ GatewayTypeOK'
               /\ SetStatus(gw[h].bug, gw[h].new)
    <3>1. [gw[h] EXCEPT !.pc = "log"] \in GatewayStep
      BY <2>1, <2>5 DEF UpdateStatus, GatewayStep
    <3>2. resolvedAt' \in [Bug -> BOOLEAN]
      BY <1>1, <2>5 DEF UpdateStatus, GatewayTypeOK, Column
    <3> QED
      BY <1>1, <2>5, <3>1, <3>2 DEF UpdateStatus, GatewayTypeOK
  <2>6. ASSUME LogTransition(h)
        PROVE  /\ UNCHANGED <<streamVars, faults>> /\ GatewayTypeOK'
               /\ Record(gw[h].bug, [action |-> "status_change",
                                     old |-> gw[h].old, new |-> gw[h].new])
    BY <1>1, <2>6 DEF LogTransition, GatewayTypeOK
  <2>7. ASSUME TransitionFails(h)
        PROVE  /\ UNCHANGED <<streamVars, storeVars>> /\ Fault /\ GatewayTypeOK'
    BY <1>1, <2>7 DEF TransitionFails, GatewayTypeOK
  <2>8. CASE UNCHANGED platformVars /\ GatewayTypeOK'
    BY <1>1, <2>8 DEF platformVars, storeVars, columns
  <2>9. CASE UpdateStatus(h)
    BY <1>1, <2>1, <2>5, <2>9, SetStatusFacts DEF UpdateStatus
  <2>10. CASE LogTransition(h)
    <3> DEFINE e == [action |-> "status_change", old |-> gw[h].old, new |-> gw[h].new]
    <3>1. e \in PlainEntry \cup ChangeEntry /\ gw[h].bug \in Bug
      BY <2>1, <2>10 DEF LogTransition, ChangeEntry
    <3>2. Record(gw[h].bug, e)
      BY <2>6, <2>10
    <3> HIDE DEF e
    <3>3. StoreTypeOK' /\ Grows /\ UNCHANGED <<rows, columns>>
      BY <1>1, <3>1, <3>2, RecordFacts
    <3> QED
      BY <1>1, <2>6, <2>10, <3>3 DEF columns
  <2>11. CASE TransitionFails(h)
    BY <1>1, <2>7, <2>11 DEF storeVars, columns
  <2> QED
    BY <1>5, <2>2, <2>3, <2>4, <2>8, <2>9, <2>10, <2>11 DEF Transition
<1>6. CASE \E h \in Handler : Transition(h)
  BY <1>1, <1>2, <1>5, <1>6, StillTouches DEF PlatformTypeOK, streamVars
<1> QED
  BY <1>3, <1>4, <1>6 DEF Producers

LEMMA IngestionFootprint ==
    ASSUME PipelineInv, IngestionSteps
    PROVE  /\ Feeds' /\ Grows /\ Touches({Ingestion}, {CreatedSubject})
           /\ UNCHANGED <<canonical, embedded, scored, analyzed, activity,
                          dedupVars, sw, rw, gatewayVars>>
           /\ \/ UNCHANGED <<published, storeVars>>
              \/ /\ UNCHANGED published
                 /\ \E b \in Bug, x \in ExtId : InsertBug(b, x)
              \/ /\ UNCHANGED storeVars
                 /\ \E w \in Ingester : /\ iw[w].pc = "publish"
                                        /\ PublishAbout(CreatedSubject, iw[w].bug)
<1> DEFINE C == {Ingestion}
           S == {CreatedSubject}
<1>1. StreamTypeOK /\ StoreTypeOK /\ Feeds
  BY Types
<1>2. Ingestion \in Consumer /\ CreatedSubject \in Subject
  BY Wiring
<1>3. UNCHANGED <<dedupVars, sw, rw, gatewayVars>>
  BY DEF IngestionSteps
<1>4. SUFFICES
        /\ Feeds' /\ Touches(C, S)
        /\ UNCHANGED storeVars \/ \E b \in Bug, x \in ExtId : InsertBug(b, x)
        /\ \/ UNCHANGED published
           \/ /\ UNCHANGED storeVars
              /\ \E w \in Ingester : /\ iw[w].pc = "publish"
                                     /\ PublishAbout(CreatedSubject, iw[w].bug)
  BY <1>1, <1>3, SameGrows, InsertGrows DEF storeVars, columns, InsertBug
<1> USE <1>1, <1>2
<1> HIDE DEF C, S
<1>reads. ASSUME NEW m, Deliver(Ingestion, m) \/ Ack(Ingestion, m) \/ Requeue(Ingestion, m)
          PROVE  Feeds' /\ Touches(C, S) /\ UNCHANGED published
  <2>1. Ingestion \in C
    BY DEF C
  <2> QED
    BY <1>reads, <2>1, ReadTouches
<1>still. ASSUME UNCHANGED streamVars
          PROVE  Feeds' /\ Touches(C, S) /\ UNCHANGED published
  BY <1>still, StillTouches DEF streamVars
<1>says. ASSUME NEW b, PublishAbout(CreatedSubject, b)
         PROVE  Feeds' /\ Touches(C, S)
  <2>1. CreatedSubject \in S
    BY DEF S
  <2> QED
    BY <1>says, <2>1, PublishAboutTouches
<1>5. ASSUME NEW w \in Ingester, NEW m, Receive(w, m)
      PROVE  Feeds' /\ Touches(C, S) /\ UNCHANGED <<storeVars, published>>
  BY <1>5, <1>reads DEF Receive
<1>6. ASSUME NEW w \in Ingester, NEW m, RejectMalformed(w, m)
      PROVE  Feeds' /\ Touches(C, S) /\ UNCHANGED <<storeVars, published>>
  <2>1. /\ UNCHANGED <<published, unacked, storeVars>>
        /\ \A c \in Consumer \ C : ready'[c] = ready[c] /\ deliveries'[c] = deliveries[c]
        /\ ready'[Ingestion] \subseteq ready[Ingestion]
    BY <1>6 DEF RejectMalformed, StreamTypeOK, C
  <2> QED
    BY <2>1 DEF Feeds, Touches, QueueKept, Outstanding, C
<1>7. ASSUME NEW w \in Ingester, Persist(w)
      PROVE  /\ Feeds' /\ Touches(C, S) /\ UNCHANGED published
             /\ \E b \in Bug, x \in ExtId : InsertBug(b, x)
  BY <1>7, <1>still, IngesterBusy DEF Persist
<1>8. ASSUME NEW w \in Ingester, PersistRejected(w)
      PROVE  Feeds' /\ Touches(C, S) /\ UNCHANGED <<storeVars, published>>
  BY <1>8, <1>reads DEF PersistRejected
<1>9. ASSUME NEW w \in Ingester, PublishCreated(w)
      PROVE  /\ Feeds' /\ Touches(C, S) /\ UNCHANGED storeVars
             /\ iw[w].pc = "publish" /\ PublishAbout(CreatedSubject, iw[w].bug)
  <2>1. /\ PublishAbout(CreatedSubject, iw[w].bug) /\ UNCHANGED storeVars
        /\ iw[w].pc = "publish"
    BY <1>9 DEF PublishCreated, CreatedSubject
  <2> QED
    BY <2>1, <1>says
<1>10. ASSUME NEW w \in Ingester, AckRequest(w)
       PROVE  Feeds' /\ Touches(C, S) /\ UNCHANGED <<storeVars, published>>
  BY <1>10, <1>reads DEF AckRequest
<1>11. ASSUME NEW w \in Ingester, PersistFails(w)
       PROVE  /\ Feeds' /\ Touches(C, S) /\ UNCHANGED published
              /\ UNCHANGED storeVars \/ \E b \in Bug, x \in ExtId : InsertBug(b, x)
  BY <1>11, <1>reads, IngesterBusy DEF PersistFails
<1>12. ASSUME NEW w \in Ingester, PublishCreatedFails(w)
       PROVE  /\ Feeds' /\ Touches(C, S) /\ UNCHANGED storeVars
              /\ \/ UNCHANGED published
                 \/ iw[w].pc = "publish" /\ PublishAbout(CreatedSubject, iw[w].bug)
  <2>1. /\ UNCHANGED streamVars \/ PublishAbout(CreatedSubject, iw[w].bug)
        /\ UNCHANGED storeVars /\ iw[w].pc = "publish"
    BY <1>12 DEF PublishCreatedFails, CreatedSubject
  <2>2. CASE UNCHANGED streamVars
    BY <2>1, <2>2, <1>still
  <2>3. CASE PublishAbout(CreatedSubject, iw[w].bug)
    BY <2>1, <2>3, <1>says
  <2> QED
    BY <2>1, <2>2, <2>3
<1>13. ASSUME NEW w \in Ingester, IngesterRestarts(w)
       PROVE  Feeds' /\ Touches(C, S) /\ UNCHANGED <<storeVars, published>>
  BY <1>13, <1>still DEF IngesterRestarts
<1>14. ASSUME NEW m, RequestExpires(m) \/ RequestLate(m)
       PROVE  Feeds' /\ Touches(C, S) /\ UNCHANGED <<storeVars, published>>
  BY <1>14, <1>reads
  DEF RequestExpires, RequestLate, AckWaitOver
<1>15. ASSUME NEW w \in Ingester, IngestWork(w) \/ IngestFaults(w)
       PROVE  /\ Feeds' /\ Touches(C, S)
              /\ UNCHANGED storeVars \/ \E b \in Bug, x \in ExtId : InsertBug(b, x)
              /\ \/ UNCHANGED published
                 \/ /\ UNCHANGED storeVars
                    /\ iw[w].pc = "publish" /\ PublishAbout(CreatedSubject, iw[w].bug)
  BY <1>5, <1>6, <1>7, <1>8, <1>9, <1>10, <1>11, <1>12, <1>13, <1>15
  DEF IngestWork, IngestFaults
<1> QED
  BY <1>14, <1>15 DEF IngestionSteps

LEMMA DedupFootprint ==
    ASSUME PipelineInv, DedupSteps
    PROVE  /\ Feeds' /\ Touches({Dedup}, {"bug.classified", "bug.deduplicated"})
           /\ UNCHANGED <<rows, externalId, scored, analyzed, activity,
                          ingestVars, sw, rw, gatewayVars>>
           /\ \/ UNCHANGED published
              \/ \E d \in Deduper, s \in {"bug.classified", "bug.deduplicated"} :
                    dw[d].pc # "idle" /\ PublishAbout(s, dw[d].bug)
<1> DEFINE C == {Dedup}
           S == {"bug.classified", "bug.deduplicated"}
           Out == \/ UNCHANGED published
                  \/ \E d \in Deduper, s \in S :
                        dw[d].pc # "idle" /\ PublishAbout(s, dw[d].bug)
           Result == /\ Feeds' /\ Touches(C, S) /\ Out
                     /\ UNCHANGED <<rows, externalId, scored, analyzed, activity>>
<1>1. StreamTypeOK /\ StoreTypeOK /\ Feeds /\ Dedup \in Consumer /\ Dedup \in C
  BY Types, Wiring
<1>2. UNCHANGED <<ingestVars, sw, rw, gatewayVars>>
  BY DEF DedupSteps
<1>3. UNCHANGED storeVars => UNCHANGED <<rows, externalId, scored, analyzed, activity>>
  BY DEF storeVars, columns
<1> USE <1>1, <1>3
<1> HIDE DEF C, S
<1>reads. ASSUME NEW m, Deliver(Dedup, m) \/ Ack(Dedup, m) \/ Requeue(Dedup, m)
          PROVE  Feeds' /\ Touches(C, S) /\ UNCHANGED published
  BY <1>reads, ReadTouches
<1>still. ASSUME UNCHANGED streamVars
          PROVE  Feeds' /\ Touches(C, S) /\ UNCHANGED published
  BY <1>still, StillTouches DEF streamVars
<1>says. ASSUME NEW s \in S, NEW d \in Deduper, dw[d].pc # "idle",
                PublishAbout(s, dw[d].bug)
         PROVE  Feeds' /\ Touches(C, S) /\ Out
  <2>1. s \in Subject
    BY Wiring DEF S
  <2> QED
    BY <1>says, <2>1, PublishAboutTouches
<1>4. ASSUME NEW d \in Deduper, DedupWork(d)
      PROVE  Result
  <2>1. CASE \E m \in ready[Dedup] : ReceiveCreated(d, m)
    BY <2>1, <1>reads DEF ReceiveCreated
  <2>2. CASE Search(d)
    BY <2>2, <1>still DEF Search
  <2>3. CASE Mark(d)
    <3>1. UNCHANGED streamVars /\ Sql(d, MarkDuplicate(dw[d].bug, dw[d].match))
      BY <2>3 DEF Mark
    <3>2. UNCHANGED <<rows, externalId, scored, analyzed, activity>>
      BY <3>1 DEF Sql, MarkDuplicate
    <3> QED
      BY <3>1, <3>2, <1>still
  <2>4. CASE PublishDeduplicated(d)
    <3>1. /\ PublishAbout("bug.deduplicated", dw[d].bug) /\ UNCHANGED storeVars
          /\ dw[d].pc # "idle" /\ "bug.deduplicated" \in S
      BY <2>4 DEF PublishDeduplicated, S
    <3> QED
      BY <3>1, <1>says
  <2>5. CASE StoreEmbedding(d)
    BY <2>5, <1>still DEF StoreEmbedding
  <2>6. CASE StoreId(d)
    <3>1. UNCHANGED streamVars /\ Sql(d, StoreEmbeddingId(dw[d].bug))
      BY <2>6 DEF StoreId
    <3>2. UNCHANGED <<rows, externalId, scored, analyzed, activity>>
      BY <3>1 DEF Sql, StoreEmbeddingId
    <3> QED
      BY <3>1, <3>2, <1>still
  <2>7. CASE PublishClassified(d)
    <3>1. /\ PublishAbout("bug.classified", dw[d].bug) /\ UNCHANGED storeVars
          /\ dw[d].pc # "idle" /\ "bug.classified" \in S
      BY <2>7 DEF PublishClassified, S
    <3> QED
      BY <3>1, <1>says
  <2>8. CASE AckCreated(d)
    BY <2>8, <1>reads DEF AckCreated
  <2> QED
    BY <1>4, <2>1, <2>2, <2>3, <2>4, <2>5, <2>6, <2>7, <2>8 DEF DedupWork
<1>5. ASSUME NEW d \in Deduper, DedupFaults(d)
      PROVE  Result
  BY <1>5, <1>reads, <1>still
  DEF DedupFaults, SearchFails, StoreEmbeddingFails, DedupRaises, DeduperRestarts
<1>6. ASSUME NEW m, CreatedExpires(m) \/ CreatedLate(m)
      PROVE  Result
  BY <1>6, <1>reads DEF CreatedExpires, CreatedLate, AckWaitOver
<1>7. Result
  BY <1>4, <1>5, <1>6 DEF DedupSteps
<1> QED
  BY <1>2, <1>7 DEF C, S

LEMMA ScorerFootprint ==
    ASSUME PipelineInv, ScorerSteps
    PROVE  /\ PlatformTypeOK' /\ Feeds' /\ Grows
           /\ Touches(ScorerConsumer, {ScoredSubject})
           /\ UNCHANGED <<rows, externalId, canonical, embedded, analyzed,
                          ingestVars, dedupVars, rw, gatewayVars>>
           /\ \/ UNCHANGED published
              \/ /\ UNCHANGED storeVars
                 /\ \E t \in Scorer : /\ sw[t].pc = "publish"
                                      /\ PublishAbout(ScoredSubject, sw[t].bug)
<1> DEFINE C == ScorerConsumer
           S == {ScoredSubject}
           Streams == StreamTypeOK' /\ Feeds' /\ Touches(C, S)
           Stores == /\ StoreTypeOK' /\ Grows
                     /\ UNCHANGED <<rows, externalId, canonical, embedded, analyzed>>
           Out == \/ UNCHANGED published
                  \/ /\ UNCHANGED storeVars
                     /\ \E t \in Scorer : /\ sw[t].pc = "publish"
                                          /\ PublishAbout(ScoredSubject, sw[t].bug)
           Result == Streams /\ Stores /\ Out /\ faults' \in 0..MaxFaults
<1>1. /\ StreamTypeOK /\ StoreTypeOK /\ faults \in 0..MaxFaults /\ Feeds
      /\ \A t \in Scorer : TaskOf[t] \in C
      /\ C \subseteq Consumer
  BY Types, Wiring, ScorerAssumption DEF ScorerConsumer
<1>2. UNCHANGED <<ingestVars, dedupVars, rw, gatewayVars>>
  BY DEF ScorerSteps
<1>3. UNCHANGED storeVars => Stores
  BY <1>1, SameTypes, SameGrows DEF storeVars, columns
<1>4. Fault => faults' \in 0..MaxFaults
  BY <1>1, SameTypes
<1> USE <1>1, <1>4
<1> HIDE DEF C, S, Stores
<1>reads. ASSUME NEW c \in C, NEW m, Deliver(c, m) \/ Ack(c, m) \/ Requeue(c, m)
          PROVE  Streams /\ UNCHANGED published
  <2>1. c \in Consumer
    OBVIOUS
  <2> QED
    BY <1>reads, <2>1, ReadTouches
<1>still. ASSUME UNCHANGED streamVars
          PROVE  Streams /\ UNCHANGED published
  BY <1>still, StillTouches DEF streamVars
<1> HIDE DEF Streams
<1>5. ASSUME NEW t \in Scorer, NEW m, ReceiveClassified(t, m)
      PROVE  Result
  BY <1>5, <1>reads, <1>3 DEF ReceiveClassified
<1>6. ASSUME NEW t \in Scorer, FetchBug(t) \/ SkipUnknown(t)
      PROVE  Result
  BY <1>6, <1>still, <1>3 DEF FetchBug, SkipUnknown
<1>7. ASSUME NEW t \in Scorer, WriteSeverity(t)
      PROVE  Result
  <2>1. /\ sw[t].pc = "update" /\ Sql(t, UpdateSeverity(sw[t].bug))
        /\ UNCHANGED <<streamVars, faults>>
    BY <1>7 DEF WriteSeverity, ScorerGoes
  <2>2. sw[t].bug \in Bug
    BY <2>1, ScorerBusy
  <2>3. Stores
    BY <2>1, <2>2, SeverityFacts DEF Stores
  <2> QED
    BY <2>1, <2>3, <1>still
<1>8. ASSUME NEW t \in Scorer, RecordScored(t)
      PROVE  Result
  <2>1. /\ sw[t].pc = "record" /\ UNCHANGED <<streamVars, faults>>
        /\ Sql(t, Record(sw[t].bug, [action |-> "severity_scored"]))
    BY <1>8 DEF RecordScored, ScorerGoes
  <2>2. sw[t].bug \in Bug
    BY <2>1, ScorerBusy
  <2>3. Stores
    BY <2>1, <2>2, SqlRecordFacts DEF Stores, columns
  <2> QED
    BY <2>1, <2>3, <1>still
<1>9. ASSUME NEW t \in Scorer, PublishScored(t)
      PROVE  Result
  <2>1. /\ PublishAbout(ScoredSubject, sw[t].bug) /\ UNCHANGED <<storeVars, faults>>
        /\ sw[t].pc = "publish"
    BY <1>9 DEF PublishScored, ScorerGoes, ScoredSubject
  <2>2. ScoredSubject \in Subject /\ ScoredSubject \in S
    BY Wiring DEF S
  <2>3. Streams
    BY <2>1, <2>2, PublishAboutTouches DEF Streams
  <2> QED
    BY <2>1, <2>3, <1>3
<1>10. ASSUME NEW t \in Scorer, AckClassified(t) \/ RecordRefused(t)
       PROVE  Result
  BY <1>10, <1>reads, <1>3 DEF AckClassified, RecordRefused
<1>11. ASSUME NEW t \in Scorer, ScorerFaults(t)
       PROVE  Result
  BY <1>11, <1>reads, <1>still, <1>3 DEF ScorerFaults, ScorerRaises, ScorerRestarts
<1>12. ASSUME NEW c \in ScorerConsumer, NEW m, ClassifiedExpires(c, m) \/ ClassifiedLate(c, m)
       PROVE  Result
  <2>1. c \in C /\ Requeue(c, m) /\ UNCHANGED storeVars /\ faults' \in 0..MaxFaults
    BY <1>12 DEF ClassifiedExpires, ClassifiedLate, AckWaitOver, C
  <2> QED
    BY <2>1, <1>reads, <1>3
<1>13. Result
  BY <1>5, <1>6, <1>7, <1>8, <1>9, <1>10, <1>11, <1>12 DEF ScorerSteps, ScorerWork
<1> QED
  BY <1>2, <1>13 DEF C, S, Stores, Streams, PlatformTypeOK

LEMMA AnalyzerFootprint ==
    ASSUME PipelineInv, AnalyzerSteps
    PROVE  /\ PlatformTypeOK' /\ Feeds' /\ Grows
           /\ Touches({Rca}, {TriagedSubject})
           /\ UNCHANGED <<rows, externalId, canonical, embedded, scored,
                          ingestVars, dedupVars, sw, gatewayVars>>
           /\ \/ UNCHANGED published
              \/ /\ UNCHANGED storeVars
                 /\ \E a \in Analyzer : /\ rw[a].pc = "publish"
                                        /\ PublishAbout(TriagedSubject, rw[a].bug)
<1> DEFINE C == {Rca}
           S == {TriagedSubject}
           Streams == StreamTypeOK' /\ Feeds' /\ Touches(C, S)
           Stores == /\ StoreTypeOK' /\ Grows
                     /\ UNCHANGED <<rows, externalId, canonical, embedded, scored>>
           Out == \/ UNCHANGED published
                  \/ /\ UNCHANGED storeVars
                     /\ \E a \in Analyzer : /\ rw[a].pc = "publish"
                                            /\ PublishAbout(TriagedSubject, rw[a].bug)
           Result == Streams /\ Stores /\ Out /\ faults' \in 0..MaxFaults
<1>1. /\ StreamTypeOK /\ StoreTypeOK /\ faults \in 0..MaxFaults /\ Feeds
      /\ Rca \in C /\ Rca \in Consumer
  BY Types, Wiring
<1>2. UNCHANGED <<ingestVars, dedupVars, sw, gatewayVars>>
  BY DEF AnalyzerSteps
<1>3. UNCHANGED storeVars => Stores
  BY <1>1, SameTypes, SameGrows DEF storeVars, columns
<1>4. Fault => faults' \in 0..MaxFaults
  BY <1>1, SameTypes
<1> USE <1>1, <1>4
<1> HIDE DEF C, S, Stores
<1>reads. ASSUME NEW m, Deliver(Rca, m) \/ Ack(Rca, m) \/ Requeue(Rca, m)
          PROVE  Streams /\ UNCHANGED published
  BY <1>reads, ReadTouches
<1>still. ASSUME UNCHANGED streamVars
          PROVE  Streams /\ UNCHANGED published
  BY <1>still, StillTouches DEF streamVars
<1> HIDE DEF Streams
<1>5. ASSUME NEW a \in Analyzer, NEW m, ReceiveScored(a, m)
      PROVE  Result
  BY <1>5, <1>reads, <1>3 DEF ReceiveScored
<1>6. ASSUME NEW a \in Analyzer, Analyze(a)
      PROVE  Result
  BY <1>6, <1>still, <1>3 DEF Analyze
<1>7. ASSUME NEW a \in Analyzer, WriteRootCause(a)
      PROVE  Result
  <2>1. /\ rw[a].pc = "update" /\ Sql(a, UpdateRootCause(rw[a].bug))
        /\ UNCHANGED <<streamVars, faults>>
    BY <1>7 DEF WriteRootCause, AnalyzerGoes
  <2>2. rw[a].bug \in Bug
    BY <2>1, AnalyzerBusy
  <2>3. Stores
    BY <2>1, <2>2, RootCauseFacts DEF Stores
  <2> QED
    BY <2>1, <2>3, <1>still
<1>8. ASSUME NEW a \in Analyzer, RecordAnalyzed(a)
      PROVE  Result
  <2>1. /\ rw[a].pc = "record" /\ UNCHANGED <<streamVars, faults>>
        /\ Sql(a, Record(rw[a].bug, [action |-> "root_cause_analyzed"]))
    BY <1>8 DEF RecordAnalyzed, AnalyzerGoes
  <2>2. rw[a].bug \in Bug
    BY <2>1, AnalyzerBusy
  <2>3. Stores
    BY <2>1, <2>2, SqlRecordFacts DEF Stores, columns
  <2> QED
    BY <2>1, <2>3, <1>still
<1>9. ASSUME NEW a \in Analyzer, PublishTriaged(a)
      PROVE  Result
  <2>1. /\ PublishAbout(TriagedSubject, rw[a].bug) /\ UNCHANGED <<storeVars, faults>>
        /\ rw[a].pc = "publish"
    BY <1>9 DEF PublishTriaged, AnalyzerGoes, TriagedSubject
  <2>2. TriagedSubject \in Subject /\ TriagedSubject \in S
    BY Wiring DEF S
  <2>3. Streams
    BY <2>1, <2>2, PublishAboutTouches DEF Streams
  <2> QED
    BY <2>1, <2>3, <1>3
<1>10. ASSUME NEW a \in Analyzer, AckScored(a)
       PROVE  Result
  BY <1>10, <1>reads, <1>3 DEF AckScored
<1>11. ASSUME NEW a \in Analyzer, AnalyzerFaults(a)
       PROVE  Result
  BY <1>11, <1>reads, <1>still, <1>3 DEF AnalyzerFaults, AnalyzerRaises, AnalyzerRestarts
<1>12. ASSUME NEW m, ScoredExpires(m) \/ AnalysisLate(m)
       PROVE  Result
  BY <1>12, <1>reads, <1>3 DEF ScoredExpires, AnalysisLate, AckWaitOver
<1>13. Result
  BY <1>5, <1>6, <1>7, <1>8, <1>9, <1>10, <1>11, <1>12
  DEF AnalyzerSteps, AnalyzerWork
<1> QED
  BY <1>2, <1>13 DEF C, S, Stores, Streams, PlatformTypeOK

-----------------------------------------------------------------------------
(* The invariants of the first two services, in the whole pipeline.        *)

(* A step whose footprint is elsewhere keeps the invariant of ingestion.   *)
LEMMA IngestionFrame ==
    ASSUME IngestionInv, PlatformTypeOK', UNCHANGED ingestVars,
           UNCHANGED <<rows, externalId>>,
           published'[RequestSubject] = published[RequestSubject],
           published'[CreatedSubject] = published[CreatedSubject],
           ready'[Ingestion] = ready[Ingestion],
           unacked'[Ingestion] = unacked[Ingestion],
           deliveries'[Ingestion] = deliveries[Ingestion]
    PROVE  IngestionInv'
<1>1. IngestionTypeOK'
  BY DEF IngestionInv, IngestionTypeOK, IngestTypeOK, ingestVars
<1>2. Budget' /\ \A n \in Msg : Owed(n) => Owed(n)'
  BY QueueSame DEF IngestionInv
<1>3. Published(CreatedSubject)' = Published(CreatedSubject)
  BY DEF Published
<1>4. AtWork' /\ RowInv'
  BY <1>3 DEF IngestionInv, AtWork, RowInv, Publishing, Acking, Announced,
     OneAnnouncement, ingestVars, CreatedSubject
<1>5. NoSilentLoss'
  BY <1>2, <1>3, RequestType, LossKept
  DEF IngestionInv, ingestVars, Submitted, RequestSubject, CreatedSubject
<1> QED
  BY <1>1, <1>2, <1>4, <1>5 DEF IngestionInv

LEMMA DedupFrame ==
    ASSUME DedupInv, PlatformTypeOK', UNCHANGED dedupVars,
           rows \subseteq rows', UNCHANGED <<canonical, embedded>>,
           \A s \in {CreatedSubject, "bug.classified", "bug.deduplicated"} :
                published'[s] = published[s],
           ready'[Dedup] = ready[Dedup],
           unacked'[Dedup] = unacked[Dedup],
           deliveries'[Dedup] = deliveries[Dedup]
    PROVE  DedupInv'
<1>1. DedupEngineTypeOK'
  BY DEF DedupInv, DedupEngineTypeOK, DedupTypeOK, dedupVars
<1>2. /\ Published(CreatedSubject)' = Published(CreatedSubject)
      /\ Published("bug.classified")' = Published("bug.classified")
      /\ Published("bug.deduplicated")' = Published("bug.deduplicated")
      /\ published'[CreatedSubject] = published[CreatedSubject]
  BY DEF Published
<1>3. Feed' /\ Handling'
  BY <1>2 DEF DedupInv, Feed, Handling, Busy, dedupVars
<1>4. Matches' /\ CanonicalIndexed'
  BY DEF DedupInv, Matches, CanonicalIndexed, IsDuplicate, OrgOf, dedupVars
<1>5. \A b : Untouched(b)' = Untouched(b)
  BY <1>2 DEF Untouched, IsDuplicate, dedupVars
<1>6. FirstDelivery'
  BY <1>2, <1>5 DEF DedupInv, FirstDelivery, IsDuplicate, Busy, dedupVars
<1>7. Verdicts'
  BY <1>2 DEF DedupInv, Verdicts, IsDuplicate, dedupVars
<1>8. NoBugForgotten'
  BY <1>2 DEF DedupInv, NoBugForgotten, Outstanding, IsDuplicate, CreatedSubject
<1> QED
  BY <1>1, <1>3, <1>4, <1>6, <1>7, <1>8 DEF DedupInv

(* An announcement is the first of its bug: nothing has been done to it.   *)
LEMMA DedupAnnounced ==
    ASSUME DedupInv, PlatformTypeOK', UNCHANGED dedupVars,
           UNCHANGED <<rows, canonical, embedded>>,
           NEW b \in rows, b \notin Published(CreatedSubject),
           PublishAbout(CreatedSubject, b)
    PROVE  DedupInv'
<1>0. StreamTypeOK /\ rows \subseteq Bug
  BY DEF DedupInv, DedupEngineTypeOK, PlatformTypeOK, StoreTypeOK
<1>1. DedupEngineTypeOK'
  BY DEF DedupInv, DedupEngineTypeOK, DedupTypeOK, dedupVars
<1>2. PICK m \in Msg :
        /\ m.key = b /\ m \notin published[CreatedSubject]
        /\ published'[CreatedSubject] = published[CreatedSubject] \cup {m}
        /\ \A c \in Consumer : ready'[c] =
              IF Filter[c] = CreatedSubject THEN ready[c] \cup {m} ELSE ready[c]
        /\ \A t \in Subject \ {CreatedSubject} : published'[t] = published[t]
        /\ UNCHANGED <<unacked, deliveries>>
  BY <1>0, DedupConsumer, PublishAboutFacts
<1>3. /\ Published(CreatedSubject)' = Published(CreatedSubject) \cup {b}
      /\ Published("bug.classified")' = Published("bug.classified")
      /\ Published("bug.deduplicated")' = Published("bug.deduplicated")
      /\ ready'[Dedup] = ready[Dedup] \cup {m}
      /\ unacked'[Dedup] = unacked[Dedup]
  BY <1>2, DedupConsumer DEF Published
<1>4. \A n \in published[CreatedSubject] : n.key # b
  BY DEF Published
<1>5. Feed'
  BY <1>2, <1>3, <1>4 DEF DedupInv, Feed
<1>6. Handling'
  BY <1>2 DEF DedupInv, Handling, Busy, dedupVars
<1>7. Matches' /\ CanonicalIndexed'
  BY DEF DedupInv, Matches, CanonicalIndexed, IsDuplicate, OrgOf, dedupVars
<1>8. \A a : Untouched(a)' = Untouched(a)
  BY <1>3 DEF Untouched, IsDuplicate, dedupVars
<1>9. Untouched(b) /\ \A d \in Deduper : Busy(d) => dw[d].msg # m
  BY <1>0, <1>2 DEF DedupInv, FirstDelivery, Handling
<1>10. FirstDelivery'
  <2>1. \A a \in Bug : a \notin Published(CreatedSubject)' => Untouched(a)'
    BY <1>3, <1>8 DEF DedupInv, FirstDelivery
  <2>2. ASSUME NEW n \in published'[CreatedSubject]
        PROVE  /\ deliveries'[Dedup][n] = 0 => Untouched(n.key)'
               /\ deliveries'[Dedup][n] < 2 =>
                    /\ n.key \in vectors' \cup Published("bug.classified")'
                            => ~IsDuplicate(n.key)'
                    /\ \A d, e \in Deduper : Busy(d)' /\ Busy(e)'
                            /\ dw'[d].msg = n /\ dw'[e].msg = n => d = e
                    /\ \A d \in Deduper : Busy(d)' /\ dw'[d].msg = n =>
                        /\ dw'[d].pc = "search" => Untouched(n.key)'
                        /\ dw'[d].pc \in {"mark", "deduplicated"} => n.key \notin
                                vectors' \cup Published("bug.classified")'
                        /\ dw'[d].pc \in {"store", "storeId", "classified"} =>
                                ~IsDuplicate(n.key)'
    <3>1. CASE n = m
      BY <1>2, <1>3, <1>8, <1>9, <3>1 DEF Untouched, Busy, IsDuplicate, dedupVars
    <3>2. CASE n \in published[CreatedSubject]
      BY <1>2, <1>3, <1>8, <3>2
      DEF DedupInv, FirstDelivery, Busy, IsDuplicate, dedupVars
    <3> QED
      BY <1>2, <3>1, <3>2
  <2> QED
    BY <2>1, <2>2 DEF FirstDelivery
<1>11. Verdicts'
  BY <1>3 DEF DedupInv, Verdicts, IsDuplicate, dedupVars
<1>12. NoBugForgotten'
  BY <1>2, <1>3
  DEF DedupInv, NoBugForgotten, Outstanding, IsDuplicate, CreatedSubject
<1> QED
  BY <1>1, <1>5, <1>6, <1>7, <1>10, <1>11, <1>12 DEF DedupInv

LEMMA IngestionKept ==
    ASSUME PipelineInv, Next
    PROVE  IngestionInv'
<1>0. IngestionInv /\ StreamTypeOK /\ Ingestion \in Consumer
  BY Types, Wiring DEF PipelineInv
<1>1. ASSUME NEW C, NEW S, Touches(C, S), Ingestion \notin C,
             RequestSubject \notin S, CreatedSubject \notin S
      PROVE  /\ published'[RequestSubject] = published[RequestSubject]
             /\ published'[CreatedSubject] = published[CreatedSubject]
             /\ ready'[Ingestion] = ready[Ingestion]
             /\ unacked'[Ingestion] = unacked[Ingestion]
             /\ deliveries'[Ingestion] = deliveries[Ingestion]
  <2>1. /\ Ingestion \in Consumer \ C /\ Filter[Ingestion] = RequestSubject
        /\ RequestSubject \in Subject \ S /\ CreatedSubject \in Subject \ S
    BY <1>1, Wiring
  <2> QED
    BY <1>1, <2>1 DEF Touches
<1>2. CASE Producers
  <2>1. UNCHANGED ingestVars /\ PlatformTypeOK' /\ UNCHANGED <<rows, externalId>>
    BY <1>2, ProducersFootprint
  <2>2. ASSUME NEW r \in Report, Submit(r)
        PROVE  IngestionInv'
    BY <1>0, <2>1, <2>2, SubmitStep
  <2>3. CASE AskForScore
    <3>1. PICK m : Publish("bug.score.request", m)
      BY <2>3 DEF AskForScore
    <3>2. "bug.score.request" \in Subject \ {RequestSubject, CreatedSubject}
      BY DEF Subject, RequestSubject, CreatedSubject
    <3>3. /\ \A t \in Subject \ {"bug.score.request"} : published'[t] = published[t]
          /\ ready'[Ingestion] = ready[Ingestion] /\ UNCHANGED <<unacked, deliveries>>
      BY <1>0, <3>1, <3>2, PublishFacts, Wiring
    <3>4. /\ published'[RequestSubject] = published[RequestSubject]
          /\ published'[CreatedSubject] = published[CreatedSubject]
      BY <3>2, <3>3, Wiring
    <3> QED
      BY <1>0, <2>1, <3>3, <3>4, IngestionFrame
  <2>4. ASSUME NEW h \in Handler, Transition(h)
        PROVE  UNCHANGED streamVars
    BY <2>4 DEF Transition, RequestTransition, SelectStatus, TransitionUnknown,
       UpdateStatus, LogTransition, TransitionFails, platformVars
  <2>5. CASE UNCHANGED streamVars
    BY <1>0, <2>1, <2>5, IngestionFrame DEF streamVars
  <2> QED
    BY <1>2, <2>2, <2>3, <2>4, <2>5 DEF Producers
<1>3. CASE IngestionSteps
  BY <1>0, <1>3, StepInv DEF IngestionSteps, IngestionNext
<1>4. CASE DedupSteps
  <2>1. DedupInv'
    BY <1>4, DedupStepInv DEF DedupSteps, DedupEngineNext, PipelineInv
  <2>2. PlatformTypeOK'
    BY <2>1 DEF DedupInv, DedupEngineTypeOK
  <2>3. Touches({Dedup}, {"bug.classified", "bug.deduplicated"})
        /\ UNCHANGED <<rows, externalId, ingestVars>>
    BY <1>4, DedupFootprint
  <2> QED
    BY <1>0, <1>1, <2>2, <2>3, IngestionFrame
    DEF Ingestion, Dedup, RequestSubject, CreatedSubject
<1>5. CASE ScorerSteps
  <2>1. Touches(ScorerConsumer, {ScoredSubject}) /\ PlatformTypeOK'
        /\ UNCHANGED <<rows, externalId, ingestVars>>
    BY <1>5, ScorerFootprint
  <2> QED
    BY <1>0, <1>1, <2>1, IngestionFrame
    DEF Ingestion, ScorerConsumer, RequestSubject, CreatedSubject, ScoredSubject
<1>6. CASE AnalyzerSteps
  <2>1. Touches({Rca}, {TriagedSubject}) /\ PlatformTypeOK'
        /\ UNCHANGED <<rows, externalId, ingestVars>>
    BY <1>6, AnalyzerFootprint
  <2> QED
    BY <1>0, <1>1, <2>1, IngestionFrame
    DEF Ingestion, Rca, RequestSubject, CreatedSubject, TriagedSubject
<1> QED
  BY <1>2, <1>3, <1>4, <1>5, <1>6 DEF Next

LEMMA DedupKept ==
    ASSUME PipelineInv, Next
    PROVE  DedupInv'
<1>0. DedupInv /\ StreamTypeOK /\ Dedup \in Consumer
  BY Types, Wiring DEF PipelineInv
<1>1. ASSUME NEW C, NEW S, Touches(C, S), Dedup \notin C, CreatedSubject \notin S,
             "bug.classified" \notin S, "bug.deduplicated" \notin S,
             PlatformTypeOK', UNCHANGED dedupVars, rows \subseteq rows',
             UNCHANGED <<canonical, embedded>>
      PROVE  DedupInv'
  <2>1. /\ Dedup \in Consumer \ C /\ Filter[Dedup] = CreatedSubject
        /\ CreatedSubject \in Subject \ S /\ "bug.classified" \in Subject \ S
        /\ "bug.deduplicated" \in Subject \ S
    BY <1>1, Wiring
  <2>2. /\ \A s \in {CreatedSubject, "bug.classified", "bug.deduplicated"} :
                published'[s] = published[s]
        /\ ready'[Dedup] = ready[Dedup] /\ unacked'[Dedup] = unacked[Dedup]
        /\ deliveries'[Dedup] = deliveries[Dedup]
    BY <1>1, <2>1 DEF Touches
  <2> QED
    BY <1>0, <1>1, <2>2, DedupFrame
<1>2. CASE Producers
  <2>1. /\ Touches({}, {RequestSubject, "bug.score.request"}) /\ PlatformTypeOK'
        /\ UNCHANGED <<rows, canonical, embedded, dedupVars>>
    BY <1>2, ProducersFootprint
  <2> QED
    BY <1>1, <2>1 DEF RequestSubject, CreatedSubject
<1>3. CASE IngestionSteps
  <2>1. /\ Touches({Ingestion}, {CreatedSubject}) /\ rows \subseteq rows'
        /\ UNCHANGED <<canonical, embedded, dedupVars>>
        /\ \/ UNCHANGED published
           \/ /\ UNCHANGED rows
              /\ \E w \in Ingester : /\ iw[w].pc = "publish"
                                     /\ PublishAbout(CreatedSubject, iw[w].bug)
    BY <1>3, IngestionFootprint DEF Grows, storeVars
  <2>2. PlatformTypeOK'
    BY <1>3, IngestionKept DEF Next, IngestionInv, IngestionTypeOK
  <2>3. CASE UNCHANGED published
    <3>1. Dedup \in Consumer \ {Ingestion}
      BY <1>0 DEF Dedup, Ingestion
    <3>2. /\ ready'[Dedup] = ready[Dedup] /\ unacked'[Dedup] = unacked[Dedup]
          /\ deliveries'[Dedup] = deliveries[Dedup]
      BY <2>1, <2>3, <3>1 DEF Touches
    <3> QED
      BY <1>0, <2>1, <2>2, <2>3, <3>2, DedupFrame
  <2>4. ASSUME NEW w \in Ingester, iw[w].pc = "publish", UNCHANGED rows,
               PublishAbout(CreatedSubject, iw[w].bug)
        PROVE  DedupInv'
    <3>1. iw[w].bug \in rows /\ iw[w].bug \notin Published(CreatedSubject)
      BY <2>4 DEF PipelineInv, IngestionInv, RowInv, Publishing, Announced, CreatedSubject
    <3> QED
      BY <1>0, <2>1, <2>2, <2>4, <3>1, DedupAnnounced
  <2> QED
    BY <2>1, <2>3, <2>4
<1>4. CASE DedupSteps
  BY <1>4, DedupStepInv DEF DedupSteps, DedupEngineNext, PipelineInv
<1>5. CASE ScorerSteps
  <2>1. /\ Touches(ScorerConsumer, {ScoredSubject}) /\ PlatformTypeOK'
        /\ UNCHANGED <<rows, canonical, embedded, dedupVars>>
    BY <1>5, ScorerFootprint
  <2> QED
    BY <1>1, <2>1 DEF Dedup, ScorerConsumer, CreatedSubject, ScoredSubject
<1>6. CASE AnalyzerSteps
  <2>1. /\ Touches({Rca}, {TriagedSubject}) /\ PlatformTypeOK'
        /\ UNCHANGED <<rows, canonical, embedded, dedupVars>>
    BY <1>6, AnalyzerFootprint
  <2> QED
    BY <1>1, <2>1 DEF Dedup, Rca, CreatedSubject, TriagedSubject
<1> QED
  BY <1>2, <1>3, <1>4, <1>5, <1>6 DEF Next

-----------------------------------------------------------------------------
(* The scorer.                                                             *)

(* The stream and the table only grow.                                     *)
Onward == Grows /\ \A s \in Subject : published[s] \subseteq published'[s]

LEMMA OnwardFacts ==
    ASSUME Onward
    PROVE  /\ \A s \in Subject : Published(s) \subseteq Published(s)'
           /\ rows \subseteq rows'
           /\ \A b : AskedInline(b) => AskedInline(b)'
<1>1. \A s \in Subject : published[s] \subseteq published'[s]
  BY DEF Onward
<1>2. "bug.score.request" \in Subject
  BY DEF Subject
<1> QED
  BY <1>1, <1>2 DEF Onward, Grows, Published, AskedInline

(* The operations that are not an ack leave a consumer without a limit     *)
(* owed all it was owed.                                                   *)
LEMMA ReadKept ==
    ASSUME StreamTypeOK, Feeds, NEW c \in Consumer, ~Limited(c), NEW m,
           Deliver(c, m) \/ Requeue(c, m), NEW d \in Consumer
    PROVE  QueueKept(d)
<1>1. CASE d = c
  BY <1>1, DeliverKept, RequeueKept
<1>2. CASE d # c
  <2>1. Touches({c}, {})
    BY ReadTouches
  <2> QED
    BY <1>2, <2>1 DEF Touches
<1> QED
  BY <1>1, <1>2

(* A task that stands still keeps what it has behind it.                   *)
LEMMA TaskStands ==
    ASSUME PipelineInv, Onward, NEW t \in Scorer, sw'[t] = sw[t]
    PROVE  TaskHolds(t)' /\ TaskProgress(t)'
<1>1. TaskHolds(t) /\ TaskProgress(t)
  BY DEF PipelineInv, ScorerInv, ScorerHolds, ScorerProgress
<1>2. CASE sw[t].pc = "idle"
  BY <1>2 DEF TaskHolds, TaskProgress
<1>3. CASE sw[t].pc # "idle"
  <2>1. /\ sw[t].bug \in Bug /\ sw[t].msg \in published[Filter[TaskOf[t]]]
        /\ Filter[TaskOf[t]] \in Subject
    BY <1>3, ScorerBusy, Wiring
  <2>2. TaskHolds(t)'
    BY <1>1, <2>1 DEF TaskHolds, Onward
  <2>3. HasBug(t) => HasBug(t)'
    BY OnwardFacts DEF HasBug
  <2>4. /\ scored[sw[t].bug] => scored'[sw[t].bug]
        /\ Logged(sw[t].bug, "severity_scored") => Logged(sw[t].bug, "severity_scored")'
    BY <2>1 DEF Onward, Grows
  <2>5. /\ AskedInline(sw[t].bug) => AskedInline(sw[t].bug)'
        /\ Published(ScoredSubject) \subseteq Published(ScoredSubject)'
        /\ rows \subseteq rows'
    BY OnwardFacts, Wiring
  <2>6. TaskProgress(t)'
    BY <1>1, <2>3, <2>4, <2>5 DEF TaskProgress, AskedInline, Logged
  <2> QED
    BY <2>2, <2>6
<1> QED
  BY <1>2, <1>3

(* One task moves: it is enough to look at that task.                      *)
LEMMA TaskMoves ==
    ASSUME PipelineInv, Onward, NEW t \in Scorer, NEW v \in {Idle} \cup ScorerStep,
           sw' = [sw EXCEPT ![t] = v],
           v.pc # "idle" => TaskHolds(t)' /\ TaskProgress(t)'
    PROVE  ScorerTypeOK' /\ ScorerHolds' /\ ScorerProgress'
<1>1. sw' \in [Scorer -> {Idle} \cup ScorerStep] /\ sw'[t] = v
      /\ \A u \in Scorer \ {t} : sw'[u] = sw[u]
  BY Types
<1>2. v.pc = "idle" => TaskHolds(t)' /\ TaskProgress(t)'
  BY <1>1 DEF TaskHolds, TaskProgress
<1>3. \A u \in Scorer \ {t} : TaskHolds(u)' /\ TaskProgress(u)'
  BY <1>1, TaskStands
<1> QED
  BY <1>1, <1>2, <1>3 DEF ScorerTypeOK, ScorerHolds, ScorerProgress

LEMMA TasksStand ==
    ASSUME PipelineInv, Onward, UNCHANGED sw
    PROVE  ScorerTypeOK' /\ ScorerHolds' /\ ScorerProgress'
BY Types, TaskStands DEF ScorerTypeOK, ScorerHolds, ScorerProgress

(* The scores that are out keep what they rest on.                         *)
LEMMA ScoresStand ==
    ASSUME PipelineInv, Onward, Scorer \cap Detached = {},
           NEW b \in Published(ScoredSubject)
    PROVE  /\ b \in rows' /\ (scored'[b] \/ AskedInline(b)')
           /\ Logged(b, "severity_scored")'
           /\ b \in Published("bug.classified")' \cup Published("bug.score.request")'
<1>1. /\ b \in rows /\ (scored[b] \/ AskedInline(b))
      /\ Logged(b, "severity_scored")
      /\ b \in Published("bug.classified") \cup Published("bug.score.request")
  BY DEF PipelineInv, ScorerInv, ScoresRest
<1>2. b \in Bug
  BY <1>1, Types DEF StoreTypeOK
<1>3. "bug.classified" \in Subject /\ "bug.score.request" \in Subject
  BY Wiring
<1> QED
  BY <1>1, <1>2, <1>3, OnwardFacts DEF Onward, Grows

LEMMA ScoresKept ==
    ASSUME PipelineInv, Onward, published'[ScoredSubject] = published[ScoredSubject]
    PROVE  ScoresRest'
<1>1. Published(ScoredSubject)' = Published(ScoredSubject)
  BY DEF Published
<1> QED
  BY <1>1, ScoresStand DEF ScoresRest

LEMMA ClassifiedKept ==
    ASSUME PipelineInv, Onward, QueueKept("severity-scorer")
    PROVE  ClassifiedOwed'
<1>1. Published(ScoredSubject) \subseteq Published(ScoredSubject)'
  BY OnwardFacts, Wiring
<1>2. ClassifiedOwed /\ Filter["severity-scorer"] = "bug.classified"
  BY Wiring DEF PipelineInv, ScorerInv
<1> QED
  BY <1>1, <1>2 DEF ClassifiedOwed, QueueKept

(* A step of another service.                                              *)
LEMMA ScorerFrame ==
    ASSUME PipelineInv, Onward, UNCHANGED sw,
           published'[ScoredSubject] = published[ScoredSubject],
           QueueKept("severity-scorer")
    PROVE  ScorerInv'
BY TasksStand, ScoresKept, ClassifiedKept DEF ScorerInv

(* A step that only moves a task on, with the same message.                *)
LEMMA TaskGoes ==
    ASSUME PipelineInv, Onward, NEW t \in Scorer, sw[t].pc # "idle",
           NEW p \in {"update", "record", "publish", "ack"},
           sw' = [sw EXCEPT ![t].pc = p],
           p \in {"update", "record", "publish"} => HasBug(t),
           t \notin Detached =>
             /\ p \in {"record", "publish"} =>
                    scored'[sw[t].bug] \/ AskedInline(sw[t].bug)
             /\ p = "publish" => /\ sw[t].bug \in rows
                                 /\ \A b : b = sw[t].bug => Logged(b, "severity_scored")'
             /\ p = "ack" /\ TaskOf[t] = "severity-scorer" =>
                    \A b : b = sw[t].bug => b \in Published(ScoredSubject)'
    PROVE  ScorerTypeOK' /\ ScorerHolds' /\ ScorerProgress'
<1> DEFINE v == [sw[t] EXCEPT !.pc = p]
<1>1. sw[t] \in ScorerStep /\ Filter[TaskOf[t]] \in Subject
  BY ScorerBusy, Wiring
<1>2. v \in ScorerStep /\ v.pc = p /\ v.msg = sw[t].msg /\ v.bug = sw[t].bug
  BY <1>1 DEF ScorerStep
<1>3. sw' = [sw EXCEPT ![t] = v]
  OBVIOUS
<1>4. sw'[t] = v
  BY <1>3, Types
<1> HIDE DEF v
<1>5. TaskHolds(t)'
  BY <1>1, <1>2, <1>4, ScorerBusy DEF TaskHolds, Onward
<1>6. HasBug(t) => HasBug(t)'
  BY <1>2, <1>4, OnwardFacts DEF HasBug
<1>7. AskedInline(sw[t].bug) => \A b : b = sw[t].bug => AskedInline(b)'
  BY OnwardFacts
<1>8. TaskProgress(t)'
  <2>1. sw'[t].pc \in {"update", "record", "publish"} => HasBug(t)'
    BY <1>2, <1>4, <1>6
  <2>2. ASSUME NEW b, b = sw[t].bug, t \notin Detached
        PROVE  /\ p \in {"record", "publish"} => scored'[b] \/ AskedInline(b)'
               /\ p = "publish" => b \in rows' /\ Logged(b, "severity_scored")'
               /\ p = "ack" /\ TaskOf[t] = "severity-scorer" =>
                    b \in Published(ScoredSubject)'
    BY <1>7, <2>2, OnwardFacts
  <2>3. sw'[t].bug = sw[t].bug /\ sw'[t].pc = p
    BY <1>2, <1>4
  <2> QED
    BY <2>1, <2>2, <2>3 DEF TaskProgress
<1> QED
  BY <1>2, <1>3, <1>5, <1>8, TaskMoves

LEMMA ScorerStepKept ==
    ASSUME PipelineInv, ScorerSteps
    PROVE  ScorerInv'
<1>1. /\ StreamTypeOK /\ StoreTypeOK /\ Feeds /\ PipelineInv
      /\ "severity-scorer" \in Consumer /\ ScorerConsumer \subseteq Consumer
      /\ \A c \in ScorerConsumer : ~Limited(c)
      /\ ScoredSubject \in Subject
  BY Types, Wiring DEF ScorerConsumer, Limited
<1>2. Onward
  BY ScorerFootprint DEF Onward, Touches
<1>3. \A t \in Scorer : TaskOf[t] \in ScorerConsumer
  BY ScorerAssumption DEF ScorerConsumer
<1>4. \A t \in Scorer : TaskHolds(t) /\ TaskProgress(t)
  BY DEF PipelineInv, ScorerInv, ScorerHolds, ScorerProgress
<1>5. Idle \in {Idle} \cup ScorerStep /\ Idle.pc = "idle"
  BY DEF Idle
<1> USE <1>1, <1>2, <1>3
<1>reads. ASSUME NEW c \in ScorerConsumer, NEW m, Deliver(c, m) \/ Requeue(c, m)
          PROVE  ScoresRest' /\ ClassifiedOwed'
  <2>1. QueueKept("severity-scorer") /\ UNCHANGED published
    BY <1>reads, ReadKept, ReadTouches
  <2> QED
    BY <2>1, ScoresKept, ClassifiedKept
<1>still. ASSUME UNCHANGED streamVars
          PROVE  ScoresRest' /\ ClassifiedOwed'
  <2>1. QueueKept("severity-scorer") /\ UNCHANGED published
    BY <1>still DEF QueueKept, Outstanding, streamVars
  <2> QED
    BY <2>1, ScoresKept, ClassifiedKept
<1>idle. ASSUME NEW t \in Scorer, sw' = [sw EXCEPT ![t] = Idle]
         PROVE  ScorerTypeOK' /\ ScorerHolds' /\ ScorerProgress'
  BY <1>5, <1>idle, TaskMoves
<1>6. ASSUME NEW t \in Scorer, NEW m \in ready[TaskOf[t]], ReceiveClassified(t, m)
      PROVE  ScorerInv'
  <2> DEFINE v == [pc |-> "fetch", msg |-> m, bug |-> m.key]
  <2>1. /\ m.key \in Bug /\ Deliver(TaskOf[t], m) /\ sw' = [sw EXCEPT ![t] = v]
    BY <1>6 DEF ReceiveClassified
  <2>2. /\ m \in Msg /\ m \in published[Filter[TaskOf[t]]] /\ Filter[TaskOf[t]] \in Subject
    BY Wiring DEF StreamTypeOK, Feeds, Outstanding
  <2>3. v \in ScorerStep /\ sw'[t] = v
    BY <2>1, <2>2, Types DEF ScorerStep
  <2>4. TaskHolds(t)' /\ TaskProgress(t)'
    BY <2>2, <2>3 DEF TaskHolds, TaskProgress, Onward
  <2> HIDE DEF v
  <2>5. ScorerTypeOK' /\ ScorerHolds' /\ ScorerProgress'
    BY <2>1, <2>3, <2>4, TaskMoves
  <2> QED
    BY <2>1, <2>5, <1>reads DEF ScorerInv
<1>7. ASSUME NEW t \in Scorer, FetchBug(t)
      PROVE  ScorerInv'
  <2>1. /\ sw[t].pc = "fetch" /\ sw' = [sw EXCEPT ![t].pc = "update"]
        /\ HasBug(t) /\ UNCHANGED streamVars
    BY <1>7 DEF FetchBug, ScorerGoes
  <2> QED
    BY <2>1, TaskGoes, <1>still DEF ScorerInv
<1>8. ASSUME NEW t \in Scorer, SkipUnknown(t)
      PROVE  ScorerInv'
  <2>1. /\ sw[t].pc = "fetch" /\ sw' = [sw EXCEPT ![t].pc = "ack"]
        /\ ~HasBug(t) /\ UNCHANGED streamVars
    BY <1>8 DEF SkipUnknown, ScorerGoes
  <2>2. t \notin Detached /\ TaskOf[t] = "severity-scorer" => FALSE
    <3>1. CASE TaskOf[t] = "severity-scorer"
      <4>1. sw[t].bug \in Published("bug.classified")
        BY <2>1, <3>1, ScorerBusy, Wiring DEF Published
      <4>2. sw[t].bug \in rows
        BY <4>1 DEF PipelineInv, DedupInv, Verdicts, Feed
      <4> QED
        BY <2>1, <4>2 DEF HasBug
    <3> QED
      BY <3>1
  <2> QED
    BY <2>1, <2>2, TaskGoes, <1>still DEF ScorerInv
<1>9. ASSUME NEW t \in Scorer, WriteSeverity(t)
      PROVE  ScorerInv'
  <2>1. /\ sw[t].pc = "update" /\ sw' = [sw EXCEPT ![t].pc = "record"]
        /\ Sql(t, UpdateSeverity(sw[t].bug)) /\ UNCHANGED streamVars
    BY <1>9 DEF WriteSeverity, ScorerGoes
  <2>2. sw[t].bug \in Bug /\ HasBug(t)
    BY <1>4, <2>1, ScorerBusy DEF TaskProgress
  <2>3. t \notin Detached /\ sw[t].bug \in rows => scored'[sw[t].bug]
    BY <2>1, <2>2, SeverityFacts
  <2>4. t \notin Detached => scored'[sw[t].bug] \/ AskedInline(sw[t].bug)
    <3>1. CASE sw[t].bug \notin rows
      <4>1. sw[t].msg \in Inline /\ sw[t].msg \in published["bug.score.request"]
        BY <2>1, <2>2, <3>1, ScorerBusy, Wiring DEF HasBug
      <4> QED
        BY <2>1, <4>1, ScorerBusy DEF AskedInline
    <3> QED
      BY <2>3, <3>1
  <2> QED
    BY <2>1, <2>2, <2>4, TaskGoes, <1>still DEF ScorerInv
<1>10. ASSUME NEW t \in Scorer, RecordScored(t)
       PROVE  ScorerInv'
  <2>1. /\ sw[t].pc = "record" /\ sw' = [sw EXCEPT ![t].pc = "publish"]
        /\ Sql(t, Record(sw[t].bug, [action |-> "severity_scored"]))
        /\ UNCHANGED streamVars
    BY <1>10 DEF RecordScored, ScorerGoes
  <2>2. sw[t].bug \in Bug /\ HasBug(t)
    BY <1>4, <2>1, ScorerBusy DEF TaskProgress
  <2>3. t \notin Detached =>
            /\ sw[t].bug \in rows
            /\ \A b : b = sw[t].bug => Logged(b, "severity_scored")'
    <3> DEFINE B == sw[t].bug
    <3>1. Sql(t, Record(B, [action |-> "severity_scored"]))
      BY <2>1
    <3> HIDE DEF B
    <3>2. B \in Bug => (t \notin Detached =>
                            /\ B \in rows
                            /\ \A b : b = B => Logged(b, "severity_scored")')
      BY <3>1, SqlRecordFacts
    <3> QED
      BY <2>2, <3>2 DEF B
  <2>4. t \notin Detached => scored'[sw[t].bug] \/ AskedInline(sw[t].bug)
    BY <1>4, <2>1, <2>2 DEF TaskProgress, Onward, Grows
  <2> QED
    BY <2>1, <2>2, <2>3, <2>4, TaskGoes, <1>still DEF ScorerInv
<1>11. ASSUME NEW t \in Scorer, PublishScored(t)
       PROVE  ScorerInv'
  <2>1. /\ sw[t].pc = "publish" /\ sw' = [sw EXCEPT ![t].pc = "ack"]
        /\ PublishAbout(ScoredSubject, sw[t].bug) /\ UNCHANGED storeVars
    BY <1>11 DEF PublishScored, ScorerGoes, ScoredSubject
  <2>2. Published(ScoredSubject)' = Published(ScoredSubject) \cup {sw[t].bug}
    BY <2>1, PublishAboutFacts
  <2>3. Touches({}, {ScoredSubject})
    BY <2>1, PublishAboutTouches
  <2>4. ScorerTypeOK' /\ ScorerHolds' /\ ScorerProgress'
    BY <2>1, <2>2, TaskGoes
  <2>5. ScoresRest'
    <3> SUFFICES ASSUME Scorer \cap Detached = {}
                 PROVE  \A b \in Published(ScoredSubject)' :
                    /\ b \in rows' /\ (scored'[b] \/ AskedInline(b)')
                    /\ Logged(b, "severity_scored")'
                    /\ b \in Published("bug.classified")'
                                \cup Published("bug.score.request")'
      BY DEF ScoresRest
    <3>1. ASSUME NEW b, b = sw[t].bug
          PROVE  /\ b \in rows' /\ (scored'[b] \/ AskedInline(b)')
                 /\ Logged(b, "severity_scored")'
                 /\ b \in Published("bug.classified")'
                                \cup Published("bug.score.request")'
      <4>1. b \in rows /\ (scored[b] \/ AskedInline(b)) /\ Logged(b, "severity_scored")
        BY <1>4, <2>1, <3>1 DEF TaskProgress
      <4>2. b \in Published("bug.classified") \cup Published("bug.score.request")
        BY <2>1, <3>1, ScorerBusy, Wiring DEF Published, ScorerConsumer
      <4>3. b \in Bug
        BY <4>1 DEF StoreTypeOK
      <4>4. /\ scored[b] => scored'[b]
            /\ Logged(b, "severity_scored") => Logged(b, "severity_scored")'
        BY <4>3 DEF Onward, Grows
      <4>5. "bug.classified" \in Subject /\ "bug.score.request" \in Subject
        BY Wiring
      <4> QED
        BY <4>1, <4>2, <4>4, <4>5, OnwardFacts
    <3> QED
      BY <2>2, <3>1, ScoresStand
  <2>6. ClassifiedOwed'
    BY <2>3, ClassifiedKept DEF Touches
  <2> QED
    BY <2>4, <2>5, <2>6 DEF ScorerInv
<1>12. ASSUME NEW t \in Scorer, AckClassified(t)
       PROVE  ScorerInv'
  <2>1. /\ sw[t].pc = "ack" /\ sw' = [sw EXCEPT ![t] = Idle]
        /\ Ack(TaskOf[t], sw[t].msg)
    BY <1>12 DEF AckClassified
  <2>2. UNCHANGED published /\ ScoresRest'
    BY <2>1, AckKept, ScoresKept
  <2>3. ClassifiedOwed'
    <3>1. CASE TaskOf[t] = "severity-scorer"
      <4> SUFFICES ASSUME Scorer \cap Detached = {}, NEW m \in published["bug.classified"]
                   PROVE  \/ m \in Outstanding("severity-scorer")'
                          \/ m.key \in Published(ScoredSubject)'
        BY <2>2 DEF ClassifiedOwed
      <4>1. Published(ScoredSubject)' = Published(ScoredSubject)
        BY <2>2 DEF Published
      <4>2. sw[t].msg.key \in Published(ScoredSubject)
        BY <1>4, <2>1, <3>1, ScorerBusy DEF TaskProgress
      <4>3. \A n \in Outstanding("severity-scorer") :
                n # sw[t].msg => n \in Outstanding("severity-scorer")'
        BY <2>1, <3>1, AckKept
      <4>4. \/ m \in Outstanding("severity-scorer")
            \/ m.key \in Published(ScoredSubject)
        BY DEF PipelineInv, ScorerInv, ClassifiedOwed
      <4> QED
        BY <4>1, <4>2, <4>3, <4>4
    <3>2. CASE TaskOf[t] # "severity-scorer"
      <4>1. Touches({TaskOf[t]}, {})
        BY <2>1, ReadTouches
      <4>2. QueueKept("severity-scorer")
        BY <3>2, <4>1 DEF Touches
      <4> QED
        BY <4>2, ClassifiedKept
    <3> QED
      BY <3>1, <3>2
  <2> QED
    BY <2>1, <2>2, <2>3, <1>idle DEF ScorerInv
<1>13. ASSUME NEW t \in Scorer, RecordRefused(t) \/ ScorerRaises(t)
       PROVE  ScorerInv'
  <2>1. Requeue(TaskOf[t], sw[t].msg) /\ sw' = [sw EXCEPT ![t] = Idle]
    BY <1>13 DEF RecordRefused, ScorerRaises
  <2> QED
    BY <2>1, <1>reads, <1>idle DEF ScorerInv
<1>14. ASSUME NEW t \in Scorer, ScorerRestarts(t)
       PROVE  ScorerInv'
  BY <1>14, <1>still, <1>idle DEF ScorerRestarts, ScorerInv
<1>15. ASSUME NEW c \in ScorerConsumer, NEW m, ClassifiedExpires(c, m) \/ ClassifiedLate(c, m)
       PROVE  ScorerInv'
  BY <1>15, <1>reads, TasksStand
  DEF ClassifiedExpires, ClassifiedLate, AckWaitOver, ScorerInv
<1> QED
  BY <1>6, <1>7, <1>8, <1>9, <1>10, <1>11, <1>12, <1>13, <1>14, <1>15
  DEF ScorerSteps, ScorerWork, ScorerFaults

-----------------------------------------------------------------------------
(* The analyzer, along the same lines.                                     *)
LEMMA ReplicaStands ==
    ASSUME PipelineInv, Onward, NEW a \in Analyzer, rw'[a] = rw[a]
    PROVE  ReplicaHolds(a)' /\ ReplicaProgress(a)'
<1>1. ReplicaHolds(a) /\ ReplicaProgress(a)
  BY DEF PipelineInv, AnalyzerInv, AnalyzerHolds, AnalyzerProgress
<1>2. CASE rw[a].pc = "idle"
  BY <1>2 DEF ReplicaHolds, ReplicaProgress
<1>3. CASE rw[a].pc # "idle"
  <2>1. rw[a].bug \in Bug /\ ScoredSubject \in Subject /\ TriagedSubject \in Subject
    BY <1>3, AnalyzerBusy, Wiring
  <2>2. ReplicaHolds(a)'
    BY <1>1, <2>1 DEF ReplicaHolds, Onward
  <2>3. ASSUME NEW b, b = rw[a].bug
        PROVE  /\ analyzed[b] => analyzed'[b]
               /\ Logged(b, "root_cause_analyzed") => Logged(b, "root_cause_analyzed")'
               /\ b \in Published(TriagedSubject) => b \in Published(TriagedSubject)'
    BY <2>1, <2>3, OnwardFacts DEF Onward, Grows
  <2>4. ReplicaProgress(a)'
    BY <1>1, <2>3 DEF ReplicaProgress
  <2> QED
    BY <2>2, <2>4
<1> QED
  BY <1>2, <1>3

LEMMA ReplicaMoves ==
    ASSUME PipelineInv, Onward, NEW a \in Analyzer, NEW v \in {Idle} \cup AnalyzerStep,
           rw' = [rw EXCEPT ![a] = v],
           v.pc # "idle" => ReplicaHolds(a)' /\ ReplicaProgress(a)'
    PROVE  AnalyzerTypeOK' /\ AnalyzerHolds' /\ AnalyzerProgress'
<1>1. rw' \in [Analyzer -> {Idle} \cup AnalyzerStep] /\ rw'[a] = v
      /\ \A e \in Analyzer \ {a} : rw'[e] = rw[e]
  BY Types
<1>2. v.pc = "idle" => ReplicaHolds(a)' /\ ReplicaProgress(a)'
  BY <1>1 DEF ReplicaHolds, ReplicaProgress
<1>3. \A e \in Analyzer \ {a} : ReplicaHolds(e)' /\ ReplicaProgress(e)'
  BY <1>1, ReplicaStands
<1> QED
  BY <1>1, <1>2, <1>3 DEF AnalyzerTypeOK, AnalyzerHolds, AnalyzerProgress

LEMMA ReplicasStand ==
    ASSUME PipelineInv, Onward, UNCHANGED rw
    PROVE  AnalyzerTypeOK' /\ AnalyzerHolds' /\ AnalyzerProgress'
BY Types, ReplicaStands DEF AnalyzerTypeOK, AnalyzerHolds, AnalyzerProgress

LEMMA ReplicaGoes ==
    ASSUME PipelineInv, Onward, NEW a \in Analyzer, rw[a].pc # "idle",
           NEW p \in {"update", "record", "publish", "ack"},
           rw' = [rw EXCEPT ![a].pc = p],
           \A b : b = rw[a].bug =>
              /\ (Scorer \cup Analyzer) \cap Detached = {} =>
                    /\ p \in {"record", "publish"} => analyzed'[b]
                    /\ p = "publish" => Logged(b, "root_cause_analyzed")'
              /\ p = "ack" => b \in Published(TriagedSubject)'
    PROVE  AnalyzerTypeOK' /\ AnalyzerHolds' /\ AnalyzerProgress'
<1> DEFINE v == [rw[a] EXCEPT !.pc = p]
<1>1. rw[a] \in AnalyzerStep /\ ScoredSubject \in Subject
  BY AnalyzerBusy, Wiring
<1>2. v \in AnalyzerStep /\ v.pc = p /\ v.msg = rw[a].msg /\ v.bug = rw[a].bug
  BY <1>1 DEF AnalyzerStep
<1>3. rw' = [rw EXCEPT ![a] = v]
  OBVIOUS
<1>4. rw'[a] = v
  BY <1>3, Types
<1> HIDE DEF v
<1>5. ReplicaHolds(a)'
  BY <1>1, <1>2, <1>4, AnalyzerBusy DEF ReplicaHolds, Onward
<1>6. ReplicaProgress(a)'
  BY <1>2, <1>4 DEF ReplicaProgress
<1> QED
  BY <1>2, <1>3, <1>5, <1>6, ReplicaMoves

(* The analyses that are out keep what they rest on.                       *)
LEMMA TriagesStand ==
    ASSUME PipelineInv, Onward, NEW b \in Published(TriagedSubject)
    PROVE  /\ b \in Published(ScoredSubject)'
           /\ (Scorer \cup Analyzer) \cap Detached = {} =>
                analyzed'[b] /\ Logged(b, "root_cause_analyzed")'
<1>1. /\ b \in Published(ScoredSubject)
      /\ (Scorer \cup Analyzer) \cap Detached = {} =>
            analyzed[b] /\ Logged(b, "root_cause_analyzed")
  BY DEF PipelineInv, AnalyzerInv, TriagesRest
<1>2. b \in Published(ScoredSubject)'
  BY <1>1, OnwardFacts, Wiring
<1>3. (Scorer \cup Analyzer) \cap Detached = {} => b \in Bug
  BY <1>1, Types DEF PipelineInv, ScorerInv, ScoresRest, StoreTypeOK
<1> QED
  BY <1>1, <1>2, <1>3 DEF Onward, Grows

LEMMA TriagesKept ==
    ASSUME PipelineInv, Onward, published'[TriagedSubject] = published[TriagedSubject]
    PROVE  TriagesRest'
<1>1. Published(TriagedSubject)' = Published(TriagedSubject)
  BY DEF Published
<1> QED
  BY <1>1, TriagesStand DEF TriagesRest

LEMMA ScoredKept ==
    ASSUME PipelineInv, Onward, QueueKept(Rca)
    PROVE  ScoredOwed'
<1>1. Published(TriagedSubject) \subseteq Published(TriagedSubject)'
  BY OnwardFacts, Wiring
<1>2. ScoredOwed /\ Filter[Rca] = ScoredSubject
  BY Wiring DEF PipelineInv, AnalyzerInv
<1> QED
  BY <1>1, <1>2 DEF ScoredOwed, QueueKept

LEMMA AnalyzerFrame ==
    ASSUME PipelineInv, Onward, UNCHANGED rw,
           published'[TriagedSubject] = published[TriagedSubject], QueueKept(Rca)
    PROVE  AnalyzerInv'
BY ReplicasStand, TriagesKept, ScoredKept DEF AnalyzerInv

LEMMA AnalyzerStepKept ==
    ASSUME PipelineInv, AnalyzerSteps
    PROVE  AnalyzerInv'
<1>1. /\ StreamTypeOK /\ StoreTypeOK /\ Feeds /\ PipelineInv
      /\ Rca \in Consumer /\ ~Limited(Rca) /\ Filter[Rca] = ScoredSubject
      /\ ScoredSubject \in Subject /\ TriagedSubject \in Subject
  BY Types, Wiring DEF Rca, Limited
<1>2. Onward
  BY AnalyzerFootprint DEF Onward, Touches
<1>3. \A a \in Analyzer : ReplicaHolds(a) /\ ReplicaProgress(a)
  BY DEF PipelineInv, AnalyzerInv, AnalyzerHolds, AnalyzerProgress
<1>4. Idle \in {Idle} \cup AnalyzerStep /\ Idle.pc = "idle"
  BY DEF Idle
<1> USE <1>1, <1>2
<1>reads. ASSUME NEW m, Deliver(Rca, m) \/ Requeue(Rca, m)
          PROVE  TriagesRest' /\ ScoredOwed'
  <2>1. QueueKept(Rca) /\ UNCHANGED published
    BY <1>reads, ReadKept, ReadTouches
  <2> QED
    BY <2>1, TriagesKept, ScoredKept
<1>still. ASSUME UNCHANGED streamVars
          PROVE  TriagesRest' /\ ScoredOwed'
  <2>1. QueueKept(Rca) /\ UNCHANGED published
    BY <1>still DEF QueueKept, Outstanding, streamVars
  <2> QED
    BY <2>1, TriagesKept, ScoredKept
<1>idle. ASSUME NEW a \in Analyzer, rw' = [rw EXCEPT ![a] = Idle]
         PROVE  AnalyzerTypeOK' /\ AnalyzerHolds' /\ AnalyzerProgress'
  BY <1>4, <1>idle, ReplicaMoves
<1>5. ASSUME NEW a \in Analyzer, NEW m \in ready[Rca], ReceiveScored(a, m)
      PROVE  AnalyzerInv'
  <2> DEFINE v == [pc |-> "analyze", msg |-> m, bug |-> m.key]
  <2>1. /\ m.key \in Bug /\ Deliver(Rca, m) /\ rw' = [rw EXCEPT ![a] = v]
    BY <1>5 DEF ReceiveScored
  <2>2. m \in Msg /\ m \in published[ScoredSubject]
    BY DEF StreamTypeOK, Feeds, Outstanding
  <2>3. v \in AnalyzerStep /\ rw'[a] = v
    BY <2>1, <2>2, Types DEF AnalyzerStep
  <2>4. ReplicaHolds(a)' /\ ReplicaProgress(a)'
    BY <2>2, <2>3 DEF ReplicaHolds, ReplicaProgress, Onward
  <2> HIDE DEF v
  <2>5. AnalyzerTypeOK' /\ AnalyzerHolds' /\ AnalyzerProgress'
    BY <2>1, <2>3, <2>4, ReplicaMoves
  <2> QED
    BY <2>1, <2>5, <1>reads DEF AnalyzerInv
<1>6. ASSUME NEW a \in Analyzer, Analyze(a)
      PROVE  AnalyzerInv'
  <2>1. /\ rw[a].pc = "analyze" /\ rw' = [rw EXCEPT ![a].pc = "update"]
        /\ UNCHANGED streamVars
    BY <1>6 DEF Analyze, AnalyzerGoes
  <2> QED
    BY <2>1, ReplicaGoes, <1>still DEF AnalyzerInv
<1>7. ASSUME NEW a \in Analyzer, WriteRootCause(a)
      PROVE  AnalyzerInv'
  <2>1. /\ rw[a].pc = "update" /\ rw' = [rw EXCEPT ![a].pc = "record"]
        /\ Sql(a, UpdateRootCause(rw[a].bug)) /\ UNCHANGED streamVars
    BY <1>7 DEF WriteRootCause, AnalyzerGoes
  <2>2. rw[a].bug \in Bug /\ rw[a].bug \in Published(ScoredSubject)
    BY <2>1, AnalyzerBusy
  <2>3. (Scorer \cup Analyzer) \cap Detached = {} => analyzed'[rw[a].bug]
    <3>1. Scorer \cap Detached = {} => rw[a].bug \in rows
      BY <2>2 DEF PipelineInv, ScorerInv, ScoresRest
    <3> QED
      BY <2>1, <2>2, <3>1, RootCauseFacts
  <2> QED
    BY <2>1, <2>3, ReplicaGoes, <1>still DEF AnalyzerInv
<1>8. ASSUME NEW a \in Analyzer, RecordAnalyzed(a)
      PROVE  AnalyzerInv'
  <2>1. /\ rw[a].pc = "record" /\ rw' = [rw EXCEPT ![a].pc = "publish"]
        /\ Sql(a, Record(rw[a].bug, [action |-> "root_cause_analyzed"]))
        /\ UNCHANGED streamVars
    BY <1>8 DEF RecordAnalyzed, AnalyzerGoes
  <2>2. ASSUME NEW b, b = rw[a].bug, (Scorer \cup Analyzer) \cap Detached = {}
        PROVE  analyzed'[b] /\ Logged(b, "root_cause_analyzed")'
    <3>1. b \in Bug /\ analyzed[b] /\ a \notin Detached
      BY <1>3, <2>1, <2>2, AnalyzerBusy DEF ReplicaProgress
    <3>2. Sql(a, Record(b, [action |-> "root_cause_analyzed"]))
      BY <2>1, <2>2
    <3>3. Logged(b, "root_cause_analyzed")'
      BY <3>1, <3>2, SqlRecordFacts
    <3> QED
      BY <3>1, <3>3 DEF Onward, Grows
  <2> QED
    BY <2>1, <2>2, ReplicaGoes, <1>still DEF AnalyzerInv
<1>9. ASSUME NEW a \in Analyzer, PublishTriaged(a)
      PROVE  AnalyzerInv'
  <2>1. /\ rw[a].pc = "publish" /\ rw' = [rw EXCEPT ![a].pc = "ack"]
        /\ PublishAbout(TriagedSubject, rw[a].bug)
    BY <1>9 DEF PublishTriaged, AnalyzerGoes, TriagedSubject
  <2>2. Published(TriagedSubject)' = Published(TriagedSubject) \cup {rw[a].bug}
    BY <2>1, PublishAboutFacts
  <2>3. Touches({}, {TriagedSubject})
    BY <2>1, PublishAboutTouches
  <2>4. AnalyzerTypeOK' /\ AnalyzerHolds' /\ AnalyzerProgress'
    BY <2>1, <2>2, ReplicaGoes
  <2>5. ASSUME NEW b, b = rw[a].bug
        PROVE  /\ b \in Published(ScoredSubject)'
               /\ (Scorer \cup Analyzer) \cap Detached = {} =>
                    analyzed'[b] /\ Logged(b, "root_cause_analyzed")'
    <3>1. /\ b \in Bug /\ b \in Published(ScoredSubject)
          /\ (Scorer \cup Analyzer) \cap Detached = {} =>
                analyzed[b] /\ Logged(b, "root_cause_analyzed")
      BY <1>3, <2>1, <2>5, AnalyzerBusy DEF ReplicaProgress
    <3> QED
      BY <3>1, OnwardFacts DEF Onward, Grows
  <2>6. TriagesRest'
    BY <2>2, <2>5, TriagesStand DEF TriagesRest
  <2>7. ScoredOwed'
    BY <2>3, ScoredKept DEF Touches
  <2> QED
    BY <2>4, <2>6, <2>7 DEF AnalyzerInv
<1>10. ASSUME NEW a \in Analyzer, AckScored(a)
       PROVE  AnalyzerInv'
  <2>1. /\ rw[a].pc = "ack" /\ rw' = [rw EXCEPT ![a] = Idle] /\ Ack(Rca, rw[a].msg)
    BY <1>10 DEF AckScored
  <2>2. UNCHANGED published /\ TriagesRest'
    BY <2>1, AckKept, TriagesKept
  <2>3. rw[a].msg.key \in Published(TriagedSubject)
    BY <1>3, <2>1, AnalyzerBusy DEF ReplicaProgress
  <2>4. \A n \in Outstanding(Rca) : n # rw[a].msg => n \in Outstanding(Rca)'
    BY <2>1, AckKept
  <2>5. Published(TriagedSubject)' = Published(TriagedSubject)
    BY <2>2 DEF Published
  <2>6. ScoredOwed'
    BY <2>2, <2>3, <2>4, <2>5 DEF ScoredOwed, PipelineInv, AnalyzerInv
  <2> QED
    BY <2>1, <2>2, <2>6, <1>idle DEF AnalyzerInv
<1>11. ASSUME NEW a \in Analyzer, AnalyzerFaults(a)
       PROVE  AnalyzerInv'
  <2>1. /\ rw' = [rw EXCEPT ![a] = Idle]
        /\ Requeue(Rca, rw[a].msg) \/ UNCHANGED streamVars
    BY <1>11 DEF AnalyzerFaults, AnalyzerRaises, AnalyzerRestarts
  <2> QED
    BY <2>1, <1>reads, <1>still, <1>idle DEF AnalyzerInv
<1>12. ASSUME NEW m, ScoredExpires(m) \/ AnalysisLate(m)
       PROVE  AnalyzerInv'
  BY <1>12, <1>reads, ReplicasStand
  DEF ScoredExpires, AnalysisLate, AckWaitOver, AnalyzerInv
<1> QED
  BY <1>5, <1>6, <1>7, <1>8, <1>9, <1>10, <1>11, <1>12 DEF AnalyzerSteps, AnalyzerWork

-----------------------------------------------------------------------------
(* The whole.                                                              *)
LEMMA DedupGrows ==
    ASSUME UNCHANGED <<rows, scored, analyzed, activity>>
    PROVE  Grows
BY DEF Grows, Logged

LEMMA AlwaysOnward ==
    ASSUME PipelineInv, Next
    PROVE  Onward /\ Feeds'
<1>1. CASE Producers
  BY <1>1, ProducersFootprint DEF Onward, Touches
<1>2. CASE IngestionSteps
  BY <1>2, IngestionFootprint DEF Onward, Touches
<1>3. CASE DedupSteps
  BY <1>3, DedupFootprint, DedupGrows DEF Onward, Touches
<1>4. CASE ScorerSteps
  BY <1>4, ScorerFootprint DEF Onward, Touches
<1>5. CASE AnalyzerSteps
  BY <1>5, AnalyzerFootprint DEF Onward, Touches
<1> QED
  BY <1>1, <1>2, <1>3, <1>4, <1>5 DEF Next

LEMMA OthersKept ==
    ASSUME PipelineInv, Next
    PROVE  ScorerInv' /\ AnalyzerInv' /\ GatewayTypeOK'
<1> USE AlwaysOnward
<1>0. /\ "severity-scorer" \in Consumer /\ Rca \in Consumer
      /\ ScoredSubject \in Subject /\ TriagedSubject \in Subject
      /\ Filter["severity-scorer"] = "bug.classified" /\ Filter[Rca] = ScoredSubject
  BY Wiring
<1>scorer. ASSUME NEW C, NEW S, Touches(C, S), UNCHANGED sw,
                  "severity-scorer" \notin C, ScoredSubject \notin S
           PROVE  ScorerInv'
  <2>1. QueueKept("severity-scorer") /\ published'[ScoredSubject] = published[ScoredSubject]
    BY <1>0, <1>scorer DEF Touches
  <2> QED
    BY <1>scorer, <2>1, ScorerFrame
<1>analyzer. ASSUME NEW C, NEW S, Touches(C, S), UNCHANGED rw,
                    Rca \notin C, TriagedSubject \notin S
             PROVE  AnalyzerInv'
  <2>1. QueueKept(Rca) /\ published'[TriagedSubject] = published[TriagedSubject]
    BY <1>0, <1>analyzer DEF Touches
  <2> QED
    BY <1>analyzer, <2>1, AnalyzerFrame
<1>gateway. UNCHANGED gatewayVars => GatewayTypeOK'
  BY DEF PipelineInv, GatewayTypeOK, gatewayVars
<1>1. CASE Producers
  <2>1. /\ Touches({}, {RequestSubject, "bug.score.request"}) /\ UNCHANGED <<sw, rw>>
        /\ GatewayTypeOK'
    BY <1>1, ProducersFootprint
  <2> QED
    BY <2>1, <1>scorer, <1>analyzer DEF RequestSubject, ScoredSubject, TriagedSubject
<1>2. CASE IngestionSteps
  <2>1. /\ Touches({Ingestion}, {CreatedSubject}) /\ UNCHANGED <<sw, rw, gatewayVars>>
    BY <1>2, IngestionFootprint
  <2> QED
    BY <2>1, <1>scorer, <1>analyzer, <1>gateway
    DEF Ingestion, Rca, CreatedSubject, ScoredSubject, TriagedSubject
<1>3. CASE DedupSteps
  <2>1. /\ Touches({Dedup}, {"bug.classified", "bug.deduplicated"})
        /\ UNCHANGED <<sw, rw, gatewayVars>>
    BY <1>3, DedupFootprint
  <2> QED
    BY <2>1, <1>scorer, <1>analyzer, <1>gateway
    DEF Dedup, Rca, ScoredSubject, TriagedSubject
<1>4. CASE ScorerSteps
  <2>1. /\ Touches(ScorerConsumer, {ScoredSubject}) /\ UNCHANGED <<rw, gatewayVars>>
    BY <1>4, ScorerFootprint
  <2> QED
    BY <1>4, <2>1, <1>analyzer, <1>gateway, ScorerStepKept
    DEF ScorerConsumer, Rca, ScoredSubject, TriagedSubject
<1>5. CASE AnalyzerSteps
  <2>1. /\ Touches({Rca}, {TriagedSubject}) /\ UNCHANGED <<sw, gatewayVars>>
    BY <1>5, AnalyzerFootprint
  <2> QED
    BY <1>5, <2>1, <1>scorer, <1>gateway, AnalyzerStepKept
    DEF Rca, ScoredSubject, TriagedSubject
<1> QED
  BY <1>1, <1>2, <1>3, <1>4, <1>5 DEF Next

LEMMA PipelineStep == PipelineInv /\ [Next]_vars => PipelineInv'
<1>1. ASSUME PipelineInv, Next
      PROVE  PipelineInv'
  BY <1>1, IngestionKept, DedupKept, AlwaysOnward, OthersKept DEF PipelineInv
<1>2. ASSUME PipelineInv, UNCHANGED vars
      PROVE  PipelineInv'
  <2>1. UNCHANGED <<platformVars, ingestVars, dedupVars, sw, rw, gatewayVars>>
    BY <1>2 DEF vars
  <2>2. UNCHANGED <<streamVars, storeVars, faults>>
    BY <2>1 DEF platformVars
  <2>3. PlatformTypeOK'
    BY <1>2, <2>2, Types, SameTypes DEF PlatformTypeOK
  <2>4. UNCHANGED <<published, ready, unacked, deliveries, rows, externalId, canonical,
                    embedded, scored, analyzed, activity>>
    BY <2>2 DEF streamVars, storeVars, columns
  <2>5. IngestionInv'
    BY <1>2, <2>1, <2>3, <2>4, IngestionFrame DEF PipelineInv
  <2>6. DedupInv'
    BY <1>2, <2>1, <2>3, <2>4, DedupFrame DEF PipelineInv
  <2>7. Feeds' /\ Onward /\ QueueKept("severity-scorer") /\ QueueKept(Rca)
    BY <1>2, <2>2, <2>4, SameGrows
    DEF PipelineInv, Feeds, Onward, QueueKept, Outstanding
  <2>8. ScorerInv' /\ AnalyzerInv'
    BY <1>2, <2>1, <2>4, <2>7, ScorerFrame, AnalyzerFrame
  <2>9. GatewayTypeOK'
    BY <1>2, <2>1 DEF PipelineInv, GatewayTypeOK, gatewayVars
  <2> QED
    BY <2>5, <2>6, <2>7, <2>8, <2>9 DEF PipelineInv
<1> QED
  BY <1>1, <1>2

LEMMA PipelineInit == Init => PipelineInv
<1> SUFFICES ASSUME Init PROVE PipelineInv
  OBVIOUS
<1>1. IngestionInv
  BY InitInv DEF Init, IngestionInit
<1>2. DedupInv
  BY DedupInitInv DEF Init, DedupEngineInit
<1>3. /\ \A s \in Subject : published[s] = {}
      /\ \A c \in Consumer : ready[c] = {} /\ unacked[c] = {}
  BY DEF Init, PlatformInit, StreamInit
<1>4. Feeds
  BY <1>3 DEF Feeds, Outstanding
<1>5. \A t \in Scorer : sw[t] = Idle /\ sw[t].pc = "idle"
  BY DEF Init, ScorerInit, Idle
<1>6. \A a \in Analyzer : rw[a] = Idle /\ rw[a].pc = "idle"
  BY DEF Init, AnalyzerInit, Idle
<1>7. /\ published[ScoredSubject] = {} /\ published[TriagedSubject] = {}
      /\ published["bug.classified"] = {}
  BY <1>3, Wiring
<1>8. ScorerInv
  BY <1>5, <1>7 DEF ScorerInv, ScorerTypeOK, ScorerHolds, TaskHolds, ScorerProgress,
     TaskProgress, ScoresRest, ClassifiedOwed, Published, Init, ScorerInit
<1>9. AnalyzerInv
  BY <1>6, <1>7 DEF AnalyzerInv, AnalyzerTypeOK, AnalyzerHolds, ReplicaHolds,
     AnalyzerProgress, ReplicaProgress, TriagesRest, ScoredOwed, Published, Init,
     AnalyzerInit
<1>10. GatewayTypeOK
  BY GatewayAssumption DEF Init, GatewayInit, GatewayTypeOK
<1> QED
  BY <1>1, <1>2, <1>4, <1>8, <1>9, <1>10 DEF PipelineInv

(* The invariant holds of every behaviour of the pipeline ...              *)
THEOREM PipelineInvariant == Spec => []PipelineInv
<1>1. Init => PipelineInv
  BY PipelineInit
<1>2. PipelineInv /\ [Next]_vars => PipelineInv'
  BY PipelineStep
<1> QED
  BY <1>1, <1>2, PTL DEF Spec

(* ... and with it: the types,                                             *)
THEOREM PipelineTypes == Spec => []TypeOK
<1>1. PipelineInv => TypeOK
  BY Types
<1> QED
  BY <1>1, PipelineInvariant, PTL

(* the services' own promises, in the company of all the others: one       *)
(* announcement of a row (main.go:331-342), as it was stored, and no       *)
(* report lost in silence;                                                 *)
THEOREM PipelineIngests ==
    Spec => [](OneAnnouncement /\ AnnouncedAsStored /\ NoSilentLoss)
<1>1. PipelineInv => OneAnnouncement /\ AnnouncedAsStored /\ NoSilentLoss
  BY DEF PipelineInv, IngestionInv, RowInv, Publishing, AnnouncedAsStored
<1> QED
  BY <1>1, PipelineInvariant, PTL

(* duplicates that point at an indexed bug of the organisation, a bug that *)
(* is never forgotten, and mixed verdicts and chains of duplicates only    *)
(* for a bug that was processed twice (dedup-engine/main.py, process_bug); *)
THEOREM PipelineDedups ==
    Spec => [](CanonicalIndexed /\ NoBugForgotten /\ OneVerdictPerDelivery
               /\ ChainsNeedRedelivery)
<1>1. PipelineInv => CanonicalIndexed /\ NoBugForgotten
  BY DEF PipelineInv, DedupInv
<1>2. PipelineInv => OneVerdictPerDelivery
  BY VerdictsMixed DEF PipelineInv
<1>3. PipelineInv => ChainsNeedRedelivery
  BY ChainsRedelivered DEF PipelineInv
<1> QED
  BY <1>1, <1>2, <1>3, PipelineInvariant, PTL

(* scores and analyses that are announced only when they are in the row    *)
(* and in the trail (process_message of the scorer and of the analyzer);   *)
THEOREM EventsAreBacked == Spec => []EventsAreReceipts
<1>1. ASSUME PipelineInv
      PROVE  EventsAreReceipts
  BY <1>1 DEF EventsAreReceipts, PipelineInv, ScorerInv, ScoresRest, AnalyzerInv,
     TriagesRest, ScoredSubject, TriagedSubject
<1> QED
  BY <1>1, PipelineInvariant, PTL

(* and no event dropped between two services: each is acked only after the *)
(* event that answers it is out.                                           *)
THEOREM EventsAnswered == Spec => []NoEventDropped
<1>1. ASSUME PipelineInv
      PROVE  NoEventDropped
  BY <1>1 DEF NoEventDropped, PipelineInv, DedupInv, NoBugForgotten, ScorerInv,
     ClassifiedOwed, AnalyzerInv, ScoredOwed, ScoredSubject, TriagedSubject
<1> QED
  BY <1>1, PipelineInvariant, PTL

-----------------------------------------------------------------------------
(* Who changes a status.                                                   *)
Rightful(b) ==
    \/ status[b] = "open" /\ status'[b] = "triaged"
    \/ status'[b] = "closed" /\ \E d \in Deduper :
            dw[d].pc = "mark" /\ dw[d].bug = b /\ dw'[d].pc # "mark"
    \/ \E h \in Handler :
            gw[h].pc = "update" /\ gw[h].bug = b /\ gw'[h].pc = "log"

LEMMA StatusStep ==
    ASSUME PipelineInv, Next
    PROVE  \A b \in rows : status'[b] # status[b] => Rightful(b)
<1> USE Types DEF StoreTypeOK
<1>0. UNCHANGED storeVars => UNCHANGED status
  BY DEF storeVars, columns
<1> DEFINE Goal == \A b \in rows : status'[b] # status[b] => Rightful(b)
<1>1. CASE Producers
  <2>1. ASSUME NEW h \in Handler, UpdateStatus(h)
        PROVE  Goal
    <3>1. /\ gw[h].pc = "update" /\ gw' = [gw EXCEPT ![h].pc = "log"]
          /\ status' = Column(status, gw[h].bug, gw[h].new)
      BY <2>1 DEF UpdateStatus, SetStatus
    <3>2. gw'[h].pc = "log"
      <4>1. gw \in [Handler -> {Idle} \cup GatewayStep] /\ gw[h] \in GatewayStep
        BY <3>1 DEF PipelineInv, GatewayTypeOK, Idle
      <4> QED
        BY <3>1, <4>1 DEF GatewayStep
    <3>3. \A b \in rows : status'[b] # status[b] => b = gw[h].bug
      BY <3>1 DEF Column
    <3> QED
      BY <3>1, <3>2, <3>3 DEF Rightful
  <2>2. ASSUME NEW h \in Handler, Transition(h), ~UpdateStatus(h)
        PROVE  UNCHANGED status
    BY <2>2 DEF Transition, RequestTransition, SelectStatus, TransitionUnknown,
       LogTransition, TransitionFails, Record, platformVars, storeVars, columns
  <2> QED
    BY <1>0, <1>1, <2>1, <2>2 DEF Producers, Submit, AskForScore
<1>2. CASE IngestionSteps
  <2>1. ASSUME NEW b \in Bug, NEW x \in ExtId, InsertBug(b, x)
        PROVE  Goal
    BY <2>1 DEF InsertBug, KeysFree
  <2> QED
    BY <1>0, <1>2, <2>1, IngestionFootprint
<1>3. CASE DedupSteps
  <2>1. ASSUME NEW d \in Deduper, Mark(d)
        PROVE  Goal
    <3>1. /\ dw[d].pc = "mark" /\ dw' = [dw EXCEPT ![d].pc = "deduplicated"]
          /\ Sql(d, MarkDuplicate(dw[d].bug, dw[d].match))
      BY <2>1 DEF Mark
    <3>2. dw'[d].pc = "deduplicated"
      <4>1. dw[d] \in DedupStep
        BY <3>1 DEF Idle
      <4> QED
        BY <3>1, <4>1 DEF DedupStep
    <3>3. UNCHANGED storeVars \/ status' = Column(status, dw[d].bug, "closed")
      BY <3>1 DEF Sql, MarkDuplicate
    <3>4. \A b \in rows : status'[b] # status[b] =>
                b = dw[d].bug /\ status'[b] = "closed"
      BY <1>0, <3>3 DEF Column
    <3> QED
      BY <3>1, <3>2, <3>4 DEF Rightful
  <2>2. ASSUME NEW d \in Deduper, StoreId(d)
        PROVE  UNCHANGED status
    BY <1>0, <2>2 DEF StoreId, Sql, StoreEmbeddingId
  <2>3. ASSUME NEW d \in Deduper, DedupWork(d) \/ DedupFaults(d), ~Mark(d), ~StoreId(d)
        PROVE  UNCHANGED storeVars
    BY <2>3 DEF DedupWork, DedupFaults, ReceiveCreated, Search, PublishDeduplicated,
       StoreEmbedding, PublishClassified, AckCreated, SearchFails,
       StoreEmbeddingFails, DedupRaises, DeduperRestarts
  <2> QED
    BY <1>0, <1>3, <2>1, <2>2, <2>3 DEF DedupSteps, CreatedExpires, CreatedLate
<1>4. CASE ScorerSteps
  <2>1. ASSUME NEW t \in Scorer, WriteSeverity(t)
        PROVE  Goal
    <3>1. \/ UNCHANGED storeVars
          \/ status' = IF status[sw[t].bug] = "open"
                       THEN Column(status, sw[t].bug, "triaged") ELSE status
      BY <2>1 DEF WriteSeverity, Sql, UpdateSeverity
    <3> QED
      BY <1>0, <3>1 DEF Column, Rightful
  <2>2. ASSUME NEW t \in Scorer, RecordScored(t)
        PROVE  UNCHANGED status
    BY <1>0, <2>2 DEF RecordScored, Sql, Record, columns
  <2>3. ASSUME NEW t \in Scorer, ScorerWork(t) \/ ScorerFaults(t),
               ~WriteSeverity(t), ~RecordScored(t)
        PROVE  UNCHANGED storeVars
    BY <2>3 DEF ScorerWork, ScorerFaults, ReceiveClassified, FetchBug, SkipUnknown,
       RecordRefused, PublishScored, AckClassified, ScorerRaises, ScorerRestarts
  <2> QED
    BY <1>0, <1>4, <2>1, <2>2, <2>3 DEF ScorerSteps, ClassifiedExpires, ClassifiedLate
<1>5. CASE AnalyzerSteps
  <2>1. ASSUME NEW a \in Analyzer, WriteRootCause(a)
        PROVE  Goal
    <3>1. \/ UNCHANGED storeVars
          \/ status' = IF status[rw[a].bug] \in {"open", "triaged"}
                       THEN Column(status, rw[a].bug, "triaged") ELSE status
      BY <2>1 DEF WriteRootCause, Sql, UpdateRootCause
    <3> QED
      BY <1>0, <3>1 DEF Column, Rightful
  <2>2. ASSUME NEW a \in Analyzer, RecordAnalyzed(a)
        PROVE  UNCHANGED status
    BY <1>0, <2>2 DEF RecordAnalyzed, Sql, Record, columns
  <2>3. ASSUME NEW a \in Analyzer, AnalyzerWork(a) \/ AnalyzerFaults(a),
               ~WriteRootCause(a), ~RecordAnalyzed(a)
        PROVE  UNCHANGED storeVars
    BY <2>3 DEF AnalyzerWork, AnalyzerFaults, ReceiveScored, Analyze,
       PublishTriaged, AckScored, AnalyzerRaises, AnalyzerRestarts
  <2> QED
    BY <1>0, <1>5, <2>1, <2>2, <2>3 DEF AnalyzerSteps, ScoredExpires, AnalysisLate
<1> QED
  BY <1>1, <1>2, <1>3, <1>4, <1>5 DEF Next

(* A status changes only by a user's transition, by the verdict that       *)
(* closes a duplicate, or from open to triaged: whatever is delivered late *)
(* or twice, no service reopens or demotes a bug (the CASE of              *)
(* update_severity and update_root_cause, main.py of the two services).    *)
THEOREM DecisionsStand == Spec => StatusRespected
<1>1. PipelineInv /\ [Next]_vars => [\A b \in rows : status'[b] # status[b] =>
        \/ status[b] = "open" /\ status'[b] = "triaged"
        \/ status'[b] = "closed" /\ \E d \in Deduper :
                dw[d].pc = "mark" /\ dw[d].bug = b /\ dw'[d].pc # "mark"
        \/ \E h \in Handler :
                gw[h].pc = "update" /\ gw[h].bug = b /\ gw'[h].pc = "log"]_vars
  BY StatusStep DEF Rightful
<1> QED
  BY <1>1, PipelineInvariant, PTL DEF Spec, StatusRespected

-----------------------------------------------------------------------------
(* The refinement of BugLifecycle.  Each fact but the first is an event of *)
(* the bug on a subject of its own.                                        *)
SubjectOf ==
    [announced |-> "bug.created", classified |-> "bug.classified",
     deduplicated |-> "bug.deduplicated", asked |-> "bug.score.request",
     scored |-> "bug.scored", triaged |-> "bug.triaged"]

Known(b, f) == IF f = "stored" THEN b \in rows ELSE b \in Published(SubjectOf[f])

LEMMA FactsKnown == Facts = [b \in Bug |-> {f \in Lifecycle!Fact : Known(b, f)}]
<1>1. ASSUME NEW b \in Bug
      PROVE  Facts[b] = {f \in Lifecycle!Fact : Known(b, f)}
  <2>1. \A f \in Lifecycle!Fact : f \in Facts[b] <=> Known(b, f)
    <3>1. /\ "stored" \in Facts[b] <=> Known(b, "stored")
          /\ "announced" \in Facts[b] <=> Known(b, "announced")
          /\ "classified" \in Facts[b] <=> Known(b, "classified")
          /\ "deduplicated" \in Facts[b] <=> Known(b, "deduplicated")
          /\ "asked" \in Facts[b] <=> Known(b, "asked")
          /\ "scored" \in Facts[b] <=> Known(b, "scored")
          /\ "triaged" \in Facts[b] <=> Known(b, "triaged")
      BY DEF Facts, Known, SubjectOf
    <3> QED
      BY <3>1 DEF Lifecycle!Fact
  <2>2. Facts[b] \subseteq Lifecycle!Fact
    BY DEF Facts, Lifecycle!Fact
  <2> QED
    BY <2>1, <2>2
<1> QED
  BY <1>1 DEF Facts

LEMMA FactsKnownNext ==
    (Facts = [b \in Bug |-> {f \in Lifecycle!Fact : Known(b, f)}])'
BY FactsKnown, PTL

LEMMA FactsStay ==
    ASSUME \A b \in Bug : \A f \in Lifecycle!Fact : Known(b, f)' <=> Known(b, f)
    PROVE  Facts' = Facts
BY FactsKnown, FactsKnownNext

LEMMA FactLearnt ==
    ASSUME NEW b \in Bug, NEW f \in Lifecycle!Fact, Lifecycle!Earned(b, f),
           \A c \in Bug : \A g \in Lifecycle!Fact :
                Known(c, g)' <=> Known(c, g) \/ (c = b /\ g = f)
    PROVE  Lifecycle!Next
<1>1. Facts' = [Facts EXCEPT ![b] = @ \cup {f}]
  BY FactsKnown, FactsKnownNext
<1> QED
  BY <1>1 DEF Lifecycle!Next, Lifecycle!Learn

(* What a fact rests on, in terms of rows and events.                      *)
LEMMA FactEarned ==
    ASSUME NEW b \in Bug, NEW f \in Lifecycle!Fact
    PROVE  Lifecycle!Earned(b, f) <=>
             CASE f \in {"stored", "asked"} -> TRUE
               [] f = "announced" -> b \in rows
               [] f \in {"classified", "deduplicated"} -> b \in Published("bug.created")
               [] f = "scored" -> /\ b \in rows
                                  /\ b \in Published("bug.classified")
                                           \cup Published("bug.score.request")
               [] f = "triaged" -> b \in Published("bug.scored")
<1>1. \A g \in Lifecycle!Fact : g \in Facts[b] <=> Known(b, g)
  BY FactsKnown
<1>2. /\ "stored" \in Facts[b] <=> b \in rows
      /\ "announced" \in Facts[b] <=> b \in Published("bug.created")
      /\ "classified" \in Facts[b] <=> b \in Published("bug.classified")
      /\ "asked" \in Facts[b] <=> b \in Published("bug.score.request")
      /\ "scored" \in Facts[b] <=> b \in Published("bug.scored")
  BY <1>1 DEF Known, SubjectOf, Lifecycle!Fact
<1> QED
  BY <1>2 DEF Lifecycle!Earned, Lifecycle!Fact

(* An event teaches the fact of its subject about its bug.                 *)
LEMMA EventTeaches ==
    ASSUME StreamTypeOK, UNCHANGED rows, NEW f \in Lifecycle!Fact \ {"stored"},
           NEW m, Publish(SubjectOf[f], m),
           m.key \in Bug => Lifecycle!Earned(m.key, f)
    PROVE  [Lifecycle!Next]_Facts
<1>1. SubjectOf[f] \in Subject
  BY DEF Lifecycle!Fact, SubjectOf, Subject
<1>2. /\ Published(SubjectOf[f])' = Published(SubjectOf[f]) \cup {m.key}
      /\ \A t \in Subject \ {SubjectOf[f]} : Published(t)' = Published(t)
  BY <1>1, PublishFacts DEF Published
<1>3. \A g \in Lifecycle!Fact \ {f, "stored"} : SubjectOf[g] \in Subject \ {SubjectOf[f]}
  BY DEF Lifecycle!Fact, SubjectOf, Subject
<1>4. \A c \in Bug : \A g \in Lifecycle!Fact :
        Known(c, g)' <=> Known(c, g) \/ (c = m.key /\ g = f)
  BY <1>2, <1>3 DEF Known
<1>5. CASE m.key \in Bug
  BY <1>4, <1>5, FactLearnt
<1>6. CASE m.key \notin Bug
  BY <1>4, <1>6, FactsStay
<1> QED
  BY <1>5, <1>6

LEMMA EventAboutTeaches ==
    ASSUME StreamTypeOK, UNCHANGED rows, NEW f \in Lifecycle!Fact \ {"stored"},
           NEW b \in Bug, PublishAbout(SubjectOf[f], b), Lifecycle!Earned(b, f)
    PROVE  [Lifecycle!Next]_Facts
BY EventTeaches DEF PublishAbout

(* What neither inserts nor publishes teaches nothing ...                  *)
LEMMA SilenceTeaches ==
    ASSUME UNCHANGED rows,
           \A s \in Subject \ {RequestSubject} : published'[s] = published[s]
    PROVE  Facts' = Facts
<1>1. \A s \in Subject \ {RequestSubject} : Published(s)' = Published(s)
  BY DEF Published
<1>2. \A g \in Lifecycle!Fact \ {"stored"} : SubjectOf[g] \in Subject \ {RequestSubject}
  BY DEF Lifecycle!Fact, SubjectOf, Subject, RequestSubject
<1> QED
  BY <1>1, <1>2, FactsStay DEF Known

(* ... and an insertion that its row is stored.                            *)
LEMMA InsertTeaches ==
    ASSUME UNCHANGED published, NEW b \in Bug, NEW x, InsertBug(b, x)
    PROVE  Lifecycle!Next
<1>1. \A c \in Bug : \A g \in Lifecycle!Fact :
        Known(c, g)' <=> Known(c, g) \/ (c = b /\ g = "stored")
  BY DEF Known, Published, InsertBug
<1>2. "stored" \in Lifecycle!Fact /\ Lifecycle!Earned(b, "stored")
  BY DEF Lifecycle!Fact, Lifecycle!Earned
<1> QED
  BY <1>1, <1>2, FactLearnt

LEMMA LifecycleStep ==
    ASSUME PipelineInv, Next, Scorer \cap Detached = {}
    PROVE  [Lifecycle!Next]_Facts
<1>0. StreamTypeOK
  BY Types
<1>1. CASE Producers
  <2>1. UNCHANGED rows
    BY <1>1, ProducersFootprint
  <2>2. ASSUME NEW m \in Msg, Publish("bug.score.request", m)
        PROVE  [Lifecycle!Next]_Facts
    <3>1. "asked" \in Lifecycle!Fact /\ SubjectOf["asked"] = "bug.score.request"
      BY DEF Lifecycle!Fact, SubjectOf
    <3>2. m.key \in Bug => Lifecycle!Earned(m.key, "asked")
      BY <3>1, FactEarned
    <3> QED
      BY <1>0, <2>1, <2>2, <3>1, <3>2, EventTeaches
  <2> QED
    BY <1>1, <2>1, <2>2, ProducersFootprint, SilenceTeaches
<1>2. CASE IngestionSteps
  <2>1. ASSUME UNCHANGED storeVars, NEW w \in Ingester, iw[w].pc = "publish",
               PublishAbout(CreatedSubject, iw[w].bug)
        PROVE  [Lifecycle!Next]_Facts
    <3>1. iw[w].bug \in Bug /\ iw[w].bug \in rows
      BY <2>1, IngesterBusy DEF PipelineInv, IngestionInv, RowInv, Publishing
    <3>2. "announced" \in Lifecycle!Fact /\ SubjectOf["announced"] = CreatedSubject
      BY DEF Lifecycle!Fact, SubjectOf, CreatedSubject
    <3>3. Lifecycle!Earned(iw[w].bug, "announced")
      BY <3>1, <3>2, FactEarned
    <3> QED
      BY <1>0, <2>1, <3>1, <3>2, <3>3, EventAboutTeaches DEF storeVars
  <2>2. UNCHANGED <<published, storeVars>> => Facts' = Facts
    BY SilenceTeaches DEF storeVars
  <2> QED
    BY <1>2, <2>1, <2>2, IngestionFootprint, InsertTeaches
<1>3. CASE DedupSteps
  <2>1. UNCHANGED rows
    BY <1>3, DedupFootprint
  <2>2. ASSUME NEW d \in Deduper, NEW f \in {"classified", "deduplicated"},
               dw[d].pc # "idle", PublishAbout(SubjectOf[f], dw[d].bug)
        PROVE  [Lifecycle!Next]_Facts
    <3>1. dw[d].bug \in Bug
      BY <2>2, Types DEF Idle, DedupStep
    <3>2. dw[d].bug \in Published("bug.created")
      BY <2>2 DEF PipelineInv, DedupInv, Handling, Busy, Published, CreatedSubject
    <3>3. f \in Lifecycle!Fact \ {"stored"}
      BY DEF Lifecycle!Fact
    <3>4. Lifecycle!Earned(dw[d].bug, f)
      BY <3>1, <3>2, <3>3, FactEarned
    <3> QED
      BY <1>0, <2>1, <2>2, <3>1, <3>3, <3>4, EventAboutTeaches
  <2>3. ASSUME NEW d \in Deduper, NEW s \in {"bug.classified", "bug.deduplicated"},
               dw[d].pc # "idle", PublishAbout(s, dw[d].bug)
        PROVE  [Lifecycle!Next]_Facts
    BY <2>2, <2>3 DEF SubjectOf
  <2> QED
    BY <1>3, <2>1, <2>3, DedupFootprint, SilenceTeaches
<1>4. CASE ScorerSteps
  <2>1. UNCHANGED rows
    BY <1>4, ScorerFootprint
  <2>2. ASSUME NEW t \in Scorer, sw[t].pc = "publish",
               PublishAbout(ScoredSubject, sw[t].bug)
        PROVE  [Lifecycle!Next]_Facts
    <3>1. sw[t].bug \in Bug /\ t \notin Detached
      BY <2>2, ScorerBusy
    <3>2. sw[t].bug \in rows
      BY <2>2, <3>1 DEF PipelineInv, ScorerInv, ScorerProgress, TaskProgress
    <3>3. sw[t].bug \in Published("bug.classified") \cup Published("bug.score.request")
      BY <2>2, ScorerBusy, Wiring DEF ScorerConsumer, Published
    <3>4. "scored" \in Lifecycle!Fact /\ SubjectOf["scored"] = ScoredSubject
      BY DEF Lifecycle!Fact, SubjectOf, ScoredSubject
    <3>5. Lifecycle!Earned(sw[t].bug, "scored")
      BY <3>1, <3>2, <3>3, <3>4, FactEarned
    <3> QED
      BY <1>0, <2>1, <2>2, <3>1, <3>4, <3>5, EventAboutTeaches
  <2> QED
    BY <1>4, <2>1, <2>2, ScorerFootprint, SilenceTeaches
<1>5. CASE AnalyzerSteps
  <2>1. UNCHANGED rows
    BY <1>5, AnalyzerFootprint
  <2>2. ASSUME NEW a \in Analyzer, rw[a].pc = "publish",
               PublishAbout(TriagedSubject, rw[a].bug)
        PROVE  [Lifecycle!Next]_Facts
    <3>1. rw[a].bug \in Bug /\ rw[a].bug \in Published("bug.scored")
      BY <2>2, AnalyzerBusy DEF ScoredSubject
    <3>2. "triaged" \in Lifecycle!Fact /\ SubjectOf["triaged"] = TriagedSubject
      BY DEF Lifecycle!Fact, SubjectOf, TriagedSubject
    <3>3. Lifecycle!Earned(rw[a].bug, "triaged")
      BY <3>1, <3>2, FactEarned
    <3> QED
      BY <1>0, <2>1, <2>2, <3>1, <3>2, <3>3, EventAboutTeaches
  <2> QED
    BY <1>5, <2>1, <2>2, AnalyzerFootprint, SilenceTeaches
<1> QED
  BY <1>1, <1>2, <1>3, <1>4, <1>5 DEF Next

LEMMA LifecycleInit == Init => Lifecycle!Init
<1>1. ASSUME Init
      PROVE  \A b \in Bug : \A f \in Lifecycle!Fact : ~Known(b, f)
  <2>1. rows = {} /\ \A s \in Subject : Published(s) = {}
    BY <1>1 DEF Init, PlatformInit, StreamInit, StoreInit, Published
  <2> QED
    BY <2>1 DEF Known, SubjectOf, Lifecycle!Fact, Subject
<1> QED
  BY <1>1, FactsKnown DEF Lifecycle!Init

(* The pipeline implements BugLifecycle: whatever is redelivered, late or  *)
(* lost with a replica, a fact about a bug comes out only after the facts  *)
(* it rests on, and stays.  The scorer tasks must have found their         *)
(* database when they started: one without it announces the score of a bug *)
(* that need not be stored (severity-scorer/main.py, process_message).     *)
THEOREM LifecycleImplemented ==
    ASSUME Scorer \cap Detached = {}
    PROVE  Spec => LifecycleKept
<1>1. Init => Lifecycle!Init
  BY LifecycleInit
<1>2. PipelineInv /\ [Next]_vars => [Lifecycle!Next]_Facts
  <2>1. ASSUME UNCHANGED vars
        PROVE  Facts' = Facts
    <3>1. UNCHANGED <<published, rows>>
      BY <2>1 DEF vars, platformVars, streamVars, storeVars
    <3> QED
      BY <3>1, SilenceTeaches
  <2> QED
    BY <2>1, LifecycleStep
<1> QED
  BY <1>1, <1>2, PipelineInvariant, PTL DEF Spec, LifecycleKept, Lifecycle!Spec
=============================================================================
