---------------------------- MODULE IngestionWorker ----------------------------
(***************************************************************************)
(* services/ingestion-worker/main.go: the replicas that take bug reports   *)
(* from bug.ingest.request, give them an id and an external id, insert     *)
(* them and announce them on bug.created.                                  *)
(*                                                                         *)
(* handleIngestRequest is one action per step between two calls that leave *)
(* the process (INSERT, publish, ack): a crash, an AckWait that runs out   *)
(* or another replica can come between any two of them.                    *)
(***************************************************************************)
EXTENDS Platform

CONSTANTS Malformed,    \* reports json.Unmarshal rejects
          Insertable,   \* reports whose columns the table accepts
          NewId,        \* the row id given to a report at its n-th delivery
          Ingester,     \* worker replicas
          MaxSeq        \* bound: values of one replica's seqCounter

VARIABLES iw,           \* what each replica is doing
          seqCounter,   \* Worker.seqCounter, in memory
          publishErrors \* bugs whose bug.created was reported as failed

ingestVars == <<iw, seqCounter, publishErrors>>

ASSUME IngestAssumption ==
    /\ Malformed \subseteq Report
    /\ Insertable \subseteq Report
    /\ NewId \in [Report -> [1..MaxDeliver -> Bug]]
    /\ \A r \in Report : \A n \in 1..MaxDeliver : ReportOf[NewId[r][n]] = r
    /\ MaxSeq \in Nat /\ 1..MaxSeq \subseteq ExtId
    /\ Ingester # {}

Ingestion == "ingestion-workers"

(* A replica at pc with message m, report.ID b and report.ExternalID x.    *)
IngestStep == [pc : {"persist", "publish", "ack"}, msg : Msg, bug : Bug,
               ext : ExtId]

IngestTypeOK ==
    /\ iw \in [Ingester -> {Idle} \cup IngestStep]
    /\ seqCounter \in [Ingester -> 0..MaxSeq]
    /\ publishErrors \in SUBSET Bug

IngestInit ==
    /\ iw = [w \in Ingester |-> Idle]
    /\ seqCounter = [w \in Ingester |-> 0]
    /\ publishErrors = {}

-----------------------------------------------------------------------------
(* A message reaches an idle replica, and unmarshals.  A report without an *)
(* id gets a new UUID, one that has an id keeps it; the external id is the *)
(* next value of the replica's own counter.                                *)
Receive(w, m) ==
    /\ iw[w].pc = "idle"
    /\ m.key \in Report \ Malformed
    /\ Deliver(Ingestion, m)
    /\ seqCounter[w] < MaxSeq
    /\ seqCounter' = [seqCounter EXCEPT ![w] = @ + 1]
    /\ iw' = [iw EXCEPT ![w] =
                [pc |-> "persist", msg |-> m,
                 bug |-> NewId[m.key][deliveries[Ingestion][m] + 1],
                 ext |-> seqCounter[w] + 1]]
    /\ UNCHANGED <<storeVars, publishErrors, faults>>

(* json.Unmarshal fails: Nak at once, no number is used up.                *)
RejectMalformed(w, m) ==
    /\ iw[w].pc = "idle"
    /\ m \in ready[Ingestion] /\ m.key \in Malformed
    /\ deliveries' = [deliveries EXCEPT ![Ingestion][m] = @ + 1]
    /\ ready' = IF deliveries[Ingestion][m] + 1 >= MaxDeliver
                THEN [ready EXCEPT ![Ingestion] = @ \ {m}] ELSE ready
    /\ UNCHANGED <<published, unacked, storeVars, ingestVars, faults>>

Accepted(w) == /\ ReportOf[iw[w].bug] \in Insertable
               /\ KeysFree(iw[w].bug, iw[w].ext)

(* persistBug succeeds.                                                    *)
Persist(w) ==
    /\ iw[w].pc = "persist" /\ Accepted(w)
    /\ InsertBug(iw[w].bug, iw[w].ext)
    /\ iw' = [iw EXCEPT ![w].pc = "publish"]
    /\ UNCHANGED <<streamVars, seqCounter, publishErrors, faults>>

(* Mutations of PersistRejected: a row that is there already counts as     *)
(* inserted (ON CONFLICT DO NOTHING), or the handler tries again itself.   *)
ConflictIgnored(w) ==
    /\ iw[w].pc = "persist" /\ ~Accepted(w)
    /\ iw' = [iw EXCEPT ![w].pc = "publish"]
    /\ UNCHANGED <<streamVars, storeVars, seqCounter, publishErrors, faults>>

RetriedInPlace(w) ==
    /\ iw[w].pc = "persist" /\ ~Accepted(w)
    /\ UNCHANGED <<platformVars, ingestVars>>

(* persistBug is refused by a key or a column constraint: Nak.             *)
PersistRejected(w) ==
    /\ iw[w].pc = "persist" /\ ~Accepted(w)
    /\ Requeue(Ingestion, iw[w].msg)
    /\ iw' = [iw EXCEPT ![w] = Idle]
    /\ UNCHANGED <<storeVars, seqCounter, publishErrors, faults>>

(* Mutations of PersistFails: the error is logged like the publish error   *)
(* and the handler goes on, or the message is acked in spite of it.        *)
PersistErrorIgnored(w) ==
    /\ iw[w].pc = "persist" /\ Fault
    /\ iw' = [iw EXCEPT ![w].pc = "publish"]
    /\ UNCHANGED <<streamVars, storeVars, seqCounter, publishErrors>>

PersistErrorAcked(w) ==
    /\ iw[w].pc = "persist" /\ Fault
    /\ Ack(Ingestion, iw[w].msg)
    /\ iw' = [iw EXCEPT ![w] = Idle]
    /\ UNCHANGED <<storeVars, seqCounter, publishErrors>>

(* persistBug fails on the connection or the 10 s context: Nak.  The row   *)
(* may have been committed before the error came back.                     *)
PersistFails(w) ==
    /\ iw[w].pc = "persist" /\ Fault
    /\ \/ UNCHANGED storeVars
       \/ Accepted(w) /\ InsertBug(iw[w].bug, iw[w].ext)
    /\ Requeue(Ingestion, iw[w].msg)
    /\ iw' = [iw EXCEPT ![w] = Idle]
    /\ UNCHANGED <<seqCounter, publishErrors>>

(* js.Publish("bug.created", ...) succeeds.                                *)
PublishCreated(w) ==
    /\ iw[w].pc = "publish"
    /\ PublishAbout("bug.created", iw[w].bug)
    /\ iw' = [iw EXCEPT ![w].pc = "ack"]
    /\ UNCHANGED <<storeVars, seqCounter, publishErrors, faults>>

(* The publish returns an error, although the server may have stored the   *)
(* event: the error is logged, and the handler goes on to ack.             *)
PublishCreatedFails(w) ==
    /\ iw[w].pc = "publish" /\ Fault
    /\ UNCHANGED streamVars \/ PublishAbout("bug.created", iw[w].bug)
    /\ publishErrors' = publishErrors \cup {iw[w].bug}
    /\ iw' = [iw EXCEPT ![w].pc = "ack"]
    /\ UNCHANGED <<storeVars, seqCounter>>

AckRequest(w) ==
    /\ iw[w].pc = "ack"
    /\ Ack(Ingestion, iw[w].msg)
    /\ iw' = [iw EXCEPT ![w] = Idle]
    /\ UNCHANGED <<storeVars, seqCounter, publishErrors, faults>>

(* The replica dies anywhere and is restarted: the counter starts again.   *)
IngesterRestarts(w) ==
    /\ Fault
    /\ iw' = [iw EXCEPT ![w] = Idle]
    /\ seqCounter' = [seqCounter EXCEPT ![w] = 0]
    /\ UNCHANGED <<streamVars, storeVars, publishErrors>>

Held(m) == \E w \in Ingester : iw[w].pc # "idle" /\ iw[w].msg = m

(* AckWait (30 s) runs out on a message whose holder is gone ...           *)
RequestExpires(m) ==
    /\ ~Held(m) /\ AckWaitOver(Ingestion, m)
    /\ UNCHANGED <<storeVars, ingestVars, faults>>

(* ... or is still at work on it.                                          *)
RequestLate(m) ==
    /\ Held(m) /\ Fault /\ AckWaitOver(Ingestion, m)
    /\ UNCHANGED <<storeVars, ingestVars>>

IngestWork(w) ==
    \/ \E m \in ready[Ingestion] : Receive(w, m) \/ RejectMalformed(w, m)
    \/ Persist(w) \/ PersistRejected(w) \/ PublishCreated(w) \/ AckRequest(w)

IngestFaults(w) ==
    PersistFails(w) \/ PublishCreatedFails(w) \/ IngesterRestarts(w)

-----------------------------------------------------------------------------
(* The ingestion worker on its own, with the producers of its requests.    *)
ingestionVars == <<platformVars, ingestVars>>

IngestionInit == PlatformInit /\ IngestInit

IngestionNext ==
    \/ \E r \in Report : Submit(r) /\ UNCHANGED ingestVars
    \/ \E w \in Ingester : IngestWork(w) \/ IngestFaults(w)
    \/ \E m \in unacked[Ingestion] : RequestExpires(m) \/ RequestLate(m)

(* A live replica goes on with its message and takes the next one, and the *)
(* server notices every AckWait that runs out on a lost message.           *)
IngestionFairness ==
    /\ \A w \in Ingester : WF_ingestionVars(IngestWork(w))
    /\ WF_ingestionVars(\E m \in unacked[Ingestion] : RequestExpires(m))

IngestionSpec == IngestionInit /\ [][IngestionNext]_ingestionVars
LiveIngestionSpec == IngestionSpec /\ IngestionFairness

-----------------------------------------------------------------------------
IngestionTypeOK == PlatformTypeOK /\ IngestTypeOK

Submitted(r) == Request(r) \in published["bug.ingest.request"]
RowsOf(r) == {b \in rows : ReportOf[b] = r}
Announced(b) == b \in Published("bug.created")

(* However often a report is delivered, by however many replicas, a row is *)
(* announced on bug.created at most once: the primary key stops the second *)
(* handler before it publishes.  Downstream counts on one event per bug.   *)
OneAnnouncement ==
    \A m, n \in published["bug.created"] : m.key = n.key => m = n

(* bug.created only ever speaks of a committed row, and the event a        *)
(* replica is about to publish carries the external id that row has, not   *)
(* the number another delivery of the same report drew.                    *)
AnnouncedAsStored ==
    /\ Published("bug.created") \subseteq rows
    /\ \A w \in Ingester : iw[w].pc = "publish" =>
            iw[w].bug \in rows /\ externalId[iw[w].bug] = iw[w].ext

(* A submitted report is never lost in silence: it is still owed a         *)
(* delivery, one of its rows was announced, its announcement failed (and   *)
(* the error was logged), or all its deliveries were used up.              *)
NoSilentLoss ==
    \A r \in Report : Submitted(r) =>
        \/ Request(r) \in Outstanding(Ingestion)
        \/ \E b \in RowsOf(r) : Announced(b) \/ b \in publishErrors
        \/ Exhausted(Ingestion, Request(r))

(* No request stays with the workers for ever: it is acked or dropped.     *)
RequestsSettle ==
    \A r \in Report : Submitted(r) ~> Request(r) \notin Outstanding(Ingestion)

=============================================================================
