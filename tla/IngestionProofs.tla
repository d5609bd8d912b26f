---------------------------- MODULE IngestionProofs ----------------------------
(***************************************************************************)
(* IngestionWorker's safety properties hold for any number of replicas,    *)
(* reports, deliveries and faults.                                         *)
(*                                                                         *)
(* None of them is inductive alone.  What carries them: a replica between  *)
(* INSERT and publish holds a row nobody has announced and no other such   *)
(* replica holds (the primary key let one INSERT through), and a replica   *)
(* that is about to ack has announced its row or logged the failure.       *)
(***************************************************************************)
EXTENDS IngestionWorker, TLAPS

(* Publishing keeps the stream well typed, stores one new message, and     *)
(* offers it to the consumers of its subject only.                         *)
LEMMA PublishFacts ==
    ASSUME StreamTypeOK, NEW s \in Subject, NEW m, Publish(s, m)
    PROVE  /\ StreamTypeOK'
           /\ m \in Msg /\ m \notin published[s]
           /\ published'[s] = published[s] \cup {m}
           /\ \A t \in Subject \ {s} : published'[t] = published[t]
           /\ \A c \in Consumer : ready'[c] =
                    IF Filter[c] = s THEN ready[c] \cup {m} ELSE ready[c]
           /\ UNCHANGED <<unacked, deliveries>>
<1>1. m \in Msg /\ m \notin published[s]
  BY DEF Publish, Fresh
<1>2. published' = [published EXCEPT ![s] = @ \cup {m}]
  BY DEF Publish
<1>3. ready' = [c \in Consumer |->
                    IF Filter[c] = s THEN ready[c] \cup {m} ELSE ready[c]]
  BY DEF Publish
<1>4. UNCHANGED <<unacked, deliveries>>
  BY DEF Publish
<1>5. published' \in [Subject -> SUBSET Msg]
  BY <1>1, <1>2 DEF StreamTypeOK
<1>6. ready' \in [Consumer -> SUBSET Msg]
  BY <1>1, <1>3 DEF StreamTypeOK
<1>7. StreamTypeOK'
  BY <1>4, <1>5, <1>6 DEF StreamTypeOK
<1> QED
  BY <1>1, <1>2, <1>3, <1>4, <1>7 DEF StreamTypeOK

(* A delivery moves the message from ready to unacked and counts.          *)
LEMMA DeliverFacts ==
    ASSUME StreamTypeOK, NEW c \in Consumer, NEW m, Deliver(c, m)
    PROVE  /\ StreamTypeOK'
           /\ m \in ready[c] /\ m \in Msg
           /\ UNCHANGED published
           /\ ready'[c] = ready[c] \ {m}
           /\ unacked'[c] = unacked[c] \cup {m}
           /\ deliveries'[c] = [deliveries[c] EXCEPT ![m] = OneMore(c, @)]
           /\ \A d \in Consumer \ {c} : /\ ready'[d] = ready[d]
                                        /\ unacked'[d] = unacked[d]
                                        /\ deliveries'[d] = deliveries[d]
<1>1. m \in ready[c] /\ UNCHANGED published
  BY DEF Deliver
<1>2. m \in Msg
  BY <1>1 DEF StreamTypeOK
<1>3. ready' = [ready EXCEPT ![c] = @ \ {m}]
  BY DEF Deliver
<1>4. unacked' = [unacked EXCEPT ![c] = @ \cup {m}]
  BY DEF Deliver
<1>5. deliveries' = [deliveries EXCEPT ![c][m] = OneMore(c, @)]
  BY DEF Deliver
<1>6. ready' \in [Consumer -> SUBSET Msg]
  BY <1>3 DEF StreamTypeOK
<1>7. unacked' \in [Consumer -> SUBSET Msg]
  BY <1>2, <1>4 DEF StreamTypeOK
<1>8. OneMore(c, deliveries[c][m]) \in Nat
  BY <1>2 DEF StreamTypeOK, OneMore
<1>9. deliveries' \in [Consumer -> [Msg -> Nat]]
  BY <1>2, <1>5, <1>8 DEF StreamTypeOK
<1>10. StreamTypeOK'
  BY <1>1, <1>6, <1>7, <1>9 DEF StreamTypeOK
<1> QED
  BY <1>1, <1>2, <1>3, <1>4, <1>5, <1>10 DEF StreamTypeOK

(* An ack takes the message from its consumer, and does nothing else.      *)
LEMMA AckFacts ==
    ASSUME StreamTypeOK, NEW c \in Consumer, NEW m, Ack(c, m)
    PROVE  /\ StreamTypeOK'
           /\ UNCHANGED <<published, deliveries>>
           /\ ready'[c] = ready[c] \ {m}
           /\ unacked'[c] = unacked[c] \ {m}
           /\ \A d \in Consumer \ {c} : /\ ready'[d] = ready[d]
                                        /\ unacked'[d] = unacked[d]
<1>1. ready' = [ready EXCEPT ![c] = @ \ {m}]
  BY DEF Ack
<1>2. unacked' = [unacked EXCEPT ![c] = @ \ {m}]
  BY DEF Ack
<1>3. UNCHANGED <<published, deliveries>>
  BY DEF Ack
<1>4. StreamTypeOK'
  BY <1>1, <1>2, <1>3 DEF StreamTypeOK
<1> QED
  BY <1>1, <1>2, <1>3, <1>4 DEF StreamTypeOK

(* A nak or an expiry never invents a message: one that was unacked waits  *)
(* again, unless its deliveries are spent; any other is left where it is.  *)
LEMMA RequeueFacts ==
    ASSUME StreamTypeOK, NEW c \in Consumer, NEW m, Requeue(c, m)
    PROVE  /\ StreamTypeOK'
           /\ UNCHANGED <<published, deliveries>>
           /\ unacked'[c] = unacked[c] \ {m}
           /\ ready'[c] = IF m \in unacked[c] /\ ~Spent(c, m)
                          THEN ready[c] \cup {m} ELSE ready[c]
           /\ \A d \in Consumer \ {c} : /\ ready'[d] = ready[d]
                                        /\ unacked'[d] = unacked[d]
<1>1. ready' = IF m \in unacked[c] /\ ~Spent(c, m)
               THEN [ready EXCEPT ![c] = @ \cup {m}] ELSE ready
  BY DEF Requeue
<1>2. unacked' = [unacked EXCEPT ![c] = @ \ {m}]
  BY DEF Requeue
<1>3. UNCHANGED <<published, deliveries>>
  BY DEF Requeue
<1>4. ready' \in [Consumer -> SUBSET Msg]
  <2>1. CASE m \in unacked[c] /\ ~Spent(c, m)
    <3>1. m \in Msg
      BY <2>1 DEF StreamTypeOK
    <3>2. ready' = [ready EXCEPT ![c] = @ \cup {m}]
      BY <1>1, <2>1
    <3> QED
      BY <3>1, <3>2 DEF StreamTypeOK
  <2>2. CASE ~(m \in unacked[c] /\ ~Spent(c, m))
    <3>1. ready' = ready
      BY <1>1, <2>2
    <3> QED
      BY <3>1 DEF StreamTypeOK
  <2> QED
    BY <2>1, <2>2
<1>5. unacked' \in [Consumer -> SUBSET Msg]
  BY <1>2 DEF StreamTypeOK
<1>6. StreamTypeOK'
  BY <1>3, <1>4, <1>5 DEF StreamTypeOK
<1>7. ready'[c] = IF m \in unacked[c] /\ ~Spent(c, m)
                  THEN ready[c] \cup {m} ELSE ready[c]
  BY <1>1 DEF StreamTypeOK
<1>8. \A d \in Consumer \ {c} : ready'[d] = ready[d] /\ unacked'[d] = unacked[d]
  BY <1>1, <1>2 DEF StreamTypeOK
<1> QED
  BY <1>2, <1>3, <1>6, <1>7, <1>8 DEF StreamTypeOK

(* The INSERT adds one row that was not there, with its own external id,   *)
(* and touches no other row.                                               *)
LEMMA InsertFacts ==
    ASSUME StoreTypeOK, NEW b \in Bug, NEW x \in ExtId, InsertBug(b, x)
    PROVE  /\ StoreTypeOK'
           /\ b \notin rows /\ rows' = rows \cup {b}
           /\ externalId' = [externalId EXCEPT ![b] = x]
           /\ UNCHANGED <<canonical, embedded, scored, analyzed, activity>>
<1>1. b \notin rows /\ rows' = rows \cup {b}
  BY DEF InsertBug, KeysFree
<1>2. externalId' = [externalId EXCEPT ![b] = x]
  BY DEF InsertBug
<1>3. status' = [status EXCEPT ![b] = "open"]
  BY DEF InsertBug
<1>4. UNCHANGED <<canonical, embedded, scored, analyzed, activity>>
  BY DEF InsertBug
<1>5. "open" \in Status
  BY DEF Status
<1>6. externalId' \in [Bug -> ExtId \cup {0}]
  BY <1>2 DEF StoreTypeOK
<1>7. status' \in [Bug -> Status]
  BY <1>3, <1>5 DEF StoreTypeOK
<1>8. rows' \in SUBSET Bug
  BY <1>1 DEF StoreTypeOK
<1>9. StoreTypeOK'
  BY <1>4, <1>6, <1>7, <1>8 DEF StoreTypeOK
<1> QED
  BY <1>1, <1>2, <1>4, <1>9

(* An event about b adds b to what the subject speaks of, as one message   *)
(* that was not there.                                                     *)
LEMMA PublishAboutFacts ==
    ASSUME StreamTypeOK, NEW s \in Subject, NEW b, PublishAbout(s, b)
    PROVE  /\ StreamTypeOK'
           /\ Published(s)' = Published(s) \cup {b}
           /\ \E m \in Msg : /\ m.key = b /\ m \notin published[s]
                             /\ published'[s] = published[s] \cup {m}
                             /\ \A c \in Consumer : ready'[c] =
                                  IF Filter[c] = s THEN ready[c] \cup {m}
                                                   ELSE ready[c]
           /\ \A t \in Subject \ {s} : published'[t] = published[t]
           /\ UNCHANGED <<unacked, deliveries>>
<1>1. PICK n \in 1..MaxCopy : Publish(s, [key |-> b, copy |-> n])
  BY DEF PublishAbout
<1> DEFINE m == [key |-> b, copy |-> n]
<1>2. m.key = b
  OBVIOUS
<1>3. /\ StreamTypeOK' /\ m \in Msg /\ m \notin published[s]
      /\ published'[s] = published[s] \cup {m}
      /\ \A t \in Subject \ {s} : published'[t] = published[t]
      /\ \A c \in Consumer : ready'[c] =
             IF Filter[c] = s THEN ready[c] \cup {m} ELSE ready[c]
      /\ UNCHANGED <<unacked, deliveries>>
  BY <1>1, PublishFacts
<1>4. Published(s)' = Published(s) \cup {b}
  BY <1>2, <1>3 DEF Published
<1> QED
  BY <1>2, <1>3, <1>4

-----------------------------------------------------------------------------
RequestSubject == "bug.ingest.request"

(* A request waits or is held only if it was sent, and one that waits has  *)
(* deliveries left.                                                        *)
Budget ==
    /\ ready[Ingestion] \subseteq published[RequestSubject]
    /\ unacked[Ingestion] \subseteq published[RequestSubject]
    /\ \A m \in ready[Ingestion] : deliveries[Ingestion][m] < MaxDeliver
    /\ \A m \in Msg \ published[RequestSubject] : deliveries[Ingestion][m] = 0

(* A busy replica handles a row of the report its message is about.        *)
AtWork ==
    \A w \in Ingester : iw[w].pc # "idle" => ReportOf[iw[w].bug] = iw[w].msg.key

(* Between INSERT and publish: the row is there, under this external id,   *)
(* is not announced, and no other replica is about to announce it.         *)
Publishing ==
    \A w \in Ingester : iw[w].pc = "publish" =>
        /\ iw[w].bug \in rows /\ externalId[iw[w].bug] = iw[w].ext
        /\ ~Announced(iw[w].bug)
        /\ \A v \in Ingester \ {w} :
                iw[v].pc = "publish" => iw[v].bug # iw[w].bug

(* About to ack: the row is announced, or its failure was logged.          *)
Acking ==
    \A w \in Ingester : iw[w].pc = "ack" =>
        /\ iw[w].bug \in rows
        /\ Announced(iw[w].bug) \/ iw[w].bug \in publishErrors

RowInv ==
    /\ Publishing /\ Acking
    /\ Published("bug.created") \subseteq rows
    /\ OneAnnouncement

IngestionInv ==
    IngestionTypeOK /\ Budget /\ AtWork /\ RowInv /\ NoSilentLoss

(* The request is owed a delivery, or has had all of them.                 *)
Owed(m) == m \in Outstanding(Ingestion) \/ Spent(Ingestion, m)

-----------------------------------------------------------------------------
LEMMA ConsumerFacts ==
    /\ Ingestion \in Consumer /\ RequestSubject \in Subject
    /\ "bug.created" \in Subject /\ RequestSubject # "bug.created"
    /\ Filter[Ingestion] = RequestSubject
    /\ Limited(Ingestion)
    /\ \A n \in Nat : OneMore(Ingestion, n) = n + 1
BY DEF Ingestion, Consumer, RequestSubject, Subject, Filter, Limited, OneMore

LEMMA RequestType == \A r \in Report : Request(r) \in Msg /\ Request(r).key = r
BY StreamAssumption, PlatformAssumption DEF Request, Msg

(* A busy replica holds a well-formed step.                                *)
LEMMA BusyType ==
    ASSUME IngestTypeOK, NEW w \in Ingester, iw[w].pc # "idle"
    PROVE  iw[w] \in IngestStep
BY DEF IngestTypeOK, Idle

LEMMA MoveType ==
    ASSUME IngestTypeOK, NEW w \in Ingester, iw[w].pc # "idle",
           NEW p \in {"persist", "publish", "ack"},
           iw' = [iw EXCEPT ![w].pc = p], UNCHANGED seqCounter,
           publishErrors' \in SUBSET Bug
    PROVE  IngestTypeOK'
<1>1. iw[w] \in IngestStep
  BY BusyType
<1>2. [iw[w] EXCEPT !.pc = p] \in IngestStep
  BY <1>1 DEF IngestStep
<1> QED
  BY <1>2 DEF IngestTypeOK

LEMMA IdleType ==
    ASSUME IngestTypeOK, NEW w \in Ingester, iw' = [iw EXCEPT ![w] = Idle],
           seqCounter' \in [Ingester -> 0..MaxSeq], UNCHANGED publishErrors
    PROVE  IngestTypeOK'
BY DEF IngestTypeOK

LEMMA SameTypes ==
    /\ StoreTypeOK /\ UNCHANGED storeVars => StoreTypeOK'
    /\ StreamTypeOK /\ UNCHANGED streamVars => StreamTypeOK'
    /\ faults \in 0..MaxFaults /\ Fault => faults' \in 0..MaxFaults
BY PlatformAssumption
   DEF StoreTypeOK, storeVars, columns, StreamTypeOK, streamVars, Fault

-----------------------------------------------------------------------------
(* The queue: what each operation of the stream does to Budget and to what *)
(* is owed.                                                                *)
LEMMA QueueDeliver ==
    ASSUME StreamTypeOK, Budget, NEW m, Deliver(Ingestion, m)
    PROVE  /\ Budget' /\ \A n \in Msg : Owed(n) => Owed(n)'
           /\ m \in Msg /\ deliveries[Ingestion][m] + 1 \in 1..MaxDeliver
<1>1. /\ m \in ready[Ingestion] /\ m \in Msg
      /\ UNCHANGED published
      /\ ready'[Ingestion] = ready[Ingestion] \ {m}
      /\ unacked'[Ingestion] = unacked[Ingestion] \cup {m}
      /\ deliveries'[Ingestion] =
            [deliveries[Ingestion] EXCEPT ![m] = OneMore(Ingestion, @)]
  BY DeliverFacts, ConsumerFacts
<1>2. deliveries[Ingestion] \in [Msg -> Nat]
  BY ConsumerFacts DEF StreamTypeOK
<1>3. deliveries'[Ingestion] = [deliveries[Ingestion] EXCEPT ![m] = @ + 1]
  BY <1>1, <1>2, ConsumerFacts
<1>4. deliveries[Ingestion][m] < MaxDeliver
  BY <1>1 DEF Budget
<1>5. Budget'
  BY <1>1, <1>2, <1>3 DEF Budget
<1>6. \A n \in Msg : Owed(n) => Owed(n)'
  BY <1>1, <1>2, <1>3, StreamAssumption DEF Owed, Outstanding, Spent
<1>7. deliveries[Ingestion][m] + 1 \in 1..MaxDeliver
  BY <1>1, <1>2, <1>4, StreamAssumption
<1> QED
  BY <1>1, <1>5, <1>6, <1>7

LEMMA QueueAck ==
    ASSUME StreamTypeOK, Budget, NEW m, Ack(Ingestion, m)
    PROVE  /\ Budget' /\ \A n \in Msg \ {m} : Owed(n) => Owed(n)'
<1>1. /\ UNCHANGED <<published, deliveries>>
      /\ ready'[Ingestion] = ready[Ingestion] \ {m}
      /\ unacked'[Ingestion] = unacked[Ingestion] \ {m}
  BY AckFacts, ConsumerFacts
<1> QED
  BY <1>1 DEF Budget, Owed, Outstanding, Spent

LEMMA QueueRequeue ==
    ASSUME StreamTypeOK, Budget, NEW m, Requeue(Ingestion, m)
    PROVE  /\ Budget' /\ \A n \in Msg : Owed(n) => Owed(n)'
<1>1. /\ UNCHANGED <<published, deliveries>>
      /\ unacked'[Ingestion] = unacked[Ingestion] \ {m}
      /\ ready'[Ingestion] = IF m \in unacked[Ingestion] /\ ~Spent(Ingestion, m)
                             THEN ready[Ingestion] \cup {m} ELSE ready[Ingestion]
  BY RequeueFacts, ConsumerFacts
<1>2. ASSUME m \in unacked[Ingestion], ~Spent(Ingestion, m)
      PROVE  deliveries[Ingestion][m] < MaxDeliver
  <2>1. deliveries[Ingestion][m] \in Nat
    BY <1>2, ConsumerFacts DEF StreamTypeOK
  <2> QED
    BY <1>2, <2>1, ConsumerFacts, StreamAssumption DEF Spent
<1>3. Budget'
  BY <1>1, <1>2 DEF Budget
<1>4. \A n \in Msg : Owed(n) => Owed(n)'
  BY <1>1 DEF Owed, Outstanding, Spent
<1> QED
  BY <1>3, <1>4

(* Every other step leaves the queue of requests alone.                    *)
LEMMA QueueSame ==
    ASSUME Budget,
           published'[RequestSubject] = published[RequestSubject],
           ready'[Ingestion] = ready[Ingestion],
           unacked'[Ingestion] = unacked[Ingestion],
           deliveries'[Ingestion] = deliveries[Ingestion]
    PROVE  Budget' /\ \A n \in Msg : Owed(n) => Owed(n)'
BY DEF Budget, Owed, Outstanding, Spent

(* Silence is broken for good: what accounts for a report stays.           *)
LEMMA LossKept ==
    ASSUME NoSilentLoss, rows \subseteq rows',
           Published("bug.created") \subseteq Published("bug.created")',
           publishErrors \subseteq publishErrors',
           \A r \in Report : Submitted(r)' =>
              \/ Owed(Request(r))'
              \/ \E b \in rows' : /\ ReportOf[b] = r
                                  /\ Announced(b)' \/ b \in publishErrors'
              \/ Submitted(r) /\ (Owed(Request(r)) => Owed(Request(r))')
    PROVE  NoSilentLoss'
BY DEF NoSilentLoss, Owed, Exhausted, RowsOf, Announced

-----------------------------------------------------------------------------
(* The rows: a replica that goes idle, or takes up a report, disturbs none *)
(* of what the others rely on.                                             *)
LEMMA RowsKept ==
    ASSUME RowInv, IngestTypeOK, NEW w \in Ingester, NEW v,
           iw' = [iw EXCEPT ![w] = v], v.pc \in {"idle", "persist"},
           rows \subseteq rows',
           \A b \in rows : externalId'[b] = externalId[b],
           published'["bug.created"] = published["bug.created"],
           UNCHANGED publishErrors
    PROVE  RowInv'
<1>1. \A u \in Ingester : iw'[u] = IF u = w THEN v ELSE iw[u]
  BY DEF IngestTypeOK
<1>2. Publishing'
  BY <1>1 DEF RowInv, Publishing, Announced, Published
<1>3. Acking'
  BY <1>1 DEF RowInv, Acking, Announced, Published
<1> QED
  BY <1>2, <1>3 DEF RowInv, OneAnnouncement, Published

-----------------------------------------------------------------------------
(* Each action preserves the invariant.                                    *)
LEMMA SubmitStep ==
    ASSUME IngestionInv, NEW r \in Report, Submit(r), UNCHANGED ingestVars
    PROVE  IngestionInv'
<1>1. Publish(RequestSubject, Request(r)) /\ UNCHANGED <<storeVars, faults>>
  BY DEF Submit, RequestSubject
<1>2. /\ StreamTypeOK' /\ Request(r) \in Msg
      /\ Request(r) \notin published[RequestSubject]
      /\ published'[RequestSubject] = published[RequestSubject] \cup {Request(r)}
      /\ published'["bug.created"] = published["bug.created"]
      /\ ready'[Ingestion] = ready[Ingestion] \cup {Request(r)}
      /\ UNCHANGED <<unacked, deliveries>>
  BY <1>1, PublishFacts, ConsumerFacts DEF IngestionInv, IngestionTypeOK, PlatformTypeOK
<1>3. IngestionTypeOK'
  BY <1>1, <1>2, SameTypes
  DEF IngestionInv, IngestionTypeOK, PlatformTypeOK, IngestTypeOK, ingestVars
<1>4. Budget'
  BY <1>2, StreamAssumption DEF IngestionInv, Budget
<1>5. AtWork' /\ RowInv'
  BY <1>1, <1>2 DEF IngestionInv, AtWork, RowInv, Publishing, Acking, Announced,
     Published, OneAnnouncement, ingestVars, storeVars, columns
<1>6. NoSilentLoss'
  <2>1. \A q \in Report : Submitted(q)' => Submitted(q) \/ q = r
    BY <1>2, RequestType DEF Submitted, RequestSubject
  <2>2. Owed(Request(r))'
    BY <1>2 DEF Owed, Outstanding
  <2>3. \A m \in Msg : Owed(m) => Owed(m)'
    BY <1>2 DEF Owed, Outstanding, Spent
  <2>4. Published("bug.created")' = Published("bug.created")
    BY <1>2 DEF Published
  <2> QED
    BY <1>1, <2>1, <2>2, <2>3, <2>4, RequestType, LossKept
    DEF IngestionInv, ingestVars, storeVars
<1> QED
  BY <1>3, <1>4, <1>5, <1>6 DEF IngestionInv

LEMMA ReceiveStep ==
    ASSUME IngestionInv, NEW w \in Ingester, NEW m, Receive(w, m)
    PROVE  IngestionInv'
<1> DEFINE v == [pc |-> "persist", msg |-> m,
                 bug |-> NewId[m.key][deliveries[Ingestion][m] + 1],
                 ext |-> seqCounter[w] + 1]
<1>1. /\ Deliver(Ingestion, m) /\ m.key \in Report
      /\ seqCounter[w] < MaxSeq
      /\ seqCounter' = [seqCounter EXCEPT ![w] = @ + 1]
      /\ iw' = [iw EXCEPT ![w] = v]
      /\ UNCHANGED <<storeVars, publishErrors, faults>>
  BY DEF Receive
<1>2. /\ StreamTypeOK' /\ Budget' /\ UNCHANGED published
      /\ \A n \in Msg : Owed(n) => Owed(n)'
      /\ m \in Msg /\ deliveries[Ingestion][m] + 1 \in 1..MaxDeliver
  BY <1>1, QueueDeliver, DeliverFacts, ConsumerFacts
  DEF IngestionInv, IngestionTypeOK, PlatformTypeOK
<1>3. v.bug \in Bug /\ ReportOf[v.bug] = m.key
  BY <1>1, <1>2, IngestAssumption
<1>4. seqCounter[w] + 1 \in 1..MaxSeq
  BY <1>1, IngestAssumption DEF IngestionInv, IngestionTypeOK, IngestTypeOK
<1>5. v \in IngestStep
  BY <1>2, <1>3, <1>4, IngestAssumption DEF IngestStep
<1>6. IngestTypeOK'
  BY <1>1, <1>4, <1>5, IngestAssumption
  DEF IngestionInv, IngestionTypeOK, IngestTypeOK
<1>7. IngestionTypeOK'
  BY <1>1, <1>2, <1>6, SameTypes DEF IngestionInv, IngestionTypeOK, PlatformTypeOK
<1>8. AtWork'
  BY <1>1, <1>3 DEF IngestionInv, AtWork, IngestionTypeOK, IngestTypeOK
<1>9. RowInv'
  BY <1>1, <1>2, RowsKept DEF IngestionInv, IngestionTypeOK, storeVars, columns
<1>10. NoSilentLoss'
  BY <1>1, <1>2, RequestType, LossKept DEF IngestionInv, storeVars, Submitted, Published
<1> QED
  BY <1>2, <1>7, <1>8, <1>9, <1>10 DEF IngestionInv

LEMMA RejectMalformedStep ==
    ASSUME IngestionInv, NEW w \in Ingester, NEW m, RejectMalformed(w, m)
    PROVE  IngestionInv'
<1>1. /\ m \in ready[Ingestion] /\ m \in Msg
      /\ deliveries' = [deliveries EXCEPT ![Ingestion][m] = @ + 1]
      /\ ready' = IF deliveries[Ingestion][m] + 1 >= MaxDeliver
                  THEN [ready EXCEPT ![Ingestion] = @ \ {m}] ELSE ready
      /\ UNCHANGED <<published, unacked, storeVars, ingestVars, faults>>
  BY ConsumerFacts DEF RejectMalformed, IngestionInv, IngestionTypeOK,
     PlatformTypeOK, StreamTypeOK
<1>2. /\ deliveries \in [Consumer -> [Msg -> Nat]]
      /\ ready \in [Consumer -> SUBSET Msg]
  BY DEF IngestionInv, IngestionTypeOK, PlatformTypeOK, StreamTypeOK
<1>3. /\ deliveries' \in [Consumer -> [Msg -> Nat]]
      /\ deliveries'[Ingestion] = [deliveries[Ingestion] EXCEPT ![m] = @ + 1]
  BY <1>1, <1>2, ConsumerFacts
<1>4. /\ ready' \in [Consumer -> SUBSET Msg]
      /\ ready'[Ingestion] = IF deliveries[Ingestion][m] + 1 >= MaxDeliver
                             THEN ready[Ingestion] \ {m} ELSE ready[Ingestion]
  <2>1. CASE deliveries[Ingestion][m] + 1 >= MaxDeliver
    <3>1. ready' = [ready EXCEPT ![Ingestion] = @ \ {m}]
      BY <1>1, <2>1
    <3> QED
      BY <1>2, <2>1, <3>1, ConsumerFacts
  <2>2. CASE ~(deliveries[Ingestion][m] + 1 >= MaxDeliver)
    BY <1>1, <1>2, <2>2
  <2> QED
    BY <2>1, <2>2
<1>5. StreamTypeOK'
  BY <1>1, <1>3, <1>4 DEF IngestionInv, IngestionTypeOK, PlatformTypeOK, StreamTypeOK
<1>6. IngestionTypeOK'
  BY <1>1, <1>5, SameTypes
  DEF IngestionInv, IngestionTypeOK, PlatformTypeOK, IngestTypeOK, ingestVars
<1>7. deliveries[Ingestion] \in [Msg -> Nat]
  BY <1>2, ConsumerFacts
<1>8. Budget'
  BY <1>1, <1>3, <1>4, <1>7, StreamAssumption DEF IngestionInv, Budget
<1>9. \A n \in Msg : Owed(n) => Owed(n)'
  BY <1>1, <1>3, <1>4, <1>7, ConsumerFacts, StreamAssumption
  DEF Owed, Outstanding, Spent
<1>10. AtWork' /\ RowInv'
  BY <1>1 DEF IngestionInv, AtWork, RowInv, Publishing, Acking, Announced,
     Published, OneAnnouncement, ingestVars, storeVars, columns
<1>11. NoSilentLoss'
  BY <1>1, <1>9, RequestType, LossKept
  DEF IngestionInv, ingestVars, storeVars, Submitted, Published
<1> QED
  BY <1>6, <1>8, <1>10, <1>11 DEF IngestionInv

(* What the failing branches of persistBug have in common: the message is  *)
(* nakked and the replica is free; a row may have been added.              *)
LEMMA GiveUpStep ==
    ASSUME IngestionInv, NEW w \in Ingester, Requeue(Ingestion, iw[w].msg),
           iw' = [iw EXCEPT ![w] = Idle], UNCHANGED <<seqCounter, publishErrors>>,
           StoreTypeOK', faults' \in 0..MaxFaults,
           rows \subseteq rows', \A b \in rows : externalId'[b] = externalId[b]
    PROVE  IngestionInv'
<1>1. /\ StreamTypeOK' /\ Budget' /\ UNCHANGED published
      /\ \A n \in Msg : Owed(n) => Owed(n)'
  BY QueueRequeue, RequeueFacts, ConsumerFacts
  DEF IngestionInv, IngestionTypeOK, PlatformTypeOK
<1>2. IngestTypeOK'
  BY IdleType DEF IngestionInv, IngestionTypeOK, IngestTypeOK
<1>3. IngestionTypeOK'
  BY <1>1, <1>2 DEF IngestionTypeOK, PlatformTypeOK
<1>4. AtWork'
  BY DEF IngestionInv, AtWork, Idle, IngestionTypeOK, IngestTypeOK
<1>5. Idle.pc = "idle"
  BY DEF Idle
<1>6. RowInv'
  BY <1>1, <1>5, RowsKept DEF IngestionInv, IngestionTypeOK
<1>7. NoSilentLoss'
  BY <1>1, RequestType, LossKept DEF IngestionInv, Submitted, Published
<1> QED
  BY <1>1, <1>3, <1>4, <1>6, <1>7 DEF IngestionInv

LEMMA PersistRejectedStep ==
    ASSUME IngestionInv, NEW w \in Ingester, PersistRejected(w)
    PROVE  IngestionInv'
BY GiveUpStep, SameTypes
DEF PersistRejected, IngestionInv, IngestionTypeOK, PlatformTypeOK, storeVars, columns

LEMMA PersistFailsStep ==
    ASSUME IngestionInv, NEW w \in Ingester, PersistFails(w)
    PROVE  IngestionInv'
<1>1. /\ iw[w].pc = "persist" /\ Requeue(Ingestion, iw[w].msg)
      /\ iw' = [iw EXCEPT ![w] = Idle] /\ UNCHANGED <<seqCounter, publishErrors>>
      /\ UNCHANGED storeVars \/ InsertBug(iw[w].bug, iw[w].ext)
  BY DEF PersistFails
<1>2. iw[w].bug \in Bug /\ iw[w].ext \in ExtId
  BY <1>1, BusyType DEF IngestionInv, IngestionTypeOK, IngestStep
<1>3. faults' \in 0..MaxFaults
  BY SameTypes DEF PersistFails, IngestionInv, IngestionTypeOK, PlatformTypeOK
<1>4. StoreTypeOK
  BY DEF IngestionInv, IngestionTypeOK, PlatformTypeOK
<1>5. /\ StoreTypeOK' /\ rows \subseteq rows'
      /\ \A b \in rows : externalId'[b] = externalId[b]
  <2>1. CASE UNCHANGED storeVars
    BY <1>4, <2>1, SameTypes DEF storeVars, columns
  <2>2. CASE InsertBug(iw[w].bug, iw[w].ext)
    BY <1>2, <1>4, <2>2, InsertFacts DEF StoreTypeOK
  <2> QED
    BY <1>1, <2>1, <2>2
<1> QED
  BY <1>1, <1>3, <1>5, GiveUpStep

(* The INSERT: whoever gets it through owns the announcement of the row.   *)
LEMMA PersistStep ==
    ASSUME IngestionInv, NEW w \in Ingester, Persist(w)
    PROVE  IngestionInv'
<1>1. /\ iw[w].pc = "persist" /\ InsertBug(iw[w].bug, iw[w].ext)
      /\ iw' = [iw EXCEPT ![w].pc = "publish"]
      /\ UNCHANGED <<streamVars, seqCounter, publishErrors, faults>>
  BY DEF Persist
<1>2. /\ iw[w] \in IngestStep /\ iw[w].bug \in Bug /\ iw[w].ext \in ExtId
  BY <1>1, BusyType DEF IngestionInv, IngestionTypeOK, IngestStep
<1>3. /\ StoreTypeOK' /\ iw[w].bug \notin rows
      /\ rows' = rows \cup {iw[w].bug}
      /\ externalId' = [externalId EXCEPT ![iw[w].bug] = iw[w].ext]
  BY <1>1, <1>2, InsertFacts DEF IngestionInv, IngestionTypeOK, PlatformTypeOK
<1>4. IngestTypeOK'
  BY <1>1, MoveType DEF IngestionInv, IngestionTypeOK, IngestTypeOK
<1>5. IngestionTypeOK'
  BY <1>1, <1>3, <1>4, SameTypes DEF IngestionInv, IngestionTypeOK, PlatformTypeOK
<1>6. /\ Budget' /\ \A n \in Msg : Owed(n) => Owed(n)'
  BY <1>1, QueueSame DEF IngestionInv, streamVars
<1>7. \A u \in Ingester \ {w} : iw'[u] = iw[u]
  BY <1>1 DEF IngestionInv, IngestionTypeOK, IngestTypeOK
<1>8. /\ iw'[w].pc = "publish" /\ iw'[w].bug = iw[w].bug
      /\ iw'[w].ext = iw[w].ext /\ iw'[w].msg = iw[w].msg
  BY <1>1, <1>2 DEF IngestionInv, IngestionTypeOK, IngestTypeOK, IngestStep
<1>9. AtWork'
  BY <1>1, <1>7, <1>8 DEF IngestionInv, AtWork
<1>10. Publishing'
  <2> SUFFICES ASSUME NEW u \in Ingester, iw'[u].pc = "publish"
               PROVE  /\ iw'[u].bug \in rows' /\ externalId'[iw'[u].bug] = iw'[u].ext
                      /\ iw'[u].bug \notin Published("bug.created")'
                      /\ \A v \in Ingester \ {u} :
                            iw'[v].pc = "publish" => iw'[v].bug # iw'[u].bug
    BY DEF Publishing, Announced
  <2>1. Published("bug.created")' = Published("bug.created")
    BY <1>1 DEF streamVars, Published
  <2>2. Published("bug.created") \subseteq rows /\ Publishing
    BY DEF IngestionInv, RowInv
  <2>3. /\ externalId'[iw[w].bug] = iw[w].ext
        /\ \A c \in rows : externalId'[c] = externalId[c]
    BY <1>2, <1>3 DEF IngestionInv, IngestionTypeOK, PlatformTypeOK, StoreTypeOK
  <2>4. CASE u = w
    BY <1>3, <1>7, <1>8, <2>1, <2>2, <2>3, <2>4 DEF Publishing
  <2>5. CASE u # w
    BY <1>3, <1>7, <1>8, <2>1, <2>2, <2>3, <2>5 DEF Publishing, Announced
  <2> QED
    BY <2>4, <2>5
<1>11. Acking'
  BY <1>1, <1>3, <1>7, <1>8
  DEF IngestionInv, RowInv, Acking, Announced, streamVars, Published
<1>12. RowInv'
  BY <1>1, <1>3, <1>10, <1>11
  DEF IngestionInv, RowInv, OneAnnouncement, streamVars, Published
<1>13. NoSilentLoss'
  BY <1>1, <1>3, <1>6, RequestType, LossKept
  DEF IngestionInv, Submitted, Published, streamVars
<1> QED
  BY <1>5, <1>6, <1>9, <1>12, <1>13 DEF IngestionInv

(* The publish of bug.created, whatever comes of it: the row is announced  *)
(* for the first time, or the failure is logged, or both.                  *)
LEMMA AnnounceStep ==
    ASSUME IngestionInv, NEW w \in Ingester, iw[w].pc = "publish",
           UNCHANGED streamVars \/ PublishAbout("bug.created", iw[w].bug),
           publishErrors \subseteq publishErrors',
           publishErrors' \subseteq publishErrors \cup {iw[w].bug},
           UNCHANGED streamVars => iw[w].bug \in publishErrors',
           iw' = [iw EXCEPT ![w].pc = "ack"],
           UNCHANGED <<storeVars, seqCounter>>, faults' \in 0..MaxFaults
    PROVE  IngestionInv'
<1>1. iw[w] \in IngestStep /\ iw[w].bug \in Bug
  BY BusyType DEF IngestionInv, IngestionTypeOK, IngestStep
<1>2. /\ StreamTypeOK'
      /\ Published("bug.created")' \subseteq Published("bug.created") \cup {iw[w].bug}
      /\ Published("bug.created") \subseteq Published("bug.created")'
      /\ iw[w].bug \in Published("bug.created")' \cup publishErrors'
      /\ OneAnnouncement'
      /\ published'[RequestSubject] = published[RequestSubject]
      /\ ready'[Ingestion] = ready[Ingestion]
      /\ UNCHANGED <<unacked, deliveries>>
  <2>1. CASE UNCHANGED streamVars
    BY <2>1, SameTypes DEF streamVars, IngestionInv, IngestionTypeOK,
       PlatformTypeOK, RowInv, OneAnnouncement, Published
  <2>2. CASE PublishAbout("bug.created", iw[w].bug)
    <3>1. StreamTypeOK /\ "bug.created" \in Subject
      BY ConsumerFacts DEF IngestionInv, IngestionTypeOK, PlatformTypeOK
    <3>2. /\ StreamTypeOK'
          /\ Published("bug.created")' = Published("bug.created") \cup {iw[w].bug}
          /\ \A t \in Subject \ {"bug.created"} : published'[t] = published[t]
          /\ UNCHANGED <<unacked, deliveries>>
          /\ \E m \in Msg : /\ m.key = iw[w].bug /\ m \notin published["bug.created"]
                            /\ published'["bug.created"] =
                                    published["bug.created"] \cup {m}
                            /\ \A c \in Consumer : ready'[c] =
                                 IF Filter[c] = "bug.created" THEN ready[c] \cup {m}
                                                              ELSE ready[c]
      BY <2>2, <3>1, PublishAboutFacts
    <3> PICK m \in Msg :
            /\ m.key = iw[w].bug
            /\ published'["bug.created"] = published["bug.created"] \cup {m}
            /\ \A c \in Consumer : ready'[c] =
                IF Filter[c] = "bug.created" THEN ready[c] \cup {m} ELSE ready[c]
      BY <3>2
    <3>3. ready'[Ingestion] = ready[Ingestion]
      BY ConsumerFacts
    <3>4. \A n \in published["bug.created"] : n.key # m.key
      BY DEF IngestionInv, RowInv, Publishing, Announced, Published
    <3>5. OneAnnouncement'
      BY <3>4 DEF IngestionInv, RowInv, OneAnnouncement
    <3> QED
      BY <3>2, <3>3, <3>5, ConsumerFacts
  <2> QED
    BY <2>1, <2>2
<1>3. publishErrors' \in SUBSET Bug
  BY <1>1 DEF IngestionInv, IngestionTypeOK, IngestTypeOK
<1>4. IngestTypeOK'
  BY <1>3, MoveType DEF IngestionInv, IngestionTypeOK
<1>5. IngestionTypeOK'
  BY <1>2, <1>4, SameTypes DEF IngestionInv, IngestionTypeOK, PlatformTypeOK
<1>6. /\ Budget' /\ \A n \in Msg : Owed(n) => Owed(n)'
  BY <1>2, QueueSame DEF IngestionInv
<1>7. \A u \in Ingester \ {w} : iw'[u] = iw[u]
  BY DEF IngestionInv, IngestionTypeOK, IngestTypeOK
<1>8. /\ iw'[w].pc = "ack" /\ iw'[w].bug = iw[w].bug /\ iw'[w].msg = iw[w].msg
  BY <1>1 DEF IngestionInv, IngestionTypeOK, IngestTypeOK, IngestStep
<1>9. AtWork'
  BY <1>7, <1>8 DEF IngestionInv, AtWork
<1>10. rows' = rows /\ externalId' = externalId
  BY DEF storeVars, columns
<1>11. Publishing'
  BY <1>2, <1>7, <1>8, <1>10 DEF IngestionInv, RowInv, Publishing, Announced
<1>12. iw[w].bug \in rows
  BY DEF IngestionInv, RowInv, Publishing
<1>13. Acking'
  BY <1>2, <1>7, <1>8, <1>10, <1>12 DEF IngestionInv, RowInv, Acking, Announced
<1>14. RowInv'
  BY <1>2, <1>10, <1>11, <1>12, <1>13 DEF IngestionInv, RowInv
<1>15. NoSilentLoss'
  BY <1>2, <1>6, <1>10, RequestType, LossKept
  DEF IngestionInv, Submitted, RequestSubject
<1> QED
  BY <1>5, <1>6, <1>9, <1>14, <1>15 DEF IngestionInv

LEMMA PublishCreatedStep ==
    ASSUME IngestionInv, NEW w \in Ingester, PublishCreated(w)
    PROVE  IngestionInv'
<1>1. /\ iw[w].pc = "publish" /\ PublishAbout("bug.created", iw[w].bug)
      /\ iw' = [iw EXCEPT ![w].pc = "ack"]
      /\ UNCHANGED <<storeVars, seqCounter, publishErrors, faults>>
  BY DEF PublishCreated
<1>2. ~ UNCHANGED streamVars
  <2>1. \E m \in Msg : m \notin published["bug.created"]
              /\ published'["bug.created"] = published["bug.created"] \cup {m}
    BY <1>1, PublishAboutFacts, ConsumerFacts
    DEF IngestionInv, IngestionTypeOK, PlatformTypeOK
  <2> QED
    BY <2>1 DEF streamVars
<1> QED
  BY <1>1, <1>2, AnnounceStep DEF IngestionInv, IngestionTypeOK, PlatformTypeOK

LEMMA PublishCreatedFailsStep ==
    ASSUME IngestionInv, NEW w \in Ingester, PublishCreatedFails(w)
    PROVE  IngestionInv'
<1>1. faults' \in 0..MaxFaults
  BY SameTypes DEF PublishCreatedFails, IngestionInv, IngestionTypeOK, PlatformTypeOK
<1> QED
  BY <1>1, AnnounceStep DEF PublishCreatedFails

LEMMA AckRequestStep ==
    ASSUME IngestionInv, NEW w \in Ingester, AckRequest(w)
    PROVE  IngestionInv'
<1>1. /\ iw[w].pc = "ack" /\ Ack(Ingestion, iw[w].msg)
      /\ iw' = [iw EXCEPT ![w] = Idle]
      /\ UNCHANGED <<storeVars, seqCounter, publishErrors, faults>>
  BY DEF AckRequest
<1>2. /\ StreamTypeOK' /\ Budget' /\ UNCHANGED published
      /\ \A n \in Msg \ {iw[w].msg} : Owed(n) => Owed(n)'
  BY <1>1, QueueAck, AckFacts, ConsumerFacts
  DEF IngestionInv, IngestionTypeOK, PlatformTypeOK
<1>3. IngestTypeOK'
  BY <1>1, IdleType DEF IngestionInv, IngestionTypeOK, IngestTypeOK
<1>4. IngestionTypeOK'
  BY <1>1, <1>2, <1>3, SameTypes DEF IngestionInv, IngestionTypeOK, PlatformTypeOK
<1>5. AtWork'
  BY <1>1 DEF IngestionInv, AtWork, Idle, IngestionTypeOK, IngestTypeOK
<1>6. Idle.pc = "idle"
  BY DEF Idle
<1>7. RowInv'
  BY <1>1, <1>2, <1>6, RowsKept
  DEF IngestionInv, IngestionTypeOK, storeVars, columns
<1>8. LET b == iw[w].bug
      IN  /\ b \in rows /\ ReportOf[b] = iw[w].msg.key
          /\ Announced(b) \/ b \in publishErrors
  BY <1>1 DEF IngestionInv, RowInv, Acking, AtWork
<1>9. NoSilentLoss'
  <2>1. rows' = rows /\ Published("bug.created")' = Published("bug.created")
    BY <1>1, <1>2 DEF storeVars, Published
  <2>2. \A r \in Report : Request(r) # iw[w].msg =>
            (Owed(Request(r)) => Owed(Request(r))')
    BY <1>2, RequestType
  <2>3. \A r \in Report : Request(r) = iw[w].msg =>
            \E b \in rows' : /\ ReportOf[b] = r
                             /\ Announced(b)' \/ b \in publishErrors'
    BY <1>1, <1>8, <2>1, RequestType DEF Announced
  <2>4. \A r \in Report : Submitted(r)' = Submitted(r)
    BY <1>2 DEF Submitted
  <2> QED
    BY <1>1, <2>1, <2>2, <2>3, <2>4, LossKept DEF IngestionInv
<1> QED
  BY <1>2, <1>4, <1>5, <1>7, <1>9 DEF IngestionInv

LEMMA RestartStep ==
    ASSUME IngestionInv, NEW w \in Ingester, IngesterRestarts(w)
    PROVE  IngestionInv'
<1>1. /\ Fault /\ iw' = [iw EXCEPT ![w] = Idle]
      /\ seqCounter' = [seqCounter EXCEPT ![w] = 0]
      /\ UNCHANGED <<streamVars, storeVars, publishErrors>>
  BY DEF IngesterRestarts
<1>2. IngestTypeOK'
  BY <1>1, IdleType, IngestAssumption DEF IngestionInv, IngestionTypeOK, IngestTypeOK
<1>3. IngestionTypeOK'
  BY <1>1, <1>2, SameTypes DEF IngestionInv, IngestionTypeOK, PlatformTypeOK
<1>4. /\ Budget' /\ \A n \in Msg : Owed(n) => Owed(n)'
  BY <1>1, QueueSame DEF IngestionInv, streamVars
<1>5. AtWork'
  BY <1>1 DEF IngestionInv, AtWork, Idle, IngestionTypeOK, IngestTypeOK
<1>6. Idle.pc = "idle"
  BY DEF Idle
<1>7. RowInv'
  BY <1>1, <1>6, RowsKept
  DEF IngestionInv, IngestionTypeOK, storeVars, columns, streamVars
<1>8. NoSilentLoss'
  BY <1>1, <1>4, RequestType, LossKept
  DEF IngestionInv, Submitted, Published, storeVars, streamVars
<1> QED
  BY <1>3, <1>4, <1>5, <1>7, <1>8 DEF IngestionInv

LEMMA AckWaitStep ==
    ASSUME IngestionInv, NEW m, AckWaitOver(Ingestion, m),
           UNCHANGED <<storeVars, ingestVars>>, faults' \in 0..MaxFaults
    PROVE  IngestionInv'
<1>1. /\ StreamTypeOK' /\ Budget' /\ UNCHANGED published
      /\ \A n \in Msg : Owed(n) => Owed(n)'
  BY QueueRequeue, RequeueFacts, ConsumerFacts
  DEF AckWaitOver, IngestionInv, IngestionTypeOK, PlatformTypeOK
<1>2. IngestionTypeOK'
  BY <1>1, SameTypes
  DEF IngestionInv, IngestionTypeOK, PlatformTypeOK, IngestTypeOK, ingestVars
<1>3. AtWork' /\ RowInv'
  BY <1>1 DEF IngestionInv, AtWork, RowInv, Publishing, Acking, Announced,
     Published, OneAnnouncement, ingestVars, storeVars, columns
<1>4. NoSilentLoss'
  BY <1>1, RequestType, LossKept
  DEF IngestionInv, ingestVars, storeVars, Submitted, Published
<1> QED
  BY <1>1, <1>2, <1>3, <1>4 DEF IngestionInv

LEMMA InitInv == IngestionInit => IngestionInv
<1> SUFFICES ASSUME IngestionInit PROVE IngestionInv
  OBVIOUS
<1> USE DEF IngestionInit, PlatformInit, StreamInit, StoreInit, IngestInit
<1>1. StreamTypeOK
  BY DEF StreamTypeOK
<1>2. StoreTypeOK
  BY StoreAssumption DEF StoreTypeOK, Status
<1>3. IngestTypeOK /\ faults \in 0..MaxFaults
  BY IngestAssumption, PlatformAssumption DEF IngestTypeOK
<1>4. Budget
  BY ConsumerFacts DEF Budget
<1>5. AtWork /\ Publishing /\ Acking
  BY DEF AtWork, Publishing, Acking, Idle
<1>6. Published("bug.created") = {} /\ OneAnnouncement
  BY ConsumerFacts DEF Published, OneAnnouncement
<1>7. NoSilentLoss
  BY ConsumerFacts DEF NoSilentLoss, Submitted, RequestSubject
<1> QED
  BY <1>1, <1>2, <1>3, <1>4, <1>5, <1>6, <1>7
  DEF IngestionInv, IngestionTypeOK, PlatformTypeOK, RowInv

LEMMA StepInv == IngestionInv /\ [IngestionNext]_ingestionVars => IngestionInv'
<1> SUFFICES ASSUME IngestionInv, [IngestionNext]_ingestionVars
             PROVE  IngestionInv'
  OBVIOUS
<1>1. CASE UNCHANGED ingestionVars
  BY <1>1 DEF ingestionVars, platformVars, streamVars, storeVars, columns,
     ingestVars, IngestionInv, IngestionTypeOK, PlatformTypeOK, StreamTypeOK,
     StoreTypeOK, IngestTypeOK, Budget, AtWork, RowInv, Publishing, Acking,
     Announced, Published, OneAnnouncement, NoSilentLoss, Submitted, RowsOf,
     Outstanding, Exhausted, Spent
<1>2. CASE \E r \in Report : Submit(r) /\ UNCHANGED ingestVars
  BY <1>2, SubmitStep
<1>3. ASSUME NEW w \in Ingester, IngestWork(w)
      PROVE  IngestionInv'
  BY <1>3, ReceiveStep, RejectMalformedStep, PersistStep, PersistRejectedStep,
     PublishCreatedStep, AckRequestStep DEF IngestWork
<1>4. ASSUME NEW w \in Ingester, IngestFaults(w)
      PROVE  IngestionInv'
  BY <1>4, PersistFailsStep, PublishCreatedFailsStep, RestartStep DEF IngestFaults
<1>5. ASSUME NEW m \in unacked[Ingestion], RequestExpires(m) \/ RequestLate(m)
      PROVE  IngestionInv'
  <2>1. faults' \in 0..MaxFaults
    BY <1>5, SameTypes
    DEF RequestExpires, RequestLate, IngestionInv, IngestionTypeOK, PlatformTypeOK
  <2>2. AckWaitOver(Ingestion, m) /\ UNCHANGED <<storeVars, ingestVars>>
    BY <1>5 DEF RequestExpires, RequestLate
  <2> QED
    BY <2>1, <2>2, AckWaitStep
<1> QED
  BY <1>1, <1>2, <1>3, <1>4, <1>5 DEF IngestionNext

-----------------------------------------------------------------------------
(* The invariant holds of every behaviour of the ingestion worker ...      *)
THEOREM IngestionInvariant == IngestionSpec => []IngestionInv
<1>1. IngestionInit => IngestionInv
  BY InitInv
<1>2. IngestionInv /\ [IngestionNext]_ingestionVars => IngestionInv'
  BY StepInv
<1> QED
  BY <1>1, <1>2, PTL DEF IngestionSpec

(* ... and with it: the types,                                             *)
THEOREM IngestionTypes == IngestionSpec => []IngestionTypeOK
<1>1. IngestionInv => IngestionTypeOK
  BY DEF IngestionInv
<1> QED
  BY <1>1, IngestionInvariant, PTL

(* a row is announced at most once (handleIngestRequest, main.go:331-342), *)
THEOREM AnnouncedOnce == IngestionSpec => []OneAnnouncement
<1>1. IngestionInv => OneAnnouncement
  BY DEF IngestionInv, RowInv
<1> QED
  BY <1>1, IngestionInvariant, PTL

(* after it was committed, and under the external id it is stored with,    *)
THEOREM AnnouncedIsStored == IngestionSpec => []AnnouncedAsStored
<1>1. IngestionInv => AnnouncedAsStored
  BY DEF IngestionInv, RowInv, Publishing, AnnouncedAsStored
<1> QED
  BY <1>1, IngestionInvariant, PTL

(* and no submitted report is lost without a trace: the ack at main.go:351 *)
(* comes after the announcement, or after its failure was logged.          *)
THEOREM ReportsAccountedFor == IngestionSpec => []NoSilentLoss
<1>1. IngestionInv => NoSilentLoss
  BY DEF IngestionInv
<1> QED
  BY <1>1, IngestionInvariant, PTL
=============================================================================
