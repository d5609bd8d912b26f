------------------------------ MODULE DedupEngine ------------------------------
(***************************************************************************)
(* services/dedup-engine/main.py: the replicas that read bug.created,      *)
(* search the vector store for a similar bug of the same organisation, and *)
(* either close the bug as a duplicate of the best match or store its      *)
(* embedding and pass it on with bug.classified.                           *)
(*                                                                         *)
(* process_bug is one action per awaited call.  Each replica handles one   *)
(* message at a time (`async for'), but search and store of two replicas   *)
(* interleave, and a message is processed again when its handler raises,   *)
(* dies or is slower than AckWait.                                         *)
(***************************************************************************)
EXTENDS Platform

CONSTANTS Org,          \* the organisation of each submission
          SameText,     \* pairs of submissions with the same embedding text
          Close,        \* pairs whose similarity reaches the threshold
          Deduper       \* engine replicas

VARIABLES dw,           \* what each replica is doing
          vectors       \* bugs whose embedding is in the Milvus collection

dedupVars == <<dw, vectors>>

ASSUME DedupAssumption ==
    /\ Org \in [Report -> {Org[r] : r \in Report}]
    /\ SameText \subseteq Close /\ Close \subseteq Report \X Report
    /\ \A r \in Report : <<r, r>> \in SameText
    /\ Deduper # {}

Dedup == "dedup-engine"

(* A replica at pc with message m, and canonical[`bug_id'] or NoBug.       *)
DedupStep ==
    [pc : {"search", "mark", "deduplicated", "store", "storeId",
           "classified", "ack"},
     msg : Msg, bug : Bug, match : Bug \cup {NoBug}]

DedupTypeOK ==
    /\ dw \in [Deduper -> {Idle} \cup DedupStep]
    /\ vectors \in SUBSET Bug

DedupInit ==
    /\ dw = [d \in Deduper |-> Idle]
    /\ vectors = {}

OrgOf(b) == Org[ReportOf[b]]

(* Mutation of Hits: the search is not confined to the organisation.       *)
HitsAnywhere(b) == {v \in vectors : <<ReportOf[v], ReportOf[b]>> \in Close}

(* search_similar is confined to the bug's organisation, and duplicates    *)
(* keeps what reaches the threshold.  The hits come best first: a bug with *)
(* the same text (the bug itself, if it is stored) before any other.       *)
Hits(b) == {v \in vectors : /\ OrgOf(v) = OrgOf(b)
                            /\ <<ReportOf[v], ReportOf[b]>> \in Close}

BestHits(b) ==
    LET same == {v \in Hits(b) : <<ReportOf[v], ReportOf[b]>> \in SameText}
    IN  IF same # {} THEN same ELSE Hits(b)

-----------------------------------------------------------------------------
ReceiveCreated(d, m) ==
    /\ dw[d].pc = "idle" /\ m.key \in Bug
    /\ Deliver(Dedup, m)
    /\ dw' = [dw EXCEPT ![d] =
                [pc |-> "search", msg |-> m, bug |-> m.key, match |-> NoBug]]
    /\ UNCHANGED <<storeVars, vectors, faults>>

(* Mutations of Search: the bug is stored before the search and found by   *)
(* it, or the handler does not return when there is no hit.                *)
StoredThenSearched(d) ==
    /\ dw[d].pc = "search"
    /\ vectors' = vectors \cup {dw[d].bug}
    /\ \E v \in {dw[d].bug} \cup BestHits(dw[d].bug) :
            dw' = [dw EXCEPT ![d].pc = "mark", ![d].match = v]
    /\ UNCHANGED <<streamVars, storeVars, faults>>

SearchWaitsForHit(d) ==
    /\ dw[d].pc = "search"
    /\ \E v \in BestHits(dw[d].bug) :
            dw' = [dw EXCEPT ![d].pc = "mark", ![d].match = v]
    /\ UNCHANGED <<streamVars, storeVars, vectors, faults>>

(* Steps 1 to 3: embed, search, compare.                                   *)
Search(d) ==
    /\ dw[d].pc = "search"
    /\ \/ \E v \in BestHits(dw[d].bug) :
            dw' = [dw EXCEPT ![d].pc = "mark", ![d].match = v]
       \/ BestHits(dw[d].bug) = {} /\ dw' = [dw EXCEPT ![d].pc = "store"]
    /\ UNCHANGED <<streamVars, storeVars, vectors, faults>>

(* A failing Milvus search is logged and answered with no match.           *)
SearchFails(d) ==
    /\ dw[d].pc = "search" /\ Fault
    /\ dw' = [dw EXCEPT ![d].pc = "store"]
    /\ UNCHANGED <<streamVars, storeVars, vectors>>

Mark(d) ==
    /\ dw[d].pc = "mark"
    /\ Sql(d, MarkDuplicate(dw[d].bug, dw[d].match))
    /\ dw' = [dw EXCEPT ![d].pc = "deduplicated"]
    /\ UNCHANGED <<streamVars, vectors, faults>>

(* Mutation of PublishDeduplicated: the branch falls through to the other. *)
DuplicateFallsThrough(d) ==
    /\ dw[d].pc = "deduplicated"
    /\ PublishAbout("bug.deduplicated", dw[d].bug)
    /\ dw' = [dw EXCEPT ![d].pc = "store"]
    /\ UNCHANGED <<storeVars, vectors, faults>>

PublishDeduplicated(d) ==
    /\ dw[d].pc = "deduplicated"
    /\ PublishAbout("bug.deduplicated", dw[d].bug)
    /\ dw' = [dw EXCEPT ![d].pc = "ack"]
    /\ UNCHANGED <<storeVars, vectors, faults>>

StoreEmbedding(d) ==
    /\ dw[d].pc = "store"
    /\ vectors' = vectors \cup {dw[d].bug}
    /\ dw' = [dw EXCEPT ![d].pc = "storeId"]
    /\ UNCHANGED <<streamVars, storeVars, faults>>

(* A failing insert is logged, and the embedding id returned all the same. *)
StoreEmbeddingFails(d) ==
    /\ dw[d].pc = "store" /\ Fault
    /\ dw' = [dw EXCEPT ![d].pc = "storeId"]
    /\ UNCHANGED <<streamVars, storeVars, vectors>>

StoreId(d) ==
    /\ dw[d].pc = "storeId"
    /\ Sql(d, StoreEmbeddingId(dw[d].bug))
    /\ dw' = [dw EXCEPT ![d].pc = "classified"]
    /\ UNCHANGED <<streamVars, vectors, faults>>

PublishClassified(d) ==
    /\ dw[d].pc = "classified"
    /\ PublishAbout("bug.classified", dw[d].bug)
    /\ dw' = [dw EXCEPT ![d].pc = "ack"]
    /\ UNCHANGED <<storeVars, vectors, faults>>

AckCreated(d) ==
    /\ dw[d].pc = "ack"
    /\ Ack(Dedup, dw[d].msg)
    /\ dw' = [dw EXCEPT ![d] = Idle]
    /\ UNCHANGED <<storeVars, vectors, faults>>

(* Mutation of DedupRaises: the message is acked whatever happened.        *)
RaisedAndAcked(d) ==
    /\ dw[d].pc \notin {"idle", "store"} /\ Fault
    /\ Ack(Dedup, dw[d].msg)
    /\ dw' = [dw EXCEPT ![d] = Idle]
    /\ UNCHANGED <<storeVars, vectors>>

(* A call raises (the embedding API, PostgreSQL, the publish, the ack):    *)
(* start() catches it and naks.                                            *)
DedupRaises(d) ==
    /\ dw[d].pc \notin {"idle", "store"} /\ Fault
    /\ Requeue(Dedup, dw[d].msg)
    /\ dw' = [dw EXCEPT ![d] = Idle]
    /\ UNCHANGED <<storeVars, vectors>>

(* The replica dies and is restarted; nobody answers for its message.      *)
DeduperRestarts(d) ==
    /\ dw[d].pc # "idle" /\ Fault
    /\ dw' = [dw EXCEPT ![d] = Idle]
    /\ UNCHANGED <<streamVars, storeVars, vectors>>

BeingDeduped(m) == \E d \in Deduper : dw[d].pc # "idle" /\ dw[d].msg = m

CreatedExpires(m) ==
    /\ ~BeingDeduped(m) /\ AckWaitOver(Dedup, m)
    /\ UNCHANGED <<storeVars, dedupVars, faults>>

CreatedLate(m) ==
    /\ BeingDeduped(m) /\ Fault /\ AckWaitOver(Dedup, m)
    /\ UNCHANGED <<storeVars, dedupVars>>

DedupWork(d) ==
    \/ \E m \in ready[Dedup] : ReceiveCreated(d, m)
    \/ Search(d) \/ Mark(d) \/ PublishDeduplicated(d)
    \/ StoreEmbedding(d) \/ StoreId(d) \/ PublishClassified(d)
    \/ AckCreated(d)

DedupFaults(d) ==
    \/ SearchFails(d) \/ StoreEmbeddingFails(d)
    \/ DedupRaises(d) \/ DeduperRestarts(d)

-----------------------------------------------------------------------------
(* The engine on its own.  Ingestion inserts a row and announces it once   *)
(* (IngestionWorker!OneAnnouncement and AnnouncedAsStored).                *)
Ingested(b) ==
    /\ \E x \in ExtId : /\ \A y \in ExtId : y < x => ~KeysFree(b, y)
                        /\ InsertBug(b, x)
    /\ PublishAbout("bug.created", b)
    /\ UNCHANGED <<dedupVars, faults>>

dedupEngineVars == <<platformVars, dedupVars>>

DedupEngineInit == PlatformInit /\ DedupInit

DedupEngineNext ==
    \/ \E b \in Bug : Ingested(b)
    \/ \E d \in Deduper : DedupWork(d) \/ DedupFaults(d)
    \/ \E m \in unacked[Dedup] : CreatedExpires(m) \/ CreatedLate(m)

DedupFairness ==
    /\ \A d \in Deduper : WF_dedupEngineVars(DedupWork(d))
    /\ WF_dedupEngineVars(\E m \in unacked[Dedup] : CreatedExpires(m))

DedupEngineSpec == DedupEngineInit /\ [][DedupEngineNext]_dedupEngineVars
LiveDedupEngineSpec == DedupEngineSpec /\ DedupFairness

-----------------------------------------------------------------------------
DedupEngineTypeOK == PlatformTypeOK /\ DedupTypeOK

IsDuplicate(b) == canonical[b] # NoBug

(* The bug.created message of b was handed to the engine more than once.   *)
Redelivered(b) == \E m \in Msg : m.key = b /\ deliveries[Dedup][m] >= 2

(* A duplicate points at a bug the engine can find again: a stored row of  *)
(* the same organisation, with its embedding in the collection.  In        *)
(* particular the foreign key on canonical_id never refuses mark_duplicate.*)
CanonicalIndexed ==
    \A b \in Bug : IsDuplicate(b) =>
        /\ b \in rows /\ canonical[b] \in rows \cap vectors
        /\ OrgOf(canonical[b]) = OrgOf(b)

(* A duplicate of a duplicate (a bug closed in favour of one that is       *)
(* itself closed as a duplicate, or of itself) can come about only when    *)
(* the canonical bug was processed twice: first stored, then matched.      *)
ChainsNeedRedelivery ==
    \A b \in Bug : IsDuplicate(b) /\ IsDuplicate(canonical[b]) =>
        Redelivered(canonical[b])

(* A bug is both passed on for scoring and closed as a duplicate only when *)
(* it was processed twice.                                                 *)
OneVerdictPerDelivery ==
    \A b \in Bug : b \in Published("bug.classified") /\ IsDuplicate(b) =>
        Redelivered(b)

(* No announced bug is forgotten, whatever fails: either the engine is     *)
(* still owed its event, or the verdict is out, and the verdict that is    *)
(* out is the one the row shows (when every replica has its database).     *)
NoBugForgotten ==
    /\ \A m \in published["bug.created"] :
        \/ m \in Outstanding(Dedup)
        \/ m.key \in Published("bug.classified")
        \/ m.key \in Published("bug.deduplicated")
    /\ Deduper \cap Detached = {} =>
        /\ \A b \in Published("bug.classified") : embedded[b]
        /\ \A b \in Published("bug.deduplicated") : IsDuplicate(b)

(* Every announced bug gets its verdict.                                   *)
VerdictReached ==
    \A b \in Bug : b \in Published("bug.created") ~>
        b \in Published("bug.classified") \cup Published("bug.deduplicated")
=============================================================================
