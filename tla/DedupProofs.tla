------------------------------ MODULE DedupProofs ------------------------------
(***************************************************************************)
(* DedupEngine's safety properties hold for any number of replicas, bugs,  *)
(* organisations, texts and faults.                                        *)
(*                                                                         *)
(* What carries them is a statement about the first delivery: as long as   *)
(* the event of a bug was delivered only once, a single replica works on   *)
(* the bug, it has taken one branch of process_bug, and the vector store,  *)
(* the row and the stream show the effects of that branch alone.           *)
(***************************************************************************)
EXTENDS DedupEngine, IngestionProofs

CreatedSubject == "bug.created"

Busy(d) == dw[d].pc # "idle"

(* One event per bug, about a row; what waits or is held was published,    *)
(* and what was not published was not delivered.                           *)
Feed ==
    /\ ready[Dedup] \subseteq published[CreatedSubject]
    /\ unacked[Dedup] \subseteq published[CreatedSubject]
    /\ Published(CreatedSubject) \subseteq rows
    /\ \A m, n \in published[CreatedSubject] : m.key = n.key => m = n

(* A busy replica works on the bug of a message delivered to it.           *)
Handling ==
    \A d \in Deduper : Busy(d) =>
        /\ dw[d].msg \in published[CreatedSubject]
        /\ dw[d].bug = dw[d].msg.key
        /\ deliveries[Dedup][dw[d].msg] > 0

(* Embeddings belong to rows; a match is one of the bug's organisation.    *)
Matches ==
    /\ vectors \subseteq rows
    /\ \A d \in Deduper : dw[d].pc = "mark" =>
            dw[d].match \in vectors /\ OrgOf(dw[d].match) = OrgOf(dw[d].bug)

(* No branch of process_bug has left a trace of b.                         *)
Untouched(b) ==
    b \notin vectors /\ ~IsDuplicate(b) /\ b \notin Published("bug.classified")

FirstDelivery ==
    /\ \A b \in Bug : b \notin Published(CreatedSubject) => Untouched(b)
    /\ \A m \in published[CreatedSubject] :
        deliveries[Dedup][m] = 0 => Untouched(m.key)
    /\ \A m \in published[CreatedSubject] : deliveries[Dedup][m] < 2 =>
        /\ m.key \in vectors \cup Published("bug.classified")
                => ~IsDuplicate(m.key)
        /\ \A d, e \in Deduper :
                Busy(d) /\ Busy(e) /\ dw[d].msg = m /\ dw[e].msg = m => d = e
        /\ \A d \in Deduper : Busy(d) /\ dw[d].msg = m =>
            /\ dw[d].pc = "search" => Untouched(m.key)
            /\ dw[d].pc \in {"mark", "deduplicated"} =>
                    m.key \notin vectors \cup Published("bug.classified")
            /\ dw[d].pc \in {"store", "storeId", "classified"} =>
                    ~IsDuplicate(m.key)

(* The verdict is in the row before it is published, and published before  *)
(* the ack; a bug is judged only after it was announced.                   *)
Verdicts ==
    /\ Published("bug.classified") \cup Published("bug.deduplicated")
            \subseteq Published(CreatedSubject)
    /\ Deduper \cap Detached = {} => \A d \in Deduper :
        /\ dw[d].pc = "deduplicated" => IsDuplicate(dw[d].bug)
        /\ dw[d].pc = "classified" => embedded[dw[d].bug]
    /\ \A d \in Deduper : dw[d].pc = "ack" =>
        dw[d].bug \in Published("bug.classified") \cup Published("bug.deduplicated")

DedupInv ==
    /\ DedupEngineTypeOK /\ Feed /\ Handling /\ Matches /\ CanonicalIndexed
    /\ FirstDelivery /\ Verdicts /\ NoBugForgotten

-----------------------------------------------------------------------------
LEMMA DedupConsumer ==
    /\ Dedup \in Consumer /\ Filter[Dedup] = CreatedSubject
    /\ CreatedSubject \in Subject /\ "bug.classified" \in Subject
    /\ "bug.deduplicated" \in Subject
    /\ CreatedSubject # "bug.classified" /\ CreatedSubject # "bug.deduplicated"
    /\ \A m : ~Spent(Dedup, m)
    /\ \A n \in Nat : OneMore(Dedup, n) = IF n < 2 THEN n + 1 ELSE n
BY DEF Dedup, Consumer, CreatedSubject, Subject, Filter, Limited, OneMore, Spent

(* A statement leaves the types alone; mark_duplicate sets the canonical   *)
(* bug of one row, store_embedding_id the flag of one row, or, without a   *)
(* database, nothing.                                                      *)
LEMMA MarkFacts ==
    ASSUME StoreTypeOK, NEW d, NEW b \in rows, NEW c \in Bug,
           Sql(d, MarkDuplicate(b, c))
    PROVE  /\ StoreTypeOK' /\ UNCHANGED <<rows, embedded>>
           /\ \A a \in Bug \ {b} : canonical'[a] = canonical[a]
           /\ canonical'[b] = canonical[b] \/ canonical'[b] = c
           /\ d \notin Detached => canonical'[b] = c
<1>1. CASE d \in Detached
  BY <1>1 DEF Sql, storeVars, columns, StoreTypeOK
<1>2. CASE d \notin Detached
  <2>1. /\ canonical' = [canonical EXCEPT ![b] = c]
        /\ status' = [status EXCEPT ![b] = "closed"]
        /\ UNCHANGED <<rows, externalId, embedded, scored, analyzed, activity>>
    BY <1>2 DEF Sql, MarkDuplicate, Column
  <2>2. "closed" \in Status
    BY DEF Status
  <2> QED
    BY <2>1, <2>2 DEF StoreTypeOK
<1> QED
  BY <1>1, <1>2

LEMMA StoreIdFacts ==
    ASSUME StoreTypeOK, NEW d, NEW b \in rows, Sql(d, StoreEmbeddingId(b))
    PROVE  /\ StoreTypeOK' /\ UNCHANGED <<rows, canonical>>
           /\ \A a \in Bug : embedded[a] => embedded'[a]
           /\ d \notin Detached => embedded'[b]
<1>1. CASE d \in Detached
  BY <1>1 DEF Sql, storeVars, columns, StoreTypeOK
<1>2. CASE d \notin Detached
  <2>1. /\ embedded' = [embedded EXCEPT ![b] = TRUE]
        /\ UNCHANGED <<rows, externalId, status, canonical, scored, analyzed,
                       activity>>
    BY <1>2 DEF Sql, StoreEmbeddingId, Column
  <2> QED
    BY <2>1 DEF StoreTypeOK
<1> QED
  BY <1>1, <1>2

(* What a busy replica works on.                                           *)
LEMMA OwnBug ==
    ASSUME DedupInv, NEW d \in Deduper, Busy(d)
    PROVE  /\ dw[d] \in DedupStep /\ dw[d].bug \in Bug /\ dw[d].msg \in Msg
           /\ dw[d].bug \in rows \cap Published(CreatedSubject)
           /\ dw[d].msg \in published[CreatedSubject]
           /\ dw[d].msg.key = dw[d].bug
           /\ deliveries[Dedup][dw[d].msg] > 0
           /\ \A m \in published[CreatedSubject] :
                    m.key = dw[d].bug => m = dw[d].msg
<1>1. dw[d] \in DedupStep
  BY DEF DedupInv, DedupEngineTypeOK, DedupTypeOK, Busy, Idle
<1>2. dw[d].bug \in Bug /\ dw[d].msg \in Msg
  BY <1>1 DEF DedupStep
<1>3. /\ dw[d].msg \in published[CreatedSubject]
      /\ dw[d].msg.key = dw[d].bug
      /\ deliveries[Dedup][dw[d].msg] > 0
  BY DEF DedupInv, Handling
<1>4. dw[d].bug \in Published(CreatedSubject)
  BY <1>3 DEF Published
<1> QED
  BY <1>1, <1>2, <1>3, <1>4 DEF DedupInv, Feed

LEMMA VerdictBugs ==
    ASSUME DedupInv
    PROVE  /\ Published("bug.classified") \subseteq Bug
           /\ Published("bug.deduplicated") \subseteq Bug
BY DEF DedupInv, Verdicts, Feed, DedupEngineTypeOK, PlatformTypeOK, StoreTypeOK

(* Replica d goes on to p with the same message; the others stand still.   *)
Moves(d, p) ==
    /\ dw'[d].pc = p /\ p # "idle"
    /\ dw'[d].msg = dw[d].msg /\ dw'[d].bug = dw[d].bug
    /\ \A e \in Deduper \ {d} : dw'[e] = dw[e]

LEMMA MoveFacts ==
    ASSUME DedupInv, NEW d \in Deduper, Busy(d),
           NEW p \in {"search", "mark", "deduplicated", "store", "storeId",
                      "classified", "ack"},
           dw' = [dw EXCEPT ![d].pc = p]
    PROVE  Moves(d, p) /\ dw' \in [Deduper -> {Idle} \cup DedupStep]
<1>1. dw[d] \in DedupStep /\ dw \in [Deduper -> {Idle} \cup DedupStep]
  BY OwnBug DEF DedupInv, DedupEngineTypeOK, DedupTypeOK
<1>2. [dw[d] EXCEPT !.pc = p] \in DedupStep
  BY <1>1 DEF DedupStep
<1>3. dw' \in [Deduper -> {Idle} \cup DedupStep]
  BY <1>1, <1>2
<1>4. /\ dw'[d].pc = p /\ dw'[d].msg = dw[d].msg /\ dw'[d].bug = dw[d].bug
      /\ \A e \in Deduper \ {d} : dw'[e] = dw[e]
  BY <1>1 DEF DedupStep
<1> QED
  BY <1>3, <1>4 DEF Moves

-----------------------------------------------------------------------------
(* The conjuncts that a step of a busy replica keeps because it touches    *)
(* nothing but its own bug.                                                *)
LEMMA HandlingKept ==
    ASSUME DedupInv, NEW d \in Deduper, Busy(d), NEW p, Moves(d, p),
           published'[CreatedSubject] = published[CreatedSubject],
           UNCHANGED deliveries
    PROVE  Handling'
BY OwnBug DEF DedupInv, Handling, Busy, Moves

LEMMA FirstDeliveryKept ==
    ASSUME DedupInv, NEW d \in Deduper, Busy(d), NEW p, Moves(d, p), p # "search",
           published'[CreatedSubject] = published[CreatedSubject],
           UNCHANGED deliveries,
           vectors' \subseteq vectors \cup {dw[d].bug},
           Published("bug.classified")'
                \subseteq Published("bug.classified") \cup {dw[d].bug},
           \A b \in Bug \ {dw[d].bug} : canonical'[b] = canonical[b],
           deliveries[Dedup][dw[d].msg] < 2 =>
              /\ dw[d].bug \in vectors' \cup Published("bug.classified")'
                    => canonical'[dw[d].bug] = NoBug
              /\ p \in {"mark", "deduplicated"} =>
                    dw[d].bug \notin vectors' \cup Published("bug.classified")'
              /\ p \in {"store", "storeId", "classified"} =>
                    canonical'[dw[d].bug] = NoBug
    PROVE  FirstDelivery'
<1> DEFINE o == dw[d].msg
           B == dw[d].bug
           V == vectors' \cup Published("bug.classified")'
<1>1. /\ B \in Bug /\ B \in Published(CreatedSubject)
      /\ o \in published[CreatedSubject] /\ o.key = B
      /\ deliveries[Dedup][o] > 0
      /\ \A m \in published[CreatedSubject] : m.key = B => m = o
  BY OwnBug
<1>2. Published(CreatedSubject)' = Published(CreatedSubject)
  BY DEF Published
<1>3. \A b \in Bug : b # B =>
        /\ canonical'[b] = canonical[b]
        /\ b \in V => b \in vectors \cup Published("bug.classified")
  OBVIOUS
<1>4. FirstDelivery
  BY DEF DedupInv
<1>5. \A b \in Bug : b \notin Published(CreatedSubject)' => Untouched(b)'
  BY <1>1, <1>2, <1>3, <1>4 DEF FirstDelivery, Untouched, IsDuplicate
<1>6. \A m \in published[CreatedSubject] : m.key \in Bug
  BY DEF DedupInv, Feed, Published, DedupEngineTypeOK, PlatformTypeOK, StoreTypeOK
<1>7. \A m \in published[CreatedSubject] :
        deliveries[Dedup][m] = 0 => Untouched(m.key)'
  BY <1>1, <1>3, <1>4, <1>6 DEF FirstDelivery, Untouched, IsDuplicate
<1>8. ASSUME NEW m \in published[CreatedSubject], deliveries[Dedup][m] < 2
      PROVE  /\ m.key \in V => canonical'[m.key] = NoBug
             /\ \A a, e \in Deduper : dw'[a].pc # "idle" /\ dw'[e].pc # "idle"
                    /\ dw'[a].msg = m /\ dw'[e].msg = m => a = e
             /\ \A e \in Deduper : dw'[e].pc # "idle" /\ dw'[e].msg = m =>
                /\ dw'[e].pc = "search" => Untouched(m.key)'
                /\ dw'[e].pc \in {"mark", "deduplicated"} => m.key \notin V
                /\ dw'[e].pc \in {"store", "storeId", "classified"} =>
                        canonical'[m.key] = NoBug
  <2>1. \A e \in Deduper :
            /\ (dw'[e].pc # "idle") = (dw[e].pc # "idle")
            /\ dw'[e].pc # "idle" => dw'[e].msg = dw[e].msg
    BY DEF Moves, Busy
  <2>2. \A a, e \in Deduper : dw'[a].pc # "idle" /\ dw'[e].pc # "idle"
            /\ dw'[a].msg = m /\ dw'[e].msg = m => a = e
    BY <1>4, <1>8, <2>1 DEF FirstDelivery, Busy
  <2>3. CASE m = o
    <3>1. \A e \in Deduper : dw'[e].pc # "idle" /\ dw'[e].msg = m => e = d
      BY <2>2, <2>3 DEF Moves
    <3> QED
      BY <1>1, <1>8, <2>2, <2>3, <3>1 DEF Moves
  <2>4. CASE m # o
    <3>1. m.key \in Bug /\ m.key # B
      BY <1>1, <1>6, <2>4
    <3>2. /\ m.key \in V => canonical'[m.key] = NoBug
          /\ Untouched(m.key) => Untouched(m.key)'
          /\ m.key \in V => m.key \in vectors \cup Published("bug.classified")
          /\ canonical'[m.key] = canonical[m.key]
      BY <1>3, <1>4, <1>8, <3>1 DEF FirstDelivery, Untouched, IsDuplicate
    <3>3. \A e \in Deduper : dw'[e].pc # "idle" /\ dw'[e].msg = m =>
                e # d /\ dw'[e] = dw[e]
      BY <2>4 DEF Moves
    <3>4. \A e \in Deduper : dw[e].pc # "idle" /\ dw[e].msg = m =>
            /\ dw[e].pc = "search" => Untouched(m.key)
            /\ dw[e].pc \in {"mark", "deduplicated"} =>
                    m.key \notin vectors \cup Published("bug.classified")
            /\ dw[e].pc \in {"store", "storeId", "classified"} =>
                    canonical[m.key] = NoBug
      BY <1>4, <1>8 DEF FirstDelivery, Busy, IsDuplicate
    <3> QED
      BY <2>2, <3>2, <3>3, <3>4
  <2> QED
    BY <2>3, <2>4
<1> QED
  BY <1>5, <1>7, <1>8 DEF FirstDelivery, IsDuplicate, Busy

(* The rest of Feed, of Matches, of CanonicalIndexed and of Verdicts.      *)
LEMMA FeedKept ==
    ASSUME Feed, published'[CreatedSubject] = published[CreatedSubject],
           ready'[Dedup] \subseteq ready[Dedup] \cup unacked[Dedup],
           unacked'[Dedup] \subseteq ready[Dedup] \cup unacked[Dedup],
           rows' = rows
    PROVE  Feed'
BY DEF Feed, Published

LEMMA ForgottenKept ==
    ASSUME DedupInv,
           published'[CreatedSubject] = published[CreatedSubject],
           \A m \in Outstanding(Dedup) : m \in Outstanding(Dedup)'
                \/ m.key \in Published("bug.classified")
                \/ m.key \in Published("bug.deduplicated"),
           Published("bug.classified") \subseteq Published("bug.classified")',
           Published("bug.deduplicated") \subseteq Published("bug.deduplicated")',
           Deduper \cap Detached = {} =>
                /\ \A b \in Published("bug.classified")' : embedded'[b]
                /\ \A b \in Published("bug.deduplicated")' : canonical'[b] # NoBug
    PROVE  NoBugForgotten'
BY DEF DedupInv, NoBugForgotten, CreatedSubject, IsDuplicate

(* A replica that stands still keeps its match, and what it has put in the *)
(* row stays there.                                                        *)
LEMMA MatchesKept ==
    ASSUME DedupInv, NEW d \in Deduper, vectors \subseteq vectors', vectors' \subseteq rows',
           \A e \in Deduper \ {d} : dw'[e] = dw[e],
           dw'[d].pc = "mark" => dw'[d].match \in vectors'
                                 /\ OrgOf(dw'[d].match) = OrgOf(dw'[d].bug)
    PROVE  Matches'
BY DEF DedupInv, Matches, OrgOf

LEMMA VerdictsKept ==
    ASSUME DedupInv, NEW d \in Deduper,
           \A e \in Deduper \ {d} : dw'[e] = dw[e],
           \A b \in Bug : embedded[b] => embedded'[b],
           \A b \in Bug : canonical[b] # NoBug => canonical'[b] # NoBug,
           Published("bug.classified") \subseteq Published("bug.classified")',
           Published("bug.deduplicated") \subseteq Published("bug.deduplicated")',
           Published("bug.classified")' \cup Published("bug.deduplicated")'
                \subseteq Published(CreatedSubject)',
           Deduper \cap Detached = {} =>
                /\ dw'[d].pc = "deduplicated" => canonical'[dw'[d].bug] # NoBug
                /\ dw'[d].pc = "classified" => embedded'[dw'[d].bug],
           dw'[d].pc = "ack" =>
                \/ dw'[d].bug \in Published("bug.classified")'
                \/ dw'[d].bug \in Published("bug.deduplicated")'
    PROVE  Verdicts'
<1>1. \A e \in Deduper : dw[e].pc # "idle" => dw[e].bug \in Bug
  BY OwnBug DEF Busy
<1> QED
  BY <1>1 DEF DedupInv, Verdicts, IsDuplicate

LEMMA IndexedKept ==
    ASSUME DedupInv, UNCHANGED canonical, vectors \subseteq vectors',
           rows \subseteq rows'
    PROVE  CanonicalIndexed'
<1>1. \A b \in Bug : canonical[b] # NoBug => canonical[b] \in Bug
  BY DEF DedupInv, DedupEngineTypeOK, PlatformTypeOK, StoreTypeOK
<1> QED
  BY <1>1 DEF DedupInv, CanonicalIndexed, IsDuplicate, OrgOf

-----------------------------------------------------------------------------
(* Steps of one replica that leave the stream and the database alone:      *)
(* search, and the insertion into the vector store.                        *)
LEMMA SearchSteps ==
    ASSUME DedupInv, NEW d \in Deduper, Search(d) \/ SearchFails(d)
    PROVE  DedupInv'
<1>1. /\ dw[d].pc = "search" /\ UNCHANGED <<streamVars, storeVars, vectors>>
      /\ faults' \in 0..MaxFaults
  BY SameTypes DEF Search, SearchFails, DedupInv, DedupEngineTypeOK, PlatformTypeOK
<1>2. Busy(d)
  BY <1>1 DEF Busy
<1>3. /\ dw[d] \in DedupStep /\ dw[d].bug \in Bug
      /\ dw[d].msg \in published[CreatedSubject] /\ dw[d].msg.key = dw[d].bug
  BY <1>2, OwnBug
<1>4. PICK p \in {"mark", "store"} :
        /\ Moves(d, p) /\ dw' \in [Deduper -> {Idle} \cup DedupStep]
        /\ p = "mark" => /\ dw'[d].match \in vectors
                         /\ OrgOf(dw'[d].match) = OrgOf(dw[d].bug)
  <2>1. CASE dw' = [dw EXCEPT ![d].pc = "store"]
    <3>1. Moves(d, "store") /\ dw' \in [Deduper -> {Idle} \cup DedupStep]
      BY <1>2, <2>1, MoveFacts
    <3> QED
      BY <3>1
  <2>2. CASE \E v \in BestHits(dw[d].bug) :
                dw' = [dw EXCEPT ![d].pc = "mark", ![d].match = v]
    <3>1. PICK v \in BestHits(dw[d].bug) :
                dw' = [dw EXCEPT ![d].pc = "mark", ![d].match = v]
      BY <2>2
    <3>2. v \in vectors /\ OrgOf(v) = OrgOf(dw[d].bug) /\ v \in Bug
      BY DEF BestHits, Hits, DedupInv, DedupEngineTypeOK, DedupTypeOK
    <3>3. dw \in [Deduper -> {Idle} \cup DedupStep]
      BY DEF DedupInv, DedupEngineTypeOK, DedupTypeOK
    <3>4. [dw[d] EXCEPT !.pc = "mark", !.match = v] \in DedupStep
      BY <1>3, <3>2 DEF DedupStep
    <3>5. dw' = [dw EXCEPT ![d] = [dw[d] EXCEPT !.pc = "mark", !.match = v]]
      BY <3>1, <3>3
    <3>6. dw' \in [Deduper -> {Idle} \cup DedupStep]
      BY <3>3, <3>4, <3>5
    <3>7. /\ dw'[d].pc = "mark" /\ dw'[d].match = v
          /\ dw'[d].msg = dw[d].msg /\ dw'[d].bug = dw[d].bug
          /\ \A e \in Deduper \ {d} : dw'[e] = dw[e]
      BY <1>3, <3>3, <3>5 DEF DedupStep
    <3> QED
      BY <3>2, <3>6, <3>7 DEF Moves
  <2> QED
    BY <2>1, <2>2 DEF Search, SearchFails
<1>5. DedupEngineTypeOK'
  BY <1>1, <1>4, SameTypes
  DEF DedupInv, DedupEngineTypeOK, PlatformTypeOK, DedupTypeOK
<1>6. /\ UNCHANGED <<published, ready, unacked, deliveries>>
      /\ UNCHANGED <<rows, canonical, embedded>>
      /\ \A s \in Subject : Published(s)' = Published(s)
  BY <1>1 DEF streamVars, storeVars, columns, Published
<1>7. Feed' /\ Handling'
  BY <1>2, <1>4, <1>6, FeedKept, HandlingKept DEF DedupInv
<1>8. Matches'
  BY <1>1, <1>4, <1>6, MatchesKept DEF Moves, DedupInv, Matches
<1>9. CanonicalIndexed'
  BY <1>1, <1>6, IndexedKept
<1>10. deliveries[Dedup][dw[d].msg] < 2 => Untouched(dw[d].bug)
  BY <1>1, <1>2, <1>3 DEF DedupInv, FirstDelivery
<1>11. FirstDelivery'
  <2>1. deliveries[Dedup][dw[d].msg] < 2 =>
            /\ canonical'[dw[d].bug] = NoBug
            /\ dw[d].bug \notin vectors' \cup Published("bug.classified")'
    BY <1>1, <1>6, <1>10, DedupConsumer DEF Untouched, IsDuplicate
  <2> QED
    BY <1>1, <1>2, <1>4, <1>6, <2>1, FirstDeliveryKept, DedupConsumer
<1>12. Verdicts'
  BY <1>4, <1>6, VerdictsKept, DedupConsumer DEF Moves, DedupInv, Verdicts
<1>13. NoBugForgotten'
  BY <1>6, ForgottenKept, DedupConsumer DEF DedupInv, NoBugForgotten, IsDuplicate, Outstanding
<1> QED
  BY <1>5, <1>7, <1>8, <1>9, <1>11, <1>12, <1>13 DEF DedupInv

LEMMA StoreEmbeddingSteps ==
    ASSUME DedupInv, NEW d \in Deduper, StoreEmbedding(d) \/ StoreEmbeddingFails(d)
    PROVE  DedupInv'
<1>1. /\ dw[d].pc = "store" /\ UNCHANGED <<streamVars, storeVars>>
      /\ dw' = [dw EXCEPT ![d].pc = "storeId"]
      /\ vectors \subseteq vectors' /\ vectors' \subseteq vectors \cup {dw[d].bug}
      /\ faults' \in 0..MaxFaults
  BY SameTypes DEF StoreEmbedding, StoreEmbeddingFails, DedupInv,
     DedupEngineTypeOK, PlatformTypeOK
<1>2. Busy(d)
  BY <1>1 DEF Busy
<1>3. /\ dw[d].bug \in Bug /\ dw[d].bug \in rows
      /\ dw[d].msg \in published[CreatedSubject] /\ dw[d].msg.key = dw[d].bug
  BY <1>2, OwnBug
<1>4. Moves(d, "storeId") /\ dw' \in [Deduper -> {Idle} \cup DedupStep]
  BY <1>1, <1>2, MoveFacts
<1>5. DedupEngineTypeOK'
  BY <1>1, <1>3, <1>4, SameTypes
  DEF DedupInv, DedupEngineTypeOK, PlatformTypeOK, DedupTypeOK
<1>6. /\ UNCHANGED <<published, ready, unacked, deliveries>>
      /\ UNCHANGED <<rows, canonical, embedded>>
      /\ \A s \in Subject : Published(s)' = Published(s)
  BY <1>1 DEF streamVars, storeVars, columns, Published
<1>7. Feed' /\ Handling'
  BY <1>2, <1>4, <1>6, FeedKept, HandlingKept DEF DedupInv
<1>8. Matches'
  BY <1>1, <1>3, <1>4, <1>6, MatchesKept DEF Moves, DedupInv, Matches
<1>9. CanonicalIndexed'
  BY <1>1, <1>6, IndexedKept
<1>10. deliveries[Dedup][dw[d].msg] < 2 => canonical[dw[d].bug] = NoBug
  BY <1>1, <1>2, <1>3 DEF DedupInv, FirstDelivery, IsDuplicate
<1>11. FirstDelivery'
  <2>1. deliveries[Dedup][dw[d].msg] < 2 => canonical'[dw[d].bug] = NoBug
    BY <1>6, <1>10
  <2> QED
    BY <1>1, <1>2, <1>4, <1>6, <2>1, FirstDeliveryKept, DedupConsumer
<1>12. Verdicts'
  BY <1>4, <1>6, VerdictsKept, DedupConsumer DEF Moves, DedupInv, Verdicts
<1>13. NoBugForgotten'
  BY <1>6, ForgottenKept, DedupConsumer DEF DedupInv, NoBugForgotten, IsDuplicate, Outstanding
<1> QED
  BY <1>5, <1>7, <1>8, <1>9, <1>11, <1>12, <1>13 DEF DedupInv

(* The two statements on the row.                                          *)
LEMMA MarkStep ==
    ASSUME DedupInv, NEW d \in Deduper, Mark(d)
    PROVE  DedupInv'
<1>1. /\ dw[d].pc = "mark" /\ Sql(d, MarkDuplicate(dw[d].bug, dw[d].match))
      /\ dw' = [dw EXCEPT ![d].pc = "deduplicated"]
      /\ UNCHANGED <<streamVars, vectors, faults>>
  BY DEF Mark
<1>2. Busy(d)
  BY <1>1 DEF Busy
<1>3. /\ dw[d].bug \in Bug /\ dw[d].bug \in rows
      /\ dw[d].msg \in published[CreatedSubject] /\ dw[d].msg.key = dw[d].bug
  BY <1>2, OwnBug
<1>4. /\ dw[d].match \in vectors /\ dw[d].match \in rows /\ dw[d].match \in Bug
      /\ OrgOf(dw[d].match) = OrgOf(dw[d].bug)
  BY <1>1 DEF DedupInv, Matches, DedupEngineTypeOK, DedupTypeOK
<1>5. Moves(d, "deduplicated") /\ dw' \in [Deduper -> {Idle} \cup DedupStep]
  BY <1>1, <1>2, MoveFacts
<1>6. /\ StoreTypeOK' /\ UNCHANGED <<rows, embedded>>
      /\ \A a \in Bug \ {dw[d].bug} : canonical'[a] = canonical[a]
      /\ \/ canonical'[dw[d].bug] = canonical[dw[d].bug]
         \/ canonical'[dw[d].bug] = dw[d].match
      /\ d \notin Detached => canonical'[dw[d].bug] = dw[d].match
  BY <1>1, <1>3, <1>4, MarkFacts DEF DedupInv, DedupEngineTypeOK, PlatformTypeOK
<1>7. DedupEngineTypeOK'
  BY <1>1, <1>5, <1>6, SameTypes
  DEF DedupInv, DedupEngineTypeOK, PlatformTypeOK, DedupTypeOK
<1>8. /\ UNCHANGED <<published, ready, unacked, deliveries>>
      /\ \A s \in Subject : Published(s)' = Published(s)
  BY <1>1 DEF streamVars, Published
<1>9. Feed' /\ Handling'
  BY <1>2, <1>5, <1>6, <1>8, FeedKept, HandlingKept DEF DedupInv
<1>10. Matches'
  BY <1>1, <1>5, <1>6, MatchesKept DEF Moves, DedupInv, Matches
<1>11. dw[d].match # NoBug
  BY <1>4, StoreAssumption
<1>12. CanonicalIndexed'
  <2> SUFFICES ASSUME NEW b \in Bug, canonical'[b] # NoBug
               PROVE  /\ b \in rows' /\ canonical'[b] \in rows' \cap vectors'
                      /\ OrgOf(canonical'[b]) = OrgOf(b)
    BY DEF CanonicalIndexed, IsDuplicate, OrgOf
  <2> QED
    BY <1>1, <1>3, <1>4, <1>6 DEF DedupInv, CanonicalIndexed, IsDuplicate
<1>13. deliveries[Dedup][dw[d].msg] < 2 =>
            dw[d].bug \notin vectors \cup Published("bug.classified")
  BY <1>1, <1>2, <1>3 DEF DedupInv, FirstDelivery
<1>14. FirstDelivery'
  <2>1. deliveries[Dedup][dw[d].msg] < 2 =>
            dw[d].bug \notin vectors' \cup Published("bug.classified")'
    BY <1>1, <1>8, <1>13, DedupConsumer
  <2> QED
    BY <1>1, <1>2, <1>5, <1>6, <1>8, <2>1, FirstDeliveryKept, DedupConsumer
<1>15. \A b \in Bug : canonical[b] # NoBug => canonical'[b] # NoBug
  BY <1>6, <1>11
<1>16. Verdicts'
  BY <1>5, <1>6, <1>8, <1>11, <1>15, VerdictsKept, DedupConsumer DEF Moves, DedupInv, Verdicts
<1>17. NoBugForgotten'
  <2>1. Published("bug.deduplicated") \subseteq Bug
    BY VerdictBugs
  <2> QED
    BY <1>6, <1>8, <1>15, <2>1, ForgottenKept, DedupConsumer
    DEF DedupInv, NoBugForgotten, IsDuplicate, Outstanding
<1> QED
  BY <1>7, <1>9, <1>10, <1>12, <1>14, <1>16, <1>17 DEF DedupInv

LEMMA StoreIdStep ==
    ASSUME DedupInv, NEW d \in Deduper, StoreId(d)
    PROVE  DedupInv'
<1>1. /\ dw[d].pc = "storeId" /\ Sql(d, StoreEmbeddingId(dw[d].bug))
      /\ dw' = [dw EXCEPT ![d].pc = "classified"]
      /\ UNCHANGED <<streamVars, vectors, faults>>
  BY DEF StoreId
<1>2. Busy(d)
  BY <1>1 DEF Busy
<1>3. /\ dw[d].bug \in Bug /\ dw[d].bug \in rows
      /\ dw[d].msg \in published[CreatedSubject] /\ dw[d].msg.key = dw[d].bug
  BY <1>2, OwnBug
<1>4. Moves(d, "classified") /\ dw' \in [Deduper -> {Idle} \cup DedupStep]
  BY <1>1, <1>2, MoveFacts
<1>5. /\ StoreTypeOK' /\ UNCHANGED <<rows, canonical>>
      /\ \A a \in Bug : embedded[a] => embedded'[a]
      /\ d \notin Detached => embedded'[dw[d].bug]
  BY <1>1, <1>3, StoreIdFacts DEF DedupInv, DedupEngineTypeOK, PlatformTypeOK
<1>6. DedupEngineTypeOK'
  BY <1>1, <1>4, <1>5, SameTypes
  DEF DedupInv, DedupEngineTypeOK, PlatformTypeOK, DedupTypeOK
<1>7. /\ UNCHANGED <<published, ready, unacked, deliveries>>
      /\ \A s \in Subject : Published(s)' = Published(s)
  BY <1>1 DEF streamVars, Published
<1>8. Feed' /\ Handling'
  BY <1>2, <1>4, <1>5, <1>7, FeedKept, HandlingKept DEF DedupInv
<1>9. Matches'
  BY <1>1, <1>4, <1>5, MatchesKept DEF Moves, DedupInv, Matches
<1>10. CanonicalIndexed'
  BY <1>1, <1>5, IndexedKept
<1>11. deliveries[Dedup][dw[d].msg] < 2 => canonical[dw[d].bug] = NoBug
  BY <1>1, <1>2, <1>3 DEF DedupInv, FirstDelivery, IsDuplicate
<1>12. FirstDelivery'
  <2>1. deliveries[Dedup][dw[d].msg] < 2 => canonical'[dw[d].bug] = NoBug
    BY <1>5, <1>11
  <2> QED
    BY <1>1, <1>2, <1>4, <1>5, <1>7, <2>1, FirstDeliveryKept, DedupConsumer
<1>13. Verdicts'
  BY <1>4, <1>5, <1>7, VerdictsKept, DedupConsumer DEF Moves, DedupInv, Verdicts
<1>14. NoBugForgotten'
  BY <1>5, <1>7, VerdictBugs, ForgottenKept, DedupConsumer
  DEF DedupInv, NoBugForgotten, IsDuplicate, Outstanding
<1> QED
  BY <1>6, <1>8, <1>9, <1>10, <1>12, <1>13, <1>14 DEF DedupInv

-----------------------------------------------------------------------------
(* A verdict goes out: from "deduplicated" on one subject, or from         *)
(* "classified" on the other.                                              *)
LEMMA PublishVerdictStep ==
    ASSUME DedupInv, NEW d \in Deduper,
           PublishDeduplicated(d) \/ PublishClassified(d)
    PROVE  DedupInv'
<1> DEFINE B == dw[d].bug
<1>1. /\ dw' = [dw EXCEPT ![d].pc = "ack"]
      /\ UNCHANGED <<storeVars, vectors, faults>>
      /\ \/ dw[d].pc = "deduplicated" /\ PublishAbout("bug.deduplicated", B)
         \/ dw[d].pc = "classified" /\ PublishAbout("bug.classified", B)
  BY DEF PublishDeduplicated, PublishClassified
<1>2. Busy(d)
  BY <1>1 DEF Busy
<1>3. /\ B \in Bug /\ B \in Published(CreatedSubject)
      /\ dw[d].msg \in published[CreatedSubject] /\ dw[d].msg.key = B
  BY <1>2, OwnBug
<1>4. Moves(d, "ack") /\ dw' \in [Deduper -> {Idle} \cup DedupStep]
  BY <1>1, <1>2, MoveFacts
<1>5. PICK s \in {"bug.deduplicated", "bug.classified"} :
        /\ dw[d].pc = IF s = "bug.deduplicated" THEN "deduplicated" ELSE "classified"
        /\ StreamTypeOK' /\ Published(s)' = Published(s) \cup {B}
        /\ \A t \in Subject \ {s} : published'[t] = published[t]
        /\ ready'[Dedup] = ready[Dedup]
        /\ UNCHANGED <<unacked, deliveries>>
  <2>1. ASSUME NEW s \in {"bug.deduplicated", "bug.classified"}, PublishAbout(s, B)
        PROVE  /\ StreamTypeOK' /\ Published(s)' = Published(s) \cup {B}
               /\ \A t \in Subject \ {s} : published'[t] = published[t]
               /\ ready'[Dedup] = ready[Dedup]
               /\ UNCHANGED <<unacked, deliveries>>
    <3>1. StreamTypeOK /\ s \in Subject
      BY DedupConsumer DEF DedupInv, DedupEngineTypeOK, PlatformTypeOK
    <3>2. /\ StreamTypeOK' /\ Published(s)' = Published(s) \cup {B}
          /\ \E m \in Msg : /\ m.key = B /\ m \notin published[s]
                            /\ published'[s] = published[s] \cup {m}
                            /\ \A c \in Consumer : ready'[c] =
                                 IF Filter[c] = s THEN ready[c] \cup {m}
                                                  ELSE ready[c]
          /\ \A t \in Subject \ {s} : published'[t] = published[t]
          /\ UNCHANGED <<unacked, deliveries>>
      BY <2>1, <3>1, PublishAboutFacts
    <3>3. ready'[Dedup] = ready[Dedup]
      BY <3>2, DedupConsumer
    <3> QED
      BY <3>2, <3>3
  <2>2. CASE dw[d].pc = "deduplicated" /\ PublishAbout("bug.deduplicated", B)
    BY <2>1, <2>2
  <2>3. CASE dw[d].pc = "classified" /\ PublishAbout("bug.classified", B)
    BY <2>1, <2>3
  <2> QED
    BY <1>1, <2>2, <2>3
<1>6. /\ published'[CreatedSubject] = published[CreatedSubject]
      /\ Published(CreatedSubject)' = Published(CreatedSubject)
      /\ \A t \in {"bug.deduplicated", "bug.classified"} :
            Published(t)' = Published(t) \cup (IF t = s THEN {B} ELSE {})
  BY <1>5, DedupConsumer DEF Published
<1>7. UNCHANGED <<rows, canonical, embedded>>
  BY <1>1 DEF storeVars, columns
<1>8. DedupEngineTypeOK'
  BY <1>1, <1>4, <1>5, SameTypes
  DEF DedupInv, DedupEngineTypeOK, PlatformTypeOK, DedupTypeOK
<1>9. Feed' /\ Handling'
  BY <1>2, <1>4, <1>5, <1>6, <1>7, FeedKept, HandlingKept DEF DedupInv
<1>10. Matches'
  BY <1>1, <1>4, <1>7, MatchesKept DEF Moves, DedupInv, Matches
<1>11. CanonicalIndexed'
  BY <1>1, <1>7, IndexedKept
<1>12. deliveries[Dedup][dw[d].msg] < 2 =>
            /\ dw[d].pc = "deduplicated" =>
                    B \notin vectors \cup Published("bug.classified")
            /\ dw[d].pc = "classified" => canonical[B] = NoBug
  BY <1>2, <1>3 DEF DedupInv, FirstDelivery, IsDuplicate
<1>13. FirstDelivery'
  <2>1. deliveries[Dedup][dw[d].msg] < 2 =>
            (B \in vectors' \cup Published("bug.classified")' => canonical'[B] = NoBug)
    BY <1>1, <1>5, <1>6, <1>7, <1>12
  <2>2. Published("bug.classified")' \subseteq Published("bug.classified") \cup {B}
    BY <1>6
  <2> QED
    BY <1>1, <1>2, <1>4, <1>5, <1>6, <1>7, <2>1, <2>2, FirstDeliveryKept
<1>14. Verdicts'
  BY <1>3, <1>4, <1>5, <1>6, <1>7, VerdictsKept DEF Moves, DedupInv, Verdicts
<1>15. NoBugForgotten'
  <2>1. Deduper \cap Detached = {} =>
            /\ dw[d].pc = "deduplicated" => canonical[B] # NoBug
            /\ dw[d].pc = "classified" => embedded[B]
    BY DEF DedupInv, Verdicts, IsDuplicate
  <2>2. Deduper \cap Detached = {} =>
            /\ \A b \in Published("bug.classified")' : embedded'[b]
            /\ \A b \in Published("bug.deduplicated")' : canonical'[b] # NoBug
    BY <1>5, <1>6, <1>7, <2>1 DEF DedupInv, NoBugForgotten, IsDuplicate
  <2> QED
    BY <1>5, <1>6, <2>2, ForgottenKept DEF Outstanding
<1> QED
  BY <1>8, <1>9, <1>10, <1>11, <1>13, <1>14, <1>15 DEF DedupInv

(* The replica is idle again: after the ack, a nak, or a restart.          *)
LEMMA ReleaseStep ==
    ASSUME DedupInv, NEW d \in Deduper, Busy(d), dw' = [dw EXCEPT ![d] = Idle],
           StreamTypeOK', faults' \in 0..MaxFaults,
           UNCHANGED <<published, deliveries, storeVars, vectors>>,
           ready'[Dedup] \subseteq ready[Dedup] \cup unacked[Dedup],
           unacked'[Dedup] \subseteq ready[Dedup] \cup unacked[Dedup],
           \A m \in Outstanding(Dedup) : m \in Outstanding(Dedup)'
                \/ (m = dw[d].msg /\ dw[d].pc = "ack")
    PROVE  DedupInv'
<1>1. dw \in [Deduper -> {Idle} \cup DedupStep]
  BY DEF DedupInv, DedupEngineTypeOK, DedupTypeOK
<1>2. /\ dw'[d].pc = "idle" /\ \A e \in Deduper \ {d} : dw'[e] = dw[e]
      /\ dw' \in [Deduper -> {Idle} \cup DedupStep]
  BY <1>1 DEF Idle
<1>3. /\ UNCHANGED <<rows, canonical, embedded>>
      /\ \A s \in Subject : Published(s)' = Published(s)
  BY DEF storeVars, columns, Published
<1>4. DedupEngineTypeOK'
  BY <1>2, SameTypes DEF DedupInv, DedupEngineTypeOK, PlatformTypeOK, DedupTypeOK
<1>5. Feed'
  BY <1>3, FeedKept DEF DedupInv
<1>6. Handling'
  BY <1>2 DEF DedupInv, Handling, Busy
<1>7. Matches'
  BY <1>2, <1>3, MatchesKept DEF DedupInv, Matches
<1>8. CanonicalIndexed'
  BY <1>3, IndexedKept
<1>9. FirstDelivery'
  BY <1>2, <1>3, DedupConsumer
  DEF DedupInv, FirstDelivery, Busy, Untouched, IsDuplicate
<1>10. Verdicts'
  BY <1>2, <1>3, VerdictsKept, DedupConsumer DEF DedupInv, Verdicts
<1>11. NoBugForgotten'
  <2>1. dw[d].msg.key = dw[d].bug
    BY OwnBug
  <2>2. \A m \in Outstanding(Dedup) : m \in Outstanding(Dedup)'
                \/ m.key \in Published("bug.classified")
                \/ m.key \in Published("bug.deduplicated")
    BY <2>1 DEF DedupInv, Verdicts
  <2> QED
    BY <1>3, <2>2, ForgottenKept, DedupConsumer
    DEF DedupInv, NoBugForgotten, IsDuplicate
<1> QED
  BY <1>4, <1>5, <1>6, <1>7, <1>8, <1>9, <1>10, <1>11 DEF DedupInv

LEMMA AckCreatedStep ==
    ASSUME DedupInv, NEW d \in Deduper, AckCreated(d)
    PROVE  DedupInv'
<1>1. /\ dw[d].pc = "ack" /\ Ack(Dedup, dw[d].msg) /\ dw' = [dw EXCEPT ![d] = Idle]
      /\ UNCHANGED <<storeVars, vectors, faults>>
  BY DEF AckCreated
<1>2. StreamTypeOK /\ faults \in 0..MaxFaults
  BY DEF DedupInv, DedupEngineTypeOK, PlatformTypeOK
<1>3. /\ StreamTypeOK' /\ UNCHANGED <<published, deliveries>>
      /\ ready'[Dedup] = ready[Dedup] \ {dw[d].msg}
      /\ unacked'[Dedup] = unacked[Dedup] \ {dw[d].msg}
  BY <1>1, <1>2, AckFacts, DedupConsumer
<1>4. \A m \in Outstanding(Dedup) : m \in Outstanding(Dedup)' \/ m = dw[d].msg
  BY <1>3 DEF Outstanding
<1> QED
  BY <1>1, <1>2, <1>3, <1>4, ReleaseStep DEF Busy

LEMMA RequeueOwed ==
    ASSUME DedupInv, NEW m, Requeue(Dedup, m)
    PROVE  /\ StreamTypeOK' /\ UNCHANGED <<published, deliveries>>
           /\ ready'[Dedup] \subseteq ready[Dedup] \cup unacked[Dedup]
           /\ unacked'[Dedup] \subseteq ready[Dedup] \cup unacked[Dedup]
           /\ \A n \in Outstanding(Dedup) : n \in Outstanding(Dedup)'
<1>1. StreamTypeOK /\ Dedup \in Consumer /\ ~Spent(Dedup, m)
  BY DedupConsumer DEF DedupInv, DedupEngineTypeOK, PlatformTypeOK
<1>2. /\ StreamTypeOK' /\ UNCHANGED <<published, deliveries>>
      /\ unacked'[Dedup] = unacked[Dedup] \ {m}
      /\ ready'[Dedup] = IF m \in unacked[Dedup] THEN ready[Dedup] \cup {m}
                                                 ELSE ready[Dedup]
  BY <1>1, RequeueFacts
<1> QED
  BY <1>2 DEF Outstanding

LEMMA DedupFailStep ==
    ASSUME DedupInv, NEW d \in Deduper, DedupRaises(d) \/ DeduperRestarts(d)
    PROVE  DedupInv'
<1>1. /\ Busy(d) /\ dw' = [dw EXCEPT ![d] = Idle] /\ Fault
      /\ UNCHANGED <<storeVars, vectors>>
      /\ Requeue(Dedup, dw[d].msg) \/ UNCHANGED streamVars
  BY DEF DedupRaises, DeduperRestarts, Busy
<1>2. faults' \in 0..MaxFaults
  BY <1>1, SameTypes DEF DedupInv, DedupEngineTypeOK, PlatformTypeOK
<1>3. CASE Requeue(Dedup, dw[d].msg)
  BY <1>1, <1>2, <1>3, RequeueOwed, ReleaseStep
<1>4. CASE UNCHANGED streamVars
  <2>1. /\ UNCHANGED <<published, ready, unacked, deliveries>> /\ StreamTypeOK'
        /\ Outstanding(Dedup)' = Outstanding(Dedup)
    BY <1>4, SameTypes
    DEF streamVars, Outstanding, DedupInv, DedupEngineTypeOK, PlatformTypeOK
  <2> QED
    BY <1>1, <1>2, <2>1, ReleaseStep DEF Outstanding
<1> QED
  BY <1>1, <1>3, <1>4

(* An AckWait that runs out changes the queue only.                        *)
LEMMA DedupAckWaitStep ==
    ASSUME DedupInv, NEW m, AckWaitOver(Dedup, m),
           UNCHANGED <<storeVars, dedupVars>>, faults' \in 0..MaxFaults
    PROVE  DedupInv'
<1>1. /\ StreamTypeOK' /\ UNCHANGED <<published, deliveries>>
      /\ ready'[Dedup] \subseteq ready[Dedup] \cup unacked[Dedup]
      /\ unacked'[Dedup] \subseteq ready[Dedup] \cup unacked[Dedup]
      /\ \A n \in Outstanding(Dedup) : n \in Outstanding(Dedup)'
  BY RequeueOwed DEF AckWaitOver
<1>2. /\ UNCHANGED <<rows, canonical, embedded, dw, vectors>>
      /\ \A s \in Subject : Published(s)' = Published(s)
  BY <1>1 DEF storeVars, columns, dedupVars, Published
<1>3. DedupEngineTypeOK'
  BY <1>1, <1>2, SameTypes
  DEF DedupInv, DedupEngineTypeOK, PlatformTypeOK, DedupTypeOK
<1>4. Feed'
  BY <1>1, <1>2, FeedKept DEF DedupInv
<1>5. Handling' /\ Matches'
  BY <1>1, <1>2 DEF DedupInv, Handling, Busy, Matches, OrgOf
<1>6. CanonicalIndexed'
  BY <1>2, IndexedKept
<1>7. FirstDelivery'
  BY <1>1, <1>2, DedupConsumer
  DEF DedupInv, FirstDelivery, Busy, Untouched, IsDuplicate
<1>8. Verdicts'
  BY <1>2, DedupConsumer DEF DedupInv, Verdicts, IsDuplicate
<1>9. NoBugForgotten'
  BY <1>1, <1>2, ForgottenKept, DedupConsumer
  DEF DedupInv, NoBugForgotten, IsDuplicate
<1> QED
  BY <1>3, <1>4, <1>5, <1>6, <1>7, <1>8, <1>9 DEF DedupInv

(* A new row is announced: nobody has seen its bug before.                 *)
LEMMA IngestedStep ==
    ASSUME DedupInv, NEW b \in Bug, Ingested(b)
    PROVE  DedupInv'
<1>1. /\ \E x \in ExtId : InsertBug(b, x)
      /\ PublishAbout(CreatedSubject, b) /\ UNCHANGED <<dw, vectors, faults>>
  BY DEF Ingested, CreatedSubject, dedupVars
<1>2. StreamTypeOK /\ StoreTypeOK /\ CreatedSubject \in Subject
  BY DedupConsumer DEF DedupInv, DedupEngineTypeOK, PlatformTypeOK
<1>3. /\ StoreTypeOK' /\ b \notin rows /\ rows' = rows \cup {b}
      /\ UNCHANGED <<canonical, embedded>>
  BY <1>1, <1>2, InsertFacts
<1>4. /\ StreamTypeOK' /\ UNCHANGED <<unacked, deliveries>>
      /\ Published(CreatedSubject)' = Published(CreatedSubject) \cup {b}
      /\ \A t \in Subject \ {CreatedSubject} : published'[t] = published[t]
      /\ \E m \in Msg : /\ m.key = b /\ m \notin published[CreatedSubject]
                        /\ published'[CreatedSubject] =
                                published[CreatedSubject] \cup {m}
                        /\ \A c \in Consumer : ready'[c] =
                             IF Filter[c] = CreatedSubject
                             THEN ready[c] \cup {m} ELSE ready[c]
  BY <1>1, <1>2, PublishAboutFacts
<1>5. PICK m \in Msg :
        /\ m.key = b /\ m \notin published[CreatedSubject]
        /\ published'[CreatedSubject] = published[CreatedSubject] \cup {m}
        /\ ready'[Dedup] = ready[Dedup] \cup {m}
  BY <1>4, DedupConsumer
<1>6. /\ Published("bug.classified")' = Published("bug.classified")
      /\ Published("bug.deduplicated")' = Published("bug.deduplicated")
  BY <1>4, DedupConsumer DEF Published
<1>7. b \notin Published(CreatedSubject)
  BY <1>3 DEF DedupInv, Feed
<1>8. DedupEngineTypeOK'
  BY <1>1, <1>3, <1>4 DEF DedupInv, DedupEngineTypeOK, PlatformTypeOK, DedupTypeOK
<1>9. Feed'
  <2>1. \A n \in published[CreatedSubject] : n.key # b
    BY <1>7 DEF Published
  <2> QED
    BY <1>3, <1>4, <1>5, <2>1 DEF DedupInv, Feed
<1>10. Handling'
  BY <1>1, <1>4, <1>5 DEF DedupInv, Handling, Busy
<1>11. Matches'
  BY <1>1, <1>3 DEF DedupInv, Matches, OrgOf
<1>12. CanonicalIndexed'
  BY <1>1, <1>3, IndexedKept
<1>13. FirstDelivery'
  <2>1. FirstDelivery /\ Handling
    BY DEF DedupInv
  <2>2. \A a \in Bug : Untouched(a)' = Untouched(a)
    BY <1>1, <1>3, <1>6 DEF Untouched, IsDuplicate
  <2>3. Untouched(b)
    BY <1>7, <2>1 DEF FirstDelivery
  <2>4. \A d \in Deduper : Busy(d) => dw[d].msg # m
    BY <1>5, <2>1 DEF Handling
  <2>5. \A n \in published[CreatedSubject] : n.key \in Bug
    BY <1>2 DEF DedupInv, Feed, Published, StoreTypeOK
  <2>6. \A a \in Bug : a \notin Published(CreatedSubject)' => Untouched(a)'
    BY <1>4, <2>1, <2>2 DEF FirstDelivery
  <2>7. \A n \in published'[CreatedSubject] :
            deliveries'[Dedup][n] = 0 => Untouched(n.key)'
    BY <1>4, <1>5, <2>1, <2>2, <2>3, <2>5 DEF FirstDelivery
  <2>8. ASSUME NEW n \in published'[CreatedSubject], deliveries'[Dedup][n] < 2
        PROVE  /\ n.key \in vectors' \cup Published("bug.classified")'
                    => ~IsDuplicate(n.key)'
               /\ \A d, e \in Deduper :
                    Busy(d)' /\ Busy(e)' /\ dw'[d].msg = n /\ dw'[e].msg = n
                        => d = e
               /\ \A d \in Deduper : Busy(d)' /\ dw'[d].msg = n =>
                /\ dw'[d].pc = "search" => Untouched(n.key)'
                /\ dw'[d].pc \in {"mark", "deduplicated"} =>
                        n.key \notin vectors' \cup Published("bug.classified")'
                /\ dw'[d].pc \in {"store", "storeId", "classified"} =>
                        ~IsDuplicate(n.key)'
    <3>1. CASE n = m
      BY <1>1, <1>5, <2>2, <2>3, <2>4, <3>1 DEF Untouched, Busy
    <3>2. CASE n # m
      <4>1. n \in published[CreatedSubject] /\ deliveries[Dedup][n] < 2
        BY <1>4, <1>5, <2>8, <3>2
      <4> QED
        BY <1>1, <1>3, <1>6, <2>1, <2>2, <2>5, <4>1
        DEF FirstDelivery, Busy, IsDuplicate
    <3> QED
      BY <3>1, <3>2
  <2> QED
    BY <2>6, <2>7, <2>8 DEF FirstDelivery
<1>14. Verdicts'
  BY <1>1, <1>3, <1>4, <1>6 DEF DedupInv, Verdicts, IsDuplicate
<1>15. NoBugForgotten'
  BY <1>3, <1>4, <1>5, <1>6
  DEF DedupInv, NoBugForgotten, IsDuplicate, Outstanding, CreatedSubject
<1> QED
  BY <1>8, <1>9, <1>10, <1>11, <1>12, <1>13, <1>14, <1>15 DEF DedupInv

(* A replica takes a message.  If this is the first delivery, the bug is   *)
(* untouched and nobody else has the message.                              *)
LEMMA ReceiveCreatedStep ==
    ASSUME DedupInv, NEW d \in Deduper, NEW m, ReceiveCreated(d, m)
    PROVE  DedupInv'
<1>1. /\ dw[d].pc = "idle" /\ m.key \in Bug /\ Deliver(Dedup, m)
      /\ dw' = [dw EXCEPT ![d] =
                [pc |-> "search", msg |-> m, bug |-> m.key, match |-> NoBug]]
      /\ UNCHANGED <<storeVars, vectors, faults>>
  BY DEF ReceiveCreated
<1>2. StreamTypeOK /\ dw \in [Deduper -> {Idle} \cup DedupStep]
  BY DEF DedupInv, DedupEngineTypeOK, PlatformTypeOK, DedupTypeOK
<1>3. /\ StreamTypeOK' /\ m \in ready[Dedup] /\ m \in Msg /\ UNCHANGED published
      /\ ready'[Dedup] = ready[Dedup] \ {m}
      /\ unacked'[Dedup] = unacked[Dedup] \cup {m}
      /\ deliveries'[Dedup] = [deliveries[Dedup] EXCEPT ![m] = OneMore(Dedup, @)]
  BY <1>1, <1>2, DeliverFacts, DedupConsumer
<1>4. /\ \A n \in Msg \ {m} : deliveries'[Dedup][n] = deliveries[Dedup][n]
      /\ deliveries'[Dedup][m] > 0
      /\ deliveries'[Dedup][m] < 2 => deliveries[Dedup][m] = 0
  <2>1. deliveries[Dedup] \in [Msg -> Nat]
    BY <1>2, DedupConsumer DEF StreamTypeOK
  <2>2. deliveries'[Dedup][m] = OneMore(Dedup, deliveries[Dedup][m])
    BY <1>3, <2>1
  <2>3. /\ OneMore(Dedup, deliveries[Dedup][m]) > 0
        /\ OneMore(Dedup, deliveries[Dedup][m]) < 2 => deliveries[Dedup][m] = 0
    BY <1>3, <2>1, DedupConsumer
  <2> QED
    BY <1>3, <2>1, <2>2, <2>3
<1>5. m \in published[CreatedSubject]
  BY <1>3 DEF DedupInv, Feed
<1>6. /\ dw'[d].pc = "search" /\ dw'[d].msg = m /\ dw'[d].bug = m.key
      /\ \A e \in Deduper \ {d} : dw'[e] = dw[e]
  BY <1>1, <1>2
<1>7. dw' \in [Deduper -> {Idle} \cup DedupStep]
  <2>1. [pc |-> "search", msg |-> m, bug |-> m.key, match |-> NoBug] \in DedupStep
    BY <1>1, <1>3 DEF DedupStep
  <2> QED
    BY <1>1, <1>2, <2>1
<1>8. /\ UNCHANGED <<rows, canonical, embedded>>
      /\ \A s \in Subject : Published(s)' = Published(s)
  BY <1>1, <1>3 DEF storeVars, columns, Published
<1>9. DedupEngineTypeOK'
  BY <1>1, <1>3, <1>7, SameTypes
  DEF DedupInv, DedupEngineTypeOK, PlatformTypeOK, DedupTypeOK
<1>10. Feed'
  BY <1>3, <1>8, FeedKept DEF DedupInv
<1>11. Handling'
  <2>1. \A e \in Deduper : Busy(e) => dw[e].msg \in Msg
    BY OwnBug
  <2> QED
    BY <1>3, <1>4, <1>5, <1>6, <2>1 DEF DedupInv, Handling, Busy
<1>12. Matches'
  BY <1>1, <1>6, <1>8, MatchesKept DEF DedupInv, Matches
<1>13. CanonicalIndexed'
  BY <1>1, <1>8, IndexedKept
<1>14. FirstDelivery'
  <2>1. FirstDelivery /\ Handling /\ published[CreatedSubject] \subseteq Msg
    BY <1>2, DedupConsumer DEF DedupInv, StreamTypeOK
  <2>2. /\ Published(CreatedSubject)' = Published(CreatedSubject)
        /\ \A b : Untouched(b)' = Untouched(b) /\ IsDuplicate(b)' = IsDuplicate(b)
    BY <1>1, <1>8, DedupConsumer DEF Untouched, IsDuplicate
  <2>3. \A b \in Bug : b \notin Published(CreatedSubject)' => Untouched(b)'
    BY <2>1, <2>2 DEF FirstDelivery
  <2>4. \A n \in published'[CreatedSubject] :
            deliveries'[Dedup][n] = 0 => Untouched(n.key)'
    BY <1>3, <1>4, <2>1, <2>2 DEF FirstDelivery
  <2>5. ASSUME NEW n \in published'[CreatedSubject], deliveries'[Dedup][n] < 2
        PROVE  /\ n.key \in vectors' \cup Published("bug.classified")'
                    => ~IsDuplicate(n.key)'
               /\ \A a, e \in Deduper :
                    Busy(a)' /\ Busy(e)' /\ dw'[a].msg = n /\ dw'[e].msg = n
                        => a = e
               /\ \A e \in Deduper : Busy(e)' /\ dw'[e].msg = n =>
                /\ dw'[e].pc = "search" => Untouched(n.key)'
                /\ dw'[e].pc \in {"mark", "deduplicated"} =>
                        n.key \notin vectors' \cup Published("bug.classified")'
                /\ dw'[e].pc \in {"store", "storeId", "classified"} =>
                        ~IsDuplicate(n.key)'
    <3>1. CASE n = m
      <4>1. Untouched(m.key)
        BY <1>4, <1>5, <2>1, <2>5, <3>1 DEF FirstDelivery
      <4>2. \A e \in Deduper : Busy(e) => dw[e].msg # m
        BY <1>4, <2>1, <2>5, <3>1 DEF Handling
      <4>3. \A e \in Deduper : Busy(e)' /\ dw'[e].msg = n => e = d
        BY <1>6, <3>1, <4>2 DEF Busy
      <4> QED
        BY <1>6, <2>2, <3>1, <4>1, <4>3 DEF Untouched
    <3>2. CASE n # m
      <4>1. n \in published[CreatedSubject] /\ deliveries[Dedup][n] < 2
        BY <1>3, <1>4, <2>1, <2>5, <3>2
      <4>2. \A e \in Deduper : Busy(e)' /\ dw'[e].msg = n =>
                Busy(e) /\ dw'[e] = dw[e]
        BY <1>6, <3>2 DEF Busy
      <4> QED
        BY <1>1, <1>8, <2>1, <2>2, <4>1, <4>2, DedupConsumer DEF FirstDelivery
    <3> QED
      BY <3>1, <3>2
  <2> QED
    BY <2>3, <2>4, <2>5 DEF FirstDelivery
<1>15. Verdicts'
  BY <1>6, <1>8, VerdictsKept, DedupConsumer DEF DedupInv, Verdicts
<1>16. NoBugForgotten'
  BY <1>3, <1>8, ForgottenKept, DedupConsumer
  DEF DedupInv, NoBugForgotten, IsDuplicate, Outstanding
<1> QED
  BY <1>9, <1>10, <1>11, <1>12, <1>13, <1>14, <1>15, <1>16 DEF DedupInv

LEMMA DedupInitInv == DedupEngineInit => DedupInv
<1> SUFFICES ASSUME DedupEngineInit PROVE DedupInv
  OBVIOUS
<1> USE DEF DedupEngineInit, PlatformInit, StreamInit, StoreInit, DedupInit
<1>1. StreamTypeOK
  BY DEF StreamTypeOK
<1>2. StoreTypeOK
  BY StoreAssumption DEF StoreTypeOK, Status
<1>3. DedupTypeOK /\ faults \in 0..MaxFaults
  BY PlatformAssumption DEF DedupTypeOK
<1>4. \A d \in Deduper : dw[d].pc = "idle"
  BY DEF Idle
<1>5. \A s \in Subject : Published(s) = {}
  BY DEF Published
<1>6. Feed
  BY <1>5, DedupConsumer DEF Feed
<1>7. Handling /\ Matches
  BY <1>4 DEF Handling, Busy, Matches
<1>8. CanonicalIndexed
  BY DEF CanonicalIndexed, IsDuplicate
<1>9. FirstDelivery
  BY <1>5, DedupConsumer DEF FirstDelivery, Untouched, IsDuplicate
<1>10. Verdicts /\ NoBugForgotten
  BY <1>4, <1>5, DedupConsumer DEF Verdicts, NoBugForgotten, CreatedSubject
<1> QED
  BY <1>1, <1>2, <1>3, <1>6, <1>7, <1>8, <1>9, <1>10
  DEF DedupInv, DedupEngineTypeOK, PlatformTypeOK

LEMMA DedupStepInv ==
    DedupInv /\ [DedupEngineNext]_dedupEngineVars => DedupInv'
<1> SUFFICES ASSUME DedupInv, [DedupEngineNext]_dedupEngineVars
             PROVE  DedupInv'
  OBVIOUS
<1>1. CASE UNCHANGED dedupEngineVars
  <2>1. /\ UNCHANGED <<published, ready, unacked, deliveries, faults>>
        /\ UNCHANGED <<storeVars, dw, vectors>>
    BY <1>1 DEF dedupEngineVars, platformVars, streamVars, dedupVars
  <2>2. /\ UNCHANGED <<rows, canonical, embedded>>
        /\ \A s : Published(s)' = Published(s)
        /\ Outstanding(Dedup)' = Outstanding(Dedup)
    BY <2>1 DEF storeVars, columns, Published, Outstanding
  <2>3. DedupEngineTypeOK'
    BY <2>1, SameTypes
    DEF streamVars, DedupInv, DedupEngineTypeOK, PlatformTypeOK, DedupTypeOK
  <2>4. Feed' /\ Handling' /\ Matches' /\ CanonicalIndexed'
    BY <2>1, <2>2 DEF DedupInv, Feed, Handling, Busy, Matches, OrgOf,
       CanonicalIndexed, IsDuplicate
  <2>5. FirstDelivery'
    BY <2>1, <2>2 DEF DedupInv, FirstDelivery, Busy, Untouched, IsDuplicate
  <2>6. Verdicts' /\ NoBugForgotten'
    BY <2>1, <2>2 DEF DedupInv, Verdicts, NoBugForgotten, IsDuplicate
  <2> QED
    BY <2>3, <2>4, <2>5, <2>6 DEF DedupInv
<1>2. CASE \E b \in Bug : Ingested(b)
  BY <1>2, IngestedStep
<1>3. ASSUME NEW d \in Deduper, DedupWork(d)
      PROVE  DedupInv'
  BY <1>3, ReceiveCreatedStep, SearchSteps, MarkStep, PublishVerdictStep,
     StoreEmbeddingSteps, StoreIdStep, AckCreatedStep DEF DedupWork
<1>4. ASSUME NEW d \in Deduper, DedupFaults(d)
      PROVE  DedupInv'
  BY <1>4, SearchSteps, StoreEmbeddingSteps, DedupFailStep DEF DedupFaults
<1>5. ASSUME NEW m \in unacked[Dedup], CreatedExpires(m) \/ CreatedLate(m)
      PROVE  DedupInv'
  <2>1. faults' \in 0..MaxFaults
    BY <1>5, SameTypes
    DEF CreatedExpires, CreatedLate, DedupInv, DedupEngineTypeOK, PlatformTypeOK
  <2>2. AckWaitOver(Dedup, m) /\ UNCHANGED <<storeVars, dedupVars>>
    BY <1>5 DEF CreatedExpires, CreatedLate
  <2> QED
    BY <2>1, <2>2, DedupAckWaitStep
<1> QED
  BY <1>1, <1>2, <1>3, <1>4, <1>5 DEF DedupEngineNext

-----------------------------------------------------------------------------
(* The invariant holds of every behaviour of the engine ...                *)
THEOREM DedupInvariant == DedupEngineSpec => []DedupInv
<1>1. DedupEngineInit => DedupInv
  BY DedupInitInv
<1>2. DedupInv /\ [DedupEngineNext]_dedupEngineVars => DedupInv'
  BY DedupStepInv
<1> QED
  BY <1>1, <1>2, PTL DEF DedupEngineSpec

(* ... and with it: the types,                                             *)
THEOREM DedupTypes == DedupEngineSpec => []DedupEngineTypeOK
<1>1. DedupInv => DedupEngineTypeOK
  BY DEF DedupInv
<1> QED
  BY <1>1, DedupInvariant, PTL

(* a duplicate points at a stored, indexed row of its organisation         *)
(* (mark_duplicate, main.py:280-296, is never refused by the foreign key), *)
THEOREM CanonicalsIndexed == DedupEngineSpec => []CanonicalIndexed
<1>1. DedupInv => CanonicalIndexed
  BY DEF DedupInv
<1> QED
  BY <1>1, DedupInvariant, PTL

(* an announced bug is owed to the engine or has its verdict, as the row   *)
(* shows it (process_bug acks last, main.py:437),                          *)
THEOREM NoneForgotten == DedupEngineSpec => []NoBugForgotten
<1>1. DedupInv => NoBugForgotten
  BY DEF DedupInv
<1> QED
  BY <1>1, DedupInvariant, PTL

(* What FirstDelivery says of a bug that was judged both ways: its event   *)
(* was delivered twice.                                                    *)
LEMMA BothWaysRedelivered ==
    ASSUME DedupInv, NEW b \in Bug, IsDuplicate(b),
           b \in vectors \cup Published("bug.classified")
    PROVE  Redelivered(b)
<1>1. b \in Published(CreatedSubject)
  BY DEF DedupInv, FirstDelivery, Untouched
<1>2. PICK m \in published[CreatedSubject] : m.key = b
  BY <1>1 DEF Published
<1>3. m \in Msg /\ deliveries[Dedup][m] \in Nat
  BY DedupConsumer
  DEF DedupInv, DedupEngineTypeOK, PlatformTypeOK, StreamTypeOK
<1>4. ~ (deliveries[Dedup][m] < 2)
  BY <1>2 DEF DedupInv, FirstDelivery
<1> QED
  BY <1>2, <1>3, <1>4 DEF Redelivered

LEMMA VerdictsMixed == DedupInv => OneVerdictPerDelivery
BY BothWaysRedelivered DEF OneVerdictPerDelivery

LEMMA ChainsRedelivered == DedupInv => ChainsNeedRedelivery
<1> SUFFICES ASSUME DedupInv, NEW b \in Bug, IsDuplicate(b),
                    IsDuplicate(canonical[b])
             PROVE  Redelivered(canonical[b])
  BY DEF ChainsNeedRedelivery
<1>1. canonical[b] \in vectors /\ canonical[b] \in Bug
  BY DEF DedupInv, CanonicalIndexed, DedupEngineTypeOK, DedupTypeOK
<1> QED
  BY <1>1, BothWaysRedelivered

(* only a bug that was delivered twice is both passed on and closed (the   *)
(* branch at main.py:385-407 returns before the other begins),             *)
THEOREM OneVerdict == DedupEngineSpec => []OneVerdictPerDelivery
BY VerdictsMixed, DedupInvariant, PTL

(* and a duplicate of a duplicate means that the canonical bug was         *)
(* delivered twice, however the replicas interleave.                       *)
THEOREM ChainsAreRedeliveries == DedupEngineSpec => []ChainsNeedRedelivery
BY ChainsRedelivered, DedupInvariant, PTL
=============================================================================
