------------------------------ MODULE Standalone ------------------------------
(***************************************************************************)
(* The gateway without a stream, as render.yaml deploys it (NATS_URL is    *)
(* empty): replicas that start, migrate the database they share, insert    *)
(* the reports themselves, change statuses, and are replaced.              *)
(*                                                                         *)
(* A start is four queries, each of several statements that PostgreSQL     *)
(* runs as one transaction; the starts of two replicas, and the requests   *)
(* of a replica that already listens, come between them.                   *)
(***************************************************************************)
EXTENDS Gateway

CONSTANTS Replica,      \* gateway processes
          ReplicaOf,    \* the process a handler runs in
          Sample,       \* the sample bugs of the migration
          SampleId,     \* their external ids: EBUG-1001 to EBUG-1007
          SampleStatus, \* their statuses
          MaxStarts     \* bound: starts in one behaviour

VARIABLES boot,         \* how far each process is
          starts,
          schema,       \* what the migrations have created
          excused       \* history: bugs with overlapping or broken requests

startVars == <<boot, starts, schema>>
vars == <<platformVars, gatewayVars, startVars, excused>>

ASSUME StandaloneAssumption ==
    /\ ReplicaOf \in [Handler -> Replica]
    /\ Sample \subseteq Bug /\ SampleId \in [Sample -> ExtId]
    /\ SampleStatus \in [Sample -> Status]
    /\ \A r \in Unconnected, s \in Sample : ReportOf[s] # r
    /\ MaxStarts \in Nat

Stage == {"down", "tables", "indexes", "accounts", "samples", "listening"}

StandaloneTypeOK ==
    /\ PlatformTypeOK /\ GatewayTypeOK
    /\ boot \in [Replica -> Stage] /\ starts \in 0..MaxStarts
    /\ schema \subseteq {"tables", "indexes", "accounts"}
    /\ excused \subseteq Bug

Init ==
    /\ PlatformInit /\ GatewayInit
    /\ boot = [g \in Replica |-> "down"] /\ starts = 0
    /\ schema = {} /\ excused = {}

(* Mutation of Serving: the process listens before it has migrated.        *)
ServingAtOnce == {h \in Handler : boot[ReplicaOf[h]] # "down"}

(* The handlers of the processes that listen.                              *)
Serving == {h \in Handler : boot[ReplicaOf[h]] = "listening"}

-----------------------------------------------------------------------------
(* runMigrations and start.                                                *)
Reach(g, from, to) == boot[g] = from /\ boot' = [boot EXCEPT ![g] = to]

StartUp(g) ==
    /\ Reach(g, "down", "tables")
    /\ starts < MaxStarts /\ starts' = starts + 1
    /\ UNCHANGED <<platformVars, gatewayVars, schema>>

(* CREATE TABLE IF NOT EXISTS, CREATE INDEX IF NOT EXISTS.                 *)
CreateTables(g) ==
    /\ Reach(g, "tables", "indexes")
    /\ schema' = schema \cup {"tables"}
    /\ UNCHANGED <<platformVars, gatewayVars, starts>>

CreateIndexes(g) ==
    /\ Reach(g, "indexes", "accounts")
    /\ schema' = schema \cup {"indexes"}
    /\ UNCHANGED <<platformVars, gatewayVars, starts>>

(* The organisation, users and teams, which the sample bugs refer to:      *)
(* ON CONFLICT (id) DO NOTHING.                                            *)
SeedAccounts(g) ==
    /\ Reach(g, "accounts", "samples")
    /\ schema' = schema \cup {"accounts"}
    /\ UNCHANGED <<platformVars, gatewayVars, starts>>

(* A sample's external id is not some other bug's: external_id is UNIQUE,  *)
(* and ON CONFLICT (id) does not cover it.                                 *)
SamplesFit ==
    \A s \in Sample \ rows : \A b \in rows : externalId[b] # SampleId[s]

(* Mutation of InsertSamples: the samples are put back as they were.       *)
ResetSamples ==
    /\ rows' = rows \cup Sample
    /\ externalId' = [b \in Bug |-> IF b \in Sample THEN SampleId[b] ELSE externalId[b]]
    /\ status' = [b \in Bug |-> IF b \in Sample THEN SampleStatus[b] ELSE status[b]]
    /\ scored' = [b \in Bug |-> b \in Sample \/ scored[b]]
    /\ UNCHANGED <<canonical, embedded, analyzed, activity>>

(* INSERT ... ON CONFLICT (id) DO NOTHING: only those that are not there.  *)
InsertSamples ==
    LET new == Sample \ rows IN
    /\ rows' = rows \cup new
    /\ externalId' = [b \in Bug |-> IF b \in new THEN SampleId[b] ELSE externalId[b]]
    /\ status' = [b \in Bug |-> IF b \in new THEN SampleStatus[b] ELSE status[b]]
    /\ scored' = [b \in Bug |-> b \in new \/ scored[b]]
    /\ UNCHANGED <<canonical, embedded, analyzed, activity>>

(* The process then listens (initNats returns at once) or, when the        *)
(* samples are refused, exits.                                             *)
SeedSamples(g) ==
    /\ boot[g] = "samples"
    /\ IF SamplesFit
       THEN InsertSamples /\ boot' = [boot EXCEPT ![g] = "listening"]
       ELSE boot' = [boot EXCEPT ![g] = "down"] /\ UNCHANGED storeVars
    /\ UNCHANGED <<streamVars, faults, gatewayVars, starts, schema>>

(* A query of the start fails (two CREATEs at once can), or the process    *)
(* is stopped; the requests it was handling end where they are.            *)
GoDown(g) ==
    /\ boot[g] # "down" /\ Fault
    /\ boot' = [boot EXCEPT ![g] = "down"]
    /\ gw' = [h \in Handler |-> IF ReplicaOf[h] = g THEN Idle ELSE gw[h]]
    /\ UNCHANGED <<streamVars, storeVars, requests, resolvedAt, starts, schema>>

Start(g) ==
    \/ StartUp(g) \/ CreateTables(g) \/ CreateIndexes(g) \/ SeedAccounts(g)
    \/ SeedSamples(g) \/ GoDown(g)

-----------------------------------------------------------------------------
Serve ==
    /\ \/ (\E h \in Serving : Transition(h) \/ Patch(h))
       \/ Serving # {} /\ \E r \in Report : CreateDirect(r)
    /\ UNCHANGED startVars

(* Bugs with two requests at once, or one that ended between its UPDATE    *)
(* and its INSERT.                                                         *)
Overlapping(calls) ==
    {b \in Bug : \E h, i \in Handler :
        h # i /\ \A g \in {h, i} : calls[g].pc # "idle" /\ calls[g].bug = b}
Broken ==
    {gw[h].bug : h \in {i \in Handler : /\ gw[i].pc = "log" /\ gw'[i].pc = "idle"
                                        /\ activity' = activity}}

Next ==
    /\ Serve \/ \E g \in Replica : Start(g)
    /\ excused' = excused \cup Overlapping(gw') \cup Broken

Spec == Init /\ [][Next]_vars

-----------------------------------------------------------------------------
(* The trail explains the status: the entries of a bug tell its changes    *)
(* one after the other, from the status it was inserted with to the one it *)
(* has (or had before the UPDATE that is yet to be logged). It is so of    *)
(* every bug whose requests did not overlap or break off after the UPDATE, *)
(* and no start of a replica changes a status behind the trail's back.     *)
FirstStatus(b) == IF b \in Sample THEN SampleStatus[b] ELSE "open"

IsChange(entry) == entry.action = "status_change"

(* The entries of b before the n-th tell of the status s.                  *)
Tells(b, trail, n, s) ==
    \/ s = FirstStatus(b) /\ \A i \in 1..(n - 1) : ~IsChange(trail[i])
    \/ \E i \in 1..(n - 1) : /\ IsChange(trail[i]) /\ s = trail[i].new
                            /\ \A j \in (i + 1)..(n - 1) : ~IsChange(trail[j])

TrailExplains ==
    \A b \in rows \ excused :
        LET trail == activity[b]
            now(s) == Tells(b, trail, Len(trail) + 1, s)
        IN /\ \A i \in 1..Len(trail) :
                 IsChange(trail[i]) => Tells(b, trail, i, trail[i].old)
           /\ \/ now(status[b])
              \/ \E h \in Handler : /\ gw[h].pc = "log" /\ gw[h].bug = b
                                    /\ now(gw[h].old) /\ gw[h].new = status[b]

(* A start is never refused because of the sample bugs, although inserted  *)
(* bugs draw their external ids from the same range: no replica takes a    *)
(* report before the samples are in, whatever fails and whoever is first.  *)
StartsFit == \A g \in Replica : boot[g] = "samples" => SamplesFit
=============================================================================
