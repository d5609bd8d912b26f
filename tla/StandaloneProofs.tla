--------------------------- MODULE StandaloneProofs ---------------------------
(***************************************************************************)
(* Standalone, for any number of replicas, samples, reports and faults: no *)
(* start is refused by its own sample bugs (either the samples are in the  *)
(* table, or nothing is and nobody listens), and the activity trail tells  *)
(* the statuses of every bug whose requests did not overlap or break off   *)
(* (at most one request about such a bug is under way, and what it         *)
(* remembers is the status the trail tells last). The types come last.     *)
(***************************************************************************)
EXTENDS Standalone, TLAPS

SamplesFirst == Sample \subseteq rows \/ (rows = {} /\ \A g \in Replica : boot[g] # "listening")

StartInv == boot \in [Replica -> Stage] /\ SamplesFirst

(* A request changes the table only by adding a report to it, and only a   *)
(* replica that listens takes one.                                         *)
LEMMA ServeKeepsRows ==
    ASSUME Serve, StandaloneAssumption
    PROVE  /\ rows \subseteq rows' /\ boot' = boot
           /\ \E g \in Replica : boot[g] = "listening"
<1>1. boot' = boot
  BY DEF Serve, startVars
<1>2. \E h \in Handler : boot[ReplicaOf[h]] = "listening"
  BY DEF Serve, Serving
<1>3. \E g \in Replica : boot[g] = "listening"
  BY <1>2 DEF StandaloneAssumption
<1>4. ASSUME NEW h \in Handler, Transition(h) PROVE rows' = rows
  <2>1. CASE \/ \E b \in Bug, new \in Asked : RequestTransition(h, b, new)
             \/ SelectStatus(h) \/ TransitionUnknown(h)
    BY <2>1 DEF RequestTransition, SelectStatus, TransitionUnknown,
                platformVars, storeVars
  <2>2. CASE UpdateStatus(h)
    BY <2>2 DEF UpdateStatus, SetStatus
  <2>3. CASE LogTransition(h)
    BY <2>3 DEF LogTransition, Record
  <2>4. CASE TransitionFails(h)
    BY <2>4 DEF TransitionFails, storeVars
  <2>5. QED
    BY <1>4, <2>1, <2>2, <2>3, <2>4 DEF Transition
<1>5. ASSUME NEW h \in Handler, Patch(h) PROVE rows' = rows
  <2>1. CASE (\E b \in Bug : RequestPatch(h, b)) \/ UpdateFields(h)
    BY <2>1 DEF RequestPatch, UpdateFields, platformVars, storeVars
  <2>2. CASE NoteUpdate(h)
    BY <2>2 DEF NoteUpdate, Record
  <2>3. QED
    BY <1>5, <2>1, <2>2 DEF Patch
<1>6. ASSUME NEW r \in Report, CreateDirect(r) PROVE rows \subseteq rows'
  <2>1. \E b \in Bug, x \in ExtId : InsertBug(b, x)
    BY <1>6 DEF CreateDirect
  <2>2. QED
    BY <2>1 DEF InsertBug
<1>7. rows \subseteq rows'
  BY <1>4, <1>5, <1>6 DEF Serve, Serving
<1>8. QED
  BY <1>1, <1>3, <1>7

LEMMA StartKeeps ==
    ASSUME StartInv, NEW g \in Replica, Start(g)
    PROVE  StartInv'
<1>1. CASE StartUp(g) \/ CreateTables(g) \/ CreateIndexes(g) \/ SeedAccounts(g)
  <2>1. PICK to \in Stage \ {"listening"} : boot' = [boot EXCEPT ![g] = to]
    BY <1>1 DEF StartUp, CreateTables, CreateIndexes, SeedAccounts, Reach, Stage
  <2>2. rows' = rows
    BY <1>1 DEF StartUp, CreateTables, CreateIndexes, SeedAccounts,
                platformVars, storeVars
  <2>3. QED
    BY <2>1, <2>2 DEF StartInv, SamplesFirst
<1>2. CASE SeedSamples(g)
  <2>1. CASE InsertSamples /\ boot' = [boot EXCEPT ![g] = "listening"]
    <3>1. Sample \subseteq rows'
      BY <2>1 DEF InsertSamples
    <3>2. QED
      BY <2>1, <3>1 DEF StartInv, SamplesFirst, Stage
  <2>2. CASE boot' = [boot EXCEPT ![g] = "down"] /\ rows' = rows
    BY <2>2 DEF StartInv, SamplesFirst, Stage
  <2>3. QED
    BY <1>2, <2>1, <2>2 DEF SeedSamples, storeVars
<1>3. CASE GoDown(g)
  <2>1. boot' = [boot EXCEPT ![g] = "down"] /\ rows' = rows
    BY <1>3 DEF GoDown, storeVars
  <2>2. QED
    BY <2>1 DEF StartInv, SamplesFirst, Stage
<1>4. QED
  BY <1>1, <1>2, <1>3 DEF Start

LEMMA StepKeeps == StartInv /\ [Next]_vars => StartInv'
<1> SUFFICES ASSUME StartInv, [Next]_vars PROVE StartInv'
  OBVIOUS
<1>1. CASE Serve
  BY <1>1, ServeKeepsRows, StandaloneAssumption DEF StartInv, SamplesFirst
<1>2. CASE \E g \in Replica : Start(g)
  BY <1>2, StartKeeps
<1>3. CASE UNCHANGED vars
  BY <1>3 DEF StartInv, SamplesFirst, vars, startVars, platformVars, storeVars
<1>4. QED
  BY <1>1, <1>2, <1>3 DEF Next

(* However the starts and stops of the replicas and the requests they      *)
(* serve interleave, the sample bugs find their external ids free.         *)
THEOREM StartsAlwaysFit == Spec => []StartsFit
<1>1. Init => StartInv
  BY DEF Init, StartInv, SamplesFirst, Stage, PlatformInit, StoreInit
<1>2. StartInv => StartsFit
  BY DEF StartInv, SamplesFirst, StartsFit, SamplesFit
<1>3. QED
  BY <1>1, <1>2, StepKeeps, PTL DEF Spec
-----------------------------------------------------------------------------
(* What the trail says.  It is a function of the entries before n.         *)
Entry == PlainEntry \cup ChangeEntry

LEMMA TellsOfPart ==
    ASSUME NEW trail \in Seq(Entry), NEW e \in Entry, NEW b, NEW s,
           NEW n \in 1..(Len(trail) + 1)
    PROVE  Tells(b, trail, n, s) => Tells(b, Append(trail, e), n, s)
<1>1. /\ Len(trail) \in Nat /\ n \in Nat
      /\ \A i \in 1..(n - 1) : i \in 1..Len(trail) /\ Append(trail, e)[i] = trail[i]
  OBVIOUS
<1>2. \A i \in 1..(n - 1) : \A j \in (i + 1)..(n - 1) : j \in 1..(n - 1)
  BY <1>1
<1> QED
  BY <1>1, <1>2 DEF Tells

(* An entry of another kind changes nothing; a change tells its new status.*)
LEMMA TellsOfNext ==
    ASSUME NEW trail \in Seq(Entry), NEW e \in Entry, NEW b
    PROVE  /\ Append(trail, e) \in Seq(Entry)
           /\ Len(Append(trail, e)) = Len(trail) + 1
           /\ \A s : ~IsChange(e) /\ Tells(b, trail, Len(trail) + 1, s) =>
                        Tells(b, Append(trail, e), Len(Append(trail, e)) + 1, s)
           /\ IsChange(e) => Tells(b, Append(trail, e), Len(Append(trail, e)) + 1, e.new)
<1> DEFINE long == Append(trail, e)
<1>1. /\ long \in Seq(Entry) /\ Len(long) = Len(trail) + 1 /\ Len(trail) \in Nat
      /\ long[Len(trail) + 1] = e
      /\ \A i \in 1..Len(trail) : long[i] = trail[i]
  OBVIOUS
<1> HIDE DEF long
<1>2. /\ Len(long) + 1 - 1 = Len(trail) + 1 /\ Len(trail) + 1 - 1 = Len(trail)
      /\ \A i \in 1..(Len(trail) + 1) : i \in 1..Len(trail) \/ i = Len(trail) + 1
      /\ Len(trail) + 1 \in 1..(Len(trail) + 1)
      /\ \A j \in (Len(trail) + 1 + 1)..(Len(trail) + 1) : FALSE
      /\ \A i \in 1..Len(trail) : i \in 1..(Len(trail) + 1)
  BY <1>1
<1>3. ASSUME NEW s, ~IsChange(e), Tells(b, trail, Len(trail) + 1, s)
      PROVE  Tells(b, long, Len(long) + 1, s)
  <2>1. CASE s = FirstStatus(b) /\ \A i \in 1..Len(trail) : ~IsChange(trail[i])
    <3>1. \A i \in 1..(Len(trail) + 1) : ~IsChange(long[i])
      BY <1>1, <1>2, <1>3, <2>1
    <3> QED
      BY <1>2, <2>1, <3>1 DEF Tells
  <2>2. ASSUME NEW i \in 1..Len(trail), IsChange(trail[i]), s = trail[i].new,
               \A j \in (i + 1)..Len(trail) : ~IsChange(trail[j])
        PROVE  Tells(b, long, Len(long) + 1, s)
    <3>1. \A j \in (i + 1)..(Len(trail) + 1) :
             (j \in (i + 1)..Len(trail) /\ j \in 1..Len(trail)) \/ j = Len(trail) + 1
      BY <1>1
    <3>2. \A j \in (i + 1)..(Len(trail) + 1) : ~IsChange(long[j])
      BY <1>1, <1>3, <2>2, <3>1
    <3>3. IsChange(long[i]) /\ s = long[i].new
      BY <1>1, <2>2
    <3> QED
      BY <1>2, <3>2, <3>3 DEF Tells
  <2> QED
    BY <1>2, <1>3, <2>1, <2>2 DEF Tells
<1>4. ASSUME IsChange(e) PROVE Tells(b, long, Len(long) + 1, e.new)
  BY <1>1, <1>2, <1>4 DEF Tells
<1> QED
  BY <1>1, <1>3, <1>4 DEF long

-----------------------------------------------------------------------------
(* The trail of a bug that is not excused, and the one request about it    *)
(* that may be under way: between its SELECT and its UPDATE it knows the   *)
(* status, between its UPDATE and its INSERT it knows what the trail still *)
(* says.                                                                   *)
Chained(b, trail) ==
    \A i \in 1..Len(trail) : IsChange(trail[i]) => Tells(b, trail, i, trail[i].old)

Logging(call, b) == call.pc = "log" /\ call.bug = b

Explained(b, st, trail, calls) ==
    /\ Chained(b, trail)
    /\ \A h \in Handler : calls[h].pc = "update" /\ calls[h].bug = b => calls[h].old = st
    /\ \A h \in Handler : Logging(calls[h], b) =>
          calls[h].new = st /\ Tells(b, trail, Len(trail) + 1, calls[h].old)
    /\ (\A h \in Handler : ~Logging(calls[h], b)) => Tells(b, trail, Len(trail) + 1, st)

Alone(calls, pardoned) ==
    \A h, i \in Handler :
        h # i /\ calls[h].pc # "idle" /\ calls[i].pc # "idle" /\ calls[h].bug = calls[i].bug
            => calls[h].bug \in pardoned

(* A request that has found its bug has found a row.                       *)
Found(call, present) == call.pc \in {"update", "log", "note"} => call.bug \in present

TrailTypes ==
    /\ rows \subseteq Bug
    /\ status \in [Bug -> Status] /\ activity \in [Bug -> Seq(Entry)]
    /\ gw \in [Handler -> {Idle} \cup GatewayStep]

TrailInv ==
    /\ TrailTypes
    /\ \A b \in Bug \ rows : activity[b] = <<>>
    /\ \A h \in Handler : Found(gw[h], rows)
    /\ Alone(gw, excused)
    /\ \A b \in rows \ excused : Explained(b, status[b], activity[b], gw)

Pardons == excused' = excused \cup Overlapping(gw') \cup Broken

LEMMA AloneStep ==
    ASSUME gw' \in [Handler -> {Idle} \cup GatewayStep], Pardons
    PROVE  Alone(gw', excused')
<1> SUFFICES ASSUME NEW h \in Handler, NEW i \in Handler, h # i,
                    gw'[h].pc # "idle", gw'[i].pc # "idle", gw'[h].bug = gw'[i].bug
             PROVE  gw'[h].bug \in excused'
  BY DEF Alone
<1>1. gw'[h].bug \in Bug
  BY DEF GatewayStep, Idle
<1>2. gw'[h].bug \in Overlapping(gw')
  BY <1>1 DEF Overlapping
<1> QED
  BY <1>2 DEF Pardons

(* Requests go on without a change of status, or end, or are broken off.   *)
LEMMA RequestsMove ==
    ASSUME TrailInv, UNCHANGED <<rows, status, activity>>, Pardons,
           gw' \in [Handler -> {Idle} \cup GatewayStep],
           \A h \in Handler :
              \/ gw'[h] = gw[h]
              \/ /\ gw'[h].pc # "log" /\ Found(gw'[h], rows)
                 /\ gw[h].pc = "log" => gw'[h].pc = "idle"
                 /\ gw'[h].pc = "update" => gw'[h].old = status[gw'[h].bug]
    PROVE  TrailInv'
<1>1. Alone(gw', excused')
  BY AloneStep
<1>2. \A h \in Handler : Found(gw'[h], rows)
  BY DEF TrailInv
<1>3. ASSUME NEW b \in rows \ excused'
      PROVE  Explained(b, status[b], activity[b], gw')
  <2>1. b \in Bug /\ b \notin excused /\ Explained(b, status[b], activity[b], gw)
    BY <1>3 DEF Pardons, TrailInv, TrailTypes
  <2>2. ASSUME NEW h \in Handler, gw'[h].pc = "update", gw'[h].bug = b
        PROVE  gw'[h].old = status[b]
    BY <2>1, <2>2 DEF Explained
  <2>3. \A h \in Handler : Logging(gw'[h], b) => Logging(gw[h], b) /\ gw'[h] = gw[h]
    BY DEF Logging
  <2>4. ASSUME NEW h \in Handler, Logging(gw[h], b) PROVE Logging(gw'[h], b)
    <3>1. gw'[h].pc = "idle" => b \in Broken
      BY <2>4 DEF Broken, Logging
    <3> QED
      BY <1>3, <2>4, <3>1 DEF Pardons, Logging
  <2> QED
    BY <2>1, <2>2, <2>3, <2>4 DEF Explained
<1> QED
  BY <1>1, <1>2, <1>3 DEF TrailInv, TrailTypes

(* Rows are inserted with their first status, and nobody is at them yet.   *)
LEMMA RowsInserted ==
    ASSUME TrailInv, UNCHANGED <<gw, activity>>, Pardons,
           NEW new \in SUBSET (Bug \ rows), rows' = rows \cup new,
           status' \in [Bug -> Status],
           \A b \in Bug \ new : status'[b] = status[b],
           \A b \in new : status'[b] = FirstStatus(b)
    PROVE  TrailInv'
<1>1. Alone(gw', excused')
  BY AloneStep DEF TrailInv, TrailTypes
<1>2. ASSUME NEW b \in rows' \ excused'
      PROVE  Explained(b, status'[b], activity[b], gw)
  <2>1. CASE b \in rows
    BY <1>2, <2>1 DEF TrailInv, TrailTypes, Pardons
  <2>2. CASE b \in new
    <3>1. activity[b] = <<>> /\ \A h \in Handler : gw[h].pc \in {"update", "log"} => gw[h].bug # b
      BY <2>2 DEF TrailInv, Found
    <3>2. Tells(b, <<>>, Len(<<>>) + 1, status'[b])
      BY <2>2 DEF Tells
    <3> QED
      BY <3>1, <3>2 DEF Explained, Chained, Logging
  <2> QED
    BY <1>2, <2>1, <2>2
<1>3. \A b \in Bug \ rows' : activity[b] = <<>>
  BY DEF TrailInv
<1>4. \A h \in Handler : Found(gw[h], rows')
  BY DEF TrailInv, Found
<1> QED
  BY <1>1, <1>2, <1>3, <1>4 DEF TrailInv, TrailTypes

(* An entry is written: of another kind, or of the change that was due.    *)
LEMMA EntryWritten ==
    ASSUME TrailInv, NEW h \in Handler, NEW e \in Entry, UNCHANGED <<rows, status>>, Pardons,
           gw[h].pc # "idle", gw' = [gw EXCEPT ![h] = Idle],
           gw[h].bug \in rows, activity' = [activity EXCEPT ![gw[h].bug] = Append(@, e)],
           \/ gw[h].pc = "note" /\ ~IsChange(e)
           \/ gw[h].pc = "log" /\ IsChange(e) /\ e.old = gw[h].old /\ e.new = gw[h].new
    PROVE  TrailInv'
<1> DEFINE c == gw[h].bug
<1>t. /\ gw \in [Handler -> {Idle} \cup GatewayStep] /\ activity \in [Bug -> Seq(Entry)]
      /\ rows \subseteq Bug /\ c \in Bug /\ Idle.pc = "idle"
  BY DEF TrailInv, TrailTypes, Idle
<1>1. /\ gw' \in [Handler -> {Idle} \cup GatewayStep] /\ gw'[h] = Idle
      /\ \A i \in Handler : i # h => gw'[i] = gw[i]
  BY <1>t
<1>2. /\ activity' \in [Bug -> Seq(Entry)] /\ activity'[c] = Append(activity[c], e)
      /\ \A b \in Bug : b # c => activity'[b] = activity[b]
  BY <1>t
<1>3. Alone(gw', excused')
  BY <1>1, AloneStep
<1>4. \A i \in Handler : Found(gw'[i], rows)
  BY <1>t, <1>1 DEF TrailInv, Found
<1>5. ASSUME NEW b \in rows \ excused'
      PROVE  Explained(b, status[b], activity'[b], gw')
  <2>1. b \in Bug /\ b \notin excused /\ Explained(b, status[b], activity[b], gw)
    BY <1>5, <1>t DEF Pardons, TrailInv
  <2>2. CASE b # c
    <3>1. \A i \in Handler : Logging(gw[i], b) <=> Logging(gw'[i], b)
      BY <1>t, <1>1, <2>2 DEF Logging
    <3> QED
      BY <1>t, <1>1, <1>2, <2>1, <2>2, <3>1 DEF Explained, Logging
  <2>3. CASE b = c
    <3> DEFINE trail == activity[b]
    <3>1. \A i \in Handler : i # h /\ gw[i].pc # "idle" => gw[i].bug # b
      BY <2>1, <2>3 DEF TrailInv, Alone
    <3>2. \A i \in Handler : gw'[i].pc # "idle" => gw'[i].bug # b
      BY <1>t, <1>1, <3>1
    <3>3. trail \in Seq(Entry) /\ activity'[b] = Append(trail, e)
      BY <1>t, <1>2, <2>1, <2>3
    <3>4. /\ IsChange(e) => Tells(b, trail, Len(trail) + 1, e.old)
          /\ IsChange(e) => e.new = status[b]
          /\ ~IsChange(e) => Tells(b, trail, Len(trail) + 1, status[b])
      <4>1. \A i \in Handler : i # h => ~Logging(gw[i], b)
        BY <3>1 DEF Logging
      <4>2. CASE gw[h].pc = "note" /\ ~IsChange(e)
        BY <2>1, <4>1, <4>2 DEF Explained, Logging
      <4>3. CASE gw[h].pc = "log" /\ IsChange(e) /\ e.old = gw[h].old /\ e.new = gw[h].new
        BY <2>1, <2>3, <4>3 DEF Explained, Logging
      <4> QED
        BY <4>2, <4>3
    <3> HIDE DEF trail
    <3>5. Tells(b, activity'[b], Len(activity'[b]) + 1, status[b])
      BY <3>3, <3>4, TellsOfNext
    <3>6. Chained(b, activity'[b])
      <4> SUFFICES ASSUME NEW i \in 1..Len(activity'[b]), IsChange(activity'[b][i])
                   PROVE  Tells(b, activity'[b], i, activity'[b][i].old)
        BY DEF Chained
      <4>1. /\ Len(trail) \in Nat /\ i \in 1..(Len(trail) + 1)
            /\ i # Len(trail) + 1 => i \in 1..Len(trail) /\ activity'[b][i] = trail[i]
            /\ activity'[b][Len(trail) + 1] = e
        BY <3>3
      <4>2. CASE i = Len(trail) + 1
        BY <3>3, <3>4, <4>1, <4>2, TellsOfPart
      <4>3. CASE i # Len(trail) + 1
        <5>1. Tells(b, trail, i, trail[i].old)
          BY <2>1, <4>1, <4>3 DEF Explained, Chained, trail
        <5> QED
          BY <3>3, <4>1, <4>3, <5>1, TellsOfPart
      <4> QED
        BY <4>2, <4>3
    <3> QED
      BY <3>2, <3>5, <3>6 DEF Explained, Logging
  <2> QED
    BY <2>2, <2>3
<1>6. \A b \in Bug \ rows : activity'[b] = <<>>
  BY <1>2 DEF TrailInv
<1> QED
  BY <1>1, <1>2, <1>3, <1>4, <1>5, <1>6 DEF TrailInv, TrailTypes

(* The status is set by the request that knows the one before.             *)
LEMMA StatusSet ==
    ASSUME TrailInv, NEW h \in Handler, UpdateStatus(h), Pardons
    PROVE  TrailInv'
<1> DEFINE c == gw[h].bug
<1>t. /\ gw \in [Handler -> {Idle} \cup GatewayStep] /\ activity \in [Bug -> Seq(Entry)]
      /\ rows \subseteq Bug /\ status \in [Bug -> Status]
  BY DEF TrailInv, TrailTypes
<1>1. /\ gw[h].pc = "update" /\ gw' = [gw EXCEPT ![h] = [gw[h] EXCEPT !.pc = "log"]]
      /\ status' = Column(status, c, gw[h].new) /\ UNCHANGED <<rows, activity>>
  BY DEF UpdateStatus, SetStatus
<1>2. gw[h] \in GatewayStep /\ c \in rows
  BY <1>t, <1>1 DEF Idle, TrailInv, Found
<1>3. /\ gw' \in [Handler -> {Idle} \cup GatewayStep]
      /\ gw'[h].pc = "log" /\ gw'[h].bug = c /\ gw'[h].old = gw[h].old /\ gw'[h].new = gw[h].new
      /\ \A i \in Handler : i # h => gw'[i] = gw[i]
  <2>1. [gw[h] EXCEPT !.pc = "log"] =
            [pc |-> "log", bug |-> c, old |-> gw[h].old, new |-> gw[h].new]
    BY <1>2 DEF GatewayStep
  <2>2. [pc |-> "log", bug |-> c, old |-> gw[h].old, new |-> gw[h].new] \in GatewayStep
    BY <1>2 DEF GatewayStep
  <2> QED
    BY <1>t, <1>1, <2>1, <2>2
<1>4. /\ status' \in [Bug -> Status] /\ status'[c] = gw[h].new
      /\ \A b \in Bug : b # c => status'[b] = status[b]
  BY <1>t, <1>1, <1>2 DEF Column, GatewayStep
<1>5. Alone(gw', excused')
  BY <1>3, AloneStep
<1>6. \A i \in Handler : Found(gw'[i], rows)
  BY <1>2, <1>3 DEF TrailInv, Found
<1>7. ASSUME NEW b \in rows \ excused'
      PROVE  Explained(b, status'[b], activity[b], gw')
  <2>1. b \in Bug /\ b \notin excused /\ Explained(b, status[b], activity[b], gw)
    BY <1>7, <1>t DEF Pardons, TrailInv
  <2>2. CASE b # c
    <3>1. \A i \in Handler : Logging(gw[i], b) <=> Logging(gw'[i], b)
      BY <1>1, <1>3, <2>2 DEF Logging
    <3> QED
      BY <1>3, <1>4, <2>1, <2>2, <3>1 DEF Explained, Logging
  <2>3. CASE b = c
    <3>1. \A i \in Handler : i # h /\ gw[i].pc # "idle" => gw[i].bug # b
      BY <1>1, <2>1, <2>3 DEF TrailInv, Alone
    <3>2. Tells(b, activity[b], Len(activity[b]) + 1, status[b]) /\ gw[h].old = status[b]
      BY <1>1, <2>1, <2>3, <3>1 DEF Explained, Logging
    <3>3. \A i \in Handler : gw'[i].pc # "idle" /\ gw'[i].bug = b => i = h
      BY <1>3, <3>1
    <3>4. Logging(gw'[h], b)
      BY <1>3, <2>3 DEF Logging
    <3>5. \A i \in Handler : gw'[i].pc = "update" => gw'[i].bug # b
      BY <1>3, <3>3
    <3>6. \A i \in Handler : Logging(gw'[i], b) => i = h
      BY <3>3 DEF Logging
    <3> QED
      BY <1>3, <1>4, <2>1, <2>3, <3>2, <3>4, <3>5, <3>6 DEF Explained
  <2> QED
    BY <2>2, <2>3
<1> QED
  BY <1>1, <1>3, <1>4, <1>5, <1>6, <1>7 DEF TrailInv, TrailTypes

(* The same, of one handler.                                               *)
LEMMA HandlerMoves ==
    ASSUME TrailInv, UNCHANGED <<rows, status, activity>>, Pardons,
           NEW h \in Handler, NEW call \in {Idle} \cup GatewayStep,
           gw' = [gw EXCEPT ![h] = call],
           call.pc # "log", Found(call, rows), gw[h].pc = "log" => call.pc = "idle",
           call.pc = "update" => call.old = status[call.bug]
    PROVE  TrailInv'
<1>1. gw' \in [Handler -> {Idle} \cup GatewayStep]
  BY DEF TrailInv, TrailTypes
<1>2. gw'[h] = call /\ \A i \in Handler : i # h => gw'[i] = gw[i]
  BY DEF TrailInv, TrailTypes
<1> QED
  BY <1>1, <1>2, RequestsMove

LEMMA TransitionStep ==
    ASSUME TrailInv, NEW h \in Handler, Transition(h), Pardons,
           GatewayAssumption
    PROVE  TrailInv'
<1>t. Idle \in {Idle} \cup GatewayStep /\ Idle.pc = "idle" /\ Found(Idle, rows)
  BY DEF Idle, Found
<1>1. ASSUME NEW b \in Bug, NEW new \in Asked, RequestTransition(h, b, new) PROVE TrailInv'
  <2> DEFINE call == [pc |-> "select", bug |-> b, old |-> "open", new |-> new]
  <2>1. call \in {Idle} \cup GatewayStep /\ Found(call, rows)
    BY GatewayAssumption DEF GatewayAssumption, GatewayStep, Status, Found
  <2>2. /\ gw[h].pc = "idle" /\ gw' = [gw EXCEPT ![h] = call]
        /\ UNCHANGED <<rows, status, activity>> /\ call.pc = "select"
    BY <1>1 DEF RequestTransition, platformVars, storeVars, columns
  <2> HIDE DEF call
  <2> QED
    BY <2>1, <2>2, HandlerMoves
<1>2. CASE SelectStatus(h)
  <2> DEFINE c == gw[h]
             call == [pc |-> "update", bug |-> c.bug, old |-> status[c.bug], new |-> c.new]
  <2>1. /\ c.pc = "select" /\ c.bug \in rows
        /\ gw' = [gw EXCEPT ![h] = [[c EXCEPT !.pc = "update"] EXCEPT !.old = status[c.bug]]]
        /\ UNCHANGED <<rows, status, activity>>
    BY <1>2 DEF SelectStatus, platformVars, storeVars, columns
  <2>2. c \in GatewayStep /\ status[c.bug] \in Status
    BY <2>1 DEF TrailInv, TrailTypes, Idle
  <2> DEFINE m == [c EXCEPT !.pc = "update"]
  <2>3. m = [pc |-> "update", bug |-> c.bug, old |-> c.old, new |-> c.new]
    BY <2>2 DEF GatewayStep
  <2>m. gw' = [gw EXCEPT ![h] = [m EXCEPT !.old = status[c.bug]]]
    BY <2>1
  <2> HIDE DEF m
  <2>4. [m EXCEPT !.old = status[c.bug]] = call
    BY <2>3
  <2>5. call \in GatewayStep /\ call.bug \in rows /\ call.old = status[call.bug]
    BY <2>1, <2>2 DEF GatewayStep
  <2>6. call.pc = "update" /\ gw' = [gw EXCEPT ![h] = call]
    BY <2>m, <2>4
  <2> HIDE DEF call
  <2> QED
    BY <2>1, <2>5, <2>6, HandlerMoves DEF Found
<1>3. CASE TransitionUnknown(h)
  BY <1>t, <1>3, HandlerMoves DEF TransitionUnknown, platformVars, storeVars, columns
<1>4. CASE UpdateStatus(h)
  BY <1>4, StatusSet
<1>5. CASE LogTransition(h)
  <2> DEFINE e == [action |-> "status_change", old |-> gw[h].old, new |-> gw[h].new]
  <2>1. gw[h].pc = "log" /\ gw[h] \in GatewayStep
    BY <1>5 DEF LogTransition, TrailInv, TrailTypes, Idle
  <2>2. e \in Entry /\ IsChange(e) /\ e.old = gw[h].old /\ e.new = gw[h].new
    BY <2>1 DEF Entry, ChangeEntry, GatewayStep, IsChange
  <2>3. /\ gw' = [gw EXCEPT ![h] = Idle] /\ UNCHANGED <<rows, status>> /\ gw[h].bug \in rows
        /\ activity' = [activity EXCEPT ![gw[h].bug] = Append(@, e)]
    BY <1>5 DEF LogTransition, Record, columns
  <2> HIDE DEF e
  <2> QED
    BY <2>1, <2>2, <2>3, EntryWritten
<1>6. CASE TransitionFails(h)
  BY <1>t, <1>6, HandlerMoves DEF TransitionFails, storeVars, columns
<1> QED
  BY <1>1, <1>2, <1>3, <1>4, <1>5, <1>6 DEF Transition

LEMMA PatchStep ==
    ASSUME TrailInv, NEW h \in Handler, Patch(h), Pardons
    PROVE  TrailInv'
<1>t. Idle \in {Idle} \cup GatewayStep /\ Idle.pc = "idle" /\ Found(Idle, rows)
  BY DEF Idle, Found
<1>1. ASSUME NEW b \in Bug, RequestPatch(h, b) PROVE TrailInv'
  <2> DEFINE call == [pc |-> "patch", bug |-> b, old |-> "open", new |-> "open"]
  <2>1. call \in {Idle} \cup GatewayStep /\ Found(call, rows)
    BY DEF GatewayStep, Status, Found
  <2>2. /\ gw[h].pc = "idle" /\ gw' = [gw EXCEPT ![h] = call]
        /\ UNCHANGED <<rows, status, activity>> /\ call.pc = "patch"
    BY <1>1 DEF RequestPatch, platformVars, storeVars, columns
  <2> HIDE DEF call
  <2> QED
    BY <2>1, <2>2, HandlerMoves
<1>2. CASE UpdateFields(h)
  <2> DEFINE call == [gw[h] EXCEPT !.pc = "note"]
  <2>1. /\ gw[h].pc = "patch" /\ UNCHANGED <<rows, status, activity>>
        /\ gw' = IF gw[h].bug \in rows THEN [gw EXCEPT ![h] = call]
                                       ELSE [gw EXCEPT ![h] = Idle]
    BY <1>2 DEF UpdateFields, platformVars, storeVars, columns
  <2>2. gw[h] \in GatewayStep
    BY <2>1 DEF TrailInv, TrailTypes, Idle
  <2>3. call \in GatewayStep /\ call.pc = "note" /\ call.bug = gw[h].bug
    BY <2>2 DEF GatewayStep
  <2> HIDE DEF call
  <2>4. CASE gw[h].bug \in rows
    BY <2>1, <2>3, <2>4, HandlerMoves DEF Found
  <2>5. CASE gw[h].bug \notin rows
    BY <1>t, <2>1, <2>5, HandlerMoves
  <2> QED
    BY <2>4, <2>5
<1>3. CASE NoteUpdate(h)
  <2> DEFINE e == [action |-> "updated"]
  <2>1. e \in Entry /\ ~IsChange(e)
    BY DEF Entry, PlainEntry, IsChange
  <2>2. /\ gw[h].pc = "note" /\ gw' = [gw EXCEPT ![h] = Idle]
        /\ UNCHANGED <<rows, status>> /\ gw[h].bug \in rows
        /\ activity' = [activity EXCEPT ![gw[h].bug] = Append(@, e)]
    BY <1>3 DEF NoteUpdate, Record, columns
  <2> HIDE DEF e
  <2> QED
    BY <2>1, <2>2, EntryWritten
<1> QED
  BY <1>1, <1>2, <1>3 DEF Patch

(* A report that is inserted directly is none of the samples, and open.    *)
LEMMA DirectStep ==
    ASSUME TrailInv, NEW r \in Report, CreateDirect(r), Pardons, StandaloneAssumption
    PROVE  TrailInv'
<1>1. PICK b \in Bug, x \in ExtId : ReportOf[b] = r /\ InsertBug(b, x)
  BY DEF CreateDirect
<1>2. b \notin Sample /\ b \notin rows /\ UNCHANGED gw
  BY <1>1 DEF CreateDirect, StandaloneAssumption, InsertBug, KeysFree, gatewayVars
<1>3. /\ rows' = rows \cup {b} /\ status' = [status EXCEPT ![b] = "open"]
      /\ UNCHANGED activity /\ status \in [Bug -> Status]
  BY <1>1 DEF InsertBug, TrailInv, TrailTypes
<1> DEFINE new == {b}
<1>4. /\ status' \in [Bug -> Status] /\ \A c \in new : status'[c] = FirstStatus(c)
      /\ \A c \in Bug \ new : status'[c] = status[c]
  BY <1>2, <1>3 DEF Status, FirstStatus
<1>5. new \in SUBSET (Bug \ rows) /\ rows' = rows \cup new
  BY <1>2, <1>3
<1> HIDE DEF new
<1> QED
  BY <1>2, <1>3, <1>4, <1>5, RowsInserted

(* No step of a start changes the status of a row that is there.           *)
LEMMA StartStep ==
    ASSUME TrailInv, NEW g \in Replica, Start(g), Pardons, StandaloneAssumption
    PROVE  TrailInv'
<1>t. /\ gw \in [Handler -> {Idle} \cup GatewayStep] /\ status \in [Bug -> Status]
      /\ Idle.pc = "idle" /\ Found(Idle, rows)
  BY DEF TrailInv, TrailTypes, Idle, Found
<1>1. CASE UNCHANGED <<rows, status, activity, gw>>
  BY <1>t, <1>1, RequestsMove
<1>2. CASE InsertSamples /\ UNCHANGED gatewayVars
  <2> DEFINE new == Sample \ rows
  <2>1. /\ new \in SUBSET (Bug \ rows) /\ rows' = rows \cup new
        /\ UNCHANGED <<gw, activity>>
        /\ status' = [b \in Bug |-> IF b \in new THEN SampleStatus[b] ELSE status[b]]
    BY <1>2, StandaloneAssumption DEF StandaloneAssumption, InsertSamples, gatewayVars
  <2>2. \A b \in new : SampleStatus[b] \in Status /\ FirstStatus(b) = SampleStatus[b]
    BY StandaloneAssumption DEF StandaloneAssumption, FirstStatus
  <2> HIDE DEF new
  <2>3. /\ status' \in [Bug -> Status]
        /\ \A b \in Bug \ new : status'[b] = status[b]
        /\ \A b \in new : status'[b] = FirstStatus(b)
    BY <1>t, <2>1, <2>2
  <2> QED
    BY <2>1, <2>3, RowsInserted
<1>3. CASE GoDown(g)
  <2>1. /\ gw' = [h \in Handler |-> IF ReplicaOf[h] = g THEN Idle ELSE gw[h]]
        /\ UNCHANGED <<rows, status, activity>>
    BY <1>3 DEF GoDown, storeVars, columns
  <2>2. gw' \in [Handler -> {Idle} \cup GatewayStep]
    BY <1>t, <2>1
  <2>3. \A h \in Handler : gw'[h] = gw[h] \/ gw'[h] = Idle
    BY <2>1
  <2> QED
    BY <1>t, <2>1, <2>2, <2>3, RequestsMove
<1>4. CASE StartUp(g) \/ CreateTables(g) \/ CreateIndexes(g) \/ SeedAccounts(g)
  BY <1>1, <1>4 DEF StartUp, CreateTables, CreateIndexes, SeedAccounts,
                    platformVars, storeVars, columns, gatewayVars
<1>5. CASE SeedSamples(g)
  BY <1>1, <1>2, <1>5 DEF SeedSamples, storeVars, columns, gatewayVars
<1> QED
  BY <1>3, <1>4, <1>5 DEF Start

LEMMA TrailStep == TrailInv /\ [Next]_vars => TrailInv'
<1> SUFFICES ASSUME TrailInv, [Next]_vars PROVE TrailInv'
  OBVIOUS
<1>1. CASE Next
  <2>1. Pardons
    BY <1>1 DEF Next, Pardons
  <2>2. CASE Serve
    BY <2>1, <2>2, TransitionStep, PatchStep, DirectStep, StandaloneAssumption,
       GatewayAssumption DEF Serve, Serving
  <2>3. CASE \E g \in Replica : Start(g)
    BY <2>1, <2>3, StartStep, StandaloneAssumption
  <2> QED
    BY <1>1, <2>2, <2>3 DEF Next
<1>2. CASE UNCHANGED vars
  BY <1>2 DEF vars, platformVars, storeVars, columns, gatewayVars, TrailInv, TrailTypes,
              Found, Alone, Explained, Chained, Logging, Tells, FirstStatus
<1> QED
  BY <1>1, <1>2

LEMMA TrailInit == Init => TrailInv
<1> SUFFICES ASSUME Init PROVE TrailInv
  OBVIOUS
<1>1. /\ rows = {} /\ status = [b \in Bug |-> "open"] /\ activity = [b \in Bug |-> <<>>]
      /\ gw = [h \in Handler |-> Idle]
  BY DEF Init, PlatformInit, StoreInit, GatewayInit
<1>2. <<>> \in Seq(Entry) /\ Idle.pc = "idle"
  BY DEF Idle
<1>3. TrailTypes
  BY <1>1, <1>2 DEF TrailTypes, Status
<1>4. \A h \in Handler : gw[h].pc = "idle"
  BY <1>1, <1>2
<1> QED
  BY <1>1, <1>3, <1>4 DEF TrailInv, Found, Alone

(* The activity trail that POST /transition and PATCH /bugs/:id write      *)
(* tells every status a bug had, in order and up to the present one,       *)
(* unless two of its requests overlapped or one broke off between its      *)
(* UPDATE and its INSERT; runMigrations, run by any number of replicas     *)
(* in between, changes no status behind the trail's back.                  *)
THEOREM TrailTold == Spec => []TrailExplains
<1>1. ASSUME TrailInv PROVE TrailExplains
  <2> SUFFICES ASSUME NEW b \in rows \ excused
               PROVE  /\ Chained(b, activity[b])
                      /\ \/ Tells(b, activity[b], Len(activity[b]) + 1, status[b])
                         \/ \E h \in Handler :
                               /\ gw[h].pc = "log" /\ gw[h].bug = b
                               /\ Tells(b, activity[b], Len(activity[b]) + 1, gw[h].old)
                               /\ gw[h].new = status[b]
    BY DEF TrailExplains, Chained
  <2> QED
    BY <1>1 DEF TrailInv, Explained, Logging
<1> QED
  BY <1>1, TrailInit, TrailStep, PTL DEF Spec

-----------------------------------------------------------------------------
(* Types.  Every step is one of a handler, an insertion or a start; what   *)
(* it writes in the table has the column's type.                           *)
LEMMA WrittenTypes ==
    ASSUME StoreTypeOK
    PROVE  /\ UNCHANGED storeVars => StoreTypeOK'
           /\ \A b \in Bug, x \in ExtId : InsertBug(b, x) => StoreTypeOK'
           /\ \A b \in Bug, st \in Status : SetStatus(b, st) => StoreTypeOK'
           /\ \A b \in Bug, e \in Entry : Record(b, e) => StoreTypeOK'
<1>1. UNCHANGED storeVars => StoreTypeOK'
  BY DEF StoreTypeOK, storeVars, columns
<1>2. \A b \in Bug, x \in ExtId : InsertBug(b, x) => StoreTypeOK'
  BY DEF StoreTypeOK, InsertBug, Status
<1>3. \A b \in Bug, st \in Status : SetStatus(b, st) => StoreTypeOK'
  BY DEF StoreTypeOK, SetStatus, Column
<1>4. ASSUME NEW b \in Bug, NEW e \in Entry, Record(b, e) PROVE StoreTypeOK'
  <2>1. Append(activity[b], e) \in Seq(PlainEntry \cup ChangeEntry)
    BY DEF StoreTypeOK, Entry
  <2>2. activity' \in [Bug -> Seq(PlainEntry \cup ChangeEntry)]
    BY <1>4, <2>1 DEF StoreTypeOK, Record
  <2> QED
    BY <1>4, <2>2 DEF StoreTypeOK, Record, columns
<1> QED
  BY <1>1, <1>2, <1>3, <1>4

LEMMA SampleTypes ==
    ASSUME StoreTypeOK, InsertSamples, StandaloneAssumption
    PROVE  StoreTypeOK'
<1> DEFINE new == Sample \ rows
<1>1. new \subseteq Bug /\ \A b \in new : SampleId[b] \in ExtId /\ SampleStatus[b] \in Status
  BY StandaloneAssumption DEF StandaloneAssumption
<1>2. /\ rows' = rows \cup new
      /\ externalId' = [b \in Bug |-> IF b \in new THEN SampleId[b] ELSE externalId[b]]
      /\ status' = [b \in Bug |-> IF b \in new THEN SampleStatus[b] ELSE status[b]]
      /\ scored' = [b \in Bug |-> b \in new \/ scored[b]]
      /\ UNCHANGED <<canonical, embedded, analyzed, activity>>
  BY DEF InsertSamples
<1> HIDE DEF new
<1>3. rows' \in SUBSET Bug /\ externalId' \in [Bug -> ExtId \cup {0}] /\ status' \in [Bug -> Status]
  BY <1>1, <1>2 DEF StoreTypeOK
<1>4. scored' \in [Bug -> BOOLEAN]
  BY <1>2 DEF StoreTypeOK
<1> QED
  BY <1>2, <1>3, <1>4 DEF StoreTypeOK

(* A fault, or none.                                                       *)
LEMMA FaultTypes ==
    ASSUME PlatformAssumption, faults \in 0..MaxFaults, Fault \/ UNCHANGED faults
    PROVE  faults' \in 0..MaxFaults
  BY PlatformAssumption DEF PlatformAssumption, Fault

(* What a handler does next is a call.                                     *)
LEMMA CallTypes ==
    ASSUME NEW call \in GatewayStep
    PROVE  /\ \A pc \in {"select", "update", "log", "patch", "note"} :
                 [call EXCEPT !.pc = pc] \in GatewayStep
           /\ \A pc \in {"select", "update", "log", "patch", "note"}, st \in Status :
                 [[call EXCEPT !.pc = pc] EXCEPT !.old = st] \in GatewayStep
<1>1. \A pc \in {"select", "update", "log", "patch", "note"} :
         [call EXCEPT !.pc = pc] \in GatewayStep
  BY DEF GatewayStep
<1>2. \A m \in GatewayStep : \A st \in Status : [m EXCEPT !.old = st] \in GatewayStep
  BY DEF GatewayStep
<1> QED
  BY <1>1, <1>2

LEMMA TransitionTypes ==
    ASSUME StoreTypeOK, GatewayTypeOK, faults \in 0..MaxFaults,
           NEW h \in Handler, Transition(h), GatewayAssumption, PlatformAssumption
    PROVE  /\ StoreTypeOK' /\ GatewayTypeOK' /\ faults' \in 0..MaxFaults
           /\ UNCHANGED streamVars
<1>t. /\ gw \in [Handler -> {Idle} \cup GatewayStep] /\ requests \in 0..MaxRequests
      /\ resolvedAt \in [Bug -> BOOLEAN] /\ MaxRequests \in Nat
  BY GatewayAssumption DEF GatewayTypeOK
<1>c. gw[h].pc \in {"select", "update", "log"} => gw[h] \in GatewayStep
  BY <1>t DEF Idle
<1>b. gw[h].pc \in {"select", "update", "log"} =>
          gw[h].bug \in Bug /\ gw[h].old \in Status /\ gw[h].new \in Status
  BY <1>c DEF GatewayStep
<1>1. ASSUME NEW b \in Bug, NEW new \in Asked, RequestTransition(h, b, new)
      PROVE  /\ StoreTypeOK' /\ GatewayTypeOK' /\ faults' \in 0..MaxFaults
             /\ UNCHANGED streamVars
  <2>1. [pc |-> "select", bug |-> b, old |-> "open", new |-> new] \in GatewayStep
    BY GatewayAssumption DEF GatewayAssumption, GatewayStep, Status
  <2>2. gw' \in [Handler -> {Idle} \cup GatewayStep] /\ requests' \in 0..MaxRequests
    BY <1>1, <1>t, <2>1 DEF RequestTransition
  <2> QED
    BY <1>1, <1>t, <2>2, WrittenTypes DEF RequestTransition, GatewayTypeOK, platformVars
<1>2. CASE SelectStatus(h)
  <2>1. gw[h] \in GatewayStep /\ status[gw[h].bug] \in Status
    BY <1>2, <1>c, <1>b DEF SelectStatus, StoreTypeOK
  <2>2. [[gw[h] EXCEPT !.pc = "update"] EXCEPT !.old = status[gw[h].bug]] \in GatewayStep
    BY <2>1, CallTypes
  <2>3. gw' = [gw EXCEPT ![h] = [[gw[h] EXCEPT !.pc = "update"] EXCEPT !.old = status[gw[h].bug]]]
    BY <1>2 DEF SelectStatus
  <2>4. gw' \in [Handler -> {Idle} \cup GatewayStep]
    BY <1>t, <2>2, <2>3
  <2> QED
    BY <1>2, <1>t, <2>4, WrittenTypes DEF SelectStatus, GatewayTypeOK, platformVars
<1>3. CASE TransitionUnknown(h)
  BY <1>3, <1>t, WrittenTypes DEF TransitionUnknown, GatewayTypeOK, platformVars
<1>4. CASE UpdateStatus(h)
  <2>1. [gw[h] EXCEPT !.pc = "log"] \in GatewayStep
    BY <1>4, <1>c, CallTypes DEF UpdateStatus
  <2>2. gw' = [gw EXCEPT ![h] = [gw[h] EXCEPT !.pc = "log"]]
    BY <1>4 DEF UpdateStatus
  <2>3. gw' \in [Handler -> {Idle} \cup GatewayStep]
    BY <1>t, <2>1, <2>2
  <2>4. resolvedAt' \in [Bug -> BOOLEAN]
    BY <1>4, <1>t DEF UpdateStatus, Column
  <2>5. StoreTypeOK'
    BY <1>4, <1>b, WrittenTypes DEF UpdateStatus
  <2> QED
    BY <1>4, <1>t, <2>3, <2>4, <2>5 DEF UpdateStatus, GatewayTypeOK
<1>5. CASE LogTransition(h)
  <2>1. [action |-> "status_change", old |-> gw[h].old, new |-> gw[h].new] \in Entry
    BY <1>5, <1>b DEF LogTransition, Entry, ChangeEntry
  <2>2. StoreTypeOK'
    BY <1>5, <1>b, <2>1, WrittenTypes DEF LogTransition
  <2> QED
    BY <1>5, <1>t, <2>2 DEF LogTransition, GatewayTypeOK
<1>6. CASE TransitionFails(h)
  BY <1>6, <1>t, WrittenTypes, FaultTypes DEF TransitionFails, GatewayTypeOK
<1> QED
  BY <1>1, <1>2, <1>3, <1>4, <1>5, <1>6 DEF Transition

LEMMA PatchTypes ==
    ASSUME StoreTypeOK, GatewayTypeOK, faults \in 0..MaxFaults,
           NEW h \in Handler, Patch(h), GatewayAssumption
    PROVE  /\ StoreTypeOK' /\ GatewayTypeOK' /\ faults' \in 0..MaxFaults
           /\ UNCHANGED streamVars
<1>t. /\ gw \in [Handler -> {Idle} \cup GatewayStep] /\ requests \in 0..MaxRequests
      /\ resolvedAt \in [Bug -> BOOLEAN] /\ MaxRequests \in Nat
  BY GatewayAssumption DEF GatewayTypeOK
<1>c. gw[h].pc \in {"patch", "note"} => gw[h] \in GatewayStep
  BY <1>t DEF Idle
<1>1. ASSUME NEW b \in Bug, RequestPatch(h, b)
      PROVE  /\ StoreTypeOK' /\ GatewayTypeOK' /\ faults' \in 0..MaxFaults
             /\ UNCHANGED streamVars
  <2>1. [pc |-> "patch", bug |-> b, old |-> "open", new |-> "open"] \in GatewayStep
    BY DEF GatewayStep, Status
  <2>2. gw' \in [Handler -> {Idle} \cup GatewayStep] /\ requests' \in 0..MaxRequests
    BY <1>1, <1>t, <2>1 DEF RequestPatch
  <2> QED
    BY <1>1, <1>t, <2>2, WrittenTypes DEF RequestPatch, GatewayTypeOK, platformVars
<1>2. CASE UpdateFields(h)
  <2> DEFINE call == [gw[h] EXCEPT !.pc = "note"]
  <2>1. call \in GatewayStep
    BY <1>2, <1>c, CallTypes DEF UpdateFields
  <2>2. gw' = [gw EXCEPT ![h] = call] \/ gw' = [gw EXCEPT ![h] = Idle]
    BY <1>2 DEF UpdateFields
  <2> HIDE DEF call
  <2>3. gw' \in [Handler -> {Idle} \cup GatewayStep]
    BY <1>t, <2>1, <2>2
  <2> QED
    BY <1>2, <1>t, <2>3, WrittenTypes DEF UpdateFields, GatewayTypeOK, platformVars
<1>3. CASE NoteUpdate(h)
  <2>1. [action |-> "updated"] \in Entry /\ gw[h].bug \in Bug
    BY <1>3, <1>c DEF NoteUpdate, Entry, PlainEntry, GatewayStep
  <2>2. StoreTypeOK'
    BY <1>3, <2>1, WrittenTypes DEF NoteUpdate
  <2> QED
    BY <1>3, <1>t, <2>2 DEF NoteUpdate, GatewayTypeOK
<1> QED
  BY <1>1, <1>2, <1>3 DEF Patch

LEMMA StartTypes ==
    ASSUME StandaloneTypeOK, NEW g \in Replica, Start(g),
           StandaloneAssumption, PlatformAssumption
    PROVE  /\ StoreTypeOK' /\ GatewayTypeOK' /\ faults' \in 0..MaxFaults
           /\ UNCHANGED streamVars
           /\ boot' \in [Replica -> Stage] /\ starts' \in 0..MaxStarts
           /\ schema' \subseteq {"tables", "indexes", "accounts"}
<1>t. /\ StoreTypeOK /\ GatewayTypeOK /\ faults \in 0..MaxFaults
      /\ boot \in [Replica -> Stage] /\ starts \in 0..MaxStarts /\ MaxStarts \in Nat
      /\ schema \subseteq {"tables", "indexes", "accounts"}
  BY StandaloneAssumption DEF StandaloneAssumption, StandaloneTypeOK, PlatformTypeOK
<1>g. UNCHANGED gatewayVars => GatewayTypeOK'
  BY <1>t DEF GatewayTypeOK, gatewayVars
<1>1. CASE StartUp(g) \/ CreateTables(g) \/ CreateIndexes(g) \/ SeedAccounts(g)
  <2>1. \E to \in Stage : boot' = [boot EXCEPT ![g] = to]
    BY <1>1 DEF StartUp, CreateTables, CreateIndexes, SeedAccounts, Reach, Stage
  <2>2. UNCHANGED <<platformVars, gatewayVars>>
    BY <1>1 DEF StartUp, CreateTables, CreateIndexes, SeedAccounts
  <2>3. starts' = starts \/ (starts < MaxStarts /\ starts' = starts + 1)
    BY <1>1 DEF StartUp, CreateTables, CreateIndexes, SeedAccounts
  <2>4. starts' \in 0..MaxStarts
    BY <1>t, <2>3
  <2>5. \/ schema' = schema \/ schema' = schema \cup {"tables"}
        \/ schema' = schema \cup {"indexes"} \/ schema' = schema \cup {"accounts"}
    BY <1>1 DEF StartUp, CreateTables, CreateIndexes, SeedAccounts
  <2>6. schema' \subseteq {"tables", "indexes", "accounts"}
    BY <1>t, <2>5
  <2> QED
    BY <1>t, <1>g, <2>1, <2>2, <2>4, <2>6, WrittenTypes DEF platformVars
<1>2. CASE SeedSamples(g)
  <2>1. boot' \in [Replica -> Stage]
    BY <1>2, <1>t DEF SeedSamples, Stage
  <2>2. StoreTypeOK'
    BY <1>2, <1>t, WrittenTypes, SampleTypes, StandaloneAssumption DEF SeedSamples
  <2> QED
    BY <1>2, <1>t, <1>g, <2>1, <2>2 DEF SeedSamples
<1>3. CASE GoDown(g)
  <2>1. boot' \in [Replica -> Stage]
    BY <1>3, <1>t DEF GoDown, Stage
  <2>2. GatewayTypeOK'
    BY <1>3, <1>t DEF GoDown, GatewayTypeOK
  <2>3. faults' \in 0..MaxFaults
    BY <1>3, <1>t, FaultTypes, PlatformAssumption DEF GoDown
  <2> QED
    BY <1>3, <1>t, <2>1, <2>2, <2>3, WrittenTypes DEF GoDown
<1> QED
  BY <1>1, <1>2, <1>3 DEF Start

LEMMA TypesStep == StandaloneTypeOK /\ [Next]_vars => StandaloneTypeOK'
<1> SUFFICES ASSUME StandaloneTypeOK, [Next]_vars PROVE StandaloneTypeOK'
  OBVIOUS
<1>t. /\ StreamTypeOK /\ StoreTypeOK /\ faults \in 0..MaxFaults /\ GatewayTypeOK
      /\ boot \in [Replica -> Stage] /\ starts \in 0..MaxStarts
      /\ schema \subseteq {"tables", "indexes", "accounts"} /\ excused \subseteq Bug
  BY DEF StandaloneTypeOK, PlatformTypeOK
<1>s. UNCHANGED streamVars => StreamTypeOK'
  BY <1>t DEF StreamTypeOK, streamVars
<1>1. CASE Next
  <2>1. /\ StoreTypeOK' /\ GatewayTypeOK' /\ faults' \in 0..MaxFaults
        /\ UNCHANGED streamVars
        /\ boot' \in [Replica -> Stage] /\ starts' \in 0..MaxStarts
        /\ schema' \subseteq {"tables", "indexes", "accounts"}
    <3>1. CASE Serve
      <4>1. ASSUME NEW r \in Report, CreateDirect(r)
            PROVE  /\ StoreTypeOK' /\ GatewayTypeOK' /\ faults' \in 0..MaxFaults
                   /\ UNCHANGED streamVars
        BY <1>t, <4>1, WrittenTypes DEF CreateDirect, GatewayTypeOK, gatewayVars
      <4> QED
        BY <1>t, <3>1, <4>1, TransitionTypes, PatchTypes, GatewayAssumption,
           PlatformAssumption DEF Serve, Serving, startVars
    <3>2. CASE \E g \in Replica : Start(g)
      BY <3>2, StartTypes, StandaloneAssumption, PlatformAssumption
    <3> QED
      BY <1>1, <3>1, <3>2 DEF Next
  <2>2. Overlapping(gw') \subseteq Bug
    BY DEF Overlapping
  <2>3. Broken \subseteq Bug
    BY <1>t DEF Broken, GatewayTypeOK, GatewayStep, Idle
  <2>4. excused' \subseteq Bug
    BY <1>1, <1>t, <2>2, <2>3 DEF Next
  <2> QED
    BY <1>s, <2>1, <2>4 DEF StandaloneTypeOK, PlatformTypeOK
<1>2. CASE UNCHANGED vars
  <2>1. UNCHANGED <<streamVars, storeVars, faults, gatewayVars, startVars, excused>>
    BY <1>2 DEF vars, platformVars
  <2>2. StoreTypeOK' /\ GatewayTypeOK'
    BY <1>t, <2>1, WrittenTypes DEF GatewayTypeOK, gatewayVars
  <2> QED
    BY <1>t, <1>s, <2>1, <2>2 DEF StandaloneTypeOK, PlatformTypeOK, startVars
<1> QED
  BY <1>1, <1>2

(* The gateways without a stream, their handlers, the database and what    *)
(* the migrations have created keep their types, for any number of         *)
(* replicas and handlers (server.ts, start and the writing endpoints).     *)
THEOREM StandaloneTypes == Spec => []StandaloneTypeOK
<1>1. Init => StandaloneTypeOK
  <2> SUFFICES ASSUME Init PROVE StandaloneTypeOK
    OBVIOUS
  <2>1. StreamTypeOK
    BY DEF Init, PlatformInit, StreamInit, StreamTypeOK
  <2>2. StoreTypeOK
    BY DEF Init, PlatformInit, StoreInit, StoreTypeOK, Status
  <2>3. GatewayTypeOK
    BY GatewayAssumption DEF GatewayAssumption, Init, GatewayInit, GatewayTypeOK
  <2> QED
    BY <2>1, <2>2, <2>3, PlatformAssumption, StandaloneAssumption
    DEF Init, PlatformInit, StandaloneTypeOK, PlatformTypeOK, Stage, PlatformAssumption,
        StandaloneAssumption
<1> QED
  BY <1>1, TypesStep, PTL DEF Spec
=============================================================================
