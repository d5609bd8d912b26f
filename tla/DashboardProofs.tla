---------------------------- MODULE DashboardProofs ----------------------------
(***************************************************************************)
(* Dashboard: what a page shows was read from a state the table has been   *)
(* in, BugDetail only ever puts the bug of its address in its state, and   *)
(* the pages' figures agree, for any number of loads, rows, writes and     *)
(* failures.  The second rests on what a load that has not been cancelled  *)
(* was sent for, the third on counting the parts of a table.               *)
(***************************************************************************)
EXTENDS Dashboard, FiniteSetTheorems, TLAPS

(* A load that has not been cancelled was sent for the current address.    *)
Belongs(load) ==
    load # NoLoad /\ ~load.cancelled =>
        load.asks = Endpoints(page.name) /\ load.id = page.id

LoadsInv == DashboardTypeOK /\ \A sl \in Slot : Belongs(loads[sl])

LEMMA EndpointsType == \A name : Endpoints(name) \subseteq DOMAIN Statements
  BY DEF Endpoints, Statements

(* A new load for the current address is a load, and belongs to it.        *)
LEMMA NewLoadType ==
    ASSUME history \in Seq(Seq(Row)), NEW p \in Page
    PROVE  NewLoad(p) \in Load
<1>1. Endpoints(p.name) \in SUBSET DOMAIN Statements /\ p.id \in Nat /\ Refused \in BOOLEAN
  BY EndpointsType, DashboardAssumption DEF Refused
<1>2. 0 \in 0..Now
  BY DEF Now
<1>3. QED
  BY <1>1, <1>2, Zenon DEF NewLoad, Load

(* Only one slot changed, on the same page and table.                      *)
LEMMA OneSlot ==
    ASSUME LoadsInv, NEW sl \in Slot, NEW l \in Load \cup {NoLoad}, Belongs(l),
           loads' = [loads EXCEPT ![sl] = l], UNCHANGED <<history, page>>,
           bugs' \in 0..Now, stats' \in 0..Now, bug' \in Nat,
           token' \in {"stored", "expired", "dev"}, failures' \in 0..MaxFailures
    PROVE  LoadsInv'
<1>1. Now' = Now /\ Load' = Load
  BY DEF Now, Load
<1>2. DashboardTypeOK'
  BY <1>1 DEF LoadsInv, DashboardTypeOK
<1>3. ASSUME NEW s \in Slot PROVE Belongs(loads[s])'
  <2>1. CASE s = sl
    BY <2>1 DEF LoadsInv, DashboardTypeOK, Belongs
  <2>2. CASE s # sl
    BY <2>2 DEF LoadsInv, DashboardTypeOK, Belongs
  <2>3. QED
    BY <2>1, <2>2
<1>4. QED
  BY <1>2, <1>3 DEF LoadsInv

(* A write leaves what was read in place.                                  *)
LEMMA WriteKeeps ==
    ASSUME LoadsInv, NEW table \in Seq(Row), Write(table), UNCHANGED dashboardVars
    PROVE  LoadsInv'
<1>1. /\ history' \in Seq(Seq(Row)) /\ history' # <<>>
      /\ Now' = Now + 1 /\ Now \in Nat
  BY DEF LoadsInv, DashboardTypeOK, Write, Now
<1>2. ASSUME NEW l \in Load PROVE l \in Load'
  BY <1>1 DEF Load
<1>3. DashboardTypeOK'
  <2>1. 0..Now \subseteq (0..Now)'
    BY <1>1
  <2>2. loads' \in [Slot -> Load' \cup {NoLoad}]
    BY <1>2 DEF LoadsInv, DashboardTypeOK, dashboardVars
  <2>3. QED
    BY <1>1, <2>1, <2>2, Zenon DEF LoadsInv, DashboardTypeOK, dashboardVars
<1>4. QED
  BY <1>3 DEF LoadsInv, Belongs, dashboardVars

LEMMA WritersKeep ==
    ASSUME LoadsInv, Reported \/ Moved \/ Deduplicated, UNCHANGED dashboardVars
    PROVE  LoadsInv'
<1>1. Table \in Seq(Row)
  BY DEF LoadsInv, DashboardTypeOK, Table, Now
<1>2. CASE Reported
  <2>1. [status |-> "open", canonical |-> 0] \in Row
    BY DEF Row, Status
  <2>2. Append(Table, [status |-> "open", canonical |-> 0]) \in Seq(Row)
    BY <1>1, <2>1
  <2>3. QED
    BY <1>2, <2>2, WriteKeeps DEF Reported
<1>3. CASE Moved
  <2>1. PICK b \in DOMAIN Table, st \in MovedTo : Write([Table EXCEPT ![b].status = st])
    BY <1>3 DEF Moved
  <2>2. Table[b] \in Row
    BY <1>1
  <2>3. [Table[b] EXCEPT !.status = st] \in Row
    BY <2>1, <2>2, ReadApiAssumption DEF Row
  <2>4. [Table EXCEPT ![b].status = st] \in Seq(Row)
    BY <1>1, <2>3
  <2>5. QED
    BY <2>1, <2>4, WriteKeeps
<1>4. CASE Deduplicated
  <2>1. PICK b \in DOMAIN Table, c \in DOMAIN Table :
            Write([Table EXCEPT ![b] = [status |-> "closed", canonical |-> c]])
    BY <1>4 DEF Deduplicated
  <2>2. [status |-> "closed", canonical |-> c] \in Row
    BY <1>1 DEF Row, Status
  <2>3. [Table EXCEPT ![b] = [status |-> "closed", canonical |-> c]] \in Seq(Row)
    BY <1>1, <2>2
  <2>4. QED
    BY <2>1, <2>3, WriteKeeps
<1>5. QED
  BY <1>2, <1>3, <1>4

(* A load that goes on: it is for the same address, with more done.        *)
LEMMA LoadGoesOn ==
    ASSUME LoadsInv, NEW sl \in Slot, NEW l \in Load, loads[sl] # NoLoad,
           l.asks = loads[sl].asks, l.id = loads[sl].id,
           l.cancelled = loads[sl].cancelled
    PROVE  Belongs(l)
<1>1. Belongs(loads[sl]) /\ loads[sl] \in Load
  BY DEF LoadsInv, DashboardTypeOK
<1>2. QED
  BY <1>1 DEF Belongs

LEMMA RunKeeps ==
    ASSUME LoadsInv, NEW sl \in Slot, StatementRuns(sl)
    PROVE  LoadsInv'
<1>1. PICK s \in UNION {Statements[e] : e \in DOMAIN Statements} :
          /\ loads[sl] # NoLoad
          /\ loads' = [loads EXCEPT
                        ![sl].done = @ \cup {s},
                        ![sl].bugs = IF s = "rows" THEN Now ELSE @,
                        ![sl].stats = IF s = "by_status" THEN Now ELSE @]
          /\ UNCHANGED <<history, page, bugs, stats, bug, token, failures>>
  BY DEF StatementRuns
<1> DEFINE l == [loads[sl] EXCEPT !.done = @ \cup {s},
                                  !.bugs = IF s = "rows" THEN Now ELSE @,
                                  !.stats = IF s = "by_status" THEN Now ELSE @]
<1>2. loads[sl] \in Load /\ Now \in 0..Now
  BY <1>1 DEF LoadsInv, DashboardTypeOK, Now
<1>4. /\ l \in Load
      /\ l.asks = loads[sl].asks /\ l.id = loads[sl].id
      /\ l.cancelled = loads[sl].cancelled
  BY <1>2 DEF Load
<1>5. loads' = [loads EXCEPT ![sl] = l]
  BY <1>1, <1>2 DEF LoadsInv, DashboardTypeOK, Load
<1>6. Belongs(l)
  BY <1>1, <1>4, LoadGoesOn
<1> HIDE DEF l
<1>7. QED
  BY <1>1, <1>4, <1>5, <1>6, OneSlot DEF LoadsInv, DashboardTypeOK

LEMMA FailKeeps ==
    ASSUME LoadsInv, NEW sl \in Slot, RequestFails(sl)
    PROVE  LoadsInv'
<1>1. PICK e \in DOMAIN Statements :
          /\ loads[sl] # NoLoad
          /\ \/ failures < MaxFailures /\ failures' = failures + 1
             \/ failures' = failures
          /\ loads' = [loads EXCEPT ![sl].failed = @ \cup {e}]
          /\ UNCHANGED <<history, page, bugs, stats, bug, token>>
  BY DEF RequestFails
<1> DEFINE l == [loads[sl] EXCEPT !.failed = @ \cup {e}]
<1>2. loads[sl] \in Load
  BY <1>1 DEF LoadsInv, DashboardTypeOK
<1>3. /\ l \in Load
      /\ l.asks = loads[sl].asks /\ l.id = loads[sl].id
      /\ l.cancelled = loads[sl].cancelled
  BY <1>2 DEF Load
<1>4. loads' = [loads EXCEPT ![sl] = l]
  BY <1>1, <1>2 DEF LoadsInv, DashboardTypeOK, Load
<1>5. Belongs(l)
  BY <1>1, <1>3, LoadGoesOn
<1>6. failures' \in 0..MaxFailures
  BY <1>1, DashboardAssumption DEF LoadsInv, DashboardTypeOK
<1> HIDE DEF l
<1>7. QED
  BY <1>1, <1>3, <1>4, <1>5, <1>6, OneSlot DEF LoadsInv, DashboardTypeOK

LEMMA RefusedKeeps ==
    ASSUME LoadsInv, NEW sl \in Slot, RequestRefused(sl)
    PROVE  LoadsInv'
<1> DEFINE l == [loads[sl] EXCEPT !.refused = FALSE, !.failed = loads[sl].asks]
<1>1. loads[sl] \in Load /\ loads[sl] # NoLoad
  BY DEF LoadsInv, DashboardTypeOK, RequestRefused
<1>2. /\ l \in Load
      /\ l.asks = loads[sl].asks /\ l.id = loads[sl].id
      /\ l.cancelled = loads[sl].cancelled
  BY <1>1 DEF Load
<1>3. loads' = [loads EXCEPT ![sl] = l]
  BY <1>1 DEF LoadsInv, DashboardTypeOK, Load, RequestRefused
<1>4. Belongs(l)
  BY <1>1, <1>2, LoadGoesOn
<1> HIDE DEF l
<1>5. QED
  BY <1>2, <1>3, <1>4, OneSlot DEF LoadsInv, DashboardTypeOK, RequestRefused

(* What a load brings to the page was read, and the bug it brings is the   *)
(* one of the address.                                                     *)
LEMMA SettleShows ==
    ASSUME LoadsInv, NEW sl \in Slot, Settle(sl)
    PROVE  /\ bugs' \in 0..Now /\ stats' \in 0..Now
           /\ bug' = bug \/ bug' = page.id
           /\ page \in Page /\ page' = page
<1>1. loads[sl] \in Load /\ loads[sl] # NoLoad /\ Belongs(loads[sl])
  BY DEF LoadsInv, DashboardTypeOK, Settle
<1>2. loads[sl].bugs \in 0..Now /\ loads[sl].stats \in 0..Now
  BY <1>1 DEF Load
<1>3. bugs' = bugs \/ bugs' = loads[sl].bugs
  BY DEF Settle
<1>4. stats' = stats \/ stats' = loads[sl].stats
  BY DEF Settle
<1>5. bug' = bug \/ (~loads[sl].cancelled /\ bug' = loads[sl].id)
  BY DEF Settle
<1>6. QED
  BY <1>1, <1>2, <1>3, <1>4, <1>5 DEF LoadsInv, DashboardTypeOK, Belongs, Settle

LEMMA SettleKeeps ==
    ASSUME LoadsInv, NEW sl \in Slot, Settle(sl)
    PROVE  LoadsInv'
<1>1. bug' \in Nat
  BY SettleShows, DashboardAssumption DEF LoadsInv, DashboardTypeOK
<1>2. Belongs(NoLoad)
  BY DEF Belongs
<1>3. QED
  BY <1>1, <1>2, SettleShows, OneSlot DEF LoadsInv, DashboardTypeOK, Settle

LEMMA PollKeeps ==
    ASSUME LoadsInv, NEW sl \in Slot, Poll(sl)
    PROVE  LoadsInv'
<1>1. NewLoad(page) \in Load
  BY NewLoadType DEF LoadsInv, DashboardTypeOK
<1>2. Belongs(NewLoad(page))
  BY DEF Belongs, NewLoad
<1>3. QED
  BY <1>1, <1>2, OneSlot DEF LoadsInv, DashboardTypeOK, Poll

LEMMA VisitKeeps ==
    ASSUME LoadsInv, NEW sl \in Slot, NEW p \in Page, Visit(p, sl)
    PROVE  LoadsInv'
<1>1. NewLoad(p) \in Load
  BY NewLoadType DEF LoadsInv, DashboardTypeOK
<1>2. Now' = Now /\ Load' = Load /\ page' = p
  BY DEF Now, Load, Visit
<1>3. ASSUME NEW s \in Slot
      PROVE  loads'[s] \in Load \cup {NoLoad} /\ Belongs(loads[s])'
  <2>1. CASE s = sl
    <3>1. loads'[s] = NewLoad(p)
      BY <2>1 DEF Visit
    <3>2. NewLoad(p).asks = Endpoints(p.name) /\ NewLoad(p).id = p.id
      BY DEF NewLoad
    <3>3. QED
      BY <1>1, <1>2, <3>1, <3>2 DEF Belongs
  <2>2. CASE s # sl /\ loads[s] = NoLoad
    BY <2>2 DEF Visit, Belongs
  <2>3. CASE s # sl /\ loads[s] # NoLoad
    <3>1. loads'[s] = [loads[s] EXCEPT !.cancelled = TRUE]
      BY <2>3 DEF Visit
    <3>2. loads[s] \in Load
      BY <2>3 DEF LoadsInv, DashboardTypeOK
    <3>3. [loads[s] EXCEPT !.cancelled = TRUE] \in Load
      BY <3>2 DEF Load
    <3>4. [loads[s] EXCEPT !.cancelled = TRUE].cancelled
      BY <3>2 DEF Load
    <3>5. QED
      BY <3>1, <3>3, <3>4 DEF Belongs
  <2>4. QED
    BY <2>1, <2>2, <2>3
<1>4. loads' \in [Slot -> Load \cup {NoLoad}]
  BY <1>3 DEF Visit
<1>5. bug' \in Nat /\ bugs' \in 0..Now /\ stats' \in 0..Now
  BY DEF LoadsInv, DashboardTypeOK, Visit, Now
<1>6. DashboardTypeOK'
  BY <1>2, <1>4, <1>5 DEF LoadsInv, DashboardTypeOK, Visit
<1>7. QED
  BY <1>3, <1>6 DEF LoadsInv

LEMMA InitEstablishes == Init => LoadsInv
<1> SUFFICES ASSUME Init PROVE LoadsInv
  OBVIOUS
<1>1. history \in Seq(Seq(Row)) /\ history # <<>> /\ Now \in Nat
  <2>1. PICK table \in Seeded : history = <<table>>
    BY DEF Init
  <2>2. table \in Seq(Row)
    BY ReadApiAssumption
  <2> QED
    BY <2>1, <2>2 DEF Now
<1>2. loads \in [Slot -> {NoLoad}]
  BY DEF Init, DashboardInit
<1>3. QED
  BY <1>1, <1>2, DashboardAssumption
  DEF Init, DashboardInit, LoadsInv, DashboardTypeOK, Belongs

LEMMA StepKeeps == LoadsInv /\ [Next]_vars => LoadsInv'
<1> SUFFICES ASSUME LoadsInv, [Next]_vars PROVE LoadsInv'
  OBVIOUS
<1>1. CASE (Reported \/ Moved \/ Deduplicated) /\ UNCHANGED dashboardVars
  BY <1>1, WritersKeep
<1>2. CASE Expire
  BY <1>2 DEF LoadsInv, DashboardTypeOK, Belongs, Expire, Load, Now
<1>3. CASE \E sl \in Slot :
              \/ StatementRuns(sl) \/ RequestFails(sl) \/ RequestRefused(sl)
              \/ Settle(sl) \/ Poll(sl) \/ \E p \in Page : Visit(p, sl)
  BY <1>3, RunKeeps, FailKeeps, RefusedKeeps, SettleKeeps, PollKeeps, VisitKeeps
<1>4. CASE UNCHANGED vars
  BY <1>4 DEF LoadsInv, DashboardTypeOK, Belongs, vars, dashboardVars, Load, Now
<1>5. QED
  BY <1>1, <1>2, <1>3, <1>4 DEF Next

(* Every figure a page holds, and every answer on its way to one, is of a  *)
(* state the table has been in, and the state keeps its types.             *)
THEOREM DashboardTypeCorrect == DashboardSpec => []DashboardTypeOK
<1>1. LoadsInv => DashboardTypeOK
  BY DEF LoadsInv
<1>2. QED
  BY <1>1, InitEstablishes, StepKeeps, PTL DEF DashboardSpec

(* BugDetail's live bug only ever becomes the bug of the address,          *)
(* whatever answers for earlier addresses are still on their way.          *)
THEOREM DetailAlwaysOfAddress == DashboardSpec => DetailIsOfAddress
<1>1. LoadsInv /\ [Next]_vars => [bug' \notin {bug, 0} => bug' = page'.id]_vars
  <2> SUFFICES ASSUME LoadsInv, Next, bug' \notin {bug, 0} PROVE bug' = page'.id
    OBVIOUS
  <2>1. PICK sl \in Slot : Settle(sl)
    BY DEF Next, dashboardVars, Expire, StatementRuns, RequestFails,
           RequestRefused, Poll, Visit
  <2>2. QED
    BY <2>1, SettleShows
<1>2. QED
  BY <1>1, InitEstablishes, StepKeeps, PTL DEF DashboardSpec, DetailIsOfAddress

-----------------------------------------------------------------------------
(* The figures are functions of the table, so what they have in common is  *)
(* counted once, for any table.  A table is finite, and so is what is      *)
(* taken out of it.                                                        *)
LEMMA TableFinite ==
    ASSUME NEW table \in Seq(Row), NEW part \in SUBSET DOMAIN table
    PROVE  /\ IsFiniteSet(part) /\ Cardinality(part) \in Nat
           /\ Cardinality(DOMAIN table) = Len(table)
<1>1. DOMAIN table = 1..Len(table) /\ Len(table) \in Nat
  OBVIOUS
<1>2. IsFiniteSet(1..Len(table)) /\ Cardinality(1..Len(table)) = Len(table)
  <2> SUFFICES ASSUME NEW n \in Nat PROVE IsFiniteSet(1..n) /\ Cardinality(1..n) = n
    BY <1>1
  <2>1. IsFiniteSet(1..n) /\ Cardinality(1..n) = IF 1 > n THEN 0 ELSE n - 1 + 1
    BY FS_Interval
  <2> QED
    BY <2>1
<1>3. IsFiniteSet(part)
  BY <1>1, <1>2, FS_Subset
<1> QED
  BY <1>1, <1>2, <1>3, FS_CardinalityType

(* Two parts that share nothing are counted one after the other.           *)
LEMMA PartsAdd ==
    ASSUME NEW table \in Seq(Row), NEW S \in SUBSET DOMAIN table,
           NEW T \in SUBSET DOMAIN table, S \cap T = {}
    PROVE  Cardinality(S \cup T) = Cardinality(S) + Cardinality(T)
<1>1. IsFiniteSet(S) /\ IsFiniteSet(T) /\ Cardinality(S) \in Nat /\ Cardinality(T) \in Nat
  BY TableFinite
<1>2. Cardinality(S \cap T) = 0
  BY FS_EmptySet
<1>3. Cardinality(S \cup T) = Cardinality(S) + Cardinality(T) - Cardinality(S \cap T)
  BY <1>1, FS_Union
<1> QED
  BY <1>1, <1>2, <1>3

(* The rows that are not listed are as many as the table has over the      *)
(* page's size.                                                            *)
LEMMA ListedAndNot ==
    ASSUME NEW table \in Seq(Row), NEW name, Limit[name] \in Nat
    PROVE  /\ Listed(table, name) \in SUBSET DOMAIN table
           /\ Unlisted(table, name) \in Nat
           /\ Cardinality(DOMAIN table \ Listed(table, name)) = Unlisted(table, name)
           /\ Cardinality(Listed(table, name)) + Unlisted(table, name) = Len(table)
<1> DEFINE size == IF Limit[name] < Cap THEN Limit[name] ELSE Cap
           listed == Listed(table, name)
           n == Unlisted(table, name)
<1>1. size \in Nat /\ DOMAIN table = 1..Len(table) /\ Len(table) \in Nat
  BY ReadApiAssumption
<1>2. n \in Nat /\ n = IF Len(table) > size THEN Len(table) - size ELSE 0
  BY <1>1 DEF Unlisted
<1>3. listed = {b \in DOMAIN table : b + size > Len(table)}
  BY DEF Listed, Listing
<1> HIDE DEF size, listed, n
<1>4. listed \in SUBSET DOMAIN table /\ DOMAIN table \ listed = 1..n
  <2>1. ASSUME NEW b \in Nat
        PROVE  b \in 1..Len(table) /\ ~(b + size > Len(table)) <=> b \in 1..n
    <3> SUFFICES ASSUME NEW len \in Nat, NEW m \in Nat, NEW k \in Nat,
                        k = IF len > m THEN len - m ELSE 0
                 PROVE  b \in 1..len /\ ~(b + m > len) <=> b \in 1..k
      BY <1>1, <1>2
    <3> QED
      OBVIOUS
  <2>2. \A b : b \in DOMAIN table \ listed <=> b \in Nat /\ b \in DOMAIN table /\ ~(b + size > Len(table))
    BY <1>1, <1>3
  <2>3. \A b \in 1..n : b \in Nat
    OBVIOUS
  <2>4. \A b : b \in DOMAIN table \ listed <=> b \in 1..n
    BY <1>1, <2>1, <2>2, <2>3
  <2> QED
    BY <1>3, <2>4
<1>5. Cardinality(1..n) = n
  <2> SUFFICES ASSUME NEW k \in Nat PROVE Cardinality(1..k) = k
    BY <1>2
  <2>1. Cardinality(1..k) = IF 1 > k THEN 0 ELSE k - 1 + 1
    BY FS_Interval
  <2> QED
    BY <2>1
<1>6. Cardinality(listed) + Cardinality(DOMAIN table \ listed) = Len(table)
  <2> DEFINE rest == DOMAIN table \ listed
  <2>1. /\ rest \in SUBSET DOMAIN table
        /\ listed \cap rest = {} /\ listed \cup rest = DOMAIN table
    BY <1>4
  <2>2. Cardinality(DOMAIN table) = Len(table)
    BY <1>4, TableFinite
  <2> HIDE DEF rest
  <2>3. Cardinality(listed \cup rest) = Cardinality(listed) + Cardinality(rest)
    BY <1>4, <2>1, PartsAdd
  <2> QED
    BY <2>1, <2>2, <2>3 DEF rest
<1> QED
  BY <1>2, <1>4, <1>5, <1>6 DEF listed, n

(* Of a part of the table the listing lacks no more than it lacks in all.  *)
LEMMA PartListed ==
    ASSUME NEW table \in Seq(Row), NEW listed \in SUBSET DOMAIN table,
           NEW n \in Nat, Cardinality(DOMAIN table \ listed) = n,
           NEW part \in SUBSET DOMAIN table
    PROVE  /\ Cardinality(part \cap listed) \in Nat /\ Cardinality(part) \in Nat
           /\ Cardinality(part \cap listed) <= Cardinality(part)
           /\ Cardinality(part) <= Cardinality(part \cap listed) + n
<1>1. /\ part \cap listed \in SUBSET DOMAIN table /\ part \ listed \in SUBSET DOMAIN table
      /\ (part \cap listed) \cap (part \ listed) = {}
      /\ (part \cap listed) \cup (part \ listed) = part
  OBVIOUS
<1>2. Cardinality(part) = Cardinality(part \cap listed) + Cardinality(part \ listed)
  BY <1>1, PartsAdd
<1>3. /\ Cardinality(part \cap listed) \in Nat /\ Cardinality(part) \in Nat
      /\ Cardinality(part \ listed) \in Nat
  BY <1>1, TableFinite
<1>4. Cardinality(part \ listed) <= n
  <2>1. part \ listed \subseteq DOMAIN table \ listed
    OBVIOUS
  <2>2. IsFiniteSet(DOMAIN table \ listed)
    <3>1. (DOMAIN table \ listed) \in SUBSET DOMAIN table
      OBVIOUS
    <3> QED
      BY <3>1, TableFinite
  <2> QED
    BY <2>1, <2>2, FS_Subset
<1> QED
  BY <1>2, <1>3, <1>4

(* What the statistics call open is in four parts.                         *)
LEMMA OpenParts ==
    ASSUME NEW table \in Seq(Row)
    PROVE  OpenFigure(table) = Cardinality({b \in DOMAIN table :
               table[b].status \in {"open", "triaged", "in_progress", "in_review"}})
<1> DEFINE all == DOMAIN table
           Of(st) == {b \in all : table[b].status = st}
<1>1. /\ Of("open") \in SUBSET all /\ Of("triaged") \in SUBSET all
      /\ Of("in_progress") \in SUBSET all /\ Of("in_review") \in SUBSET all
      /\ Of("open") \cap Of("triaged") = {}
      /\ (Of("open") \cup Of("triaged")) \cap Of("in_progress") = {}
      /\ ((Of("open") \cup Of("triaged")) \cup Of("in_progress")) \cap Of("in_review") = {}
  OBVIOUS
<1>2. {b \in all : table[b].status \in {"open", "triaged", "in_progress", "in_review"}}
          = ((Of("open") \cup Of("triaged")) \cup Of("in_progress")) \cup Of("in_review")
  OBVIOUS
<1>3. /\ ByStatus(table, "open") = Cardinality(Of("open"))
      /\ ByStatus(table, "triaged") = Cardinality(Of("triaged"))
      /\ ByStatus(table, "in_progress") = Cardinality(Of("in_progress"))
      /\ ByStatus(table, "in_review") = Cardinality(Of("in_review"))
  BY DEF ByStatus
<1> HIDE DEF Of
<1>4. Cardinality(Of("open") \cup Of("triaged"))
          = Cardinality(Of("open")) + Cardinality(Of("triaged"))
  BY <1>1, PartsAdd
<1>5. Cardinality((Of("open") \cup Of("triaged")) \cup Of("in_progress"))
          = Cardinality(Of("open") \cup Of("triaged")) + Cardinality(Of("in_progress"))
  BY <1>1, PartsAdd
<1>6. Cardinality(((Of("open") \cup Of("triaged")) \cup Of("in_progress")) \cup Of("in_review"))
          = Cardinality((Of("open") \cup Of("triaged")) \cup Of("in_progress"))
              + Cardinality(Of("in_review"))
  BY <1>1, PartsAdd
<1> QED
  BY <1>2, <1>3, <1>4, <1>5, <1>6 DEF OpenFigure

(* Every row has one of the seven statuses.                                *)
LEMMA RowStatus ==
    ASSUME NEW table \in Seq(Row)
    PROVE  \A b \in DOMAIN table : table[b].status \in Status
<1>1. \A b \in DOMAIN table : table[b] \in Row
  OBVIOUS
<1>2. \A row \in Row : row.status \in Status
  BY ReadApiAssumption DEF Row
<1> QED
  BY <1>1, <1>2

(* Analytics' figures and those of GET /stats.                             *)
LEMMA CountsOfListing ==
    ASSUME NEW table \in Seq(Row), NEW listed \in SUBSET DOMAIN table,
           NEW n \in Nat, Cardinality(DOMAIN table \ listed) = n,
           Cardinality(listed) + n = Len(table)
    PROVE  CountsAgree(table, listed, n)
<1> DEFINE all == DOMAIN table
           Of(st) == {b \in all : table[b].status = st}
           L(st) == {b \in listed : table[b].status = st}
           counts == StatusCounts(table, listed)
           Count(st) == IF st \in DOMAIN counts THEN counts[st] ELSE 0
           wanted == {"open", "triaged", "in_progress", "in_review"}
           Open == {b \in all : table[b].status \in wanted}
<1>1. ASSUME NEW st \in Status PROVE Count(st) = Cardinality(L(st))
  <2>1. CASE st \in {table[b].status : b \in listed}
    BY <2>1 DEF StatusCounts
  <2>2. CASE st \notin {table[b].status : b \in listed}
    <3>1. L(st) = {}
      BY <2>2
    <3>2. Cardinality(L(st)) = 0
      BY <3>1, FS_EmptySet
    <3> QED
      BY <2>2, <3>2 DEF StatusCounts
  <2> QED
    BY <2>1, <2>2
<1>2. ASSUME NEW st \in Status
      PROVE  Count(st) <= ByStatus(table, st) /\ ByStatus(table, st) <= Count(st) + n
  <2>1. Count(st) = Cardinality(L(st))
    BY <1>1, ReadApiAssumption
  <2>2. ByStatus(table, st) = Cardinality(Of(st))
    BY DEF ByStatus
  <2>3. Of(st) \in SUBSET all /\ Of(st) \cap listed = L(st)
    OBVIOUS
  <2> HIDE DEF Of, L, Count, all
  <2>4. Cardinality(L(st)) <= Cardinality(Of(st)) /\ Cardinality(Of(st)) <= Cardinality(L(st)) + n
    BY <2>3, PartListed DEF all
  <2> QED
    BY <2>1, <2>2, <2>4
<1>3. Cardinality(Resolved(table, listed)) + Cardinality(NotDone(table, listed)) + n = Len(table)
  <2>1. /\ Resolved(table, listed) \in SUBSET all /\ NotDone(table, listed) \in SUBSET all
        /\ Resolved(table, listed) \cap NotDone(table, listed) = {}
        /\ Resolved(table, listed) \cup NotDone(table, listed) = listed
    BY DEF Resolved, NotDone
  <2>2. Cardinality(listed) = Cardinality(Resolved(table, listed))
                                  + Cardinality(NotDone(table, listed))
    BY <2>1, PartsAdd
  <2> QED
    BY <2>2
<1>4. Cardinality(NotDone(table, listed)) = Cardinality(Open \cap listed) + Count("wont_fix")
  <2>1. /\ NotDone(table, listed) = (Open \cap listed) \cup L("wont_fix")
        /\ (Open \cap listed) \cap L("wont_fix") = {}
        /\ Open \cap listed \in SUBSET all /\ L("wont_fix") \in SUBSET all
    BY RowStatus DEF NotDone, Status
  <2>2. Count("wont_fix") = Cardinality(L("wont_fix"))
    BY <1>1 DEF Status
  <2> HIDE DEF Open, L, Count, all
  <2>3. Cardinality((Open \cap listed) \cup L("wont_fix"))
            = Cardinality(Open \cap listed) + Cardinality(L("wont_fix"))
    BY <2>1, PartsAdd DEF all
  <2> QED
    BY <2>1, <2>2, <2>3
<1>5. /\ OpenFigure(table) = Cardinality(Open)
      /\ Cardinality(Open \cap listed) \in Nat /\ Cardinality(Open) \in Nat
      /\ Cardinality(Open \cap listed) <= Cardinality(Open)
      /\ Cardinality(Open) <= Cardinality(Open \cap listed) + n
  <2>1. Open \in SUBSET all
    OBVIOUS
  <2> QED
    BY <2>1, OpenParts, PartListed
<1>6. Count("wont_fix") \in Nat
  <2>1. L("wont_fix") \in SUBSET all /\ Count("wont_fix") = Cardinality(L("wont_fix"))
    BY <1>1 DEF Status
  <2> QED
    BY <2>1, TableFinite
<1>7. /\ Cardinality(NotDone(table, listed)) <= OpenFigure(table) + Count("wont_fix")
      /\ OpenFigure(table) + Count("wont_fix") <= Cardinality(NotDone(table, listed)) + n
  <2> HIDE DEF Open, Count
  <2> QED
    BY <1>4, <1>5, <1>6
<1> QED
  BY <1>2, <1>3, <1>7 DEF CountsAgree

(* What BugList's filter leaves, and GET /stats.                           *)
LEMMA FilterOfListing ==
    ASSUME NEW table \in Seq(Row), NEW listed \in SUBSET DOMAIN table,
           NEW n \in Nat, Cardinality(DOMAIN table \ listed) = n,
           Cardinality(listed) + n = Len(table)
    PROVE  FilterAgrees(table, listed, n)
<1>1. FilteredBugs(table, listed, "all") = listed
  BY DEF FilteredBugs
<1>2. ASSUME NEW st \in Status
      PROVE  /\ Cardinality(FilteredBugs(table, listed, st)) <= ByStatus(table, st)
             /\ ByStatus(table, st) <= Cardinality(FilteredBugs(table, listed, st)) + n
  <2> DEFINE Of == {b \in DOMAIN table : table[b].status = st}
  <2>1. st # "all"
    BY ReadApiAssumption DEF Status
  <2>2. FilteredBugs(table, listed, st) = Of \cap listed /\ Of \in SUBSET DOMAIN table
    BY <2>1 DEF FilteredBugs
  <2>3. ByStatus(table, st) = Cardinality(Of)
    BY DEF ByStatus
  <2> HIDE DEF Of
  <2> QED
    BY <2>2, <2>3, PartListed
<1> QED
  BY <1>1, <1>2 DEF FilterAgrees

(* Each duplicate of a listing is in one group, so the groups' sizes add   *)
(* up to the duplicates.                                                   *)
LEMMA GroupsOfListing ==
    ASSUME NEW table \in Seq(Row), NEW listed \in SUBSET DOMAIN table
    PROVE  GroupsAgree(table, listed)
<1> DEFINE D == Duplicates(table, listed)
           G(d) == Group(table, listed, table[d].canonical)
           pairs == {p \in Groups(table, listed) \X listed : p[2] \in p[1].duplicates}
           f == [d \in D |-> <<G(d), d>>]
<1>1. D \subseteq listed /\ IsFiniteSet(D) /\ IsFiniteSet(listed)
  BY TableFinite DEF Duplicates
<1>2. ASSUME NEW d \in D, NEW e \in D
      PROVE  e \in G(d).duplicates <=> table[e].canonical = table[d].canonical
  BY DEF Group
<1>2a. \A d \in D : G(d).duplicates \subseteq D
  BY DEF Group
<1>3. ASSUME NEW d \in D, NEW g \in Groups(table, listed), d \in g.duplicates
      PROVE  g = G(d)
  <2>1. PICK e \in D : g = G(e)
    BY DEF Groups
  <2>2. table[d].canonical = table[e].canonical
    BY <1>2, <1>3, <2>1
  <2> QED
    BY <2>1, <2>2
<1>4. \A d \in D : G(d) \in Groups(table, listed) /\ d \in G(d).duplicates
  BY <1>2 DEF Groups
<1>5. ASSUME NEW d \in D
      PROVE  Cardinality({g \in Groups(table, listed) : d \in g.duplicates}) = 1
  <2>1. {g \in Groups(table, listed) : d \in g.duplicates} = {G(d)}
    BY <1>3, <1>4
  <2> QED
    BY <2>1, FS_Singleton
<1>6. \A p \in pairs : p[2] \in D /\ p = <<G(p[2]), p[2]>>
  <2> SUFFICES ASSUME NEW p \in pairs PROVE p[2] \in D /\ p = <<G(p[2]), p[2]>>
    OBVIOUS
  <2>1. p[1] \in Groups(table, listed) /\ p[2] \in p[1].duplicates /\ p = <<p[1], p[2]>>
    OBVIOUS
  <2>2. p[2] \in D
    BY <1>2a, <2>1 DEF Groups
  <2>3. p[1] = G(p[2])
    BY <1>3, <2>1, <2>2
  <2> QED
    BY <2>1, <2>2, <2>3
<1> HIDE DEF G
<1>7. f \in Bijection(D, pairs)
  <2>1. \A d \in D : f[d] \in pairs
    BY <1>1, <1>4
  <2>2. \A d, e \in D : f[d] = f[e] => d = e
    OBVIOUS
  <2>3. \A p \in pairs : \E d \in D : f[d] = p
    BY <1>6
  <2> HIDE DEF f, pairs, D
  <2>4. f \in [D -> pairs]
    BY <2>1 DEF f
  <2> QED
    BY <2>2, <2>3, <2>4 DEF Bijection, Injection, Surjection, IsInjective
<1>8. Cardinality(pairs) = Cardinality(D)
  BY <1>1, <1>7, FS_Bijection DEF ExistsBijection
<1>9. Cardinality(listed) = Cardinality(D) + Cardinality({b \in listed : table[b].canonical = 0})
  <2> DEFINE rest == {b \in listed : table[b].canonical = 0}
  <2>1. /\ D \in SUBSET DOMAIN table /\ rest \in SUBSET DOMAIN table
        /\ D \cap rest = {} /\ D \cup rest = listed
    BY DEF Duplicates
  <2> HIDE DEF D, rest
  <2>2. Cardinality(listed) = Cardinality(D) + Cardinality(rest)
    BY <2>1, PartsAdd
  <2> QED
    BY <2>2 DEF rest
<1>10. Cardinality(D) \in Nat /\ Cardinality({b \in listed : table[b].canonical = 0}) \in Nat
  BY <1>1, TableFinite
<1>11. UniqueBugs(table, listed) = Cardinality({b \in listed : table[b].canonical = 0})
  <2>1. UniqueBugs(table, listed) = Cardinality(listed) - Cardinality(D)
    BY <1>8 DEF UniqueBugs, TotalDuplicates
  <2> QED
    BY <1>9, <1>10, <2>1
<1> QED
  BY <1>5, <1>11 DEF GroupsAgree

(* Whatever table a page has read, its figures differ from those of the    *)
(* other pages and of GET /stats by no more than what its listing left     *)
(* out, in Analytics' open bugs by those wont_fix besides; and the groups  *)
(* of Deduplication share no duplicate out twice.                          *)
THEOREM FiguresAlwaysAgree == DashboardSpec => []FiguresAgree
<1>1. ASSUME LoadsInv PROVE FiguresAgree
  <2> SUFFICES ASSUME bugs # 0 PROVE FiguresAgree
    BY DEF FiguresAgree
  <2> DEFINE table == history[bugs]
             listed == Listed(table, page.name)
             n == Unlisted(table, page.name)
  <2>1. table \in Seq(Row) /\ page \in Page
    BY <1>1 DEF LoadsInv, DashboardTypeOK, Now
  <2>2. listed \in SUBSET DOMAIN table
    BY DEF Listed, Listing
  <2>3. ASSUME page.name # "detail"
        PROVE  /\ n \in Nat /\ Cardinality(DOMAIN table \ listed) = n
               /\ Cardinality(listed) + n = Len(table)
    <3>1. Limit[page.name] \in Nat
      BY <2>1, <2>3, DashboardAssumption DEF DashboardAssumption
    <3> HIDE DEF table
    <3> QED
      BY <2>1, <3>1, ListedAndNot
  <2> HIDE DEF table, listed, n
  <2>4. page.name # "detail" => CountsAgree(table, listed, n) /\ FilterAgrees(table, listed, n)
    BY <2>1, <2>2, <2>3, CountsOfListing, FilterOfListing
  <2>5. GroupsAgree(table, listed)
    BY <2>1, <2>2, GroupsOfListing
  <2> QED
    BY <2>4, <2>5 DEF FiguresAgree, table, listed, n
<1> QED
  BY <1>1, InitEstablishes, StepKeeps, PTL DEF DashboardSpec
=============================================================================
