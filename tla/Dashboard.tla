------------------------------- MODULE Dashboard -------------------------------
(***************************************************************************)
(* apps/dashboard: the pages that show live data, on the gateway's reading *)
(* endpoints.                                                              *)
(*                                                                         *)
(* A page's effect starts a load: it sends its requests together, waits    *)
(* for all of them (a failed one counts as answered with nothing) and, if  *)
(* the effect has not been cancelled in the meantime, puts every answer it *)
(* got in the page's state.  The overview starts another load every 30     *)
(* seconds, whether or not the last one has ended.                         *)
(***************************************************************************)
EXTENDS ReadApi

CONSTANTS Slot,         \* bound: loads under way at once
          NoLoad,
          Page,         \* the addresses the user goes to: [name, id]
          Limit,        \* what a page asks GET /bugs for (50, 100 or 200)
          DevMode,      \* the gateway accepts the dev token
          MaxFailures   \* bound: requests that fail for another reason than 401

VARIABLES page,         \* the address
          bugs, stats,  \* liveBugs, liveStats: the table state read, 0 for null
          bug,          \* the id of BugDetail's liveBug, 0 for null
          loads,        \* the loads under way
          token,        \* the client's token: stored, expired or dev
          failures

dashboardVars == <<page, bugs, stats, bug, loads, token, failures>>
vars == <<history, dashboardVars>>

(* The endpoints a page's effect asks.                                     *)
Endpoints(name) == CASE name \in {"overview", "analytics"} -> {"list", "stats"}
                     [] name = "detail" -> {"bug", "activity"}
                     [] OTHER -> {"list"}

ASSUME DashboardAssumption ==
    /\ DevMode \in BOOLEAN /\ MaxFailures \in Nat
    /\ \A p \in Page : p.id \in Nat
    /\ \A p \in Page : p.name = "detail" \/ Limit[p.name] \in Nat \ {0}

(* refused: sent with a token the gateway answers 401 to.                  *)
Refused == token = "expired" \/ (token = "dev" /\ ~DevMode)

NewLoad(p) == [asks |-> Endpoints(p.name), id |-> p.id, done |-> {},
               failed |-> {}, bugs |-> 0, stats |-> 0, cancelled |-> FALSE,
               refused |-> Refused]

(* What is shown or on its way was read from a state the table was in.     *)
Load ==
    [asks : SUBSET DOMAIN Statements, id : Nat,
     done : SUBSET UNION {Statements[e] : e \in DOMAIN Statements},
     failed : SUBSET DOMAIN Statements, bugs : 0..Now, stats : 0..Now,
     cancelled : BOOLEAN, refused : BOOLEAN]

DashboardTypeOK ==
    /\ history \in Seq(Seq(Row)) /\ history # <<>>
    /\ page \in Page
    /\ bugs \in 0..Now /\ stats \in 0..Now /\ bug \in Nat
    /\ loads \in [Slot -> Load \cup {NoLoad}]
    /\ token \in {"stored", "expired", "dev"}
    /\ failures \in 0..MaxFailures

DashboardInit ==
    /\ page \in {p \in Page : p.name = "overview"}
    /\ bugs = 0 /\ stats = 0 /\ bug = 0
    /\ token = "stored"
    /\ failures = 0
    /\ loads = [sl \in Slot |-> NoLoad]      \* the first load is a Poll

Init == history \in {<<table>> : table \in Seeded} /\ DashboardInit

-----------------------------------------------------------------------------
(* request(): a statement runs in the gateway, or the request fails (the   *)
(* gateway or a statement fails, 404): null.                               *)
Pending(load, endpoint) ==
    /\ endpoint \in load.asks \ load.failed
    /\ ~(Statements[endpoint] \subseteq load.done)

StatementRuns(sl) ==
    \E endpoint \in DOMAIN Statements : \E s \in Statements[endpoint] :
        /\ loads[sl] # NoLoad /\ ~loads[sl].refused
        /\ Pending(loads[sl], endpoint)
        /\ s \notin loads[sl].done /\ Awaited(s) \subseteq loads[sl].done
        /\ s = "bug" => loads[sl].id \in DOMAIN Table
        /\ loads' = [loads EXCEPT
                        ![sl].done = @ \cup {s},
                        ![sl].bugs = IF s = "rows" THEN Now ELSE @,
                        ![sl].stats = IF s = "by_status" THEN Now ELSE @]
        /\ UNCHANGED <<history, page, bugs, stats, bug, token, failures>>

RequestFails(sl) ==
    \E endpoint \in DOMAIN Statements :
        /\ loads[sl] # NoLoad /\ ~loads[sl].refused
        /\ Pending(loads[sl], endpoint)
        /\ \/ failures < MaxFailures /\ failures' = failures + 1
           \/ /\ endpoint = "bug" /\ loads[sl].id \notin DOMAIN Table
              /\ UNCHANGED failures
        /\ loads' = [loads EXCEPT ![sl].failed = @ \cup {endpoint}]
        /\ UNCHANGED <<history, page, bugs, stats, bug, token>>

(* Mutation of RequestRefused: the client goes on with the token.          *)
RefusedAsAnyFailure(sl) ==
    /\ loads[sl] # NoLoad /\ loads[sl].refused
    /\ loads' = [loads EXCEPT ![sl].refused = FALSE,
                              ![sl].failed = loads[sl].asks]
    /\ UNCHANGED <<history, page, bugs, stats, bug, token, failures>>

(* 401, to each of the load's requests: the client goes on with dev-token. *)
RequestRefused(sl) ==
    /\ loads[sl] # NoLoad /\ loads[sl].refused
    /\ token' = "dev"
    /\ loads' = [loads EXCEPT ![sl].refused = FALSE,
                              ![sl].failed = loads[sl].asks]
    /\ UNCHANGED <<history, page, bugs, stats, bug, failures>>

(* The token the browser's storage holds runs out.                         *)
Expire ==
    /\ token = "stored" /\ token' = "expired"
    /\ UNCHANGED <<history, page, bugs, stats, bug, loads, failures>>

-----------------------------------------------------------------------------
Settled(load) ==
    ~load.refused /\ \A endpoint \in load.asks : ~Pending(load, endpoint)
Got(load, endpoint) == endpoint \in load.asks \ load.failed

(* Mutation of Settle: no test of cancelled.                               *)
SettleAlways(sl) ==
    /\ loads[sl] # NoLoad /\ Settled(loads[sl])
    /\ bugs' = IF Got(loads[sl], "list") THEN loads[sl].bugs ELSE bugs
    /\ stats' = IF Got(loads[sl], "stats") THEN loads[sl].stats ELSE stats
    /\ bug' = IF Got(loads[sl], "bug") THEN loads[sl].id ELSE bug
    /\ loads' = [loads EXCEPT ![sl] = NoLoad]
    /\ UNCHANGED <<history, page, token, failures>>

(* The effect goes on when its requests have settled.  BugDetail shows no  *)
(* live activity: it looks for `activities' in an answer that has          *)
(* `activity'.                                                             *)
Settle(sl) ==
    /\ loads[sl] # NoLoad /\ Settled(loads[sl])
    /\ LET load == loads[sl]
           Shows(endpoint) == ~load.cancelled /\ Got(load, endpoint)
       IN /\ bugs' = IF Shows("list") THEN load.bugs ELSE bugs
          /\ stats' = IF Shows("stats") THEN load.stats ELSE stats
          /\ bug' = IF Shows("bug") THEN load.id ELSE bug
    /\ loads' = [loads EXCEPT ![sl] = NoLoad]
    /\ UNCHANGED <<history, page, token, failures>>

(* The interval fires: every 30 seconds while the overview is mounted.     *)
Poll(sl) ==
    /\ page.name = "overview" /\ loads[sl] = NoLoad
    /\ loads' = [loads EXCEPT ![sl] = NewLoad(page)]
    /\ UNCHANGED <<history, page, bugs, stats, bug, token, failures>>

(* The user goes to another address: the effect is cleaned up (cancelled,  *)
(* the interval cleared) and that of the new page runs.  From one bug's    *)
(* page to another's the component stays mounted and keeps its state.      *)
Visit(p, sl) ==
    /\ p # page /\ loads[sl] = NoLoad
    /\ page' = p
    /\ bugs' = 0 /\ stats' = 0
    /\ bug' = IF p.name = page.name THEN bug ELSE 0
    /\ loads' = [s \in Slot |->
                    IF s = sl THEN NewLoad(p)
                    ELSE IF loads[s] = NoLoad THEN NoLoad
                    ELSE [loads[s] EXCEPT !.cancelled = TRUE]]
    /\ UNCHANGED <<history, token, failures>>

Next ==
    \/ (Reported \/ Moved \/ Deduplicated) /\ UNCHANGED dashboardVars
    \/ Expire
    \/ \E sl \in Slot :
          \/ StatementRuns(sl) \/ RequestFails(sl) \/ RequestRefused(sl)
          \/ Settle(sl) \/ Poll(sl) \/ \E p \in Page : Visit(p, sl)

(* A request is answered or fails, its load goes on, and the interval      *)
(* fires.  Nobody has to write or to go anywhere.                          *)
DashboardSpec ==
    /\ Init /\ [][Next]_vars
    /\ \A sl \in Slot : /\ WF_vars(StatementRuns(sl) \/ RequestFails(sl))
                        /\ WF_vars(RequestRefused(sl)) /\ WF_vars(Settle(sl))
    /\ WF_vars(\E sl \in Slot : Poll(sl))

-----------------------------------------------------------------------------
(* What the pages compute from what they hold.                             *)

(* listBugs, with the limit the page of this name sends.                   *)
Listed(table, name) == Listing(table, Limit[name])

(* Mutation of NotDone: a closed bug is counted.                           *)
NotResolved(table, listed) == {b \in listed : table[b].status # "resolved"}

(* Analytics: the listed bugs that are neither resolved nor closed.        *)
NotDone(table, listed) ==
    {b \in listed : table[b].status \notin {"resolved", "closed"}}

Resolved(table, listed) == {b \in listed : table[b].status \in {"resolved", "closed"}}
StatusCounts(table, listed) ==
    [st \in {table[b].status : b \in listed} |->
        Cardinality({b \in listed : table[b].status = st})]

(* BugList: what the user's status filter leaves of the list.              *)
FilteredBugs(table, listed, statusFilter) ==
    {b \in listed : statusFilter \in {"all", table[b].status}}

(* Dashboard: the statuses of by_status that are added up.                 *)
OpenFigure(table) ==
    ByStatus(table, "open") + ByStatus(table, "triaged")
        + ByStatus(table, "in_progress") + ByStatus(table, "in_review")

(* The overview's "Open Bugs": from the statistics or else from the list.  *)
OpenShown ==
    IF stats # 0 THEN OpenFigure(history[stats])
    ELSE Cardinality(NotDone(history[bugs], Listed(history[bugs], "overview")))

(* Deduplication: the groups of a listing that has duplicates; when the    *)
(* canonical bug is not listed the first of its duplicates stands for it.  *)
Duplicates(table, listed) == {b \in listed : table[b].canonical # 0}
Group(table, listed, c) ==
    LET of == {d \in Duplicates(table, listed) : table[d].canonical = c}
    IN [canonical |-> IF c \in listed THEN c ELSE Max(of), duplicates |-> of]
Groups(table, listed) ==
    {Group(table, listed, table[d].canonical) : d \in Duplicates(table, listed)}

(* The sizes of the groups, added up, and what is left of the listing.     *)
TotalDuplicates(table, listed) ==
    Cardinality({p \in Groups(table, listed) \X listed : p[2] \in p[1].duplicates})
UniqueBugs(table, listed) == Cardinality(listed) - TotalDuplicates(table, listed)

(* Once nobody writes any more, the overview of a user who stays on it     *)
(* ends up showing the current figures and the current list, whatever was  *)
(* in flight, failed, overlapped or was refused with the stored token      *)
(* before (in a deployment that accepts the dev token).                    *)
OverviewConverges ==
    <>[](page.name = "overview") =>
        <>[](bugs # 0 /\ history[bugs] = Table /\ OpenShown = OpenFigure(Table))

(* BugDetail's live bug only ever becomes the bug of the address: an       *)
(* answer for the address the user has left never replaces it.             *)
DetailIsOfAddress == [][bug' \notin {bug, 0} => bug' = page'.id]_vars

(* The figures two pages compute agree on the same data, also where the    *)
(* table does not fit in a listing: what Analytics counts in its listing,  *)
(* in all, by status and as open, and what BugList's filter leaves, differ *)
(* from what GET /stats counts over the table by no more than the rows     *)
(* that were not listed, and in Analytics' open bugs by those wont_fix,    *)
(* which it counts as open and the overview does not. The groups of        *)
(* Deduplication hold each listed duplicate once, its canonical bug listed *)
(* or not, so that what is left are the unique bugs.                       *)
Unlisted(table, name) ==
    LET size == IF Limit[name] < Cap THEN Limit[name] ELSE Cap
    IN  IF Len(table) > size THEN Len(table) - size ELSE 0

CountsAgree(table, listed, unlisted) ==
    LET counts == StatusCounts(table, listed)
        Count(st) == IF st \in DOMAIN counts THEN counts[st] ELSE 0
        open == Cardinality(NotDone(table, listed))
    IN
    /\ \A st \in Status :
          Count(st) <= ByStatus(table, st) /\ ByStatus(table, st) <= Count(st) + unlisted
    /\ Cardinality(Resolved(table, listed)) + open + unlisted = Len(table)
    /\ open <= OpenFigure(table) + Count("wont_fix")
    /\ OpenFigure(table) + Count("wont_fix") <= open + unlisted

FilterAgrees(table, listed, unlisted) ==
    LET Left(filter) == Cardinality(FilteredBugs(table, listed, filter)) IN
    /\ Left("all") + unlisted = Len(table)
    /\ \A st \in Status :
          Left(st) <= ByStatus(table, st) /\ ByStatus(table, st) <= Left(st) + unlisted

GroupsAgree(table, listed) ==
    /\ \A d \in Duplicates(table, listed) :
          Cardinality({g \in Groups(table, listed) : d \in g.duplicates}) = 1
    /\ UniqueBugs(table, listed) = Cardinality({b \in listed : table[b].canonical = 0})

FiguresAgree ==
    bugs # 0 =>
        LET table == history[bugs]
            listed == Listed(table, page.name)
            unlisted == Unlisted(table, page.name)
        IN /\ page.name = "analytics" => CountsAgree(table, listed, unlisted)
           /\ page.name = "bugs" => FilterAgrees(table, listed, unlisted)
           /\ page.name = "dedup" /\ Duplicates(table, listed) # {} =>
                GroupsAgree(table, listed)
=============================================================================
