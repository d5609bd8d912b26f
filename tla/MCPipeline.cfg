\* One report, two faults at any service, one user transition at any time.
SPECIFICATION Spec
CONSTANTS
    r1 = r1
    acme = acme
    w1 = w1
    d1 = d1
    cls = cls
    dir = dir
    a1 = a1
    h1 = h1
    Report = {r1}
    Unconnected = {}
    Bug <- MCBug
    NoBug = NoBug
    Key <- MCKey
    ExtId <- MCExtId
    NewId <- MCNewId
    ReportOf <- MCReportOf
    Detached = {}
    Malformed = {}
    Insertable = {r1}
    Org <- MCOrg
    SameText <- MCAll
    Close <- MCAll
    Ingester = {w1}
    Deduper = {d1}
    Scorer = {cls}
    TaskOf <- MCTaskOf
    Inline <- MCInline
    Analyzer = {a1}
    Handler = {h1}
    Asked = {"open", "resolved"}
    MaxDeliver = 2
    MaxCopy = 3
    MaxSeq = 2
    MaxFaults = 2
    MaxRequests = 1
    Requested = {}
INVARIANTS EventsAreReceipts NoEventDropped
PROPERTIES LifecycleKept StatusRespected
CHECK_DEADLOCK FALSE
