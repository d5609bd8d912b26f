\* Liveness: one report and a score request with its fields, sent at any time
\* (before the row too), one fault, an analyzer that found no database.
SPECIFICATION LiveSpec
CONSTANTS
    r1 = r1
    acme = acme
    w1 = w1
    d1 = d1
    cls = cls
    dir = dir
    a1 = a1
    h1 = h1
    Report = {r1}
    Unconnected = {}
    Bug <- MCBug
    NoBug = NoBug
    Key <- MCKey
    ExtId <- MCExtId
    NewId <- MCNewId
    ReportOf <- MCReportOf
    Detached = {a1}
    Malformed = {}
    Insertable = {r1}
    Org <- MCOrg
    SameText <- MCAll
    Close <- MCAll
    Ingester = {w1}
    Deduper = {d1}
    Scorer = {cls, dir}
    TaskOf <- MCTaskOf
    Inline <- MCInline
    Analyzer = {a1}
    Handler = {h1}
    Asked = {"open", "resolved"}
    MaxDeliver = 2
    MaxCopy = 2
    MaxSeq = 2
    MaxFaults = 1
    MaxRequests = 0
    Requested <- MCRequested
PROPERTIES BugsConclude InlineRequestsConclude
CHECK_DEADLOCK FALSE
