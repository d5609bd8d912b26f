\* Two replicas, three bugs (two with the same text, one of another organisation), one fault.
SPECIFICATION LiveDedupEngineSpec
CONSTANTS
    r1 = r1
    r2 = r2
    r3 = r3
    acme = acme
    globex = globex
    d1 = d1
    d2 = d2
    Report = {r1, r2, r3}
    Bug <- MCBug
    NoBug = NoBug
    Key <- MCKey
    ExtId <- MCExtId
    ReportOf <- MCReportOf
    Detached = {}
    Org <- MCTwoOrgs
    SameText <- MCSameText
    Close <- MCClose
    Deduper = {d1, d2}
    MaxDeliver = 1
    MaxCopy = 3
    MaxFaults = 1
INVARIANTS CanonicalIndexed ChainsNeedRedelivery
           OneVerdictPerDelivery NoBugForgotten
PROPERTY VerdictReached
CHECK_DEADLOCK FALSE
