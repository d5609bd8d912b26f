\* Safety: two replicas, two deliveries per request, two faults.
SPECIFICATION LiveIngestionSpec
CONSTANTS
    api = api
    ide = ide
    bad = bad
    w1 = w1
    w2 = w2
    Report <- MCReport
    Bug <- MCBug
    NoBug = NoBug
    Key <- MCKey
    ExtId <- MCExtId
    NewId <- MCNewId
    ReportOf <- MCReportOf
    Detached = {}
    Malformed = {bad}
    Insertable = {api, ide}
    Ingester = {w1, w2}
    MaxDeliver = 2
    MaxCopy = 2
    MaxSeq = 6
    MaxFaults = 2
INVARIANTS OneAnnouncement AnnouncedAsStored NoSilentLoss
PROPERTY RequestsSettle
CHECK_DEADLOCK FALSE
