\* Two replicas, started four times in all at most, one sample bug and
\* one report, four requests, two faults.
SPECIFICATION Spec
CONSTANTS
    r1 = r1
    seed = seed
    g1 = g1
    g2 = g2
    h1 = h1
    h2 = h2
    Report = {r1, seed}
    Unconnected = {r1}
    Bug <- MCBug
    NoBug = NoBug
    Key <- MCKey
    ExtId = {1, 2}
    ReportOf <- MCReportOf
    Detached = {}
    Handler = {h1, h2}
    Asked = {"open", "resolved"}
    Replica = {g1, g2}
    ReplicaOf <- MCReplicaOf
    Sample <- MCSample
    SampleId <- MCSampleId
    SampleStatus <- MCSampleStatus
    MaxDeliver = 1
    MaxCopy = 1
    MaxFaults = 2
    MaxRequests = 4
    MaxStarts = 4
INVARIANTS TrailExplains StartsFit
CHECK_DEADLOCK FALSE
