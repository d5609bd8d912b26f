\* Two replicas, two editors of one organisation, two operations, a fault, and a bug in a file one watches not.
SPECIFICATION LiveHubSpec
CONSTANTS
    h1 = h1
    h2 = h2
    e1 = e1
    e2 = e2
    s1 = s1
    s2 = s2
    s3 = s3
    acme = acme
    fa = fa
    fb = fb
    pa = pa
    c1 = c1
    c2 = c2
    t1 = t1
    Replica = {h1, h2}
    Editor = {e1, e2}
    Socket = {s1, s2, s3}
    Event = {c1}
    Org = {acme}
    NoOrg = NoOrg
    File = {fa, fb}
    NoFile = NoFile
    Pattern = {pa}
    Covers <- MCCovers
    NoSocket = NoSocket
    OrgOf <- MCOrgOf
    WatchOf <- MCWatchOf
    SubjectOf <- MCSubjectOf
    BugOrg <- MCBugOrg
    BugFile <- MCBugFile
    MaxOps <- MCMaxOps
    MaxFaults = 1
INVARIANTS RegistryExact CreationsReachEditors ForwardedInOrder
PROPERTIES UnwatchedOnlyAtFirst OperationsForwarded EventsTaken
CHECK_DEADLOCK FALSE
