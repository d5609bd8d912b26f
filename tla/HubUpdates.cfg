\* One replica, one editor, a triaged bug, and no fault.
SPECIFICATION HubSpec
CONSTANTS
    h1 = h1
    h2 = h2
    e1 = e1
    e2 = e2
    s1 = s1
    s2 = s2
    s3 = s3
    acme = acme
    fa = fa
    fb = fb
    pa = pa
    c1 = c1
    c2 = c2
    t1 = t1
    Replica = {h1}
    Editor = {e1}
    Socket = {s1}
    Event = {t1}
    Org = {acme}
    NoOrg = NoOrg
    File = {fa, fb}
    NoFile = NoFile
    Pattern = {pa}
    Covers <- MCCovers
    NoSocket = NoSocket
    OrgOf <- MCOrgOf
    WatchOf <- MCWatchOf
    SubjectOf <- MCSubjectOf
    BugOrg <- MCBugOrg
    BugFile <- MCBugFile
    MaxOps <- MCMaxOps
    MaxFaults = 0
INVARIANT TriagedReachEditors
CHECK_DEADLOCK FALSE
