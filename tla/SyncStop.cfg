\* One toggle and no fault.
SPECIFICATION LiveSyncSpec
CONSTANTS
    r1 = r1
    r2 = r2
    n1 = n1
    s1 = s1
    s2 = s2
    s3 = s3
    Report <- MCReport
    Note <- MCNote
    Socket <- MCSocket
    NoSocket = NoSocket
    MaxQueue = 2
    MaxToggles = 1
    MaxFaults = 0
INVARIANT StoppedStaysDown
CHECK_DEADLOCK FALSE
