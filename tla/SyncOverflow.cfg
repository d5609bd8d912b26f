\* A client that waits for its first token, and room for two operations.
SPECIFICATION LiveSyncSpec
CONSTANTS
    r1 = r1
    r2 = r2
    n1 = n1
    s1 = s1
    s2 = s2
    s3 = s3
    Report <- MCReport
    Note <- MCNote
    Socket <- MCSocket
    NoSocket = NoSocket
    MaxQueue = 2
    MaxToggles = 0
    MaxFaults = 0
PROPERTY NonCriticalFirst
CHECK_DEADLOCK FALSE
