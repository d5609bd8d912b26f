\* Two toggles and three faults at any moment, three operations and room for two.
SPECIFICATION LiveSyncSpec
CONSTANTS
    r1 = r1
    r2 = r2
    n1 = n1
    s1 = s1
    s2 = s2
    s3 = s3
    Report <- MCReport
    Note <- MCNote
    Socket <- MCSocket
    NoSocket = NoSocket
    MaxQueue = 2
    MaxToggles = 2
    MaxFaults = 3
INVARIANTS OneLine StillTrying ConnectedIsLive SentInOrder ReportsKept
PROPERTIES StopBringsNothingUp QueueReplayed
CHECK_DEADLOCK FALSE
