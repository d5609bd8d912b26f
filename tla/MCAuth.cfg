\* Two tasks at a time, a session of an earlier installation and two refreshes.
SPECIFICATION LiveAuthSpec
CONSTANTS
    t1 = t1
    t2 = t2
    Task <- MCTask
    MaxSessions = 3
INVARIANTS HeldIsStored SignedOutStaysOut
PROPERTIES CallsAnswered
