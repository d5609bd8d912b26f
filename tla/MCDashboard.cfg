\* A table of two rows and one write, and two larger ones; two loads under way,
\* one failure, a listing of four rows at most.
SPECIFICATION DashboardSpec
CONSTANTS
    s1 = s1
    s2 = s2
    Slot = {s1, s2}
    NoLoad = NoLoad
    MovedTo = {"closed"}
    Cap = 4
    Seeded <- MCSeeded
    MaxRows = 3
    MaxWrites = 1
    Page <- MCPage
    Limit <- MCLimit
    DevMode = TRUE
    MaxFailures = 1
INVARIANT FiguresAgree
PROPERTIES OverviewConverges DetailIsOfAddress
