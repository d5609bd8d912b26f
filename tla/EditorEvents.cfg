\* Two commands at a time, three bugs of which two are in files.
SPECIFICATION EditorSpec
CONSTANTS
    t1 = t1
    t2 = t2
    Task <- MCTask
    MaxBugs = 3
    Page = 2
    InFile <- MCInFile
INVARIANT ListedIsAnnotated
