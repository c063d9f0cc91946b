CONSTANTS
    s1 = s1
    Main = main
    Librarian = librarian
    Students <- MCStudents
    MaxLogs = 1
SPECIFICATION FairSpec
CHECK_DEADLOCK FALSE
INVARIANTS
    TypeOK
    Permits
    LatestShown
    LeavesNothing
PROPERTIES
    InitEnds
    Returns
