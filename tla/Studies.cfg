CONSTANTS
    MAX_BOOKS = 3
    MAX_COURSE_UNITS = 3
    MAX_SEATS = 4
    MAX_STUDENTS = 2
    BookCopies = {99, 100}
    MAX_NAME_SIZE = 8
    CourseNameSize = 4
    MaxTime = 2
    MaxOptions = 1
    Defaults <- MCDefaults
SPECIFICATION ScreenSpec
CHECK_DEADLOCK FALSE
INVARIANTS
    TypeOK
    AbortsOnlyOnLongLists
    DoneMeansStudied
    ScreenDivided
    NothingStale
PROPERTIES
    StudentsFinish
