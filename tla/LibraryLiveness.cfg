CONSTANTS
    s1 = s1
    s2 = s2
    a = a
    b = b
    librarian = librarian
    Students <- MCStudents
    Librarian <- librarian
    Books <- MCBooks
    Quantity <- MCQuantity
    BookLists <- MCBookLists
    NumSeats = 1
    MaxStudies = 1
SPECIFICATION FairSpec
CHECK_DEADLOCK FALSE
PROPERTIES
    ImplementsReadingRoom
    EveryStudyEnds
