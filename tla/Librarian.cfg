CONSTANTS
    s1 = s1
    s2 = s2
    Main = main
    NULL = null
    Students <- TwoStudents
    NumStudies = 0
    MinRequests = 1
    MaxRequests = 2
SPECIFICATION Spec
CHECK_DEADLOCK FALSE
INVARIANTS
    TypeOK
    EachReceivedOnce
    InOrder
    StudentsCounted
SYMMETRY StudentSymmetry
