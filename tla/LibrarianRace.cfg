CONSTANTS
    s1 = s1
    s2 = s2
    Main = main
    NULL = null
    Students <- OneStudent
    NumStudies = 1
    MinRequests = 1
    MaxRequests = 2
SPECIFICATION Spec
CHECK_DEADLOCK FALSE
INVARIANT AliveUntilTermination
