SPECIFICATION FairSpec
CHECK_DEADLOCK FALSE
CONSTANTS
    Clients = {c1, c2}
    Names = {a, b}
    Inodes = {i1, i2}
    Root = Root
    NullReference = NullReference
    NoName = NoName
    Nobody = Nobody
    DirentriesPerCluster = 4
    FirstFiles = {a}
    MaxCalls = 3
    MaxSize = 1
INVARIANTS TypeOK LinksCounted ListedOnce
PROPERTIES Answered ImplementsNamespace
