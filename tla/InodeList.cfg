CONSTANTS
    ITotal = 6
    InodesPerBlock = 2
    NullReference = nullReference
    Time = time
SPECIFICATION Spec
INVARIANTS
    TypeOK
    FreeListLinked
PROPERTY
    ImplementsInodeQueue
