CONSTANTS
    CacheSize = 2
    BytesPerBlock = 5
    BitsPerByte = 2
    Behind = 1
    NullReference = nullReference
    Files = {f}
    CTotal = 8
    N_DIRECT = 1
    ReferencesPerCluster = 2
    ReferencesPerBlock = 1
    Positions = {0, 1, 2, 3, 5}
    MaxOps = 6
    RefsPerMapBlock = 10
    MapBits = 2
    BlockSize = 8
    InodesPerBlock = 2
    BlocksPerCluster = 2
    UsedSize = 20
    ITotal = 4
    Time = time
    Handles = 3
    LinkMax = 3
    Perms = {1}
    Owners = {1}
    MaxCommands = 4
    DeviceSizes <- MCDeviceSizes
    InodeCounts <- MCInodeCounts
SPECIFICATION VolumeSpec
CHECK_DEADLOCK FALSE
INVARIANTS
    TypeOK
    SoundUntilDamage
    Accounting
    FileIntact
    ZonesTile
    MagicMeansFormatted
    AttributesLast
    HandlesAccounted
PROPERTY
    ImplementsInodeList
