SPECIFICATION MCSpec
CONSTANTS
    Parts = {"store", "tables", "log", "cache", "skiplist", "files"}
    NumLevels = 3
    MaxMemCompactLevel = 1
    L0Trigger = 2
    LevelBytes <- MCLevelBytes
    FileBytes = 2
    Threads = {t1, t2}
    Readers = {r1}
    Keys = {1, 2}
    t1 = t1
    t2 = t2
    WriteBuffer = 0
    GroupBytes = 2
    SlowdownTrigger = 2
    StopTrigger = 2
    Scenarios <- MCScenarios
    RestartInterval = 2
    BlockSize = 3
    FilterBase = 2
    ItUsers = {1, 3, 5}
    ItScenarios <- MCItScenarios
    LgBlock = 7
    LgHeader = 3
    LgSizes = {0,1,2,3,4,6,10}
    LgMax = 4
    LcThreads = {1, 2, 3}
    LcKeys = {1,2}
    LcCapacity = 1
    LcInserts = 4
    SkKeys = {1, 2, 3}
    SkHeight = 2
    SkReaders = {1}
    PeBuffer = 2
    PeAppends = {1,3,4}
    PeMaxUnits = 7
    PeUsers = {1, 2, 3}
    PeMmaps = 1
    PeFds = 1
    PeMaxWork = 4
INVARIANTS
    
    WaitersServed
    TablesRead
    LogIsRead
    CacheCounts
    NoKeyPassed
    
CHECK_DEADLOCK FALSE
