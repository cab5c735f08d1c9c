SPECIFICATION MCSpec
CONSTANTS
    Parts = {"lock", "calls"}
    Keys = {k1}
    Outputs = {o1}
    NULL = NULL
    NONE = NONE
    Readers = {r1}
    Walkers = {w1, w2}
    MaxCrashes = 1
    Threads = {t1, t2, t3, t4}
    TsSize <- MCSize
    TsBuffer = 8
    TsFileMax = 4
    TsCrashes = 1
    WtThreads = {1, 2}
    WtMaxInput = 2
    WtByte = 256
    WtScripts <- MCWtScripts
    RcUsers = {1, 2}
    RcThreads = {1, 2}
    RcScripts <- MCRcScripts
INVARIANTS
    NoLostWakeup
    RcExchangeKept
PROPERTIES
    UpgradeSucceeds
    ImplementsSharedLock
    RcCallsReturn
