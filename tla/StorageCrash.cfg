SPECIFICATION MCSpec
CONSTANTS
    Parts = {"unspent"}
    Keys = {k1, k2}
    Outputs = {o1}
    NULL = NULL
    NONE = NONE
    Readers = {}
    Walkers = {}
    MaxCrashes = 1
    Threads = {t1, t2, t3, t4}
    TsSize <- MCSize
    TsBuffer = 8
    TsFileMax = 4
    TsCrashes = 1
    WtThreads = {1, 2}
    WtMaxInput = 2
    WtByte = 256
    WtScripts <- MCWtScripts
    RcUsers = {1, 2}
    RcThreads = {1, 2}
    RcScripts <- MCRcScripts
INVARIANTS
    StartsConsistent
