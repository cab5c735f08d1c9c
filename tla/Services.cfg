SPECIFICATION MCSpec
CONSTANTS
    Parts = {"index", "forks", "routes", "tree", "sessions", "keys"}
    Times = {n1}
    Keys = {k1, k2}
    Values = {v1}
    NONE = NONE
    Readers = {r1}
    MaxCrashes = 1
    BbBlock <- MCFnBlocks
    BbGenesis = "G"
    BbTx <- MCFnTxs
    BbFork <- MCFnForks
    BbDelegates = {}
    BbLocator = 1
    BbMaxInv = 3
    FnThreads = {"t", "u"}
    FnReaders = {"r"}
    FnDepth = 1440
    FnScripts <- MCFnScripts
    RrRoot = "r"
    RrParent <- MCRrParent
    RrForks <- MCRrForks
    RrScripts <- MCRrScripts
    RrHolders <- MCRrHolders
    RrIds <- MCRrIds
    SnRoot = "r"
    SnParent <- MCSnParent
    SnPeers = {1, 2}
    SnInner = 0
    SnMain = "m"
    SnForks = {"f", "g"}
    SnScripts <- MCSnScripts
    DsTimeout = 1
    DsMaxSocks = 5
    DsScripts <- MCDsScripts
    DsBlocks <- MCDsBlocks
    DsForkOf <- MCDsForkOf
    DsKnownTxs = {"t"}
    DsGoodTxs = {"t"}
    WkKeys = {"k", "l"}
    WkTemplates = {"m"}
    WkThreads = {1, 2}
    WkMaxTime = 4
    WkScripts <- MCWkScripts
INVARIANTS
    EntriesKept
    IndexIsSnapshot
    RetrievesLinearizable
    
    
    TreeFaithful
    
    
PROPERTIES
    FnRestartExact
