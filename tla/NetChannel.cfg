SPECIFICATION MCSpec
CONSTANTS
    Parts = {"channel", "peers"}
    peer1 = peer1
    peer2 = peer2
    b1 = b1
    b2 = b2
    bad = bad
    t1 = t1
    t2 = t2
    NONE = NONE
    Root = Root
    Peers = {peer1, peer2}
    Blocks = {b1, b2}
    Txs = {t1, t2}
    Vacant = {}
    Invalid = {}
    Honest = {peer1}
    Subscribers = {peer2}
    LocalTxs = {t1}
    MaxInv = 2
    MaxPeerBlocks = 1
    MaxPeerTxs = 2
    MaxAsk = 1
    Prev <- MCPrev
    Inputs <- MCInputs
    Contents <- MCContents
    Anchor <- MCAnchor
    Has <- MCHas
    PnIn = {"i1", "i2", "i3", "i4", "i5"}
    PnOut = {"o1", "o2"}
    PnMaxRetries = 1
    PnMaxIdle = 3
    PnConnLimit = 2
    PnAttempts = 2
    PnMaxAddress = 3
    PnScripts <- MCPnScripts
    MaxEvents = 3
    Nonces = {peer1, peer2}
    Senders <- MCSenders
    Writers = {w1, w2}
    Threads = {h1, h2}
    SizesAtStart <- MCSizesAtStart
    NULL = NULL
INVARIANTS
    BooksInOrder
    
CHECK_DEADLOCK FALSE
