SPECIFICATION MCSpec
CONSTANTS
    Parts = {"ledger", "signing"}
    G = G
    A1 = A1
    A2 = A2
    AV = AV
    C = C
    Y = Y
    Z1 = Z1
    ZX = ZX
    mintG = mintG
    mintA1 = mintA1
    mintA2 = mintA2
    mintC = mintC
    mintY = mintY
    mintZ1 = mintZ1
    mintZX = mintZX
    pay = pay
    spend = spend
    rival = rival
    redeem = redeem
    cheat = cheat
    Txs <- MCTxs
    Inputs <- MCInputs
    Outputs <- MCOutputs
    Blocks <- MCBlocks
    Root = G
    Prev <- MCPrev
    Time <- MCTime
    Trust <- MCTrust
    Vacant <- MCVacant
    Extended <- MCExtended
    Mint <- MCMint
    Vtx <- MCVtx
    LocalTxs = {pay, spend, rival, redeem}
    MaxPushed = 1
    SgKeys <- MCSgKeys
    SgTemplate <- MCSgTemplate
    SgWallet <- MCSgWallet
    SgCopies = {1, 2}
    SgScripts <- MCSgScripts
    SgMaxHeight = 2
    SgMinFee = 1
    SgMaxMoney = 100
    SgMaxKeys = 16
    SgMortgage = 4
    SgDecay = 1
INVARIANTS
    ChainKept
    PoolAndWalletFollow
    SignedStaysValid
CHECK_DEADLOCK FALSE
