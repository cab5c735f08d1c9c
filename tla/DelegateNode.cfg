SPECIFICATION MCSpec
CONSTANTS
    Parts = {"delegate", "minting", "commands"}
    Delegates = {1, 2, 3}
    Local = {1}
    Weight <- MCWeight
    DISTRIBUTE_INTERVAL = 1
    ENROLL_INTERVAL = 1
    IntBits = 32
    Holds <- MCHolds
    Rolls <- MCRolls
    MaxDepth = 2
    Scenarios <- MCScenarios
    MtExtended = 20
    MtMine = {"a"}
    MtScripts <- MCMtScripts
    NcBlock <- MCNcBlock
    NcGenesis = "G"
    NcNone = "0"
    NcScripts <- MCNcScripts
INVARIANTS
    VotesKept
    
    BlocksFit
    
CHECK_DEADLOCK FALSE
