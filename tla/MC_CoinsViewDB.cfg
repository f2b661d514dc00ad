CONSTANTS
    T1 = T1
    V1 = V1
    Sprout = Sprout
    Sapling = Sapling
    ESprout = ESprout
    ESapling = ESapling
    R1 = R1
    N1 = N1
    B1 = B1
    Pruned = Pruned
    NullHash = NullHash
    Absent = Absent
    NoEntry = NoEntry
    MaxEntries = 2
    Txids <- MCTxids
    CoinValues <- MCCoinValues
    Pools <- MCPools
    PoolOrder <- MCPoolOrder
    Roots <- MCRoots
    EmptyRoot <- MCEmptyRoot
    RootsOf <- MCRootsOf
    Nullifiers <- MCNullifiers
    Blocks <- MCBlocks
    DB_COINS <- MC_DB_COINS
    DB_BEST_BLOCK <- MC_DB_BEST_BLOCK
    AnchorTag <- MCAnchorTag
    NullifierTag <- MCNullifierTag
    BestAnchorTag <- MCBestAnchorTag
SPECIFICATION Spec
INVARIANTS
    TypeOK
PROPERTIES
    FlushKeepsView
    Refinement
