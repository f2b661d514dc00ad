CONSTANTS
    BlockHashes <- MCBlockHashes
    PrevOf <- MCPrevOf
    Timestamps <- MCOneTimestamp
    Files <- MCFiles
    OtherKeys <- MCOtherKeys
SPECIFICATION FairSpec
INVARIANTS
    TypeOK
    TimestampScanComplete
    BlockIndexDurable
    LoadedGraphClosed
    IndexedBlocksAccounted
    StatsBestBlockIndexed
PROPERTIES
    DirtyEventuallyWritten
