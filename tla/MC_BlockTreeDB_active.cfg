CONSTANTS
    BlockHashes <- MCBlockHashes
    PrevOf <- MCPrevOf
    Timestamps <- MCTimestamps
    Files <- MCOneFile
    OtherKeys <- MCOtherKeys
SPECIFICATION Spec
INVARIANTS
    TimestampActiveScanSafe
