CONSTANTS
    Amt = Amt
    UVal = UVal
    NullUVal = NullUVal
    Pos = Pos
    SVal = SVal
    NullSVal = NullSVal
    TxPos <- Pos
    SpentValue <- SVal
    NullSpentValue <- NullSVal
    TxKeys <- MCTxKeys
    SpentKeys <- MCSpentKeys
    Amount <- Amt
    UnspentValue <- UVal
    NullValue <- NullUVal
    Types <- MCTypes
    Hashes <- MCHashes
    Heights <- MCHeights
    Outputs <- MCOutputs
    OtherKeys <- MCOtherKeys
    MaxBatch = 2
    Corrupt = Corrupt
    MaxFaults = 0
SPECIFICATION Spec
INVARIANTS
    ScanRespectsStart
