\* The RPC call ends and the validation thread stops at MaxHeight: a final
\* state is a stop, not a deadlock.
CHECK_DEADLOCK FALSE
CONSTANTS
    MaxHeight = 2
    COIN = 2
    UnspentAt <- MCUnspentAt
    OtherKeys <- MCOtherKeys
    KeyBytes <- MCKeyBytes
    Ignored <- MCIgnored
    AddrRank <- MCAddrRank
    Tops <- MCTops
    Garbage <- MCGarbage
SPECIFICATION Spec
INVARIANT AddressCountMatchesList
