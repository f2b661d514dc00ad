CONSTANTS
    N1 = N1
    N2 = N2
    Nodes = {N1, N2}
    Txids <- MCTxids
    OutValues <- MCOutValues
    MaxOutputs = 2
    Blocks <- MCBlocks
    Height <- MCHeight
    OtherKeys <- MCOtherKeys
SPECIFICATION Spec
\* GetStats returns: a node whose scan is done or interrupted takes no step.
CHECK_DEADLOCK FALSE
INVARIANTS
    StatsHashDetectsDivergence
