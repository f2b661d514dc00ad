---------------------------- MODULE MC_CoinsViewDB ----------------------------
(* Instantiation of CoinsViewDB for TLC: one transaction, one coin value, *)
(* both shielded pools with their own empty root and one shared non-empty  *)
(* root, one nullifier, two blocks.                                        *)
EXTENDS CoinsViewDB

CONSTANTS T1, V1, Sprout, Sapling, ESprout, ESapling, R1, N1, B1

MCTxids == {T1}
MCCoinValues == {V1}
MCPools == {Sprout, Sapling}
MCPoolOrder == <<Sprout, Sapling>>
MCRoots == {ESprout, ESapling, R1}
MCEmptyRoot == [p \in MCPools |-> IF p = Sprout THEN ESprout ELSE ESapling]
MCNullifiers == {N1}
MCBlocks == {B1}

\* The tag bytes of txdb.cpp.
MC_DB_COINS == "c"
MC_DB_BEST_BLOCK == "B"
MCAnchorTag == [p \in MCPools |-> IF p = Sprout THEN "A" ELSE "Z"]
MCNullifierTag == [p \in MCPools |-> IF p = Sprout THEN "s" ELSE "S"]
MCBestAnchorTag == [p \in MCPools |-> IF p = Sprout THEN "a" ELSE "z"]

MCRootsOf == [p \in MCPools |-> {MCEmptyRoot[p], R1}]

=============================================================================
