---------------------------- MODULE MC_AddressIndex ----------------------------
(* Instantiation of AddressIndex for TLC: two address types sharing two    *)
(* hashes, two heights, one output per address and height, and one key of  *)
(* each other index of the block-tree database around the two prefixes.    *)
EXTENDS AddressIndex

CONSTANTS Amt, UVal, NullUVal, Pos, SVal, NullSVal

MCTypes == {1, 2}
MCHashes == {1, 2}
MCHeights == {1, 2}
MCOutputs == {1}
\* 'p' spent index and 't' tx index, written by their own batches.
MCSpentKeys == {<<112, 1, 0>>}
MCTxKeys == {<<116, 1>>}
\* 'b' block index, 'f' block file, 'l' last block file, 'z' block-hash index.
MCOtherKeys == {<<98, 1>>, <<102, 0>>, <<108>>, <<122, 1>>}
\* The main run: one hash under both types, so that each address's range
\* has the other type's range beside it; two heights for the bounds and
\* so that a damaged entry can lie inside a range.
MCOneHash == {1}
=============================================================================
