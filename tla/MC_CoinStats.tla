----------------------------- MODULE MC_CoinStats ------------------------------
(* Instantiation of CoinStats for TLC: two transaction ids, records of up  *)
(* to two outputs of two values (so that a spent output can sit before an  *)
(* unspent one), two blocks, and keys of the chainstate's other tags on    *)
(* both sides of the coin prefix: a Sprout anchor 'A', a Sapling nullifier *)
(* 'S', the best Sprout anchor 'a', a Sprout nullifier 's' and the best    *)
(* Sapling anchor 'z'.                                                     *)
EXTENDS CoinStats

CONSTANTS N1, N2

MCTxids == {1, 2}
MCOutValues == {1, 2}
MCThreeTxids == {1, 2, 3}
MCBlocks == {1, 2}
MCHeight == (1 :> 0) @@ (2 :> 1)
MCOtherKeys == {<<65, 1>>, <<83, 1>>, <<97>>, <<115, 1>>, <<122>>}
=============================================================================
