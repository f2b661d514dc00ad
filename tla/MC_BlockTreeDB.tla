---------------------------- MODULE MC_BlockTreeDB -----------------------------
(* Instantiation of BlockTreeDB for TLC: a genesis block, two children   *)
(* of it and a grandchild of the first (a fork, so that one branch is     *)
(* stale while the other is active, and a chain deep enough for a flush   *)
(* between a parent and its child), two logical timestamps, and the       *)
(* two block files, so that a block can start a new file, and the       *)
(* named flag 'F' and reindex flag 'R' keys before the timestamp range.   *)
EXTENDS BlockTreeDB

MCBlockHashes == {1, 2, 3, 4}
MCPrevOf == (1 :> 0) @@ (2 :> 1) @@ (3 :> 1) @@ (4 :> 2)
MCTimestamps == {1, 2}
MCFiles == {0, 1}
\* The main run keeps one timestamp, shared by all blocks (the timestamp
\* index is no input of the file bookkeeping); the active-scan run keeps
\* one block file.
MCOneFile == {0}
MCOneTimestamp == {1}
MCOtherKeys == {<<70, 1>>, <<82>>}
=============================================================================
