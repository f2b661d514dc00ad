----------------------------- MODULE BlockTreeDB ------------------------------
(***************************************************************************)
(* The block index and the timestamp indices of the block-tree database    *)
(* (class CBlockTreeDB in src/src/txdb.cpp), with the node state they are  *)
(* written from and loaded into: mapBlockIndex, the set of dirty block     *)
(* index entries and chainActive.  Those belong to the validation layer    *)
(* (main.cpp, not part of src/); the actions that change them are          *)
(* modelled from the spec (sections 4.3, 4.5 and 5).                       *)
(*                                                                         *)
(* WriteBatchSync persists the dirty block files' CBlockFileInfo, the last *)
(* file number and the dirty entries in one synchronous batch;             *)
(* the timestamp index and the block-hash index are written by their own   *)
(* batches when a block is connected.  A crash loses the memory and keeps  *)
(* the database; LoadBlockIndexGuts rebuilds mapBlockIndex from the 'b'    *)
(* entries.  ReadTimestampIndex is a scan over the ordered keyspace        *)
(* (module OrderedKeys); with fActiveOnly it asks blockOnchainActive of    *)
(* every entry in range.                                                   *)
(***************************************************************************)
EXTENDS Naturals, Sequences, FiniteSets, SequencesExt, OrderedKeys

CONSTANTS
    BlockHashes,  \* block hashes, as their byte order (uint256() is 0)
    PrevOf,       \* [BlockHashes -> BlockHashes \cup {0}]: each header's hashPrevBlock
    Timestamps,   \* logical timestamps a connected block can be given
    Files,        \* block file numbers 0..n (blk?????.dat)
    OtherKeys     \* keys of the block-tree database that no action here writes

NullHash == 0                 \* uint256()

\* The tag bytes of txdb.cpp, as the numbers leveldb compares.
DB_TIMESTAMPINDEX == 83       \* 'S'
DB_BLOCK_INDEX == 98          \* 'b'
DB_BLOCKHASHINDEX == 122      \* 'z'
DB_BLOCK_FILES == 102         \* 'f'
DB_LAST_BLOCK == 108          \* 'l'

NoFile == -1                  \* DB_LAST_BLOCK not present

ASSUME /\ BlockHashes \subseteq Nat \ {0} /\ Timestamps \subseteq Nat /\ 0 \in Files
       /\ Files = 0..Max(Files)
       /\ PrevOf \in [BlockHashes -> BlockHashes \cup {NullHash}]
       /\ \A k \in OtherKeys : k \in Seq(Nat) /\ k # <<>>
            /\ k[1] \notin {DB_TIMESTAMPINDEX, DB_BLOCK_INDEX, DB_BLOCKHASHINDEX,
                            DB_BLOCK_FILES, DB_LAST_BLOCK}

VARIABLES
    blockRecords,   \* the 'b' entries: hash -> [pprev, nFile] of the stored CDiskBlockIndex
    fileRecords,    \* the 'f' entries: file -> its CBlockFileInfo, as the blocks it holds
    lastFileRec,    \* the 'l' entry: the last block file, or NoFile
    tsIndex,        \* the 'S' keys: CTimestampIndexKey as <<timestamp, blockHash>>
    blockTs,        \* the 'z' entries: hash -> logical timestamp
    bestBlock,      \* DB_BEST_BLOCK of the chainstate database, NullHash when absent
    mapBlockIndex,  \* hash -> [pprev, nFile, header]; header is FALSE for a placeholder
    dirty,          \* setDirtyBlockIndex
    vinfo,          \* vinfoBlockFile: file -> the blocks it holds
    dirtyFiles,     \* setDirtyFileInfo
    nLastBlockFile, \* the file new blocks are appended to
    chain,          \* chainActive, genesis first
    up,             \* the node is running; FALSE from a crash until the index is loaded
    flushPos        \* 0, or the position in FlushOrder of the part FlushStateToDisk writes next

disk == <<blockRecords, fileRecords, lastFileRec, tsIndex, blockTs, bestBlock>>
mem == <<mapBlockIndex, dirty, vinfo, dirtyFiles, nLastBlockFile, chain, up, flushPos>>
vars == <<disk, mem>>

Node(prev, f) == [pprev |-> prev, nFile |-> f, header |-> TRUE]
Placeholder == [pprev |-> NullHash, nFile |-> 0, header |-> FALSE]

NoFiles == [f \in Files |-> {}]

HasHeader(h) == h \in DOMAIN mapBlockIndex /\ mapBlockIndex[h].header

-----------------------------------------------------------------------------
(* The keyspace the iterator walks.                                        *)

DbKeys ==
    {<<DB_BLOCK_INDEX, h>> : h \in DOMAIN blockRecords}
    \cup {<<DB_TIMESTAMPINDEX, e[1], e[2]>> : e \in tsIndex}
    \cup {<<DB_BLOCKHASHINDEX, h>> : h \in DOMAIN blockTs}
    \cup {<<DB_BLOCK_FILES, f>> : f \in DOMAIN fileRecords}
    \cup (IF lastFileRec = NoFile THEN {} ELSE {<<DB_LAST_BLOCK>>})
    \cup OtherKeys

-----------------------------------------------------------------------------
(* Writes of CBlockTreeDB.                                                 *)

DiskIndex(h) == [pprev |-> mapBlockIndex[h].pprev, nFile |-> mapBlockIndex[h].nFile]

\* Mutant of WriteBatchSync: one entry of blockinfo is left out of the batch.
WriteBatchSyncSkipOne(fileInfo, nLastFile, blockinfo) ==
    LET skipped == IF blockinfo = {} THEN {} ELSE {CHOOSE h \in blockinfo : TRUE} IN
    /\ fileRecords' = [f \in fileInfo |-> vinfo[f]] @@ fileRecords
    /\ lastFileRec' = nLastFile
    /\ blockRecords' = [h \in blockinfo \ skipped |-> DiskIndex(h)] @@ blockRecords

\* Mutant of WriteBatchSync: the CBlockFileInfo loop is missing.
WriteBatchSyncNoFileInfo(fileInfo, nLastFile, blockinfo) ==
    /\ fileRecords' = fileRecords
    /\ lastFileRec' = nLastFile
    /\ blockRecords' = [h \in blockinfo |-> DiskIndex(h)] @@ blockRecords

\* WriteBatchSync: each CBlockFileInfo of fileInfo, DB_LAST_BLOCK and one
\* CDiskBlockIndex per entry of blockinfo, in one synchronous batch.
WriteBatchSync(fileInfo, nLastFile, blockinfo) ==
    /\ fileRecords' = [f \in fileInfo |-> vinfo[f]] @@ fileRecords
    /\ lastFileRec' = nLastFile
    /\ blockRecords' = [h \in blockinfo |-> DiskIndex(h)] @@ blockRecords

\* CCoinsViewDB::BatchWrite writes DB_BEST_BLOCK of the chainstate only for a
\* non-null hashBlock.
WriteBestBlock(hashBlock) == bestBlock' = IF hashBlock = NullHash THEN bestBlock ELSE hashBlock

\* ReadLastBlockFile and ReadBlockFileInfo: Read of one key, false when absent.
ReadLastBlockFile == [ok |-> lastFileRec # NoFile, nFile |-> lastFileRec]
ReadBlockFileInfo(n) ==
    [ok |-> n \in DOMAIN fileRecords, info |-> IF n \in DOMAIN fileRecords THEN fileRecords[n] ELSE {}]

\* Mutant of WriteTimestampIndex: the key's fields are swapped.
WriteTimestampIndexSwapped(ts, h) == tsIndex' = tsIndex \cup {<<h, ts>>}

\* WriteTimestampIndex: one key, value 0, in its own batch.
WriteTimestampIndex(ts, h) == tsIndex' = tsIndex \cup {<<ts, h>>}

\* WriteTimestampBlockIndex: the logical timestamp of a block hash.
WriteTimestampBlockIndex(h, ts) == blockTs' = (h :> ts) @@ blockTs

-----------------------------------------------------------------------------
(* LoadBlockIndexGuts: every 'b' entry, from the seek to (DB_BLOCK_INDEX,  *)
(* uint256()) to the first key of another tag.  InsertBlockIndex returns   *)
(* the node of a hash, creating an empty one when there is none, and NULL  *)
(* for uint256(); each entry's own fields overwrite what a placeholder     *)
(* held, so the result does not depend on the order of the entries.  The   *)
(* header-hash check cannot fail on an entry WriteBatchSync wrote from a   *)
(* node, so it is not a branch here.                                       *)

\* Mutant of LoadedIndex: pindexNew->pprev is never assigned.
LoadedIndexNoLink ==
    LET recs == DOMAIN blockRecords
        preds == {blockRecords[h].pprev : h \in recs} \ (recs \cup {NullHash})
    IN [h \in recs \cup preds |->
          IF h \in recs THEN Node(NullHash, blockRecords[h].nFile) ELSE Placeholder]

LoadedIndex ==
    LET recs == DOMAIN blockRecords
        preds == {blockRecords[h].pprev : h \in recs} \ (recs \cup {NullHash})
    IN [h \in recs \cup preds |->
          IF h \in recs THEN Node(blockRecords[h].pprev, blockRecords[h].nFile) ELSE Placeholder]

-----------------------------------------------------------------------------
(* CBlockTreeDB::ReadTimestampIndex(high, low, fActiveOnly).               *)

\* What blockOnchainActive does when mapBlockIndex has no entry for the hash:
\* operator[] inserts NULL and chainActive.Contains reads its nHeight.
NullDeref == "NullDeref"

\* blockOnchainActive(hash): chainActive.Contains(mapBlockIndex[hash]).  A
\* placeholder has height 0 and is not the genesis node, so it is not active.
blockOnchainActive(hash) == \E i \in DOMAIN chain : chain[i] = hash

\* The loop: stop at the first key of another tag or with timestamp >= high
\* (a key that does not decode stops it too); otherwise keep the entry,
\* with fActiveOnly only if its block is on the active chain, and step.
\* Mutant of TimestampLoop: the upper bound is inclusive.
RECURSIVE TimestampLoopHighInclusive(_, _, _, _)
TimestampLoopHighInclusive(key, high, fActiveOnly, acc) ==
    IF key = NoKey THEN acc
    ELSE IF key[1] # DB_TIMESTAMPINDEX \/ key[2] > high THEN acc
    ELSE IF fActiveOnly /\ key[3] \notin DOMAIN mapBlockIndex THEN NullDeref
    ELSE TimestampLoopHighInclusive(NextIn(DbKeys, key), high, fActiveOnly,
                       IF fActiveOnly => blockOnchainActive(key[3])
                       THEN Append(acc, <<key[3], key[2]>>) ELSE acc)

RECURSIVE TimestampLoop(_, _, _, _)
TimestampLoop(key, high, fActiveOnly, acc) ==
    IF key = NoKey THEN acc
    ELSE IF key[1] # DB_TIMESTAMPINDEX \/ key[2] >= high THEN acc
    ELSE IF fActiveOnly /\ key[3] \notin DOMAIN mapBlockIndex THEN NullDeref
    ELSE TimestampLoop(NextIn(DbKeys, key), high, fActiveOnly,
                       IF fActiveOnly => blockOnchainActive(key[3])
                       THEN Append(acc, <<key[3], key[2]>>) ELSE acc)

ReadTimestampIndex(high, low, fActiveOnly) ==
    TimestampLoop(SeekIn(DbKeys, <<DB_TIMESTAMPINDEX, low>>), high, fActiveOnly, <<>>)

-----------------------------------------------------------------------------
(* The node around the database (validation layer, from the spec).         *)

\* A new block is added to mapBlockIndex after its predecessor and marked
\* dirty; FindBlockPos stores its data in the last block file, or starts
\* the next one when that is full, and marks the file's info dirty.
AcceptBlock(h, f) ==
    /\ up /\ flushPos = 0
    /\ h \notin DOMAIN mapBlockIndex
    /\ PrevOf[h] = NullHash \/ HasHeader(PrevOf[h])
    /\ f \in {nLastBlockFile, nLastBlockFile + 1} \cap Files
    /\ mapBlockIndex' = (h :> Node(PrevOf[h], f)) @@ mapBlockIndex
    /\ dirty' = dirty \cup {h}
    /\ vinfo' = [vinfo EXCEPT ![f] = @ \cup {h}]
    /\ dirtyFiles' = dirtyFiles \cup {f}
    /\ nLastBlockFile' = f
    /\ UNCHANGED <<disk, chain, up, flushPos>>

\* A block extending the tip is connected; with the timestamp index on,
\* its timestamp key and its logical timestamp are written.
ConnectTip(h, ts) ==
    /\ up /\ flushPos = 0
    /\ HasHeader(h)
    /\ PrevOf[h] = IF chain = <<>> THEN NullHash ELSE Last(chain)
    /\ chain' = Append(chain, h)
    /\ WriteTimestampIndex(ts, h)
    /\ WriteTimestampBlockIndex(h, ts)
    /\ UNCHANGED <<blockRecords, fileRecords, lastFileRec, bestBlock>>
    /\ UNCHANGED <<mapBlockIndex, dirty, vinfo, dirtyFiles, nLastBlockFile, up, flushPos>>

\* The tip is disconnected; its timestamp entries stay in the index.
DisconnectTip ==
    /\ up /\ flushPos = 0
    /\ chain # <<>>
    /\ chain' = Front(chain)
    /\ UNCHANGED <<disk, mapBlockIndex, dirty, vinfo, dirtyFiles, nLastBlockFile, up, flushPos>>

\* The two durable writes of FlushStateToDisk, in the order it makes them:
\* the block index (WriteBatchSync), then the coins (pcoinsTip->Flush()).
FlushOrderSwapped == <<"coins", "index">>
FlushOrder == <<"index", "coins">>

Tip == IF chain = <<>> THEN NullHash ELSE Last(chain)

\* "index": the dirty file infos, nLastBlockFile and the dirty entries go
\* out in one WriteBatchSync and both sets are cleared. "coins":
\* CCoinsViewDB::BatchWrite writes the tip as the chainstate's best block
\* (not when it is null), in a batch of its own.
FlushPart(p) ==
    \/ /\ p = "index"
       /\ WriteBatchSync(dirtyFiles, nLastBlockFile, dirty)
       /\ dirty' = {} /\ dirtyFiles' = {}
       /\ UNCHANGED bestBlock
    \/ /\ p = "coins"
       /\ WriteBestBlock(Tip)
       /\ UNCHANGED <<blockRecords, fileRecords, lastFileRec, dirty, dirtyFiles>>

\* FlushStateToDisk, under cs_main: when there is something to write, the
\* first part goes out; no other node step runs until the second has.
FlushStateToDisk ==
    /\ up /\ flushPos = 0
    /\ dirty # {} \/ (chain # <<>> /\ bestBlock # Last(chain))
    /\ FlushPart(FlushOrder[1])
    /\ flushPos' = 2
    /\ UNCHANGED <<tsIndex, blockTs, mapBlockIndex, vinfo, nLastBlockFile, chain, up>>

\* The second write of the same FlushStateToDisk call; a crash may come
\* between the two.
FlushStateToDiskFinish ==
    /\ up /\ flushPos = 2
    /\ FlushPart(FlushOrder[2])
    /\ flushPos' = 0
    /\ UNCHANGED <<tsIndex, blockTs, mapBlockIndex, vinfo, nLastBlockFile, chain, up>>

\* A crash or stop loses everything in memory.
Crash ==
    /\ up
    /\ up' = FALSE
    /\ mapBlockIndex' = [h \in {} |-> Placeholder]
    /\ dirty' = {}
    /\ vinfo' = NoFiles /\ dirtyFiles' = {} /\ nLastBlockFile' = 0
    /\ chain' = <<>>
    /\ flushPos' = 0
    /\ UNCHANGED disk

\* The chain from genesis to h through pprev links of index m.
RECURSIVE ChainTo(_, _)
ChainTo(m, h) == IF m[h].pprev = NullHash THEN <<h>> ELSE Append(ChainTo(m, m[h].pprev), h)

\* Start: LoadBlockIndexGuts; LoadBlockIndexDB reads the last block file
\* number (0 when absent) and every file's info; then the tip is set to the
\* chainstate's best block, and the chain is left empty when
\* mapBlockIndex has no node for it.
Restart ==
    /\ ~up
    /\ mapBlockIndex' = LoadedIndex
    /\ nLastBlockFile' = IF ReadLastBlockFile.ok THEN ReadLastBlockFile.nFile ELSE 0
    /\ vinfo' = [f \in Files |-> ReadBlockFileInfo(f).info]
    /\ chain' = IF bestBlock \in DOMAIN LoadedIndex THEN ChainTo(LoadedIndex, bestBlock) ELSE <<>>
    /\ up' = TRUE
    /\ UNCHANGED <<disk, dirty, dirtyFiles, flushPos>>

Init ==
    /\ blockRecords = [h \in {} |-> [pprev |-> NullHash, nFile |-> 0]]
    /\ fileRecords = [f \in {} |-> {}]
    /\ lastFileRec = NoFile
    /\ tsIndex = {}
    /\ blockTs = [h \in {} |-> 0]
    /\ bestBlock = NullHash
    /\ mapBlockIndex = [h \in {} |-> Placeholder]
    /\ dirty = {}
    /\ vinfo = NoFiles /\ dirtyFiles = {} /\ nLastBlockFile = 0
    /\ chain = <<>>
    /\ up = TRUE
    /\ flushPos = 0

Next ==
    \/ \E h \in BlockHashes, f \in Files : AcceptBlock(h, f)
    \/ \E h \in BlockHashes : \E ts \in Timestamps : ConnectTip(h, ts)
    \/ DisconnectTip
    \/ FlushStateToDisk
    \/ FlushStateToDiskFinish
    \/ Crash
    \/ Restart

Spec == Init /\ [][Next]_vars

\* FlushStateToDisk runs periodically while the node is up, and a call
\* that has begun goes on to its second write unless the node crashes;
\* nothing forces a
\* block to be accepted or connected, or the node to crash.
FairSpec == Spec /\ WF_vars(FlushStateToDisk) /\ WF_vars(FlushStateToDiskFinish)

-----------------------------------------------------------------------------
(* Properties.                                                             *)

TypeOK ==
    /\ \E D \in SUBSET BlockHashes : blockRecords \in [D -> [pprev : BlockHashes \cup {NullHash}, nFile : Files]]
    /\ \E D \in SUBSET Files : fileRecords \in [D -> SUBSET BlockHashes]
    /\ lastFileRec \in Files \cup {NoFile}
    /\ vinfo \in [Files -> SUBSET BlockHashes] /\ dirtyFiles \subseteq Files /\ nLastBlockFile \in Files
    /\ tsIndex \subseteq Timestamps \X BlockHashes
    /\ \E D \in SUBSET BlockHashes : blockTs \in [D -> Timestamps]
    /\ bestBlock \in BlockHashes \cup {NullHash}
    /\ flushPos \in {0, 2}
    /\ \E D \in SUBSET BlockHashes :
         mapBlockIndex \in [D -> [pprev : BlockHashes \cup {NullHash}, nFile : Files, header : BOOLEAN]]
    /\ dirty \subseteq DOMAIN mapBlockIndex
    /\ chain \in Seq(BlockHashes) /\ up \in BOOLEAN

\* Every timestamp query a caller can make: bounds around the timestamps,
\* with and without the active-chain filter.
TsBounds == 0..(Max(Timestamps) + 1)
Requests == [low : TsBounds, high : TsBounds, active : BOOLEAN]

TsKey(e) == <<DB_TIMESTAMPINDEX, e[1], e[2]>>

\* ReadTimestampIndex returns, in key order (timestamp, then hash), exactly
\* the entries with low <= timestamp < high and, with fActiveOnly, whose
\* block is on the active chain: the seek lands before the first of them,
\* the loop passes stale-branch entries without stopping and stops before
\* the 'b' entries that follow, across connects, disconnects, crashes and
\* reloads.  (A scan that dereferences a null index is left to
\* TimestampActiveScanSafe.)
TimestampScanComplete ==
    \A r \in Requests :
      LET out == ReadTimestampIndex(r.high, r.low, r.active) IN
      out # NullDeref =>
        /\ {<<out[i][2], out[i][1]>> : i \in DOMAIN out}
             = {e \in tsIndex : r.low <= e[1] /\ e[1] < r.high
                                /\ (r.active => blockOnchainActive(e[2]))}
        /\ \A i \in 1..Len(out) - 1 :
             KeyLess(TsKey(<<out[i][2], out[i][1]>>), TsKey(<<out[i + 1][2], out[i + 1][1]>>))

\* An active-only timestamp query never reaches blockOnchainActive with a
\* hash that has no block index (spec 4.3: the filter consults the loaded
\* graph to exclude entries on stale branches).
TimestampActiveScanSafe ==
    up => \A r \in Requests : ReadTimestampIndex(r.high, r.low, r.active) # NullDeref

\* While the node runs, the database holds an entry for every block index
\* node that is not dirty, and mapBlockIndex holds every entry of the
\* database linked to the same predecessor: WriteBatchSync persists what
\* the dirty set clears, and LoadBlockIndexGuts after a crash restores
\* every persisted entry with its pprev link.
BlockIndexDurable ==
    up =>
      /\ \A h \in DOMAIN blockRecords : HasHeader(h) /\ mapBlockIndex[h].pprev = blockRecords[h].pprev
      /\ \A h \in DOMAIN mapBlockIndex : h \notin dirty => h \in DOMAIN blockRecords

\* However accepts, flushes and crashes interleave, the index loaded by
\* LoadBlockIndexGuts has no placeholder: every predecessor of a persisted
\* entry was persisted by the same or an earlier batch.
LoadedGraphClosed ==
    up => \A h \in DOMAIN mapBlockIndex : mapBlockIndex[h].header

\* While the node runs, its file info accounts for the data of every block
\* the persisted index points into (so FindBlockPos never places a new
\* block over it), and after any crash the last block file it appends to
\* is not before a file that holds an indexed block: the file infos and
\* DB_LAST_BLOCK go out in the batch that persists the entries.
IndexedBlocksAccounted ==
    up => \A h \in DOMAIN blockRecords :
            /\ h \in vinfo[blockRecords[h].nFile]
            /\ blockRecords[h].nFile <= nLastBlockFile

\* GetStats (line 264) reads the height of the chainstate's best block as
\* mapBlockIndex.find(hashBlock)->second->nHeight without comparing the
\* iterator with end(); once the chainstate names a best block, the node
\* always holds a loaded (not placeholder) index node for it, across
\* flushes, crashes and reloads, a crash between the two writes of a flush
\* included: it holds because FlushStateToDisk writes the block index
\* before the coins.
StatsBestBlockIndexed ==
    up /\ bestBlock # NullHash => HasHeader(bestBlock)

\* Every dirty block index node is eventually written by WriteBatchSync,
\* unless the node crashes first (FlushStateToDisk is weakly fair).
DirtyEventuallyWritten ==
    \A h \in BlockHashes : (up /\ h \in dirty) ~> (h \in DOMAIN blockRecords \/ ~up)

=============================================================================
