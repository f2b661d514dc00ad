----------------------------- MODULE CoinsViewDB -----------------------------
(***************************************************************************)
(* The coin-set store of src/src/txdb.cpp (class CCoinsViewDB) together    *)
(* with the caller that owns the in-memory delta maps (CCoinsViewCache,    *)
(* not part of src/: its actions are modelled from the spec's cache-entry  *)
(* model, section 3).                                                      *)
(*                                                                         *)
(* The database is one flat keyspace: a key is <<tag>> for a scalar slot   *)
(* or <<tag, payload>>, and disk maps every key to its value or Absent.    *)
(* BatchWrite builds one batch from the coin map, the anchor map and the   *)
(* nullifier map of each shielded pool and the three best slots, drains   *)
(* every map it visits, and commits the batch atomically or fails.  A      *)
(* failed commit is fatal for the node (it aborts); a crash or restart     *)
(* drops the in-memory cache and keeps the database.                       *)
(***************************************************************************)
EXTENDS Naturals, FiniteSets, Sequences, SequencesExt

CONSTANTS
    Txids,          \* transaction ids (model values)
    CoinValues,     \* serialized CCoins that still have an unspent output
    Pruned,         \* a CCoins all of whose outputs are spent (IsPruned())
    Pools,          \* the shielded pools (ShieldedType)
    PoolOrder,      \* the pools in the order BatchWrite visits them
    Roots,          \* commitment-tree roots; the stored tree is named by its root
    EmptyRoot,      \* [Pools -> Roots]: SproutMerkleTree/SaplingMerkleTree::empty_root()
    RootsOf,        \* [Pools -> SUBSET Roots]: the roots a pool's trees can have
    Nullifiers,     \* nullifier hashes
    Blocks,         \* block hashes
    NullHash,       \* uint256() : IsNull()
    Absent,         \* no value stored under a key
    NoEntry,        \* no entry for a key in an in-memory map
    MaxEntries      \* bound: entries the cache holds before the node must flush

\* The one-byte type tags of the chainstate database (txdb.cpp lines 23-39).
CONSTANTS DB_COINS, DB_BEST_BLOCK, AnchorTag, NullifierTag, BestAnchorTag

ASSUME /\ Pruned \notin CoinValues
       /\ EmptyRoot \in [Pools -> Roots]
       /\ RootsOf \in [Pools -> SUBSET Roots] /\ \A p \in Pools : EmptyRoot[p] \in RootsOf[p]
       /\ ToSet(PoolOrder) = Pools /\ Len(PoolOrder) = Cardinality(Pools)
       /\ NullHash \notin Blocks \cup Roots
       /\ MaxEntries \in Nat

VARIABLES
    disk,             \* the leveldb keyspace of the chainstate database
    cacheCoins,       \* CCoinsMap: txid -> [coins, dirty] or NoEntry
    cacheAnchors,     \* per pool CAnchorsMap: root -> [entered, dirty] or NoEntry
    cacheNullifiers,  \* per pool CNullifiersMap: nf -> [entered, dirty] or NoEntry
    hashBlock,        \* the caller's best block passed to BatchWrite
    hashAnchor,       \* per pool, the caller's best anchor passed to BatchWrite
    status            \* "running", or "aborted" after a failed flush

vars == <<disk, cacheCoins, cacheAnchors, cacheNullifiers, hashBlock, hashAnchor, status>>

-----------------------------------------------------------------------------
(* Keys and values of the database.                                        *)

CoinKey(t) == <<DB_COINS, t>>
AnchorKey(p, rt) == <<AnchorTag[p], rt>>
NullifierKey(p, nf) == <<NullifierTag[p], nf>>
BestBlockKey == <<DB_BEST_BLOCK>>
BestAnchorKey(p) == <<BestAnchorTag[p]>>

Keys ==
    {CoinKey(t) : t \in Txids}
    \cup {AnchorKey(p, rt) : p \in Pools, rt \in Roots}
    \cup {NullifierKey(p, nf) : p \in Pools, nf \in Nullifiers}
    \cup {BestBlockKey} \cup {BestAnchorKey(p) : p \in Pools}

DiskValues == CoinValues \cup {Pruned} \cup Roots \cup Blocks \cup {TRUE, NullHash}

CoinEntries == [coins : CoinValues \cup {Pruned}, dirty : BOOLEAN]
FlagEntries == [entered : BOOLEAN, dirty : BOOLEAN]

-----------------------------------------------------------------------------
(* Point reads of CCoinsViewDB.                                            *)

\* GetCoins / HaveCoins: db.Read / db.Exists of (DB_COINS, txid).
GetCoins(t) == disk[CoinKey(t)]
HaveCoins(t) == disk[CoinKey(t)] # Absent

\* GetSproutAnchorAt / GetSaplingAnchorAt: the empty root is synthesized.
GetAnchorAt(p, rt) == rt = EmptyRoot[p] \/ disk[AnchorKey(p, rt)] # Absent

\* GetNullifier: presence of (tag of the pool, nf).
GetNullifier(p, nf) == disk[NullifierKey(p, nf)] # Absent

\* GetBestBlock: uint256() when the slot is unset.
GetBestBlock == IF disk[BestBlockKey] = Absent THEN NullHash ELSE disk[BestBlockKey]

\* GetBestAnchor: the pool's empty root when the slot is unset.
GetBestAnchor(p) ==
    IF disk[BestAnchorKey(p)] = Absent THEN EmptyRoot[p] ELSE disk[BestAnchorKey(p)]

-----------------------------------------------------------------------------
(* The batch of BatchWrite.  Each group is a set of <<key, value>> pairs,  *)
(* value Absent meaning batch.Erase; groups are applied in code order.     *)

DirtyTxids == {t \in Txids : cacheCoins[t] # NoEntry /\ cacheCoins[t].dirty}
DirtyRoots(p) == {rt \in Roots : cacheAnchors[p][rt] # NoEntry /\ cacheAnchors[p][rt].dirty}
DirtyNullifiers(p) ==
    {nf \in Nullifiers : cacheNullifiers[p][nf] # NoEntry /\ cacheNullifiers[p][nf].dirty}

\* The coin loop of BatchWrite: erase a pruned record, write any other.
CoinOps ==
    {<<CoinKey(t), IF cacheCoins[t].coins = Pruned THEN Absent ELSE cacheCoins[t].coins>> :
        t \in DirtyTxids}

\* BatchWriteAnchors: erase an unentered root; write an entered one unless
\* it is the pool's empty root.
BatchWriteAnchors(p) ==
    {<<AnchorKey(p, rt), Absent>> : rt \in {r \in DirtyRoots(p) : ~cacheAnchors[p][r].entered}}
    \cup {<<AnchorKey(p, rt), rt>> :
            rt \in {r \in DirtyRoots(p) : cacheAnchors[p][r].entered /\ r # EmptyRoot[p]}}

\* Mutant of BatchWriteNullifiers: an unentered nullifier is written as false
\* instead of erased.
BatchWriteNullifiersNoErase(p) ==
    {<<NullifierKey(p, nf), cacheNullifiers[p][nf].entered>> : nf \in DirtyNullifiers(p)}

\* BatchWriteNullifiers: erase an unentered nullifier, write true otherwise.
BatchWriteNullifiers(p) ==
    {<<NullifierKey(p, nf), IF cacheNullifiers[p][nf].entered THEN TRUE ELSE Absent>> :
        nf \in DirtyNullifiers(p)}

\* Mutant of BestSlotOps: the best block is written even when it is null.
BestSlotOpsAlways ==
    {<<BestBlockKey, hashBlock>>}
    \cup {<<BestAnchorKey(p), hashAnchor[p]>> : p \in {q \in Pools : hashAnchor[q] # NullHash}}

\* Mutant of BestSlotOps: the write of DB_BEST_BLOCK is left out.
BestSlotOpsNoBlock ==
    {<<BestAnchorKey(p), hashAnchor[p]>> : p \in {q \in Pools : hashAnchor[q] # NullHash}}

\* The best slots are written only when the caller supplies a non-null hash.
BestSlotOps ==
    (IF hashBlock # NullHash THEN {<<BestBlockKey, hashBlock>>} ELSE {})
    \cup {<<BestAnchorKey(p), hashAnchor[p]>> : p \in {q \in Pools : hashAnchor[q] # NullHash}}

BatchGroups ==
    <<CoinOps>>
    \o [i \in 1..Len(PoolOrder) |-> BatchWriteAnchors(PoolOrder[i])]
    \o [i \in 1..Len(PoolOrder) |-> BatchWriteNullifiers(PoolOrder[i])]
    \o <<BestSlotOps>>

\* One group of the batch applied to the keyspace (a later op on a key wins).
ApplyGroup(d, ops) ==
    [k \in Keys |-> IF \E op \in ops : op[1] = k
                       THEN (CHOOSE op \in ops : op[1] = k)[2]
                       ELSE d[k]]

\* db.WriteBatch: the whole batch, or nothing.
CommittedDisk == FoldLeft(ApplyGroup, disk, BatchGroups)

EmptyCoins == [t \in Txids |-> NoEntry]
EmptyAnchors == [p \in Pools |-> [rt \in Roots |-> NoEntry]]
EmptyNullifiers == [p \in Pools |-> [nf \in Nullifiers |-> NoEntry]]

-----------------------------------------------------------------------------
(* The store's flush.                                                      *)

\* CCoinsViewDB::BatchWrite.  Every map is drained whether or not an entry
\* was dirty and whether or not the commit succeeds; committed is the outcome
\* of db.WriteBatch.  A failed commit aborts the node (the caller's
\* AbortNode), which keeps its best hashes only until it restarts.
BatchWrite(committed) ==
    /\ status = "running"
    /\ disk' = IF committed THEN CommittedDisk ELSE disk
    /\ cacheCoins' = EmptyCoins
    /\ cacheAnchors' = EmptyAnchors
    /\ cacheNullifiers' = EmptyNullifiers
    /\ status' = IF committed THEN "running" ELSE "aborted"
    /\ UNCHANGED <<hashBlock, hashAnchor>>

-----------------------------------------------------------------------------
(* The caller: CCoinsViewCache (coins.cpp, outside src/).                  *)

\* The cache is flushed when it grows too large (the node's memory limit);
\* the bound stands for that limit.
EntryCount ==
    Cardinality({t \in Txids : cacheCoins[t] # NoEntry})
    + Cardinality({<<p, rt>> \in Pools \X Roots : cacheAnchors[p][rt] # NoEntry})
    + Cardinality({<<p, nf>> \in Pools \X Nullifiers : cacheNullifiers[p][nf] # NoEntry})

\* An entry for the key may be created: it exists already, or there is room.
Room(entry) == entry # NoEntry \/ EntryCount < MaxEntries

CallerUnchanged == UNCHANGED <<disk, status>>

\* FetchCoins: a record read from the database is cached clean.
FetchCoins(t) ==
    /\ status = "running"
    /\ cacheCoins[t] = NoEntry
    /\ EntryCount < MaxEntries
    /\ HaveCoins(t)
    /\ cacheCoins' = [cacheCoins EXCEPT ![t] = [coins |-> GetCoins(t), dirty |-> FALSE]]
    /\ CallerUnchanged /\ UNCHANGED <<cacheAnchors, cacheNullifiers, hashBlock, hashAnchor>>

\* ModifyCoins: a record is replaced (or pruned) and marked dirty.
ModifyCoins(t, c) ==
    /\ status = "running"
    /\ Room(cacheCoins[t])
    /\ cacheCoins' = [cacheCoins EXCEPT ![t] = [coins |-> c, dirty |-> TRUE]]
    /\ CallerUnchanged /\ UNCHANGED <<cacheAnchors, cacheNullifiers, hashBlock, hashAnchor>>

\* GetAnchorAt on the cache: a tree found below is cached clean and entered.
FetchAnchor(p, rt) ==
    /\ status = "running"
    /\ cacheAnchors[p][rt] = NoEntry
    /\ EntryCount < MaxEntries
    /\ GetAnchorAt(p, rt)
    /\ cacheAnchors' = [cacheAnchors EXCEPT ![p][rt] = [entered |-> TRUE, dirty |-> FALSE]]
    /\ CallerUnchanged /\ UNCHANGED <<cacheCoins, cacheNullifiers, hashBlock, hashAnchor>>

\* The pool's best anchor as the cache sees it (GetBestAnchor on the cache).
CachedBestAnchor(p) == IF hashAnchor[p] = NullHash THEN GetBestAnchor(p) ELSE hashAnchor[p]

\* PushAnchor: a new tree's root is entered, marked dirty and becomes the
\* best anchor, unless it already is.
PushAnchor(p, newrt) ==
    /\ status = "running"
    /\ Room(cacheAnchors[p][newrt])
    /\ CachedBestAnchor(p) # newrt
    /\ cacheAnchors' = [cacheAnchors EXCEPT ![p][newrt] = [entered |-> TRUE, dirty |-> TRUE]]
    /\ hashAnchor' = [hashAnchor EXCEPT ![p] = newrt]
    /\ CallerUnchanged /\ UNCHANGED <<cacheCoins, cacheNullifiers, hashBlock>>

\* PopAnchor: on disconnect the current best root is unentered and marked
\* dirty, and newrt becomes the best anchor, unless it already is.
PopAnchor(p, newrt) ==
    /\ status = "running"
    /\ Room(cacheAnchors[p][CachedBestAnchor(p)])
    /\ CachedBestAnchor(p) # newrt
    /\ cacheAnchors' = [cacheAnchors EXCEPT ![p][CachedBestAnchor(p)] =
                           [entered |-> FALSE, dirty |-> TRUE]]
    /\ hashAnchor' = [hashAnchor EXCEPT ![p] = newrt]
    /\ CallerUnchanged /\ UNCHANGED <<cacheCoins, cacheNullifiers, hashBlock>>

\* GetNullifier on the cache: the answer from below is cached clean.
FetchNullifier(p, nf) ==
    /\ status = "running"
    /\ cacheNullifiers[p][nf] = NoEntry
    /\ EntryCount < MaxEntries
    /\ cacheNullifiers' =
         [cacheNullifiers EXCEPT ![p][nf] = [entered |-> GetNullifier(p, nf), dirty |-> FALSE]]
    /\ CallerUnchanged /\ UNCHANGED <<cacheCoins, cacheAnchors, hashBlock, hashAnchor>>

\* SetNullifiers: a nullifier is marked spent (or unspent on disconnect).
SetNullifier(p, nf, entered) ==
    /\ status = "running"
    /\ Room(cacheNullifiers[p][nf])
    /\ cacheNullifiers' =
         [cacheNullifiers EXCEPT ![p][nf] = [entered |-> entered, dirty |-> TRUE]]
    /\ CallerUnchanged /\ UNCHANGED <<cacheCoins, cacheAnchors, hashBlock, hashAnchor>>

\* SetBestBlock: the cache's tip moves.
SetBestBlock(b) ==
    /\ status = "running"
    /\ hashBlock' = b
    /\ CallerUnchanged /\ UNCHANGED <<cacheCoins, cacheAnchors, cacheNullifiers, hashAnchor>>

\* The process stops (crash, or exit after an abort) and starts again: the
\* in-memory cache, its best hashes included, is lost; the database stays.
Restart ==
    /\ cacheCoins' = EmptyCoins
    /\ cacheAnchors' = EmptyAnchors
    /\ cacheNullifiers' = EmptyNullifiers
    /\ hashBlock' = NullHash
    /\ hashAnchor' = [p \in Pools |-> NullHash]
    /\ status' = "running"
    /\ UNCHANGED disk

-----------------------------------------------------------------------------

Init ==
    /\ disk = [k \in Keys |-> Absent]
    /\ cacheCoins = EmptyCoins
    /\ cacheAnchors = EmptyAnchors
    /\ cacheNullifiers = EmptyNullifiers
    /\ hashBlock = NullHash
    /\ hashAnchor = [p \in Pools |-> NullHash]
    /\ status = "running"

Flush == \E committed \in BOOLEAN : BatchWrite(committed)

Next ==
    \/ Flush
    \/ \E t \in Txids : FetchCoins(t) \/ \E c \in CoinValues \cup {Pruned} : ModifyCoins(t, c)
    \/ \E p \in Pools : \E rt \in RootsOf[p] :
         \/ FetchAnchor(p, rt)
         \/ PushAnchor(p, rt)
         \/ PopAnchor(p, rt)
    \/ \E p \in Pools, nf \in Nullifiers :
         FetchNullifier(p, nf) \/ \E e \in BOOLEAN : SetNullifier(p, nf, e)
    \/ \E b \in Blocks : SetBestBlock(b)
    \/ Restart

Spec == Init /\ [][Next]_vars

-----------------------------------------------------------------------------
(* The logical coin-set state, read through the store's point reads.       *)

\* What a restart would read back from the database.
DurableState ==
    [coins      |-> [t \in Txids |-> GetCoins(t)],
     anchors    |-> [p \in Pools |-> {rt \in Roots \ {EmptyRoot[p]} : GetAnchorAt(p, rt)}],
     nullifiers |-> [p \in Pools |-> {nf \in Nullifiers : GetNullifier(p, nf)}],
     bestBlock  |-> GetBestBlock,
     bestAnchor |-> [p \in Pools |-> GetBestAnchor(p)]]

\* What the running node sees: a cache entry, clean or dirty, hides the
\* database; a null best hash in the cache defers to the database.
CachedCoins(t) ==
    IF cacheCoins[t] = NoEntry THEN GetCoins(t)
    ELSE IF cacheCoins[t].coins = Pruned THEN Absent ELSE cacheCoins[t].coins

CachedAnchor(p, rt) ==
    IF cacheAnchors[p][rt] = NoEntry THEN GetAnchorAt(p, rt) ELSE cacheAnchors[p][rt].entered

CachedNullifier(p, nf) ==
    IF cacheNullifiers[p][nf] = NoEntry THEN GetNullifier(p, nf)
    ELSE cacheNullifiers[p][nf].entered

CachedState ==
    [coins      |-> [t \in Txids |-> CachedCoins(t)],
     anchors    |-> [p \in Pools |-> {rt \in Roots \ {EmptyRoot[p]} : CachedAnchor(p, rt)}],
     nullifiers |-> [p \in Pools |-> {nf \in Nullifiers : CachedNullifier(p, nf)}],
     bestBlock  |-> IF hashBlock = NullHash THEN GetBestBlock ELSE hashBlock,
     bestAnchor |-> [p \in Pools |-> IF hashAnchor[p] = NullHash THEN GetBestAnchor(p)
                                                                 ELSE hashAnchor[p]]]

\* An aborted node has no view of its own: the next start reads the database.
ViewState == IF status = "aborted" THEN DurableState ELSE CachedState

-----------------------------------------------------------------------------
(* Properties.                                                             *)

TypeOK ==
    /\ disk \in [Keys -> DiskValues \cup {Absent}]
    /\ cacheCoins \in [Txids -> CoinEntries \cup {NoEntry}]
    /\ cacheAnchors \in [Pools -> [Roots -> FlagEntries \cup {NoEntry}]]
    /\ cacheNullifiers \in [Pools -> [Nullifiers -> FlagEntries \cup {NoEntry}]]
    /\ hashBlock \in Blocks \cup {NullHash}
    /\ hashAnchor \in [Pools -> Roots \cup {NullHash}]
    /\ status \in {"running", "aborted"}

\* BatchWrite never changes what the node sees: after a committed flush the
\* database read through GetCoins, GetAnchorAt, GetNullifier, GetBestBlock
\* and GetBestAnchor is exactly the view the dirty and clean cache entries and
\* the caller's best hashes gave before it (I2, I3 and the coin pruning rule
\* together); only a failed commit, which aborts the node, may lose the view.
FlushKeepsView ==
    [][Flush => (status' = "aborted" \/ ViewState' = ViewState)]_vars

\* The store implements CoinsView: the database only ever changes by taking,
\* in one step, exactly the node's current view.
Abstract == INSTANCE CoinsView WITH durable <- DurableState, view <- ViewState
Refinement == Abstract!Spec
=============================================================================
