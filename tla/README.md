# TLA+ models of the node's storage layer (`src/src/txdb.cpp`)

This directory holds TLA+ models of the chain-state and block-tree databases
of the full node: the mapping of the in-memory chain state onto an ordered
key-value store (leveldb). Every module is translated from
`src/src/txdb.cpp`. `PROJECT.json` maps each definition to the lines it
models. Code outside `src/` (the coins cache in `coins.cpp`, the key structs
in `addressindex.h`, leveldb) is modelled from `spec.md` and is marked
`spec_modelled` in the map.

## 1. Inventory

### Components

| Component | Code | State | Operations |
|---|---|---|---|
| Key codec | tag constants (lines 21-42); key structs in headers | none (pure) | `make_pair(tag, payload)` serialization |
| Coin set store (`CCoinsViewDB`) | 45-200 | the chainstate leveldb: coins `c`, anchors `A`/`Z`, nullifiers `s`/`S`, best block `B`, best anchors `a`/`z` | `GetCoins`, `HaveCoins`, `GetSprout/SaplingAnchorAt`, `GetNullifier`, `GetBestBlock`, `GetBestAnchor`, `BatchWrite` (with `BatchWriteAnchors` and `BatchWriteNullifiers`) |
| Coins cache (`CCoinsViewCache`, not in src/) | — | delta maps of entries with `DIRTY` and `entered` flags; its own best hashes | fetch, modify, push/pop anchor, set nullifier, set best block, `Flush` (which calls `BatchWrite`) |
| Chain metadata store (`CBlockTreeDB`) | 202-223, 271-328, 372-384, 577-648 | the blocks/index leveldb: files `f`, last file `l`, reindex `R`, flags `F`, block index `b`, tx index `t`, address index `d`, address-unspent `u`, spent `p`, timestamp `S`, block-hash timestamp `z` | point reads and writes; `WriteBatchSync`, `EraseBatchSync`, `WriteTxIndex`, `UpdateSpentIndex`, `UpdateAddressUnspentIndex`, `Write/EraseAddressIndex`, `WriteTimestampIndex`, `WriteTimestampBlockIndex`, `WriteFlag`, `WriteReindexing` |
| Index scans | 330-435, 583-620 | iterator position | `ReadAddressUnspentIndex`, `ReadAddressIndex`, `ReadTimestampIndex` (with `blockOnchainActive`, 652-660) |
| Statistics scanner | 225-269 | running hash stream, counters | `GetStats` |
| Block index loader | 662-716 | `mapBlockIndex` (global) | `LoadBlockIndexGuts` |
| Balance snapshot | 439-575 | per-address totals, counters | `Snapshot(top)` |
| Key-value engine (external) | — | ordered byte keys | `Read`, `Exists`, batch `Write`/`Erase`, `WriteBatch`, iterator `Seek`/`Next`/`Prev` |

### How they interact

* The validation layer accumulates changes in the coins cache and calls
  `CCoinsViewDB::BatchWrite` with its maps and best hashes. `BatchWrite`
  turns the dirty entries into one leveldb batch, erases every entry it
  visits, and commits the batch. A failed commit is fatal to the node
  (`AbortNode`). The cache keeps its own best hashes across flushes.
* Block acceptance writes the block-tree database through batched writes.
  The index scans read it through a leveldb iterator. Each iterator sees one
  consistent snapshot.
* The timestamp scan (through `blockOnchainActive`) and `GetStats` read the
  global `mapBlockIndex` and `chainActive`. `LoadBlockIndexGuts` fills that
  map at startup from the `b` entries.
* The two databases are separate leveldb instances. Their tags overlap:
  `S` and `z` are used in both. They are kept apart only by living in
  different databases.

### What is hard

* **Partial failure and crashes.** `BatchWrite` empties the delta maps
  before it commits. A failed commit or a crash therefore loses the cache.
  Correctness depends on the database holding exactly the last committed
  view. This holds because the batch is atomic and includes the best hashes.
* **Data-dependent erase rules.** Pruned coins and unentered anchors or
  nullifiers become erases. An entered empty root is skipped. Null best
  hashes are not written.
* **Ordered-keyspace scans.** Each scan has a seek key, a stop test and a
  decode that can fail. A scan's correctness depends on how keys of other
  addresses, other address types and other indices lie around the
  requested range.
* **Global state read by a store.** `blockOnchainActive` and `GetStats`
  read `mapBlockIndex` and `chainActive` without checks, and in one case
  without `cs_main`.
* **Reconstruction at load.** `LoadBlockIndexGuts` builds predecessor
  links through placeholders and checks each header hash.

### What makes each component correct

* Coin set store: a committed flush makes the database equal to the node's
  view (`CoinsView` refinement). A flush never changes the view. A null
  best hash never overwrites a slot.
* Index scans: a scan returns exactly the requested address and range, in
  key order.
* Statistics: the summary distinguishes different coin sets. It does not
  dereference a missing index entry.
* Loader: the loaded graph's edges are the disk entries' predecessor links.
  A corrupt header fails the load.
* Snapshot: the totals count each non-ignored unspent output once. The
  counters start at zero.

## 2. Plan

Modules in order of importance. Items 1-6 are done, and of item 7 the
corrupted values and the crash composition of the two databases.

1. **`CoinsView`** (abstract) and **`CoinsViewDB`**: the flush protocol.
   `CoinsViewDB` composes the store with the coins cache as its
   environment and refines `CoinsView`.
2. **`AddressIndex`**: the address-index writes, `WriteTxIndex`,
   `UpdateSpentIndex` and both address scans.
3. **`BlockTreeDB`**: the block-index writes, `LoadBlockIndexGuts` across a
   crash, and the timestamp index with its active-only scan.
4. **`CoinStats`**: `GetStats` one loop iteration per step.
5. **`Snapshot`**: the backward scan, run concurrently with block
   connection.
6. **`OrderedKeys`**: the shared bytewise key order and iterator.
7. Still open:
   * the reindex flag and named flags across restarts (`WriteReindexing`,
     `WriteFlag`, `EraseBatchSync`), and the point reads;
   * corrupted values in `AddressIndex` (hazard at line 364): done;
   * a crash composition of the two databases, whose write order lies
     outside `src/`: done in `BlockTreeDB` for the chainstate's best
     block, with a crash possible between the two writes of a flush.

## 3. Modules

### `OrderedKeys`

A key is a sequence of fixed-width fields compared field by field
(`KeyLess`). This equals leveldb's bytewise order for big-endian fields.
`SeekIn`, `NextIn`, `LastIn` and `PrevIn` are the iterator moves over a set
of present keys. Every scanning module uses them.

### `CoinsView` (abstract)

The module has two logical states:

* `durable`: what a restart reads back;
* `view`: what the node sees.

The node may change its view freely. The durable state changes only by
becoming the current view in one step.

### `CoinsViewDB`

* `disk` is the chainstate keyspace: a function from keys `<<tag>>` or
  `<<tag, payload>>` to a value or `Absent`.
* `cacheCoins`, `cacheAnchors[p]` and `cacheNullifiers[p]` are the delta
  maps passed to `BatchWrite`, with the code's `dirty`/`entered` flags.
  `hashBlock` and `hashAnchor[p]` are the best hashes passed in.
* `BatchWrite(committed)` models lines 161-200:
  * it builds the batch groups in code order (coins, anchors and
    nullifiers per pool, then the best slots);
  * a later write to a key wins;
  * it drains every map;
  * it commits all of it or nothing.
* The point reads are operators, and `DurableState` is the state read back
  through them.
* The cache actions and `Restart` are `spec_modelled` (they come from
  `coins.cpp`, which is not under `src/`).

### `AddressIndex`

* `db` maps the present keys of the block-tree database to their values.
  * Address key: `<<'d', type, hash, height, output>>`.
  * Unspent key: `<<'u', type, hash, output>>`.
  * Spent key: `<<'p', ...>>`.
  * Tx key: `<<'t', txid>>`.
  * The `b`, `f`, `l` and `z` keys are present from the start, so scans
    that run off their prefix meet real neighbours.
* The batched writes are:
  * `WriteAddressIndex` and `EraseAddressIndex`;
  * `UpdateAddressUnspentIndex` and `UpdateSpentIndex` (a null value
    erases its key);
  * `WriteTxIndex`.
* `ReadAddressIndex` and `ReadAddressUnspentIndex` are recursive operators
  that follow the code's loop. An iterator reads one snapshot and writes
  nothing. The scan properties are therefore invariants over every request
  in every reachable database.
* Fault model (`MaxFaults > 0`): `CorruptValue` replaces the value of an
  index key by `Corrupt`, and `TruncateKey(k, n)` cuts an index key to
  its first `n` fields: after the hash (the start of the address's range)
  or, for a history key, after the height (inside the range). Either fails
  to parse as the key struct (`Malformed`: fewer fields than `KeyFields`). A scan returns `Done(ok, entries)`. As in the code, a bad
  key ends the loop with `ok = TRUE` (lines 362-364, 428-430) and a bad
  value returns `ok = FALSE` (lines 357-359, 423-425).

### `BlockTreeDB`

* `blockRecords` are the `b` entries, each with its `pprev`.
* `tsIndex` and `blockTs` are the `S` and `z` entries.
* `mapBlockIndex`, `dirty` and `chain` are the node's memory.
* `up` is FALSE between `Crash` and `Restart`.
* `ConnectTip` writes both timestamp entries at once. Each is its own
  `WriteBatch` without sync, which a process crash does not lose. The
  block index entry only becomes dirty.
* Block files: `AcceptBlock(h, f)` stores the block in the current file or
  the next one, adding it to `vinfo[f]` (`vinfoBlockFile`) and `f` to
  `dirtyFiles` (`setDirtyFileInfo`), and sets `nLastBlockFile`. On disk,
  `fileRecords` are the `f` entries and `lastFileRec` is `l` (`NoFile`
  when it is absent).
* A flush makes two separate durable writes, in the order `FlushOrder`
  gives (`main.cpp`): `"index"`, then `"coins"`. Each is one disjunct of
  `FlushPart`.
  * `"index"` is `WriteBatchSync(dirtyFiles, nLastBlockFile, dirty)`. Like
    the code (lines 271-281), it writes the file infos, the last file and
    the block index entries in one synced batch, and both dirty sets are
    cleared.
  * `"coins"` is `pcoinsTip->Flush()`: `CCoinsViewDB::BatchWrite` writes
    the tip as the chainstate's best block (`bestBlock`, through
    `WriteBestBlock`, lines 191-192) in a batch of its own.
  * `FlushStateToDisk` makes the first write and sets `flushPos` to 2.
    `FlushStateToDiskFinish` makes the second. `Crash` can fall between
    them. The caller holds `cs_main` for the whole call, so no other node
    action runs while `flushPos # 0`.
* `Crash` loses all memory. `Restart` reads `ReadLastBlockFile` and
  `ReadBlockFileInfo` for each file, as `LoadBlockIndexDB` does.
* `Restart` rebuilds `mapBlockIndex` as `LoadedIndex`: the code's loop,
  with a placeholder for every predecessor without an entry. As in
  `LoadBlockIndexDB`, the active chain is the chain to `bestBlock`, or empty
  when the index has no node for it.
* `ReadTimestampIndex` is a recursive operator over the `S` range. Under
  `fActiveOnly` it calls `blockOnchainActive`, which yields `NullDeref`
  for a hash with no block index.
* The caller actions come from `main.cpp` and are `spec_modelled`.

### `CoinStats`

* Each node of `Nodes` runs `GetStats` over its own chainstate. The action
  sequence is `Start`, then `Step` per coin record or `Interrupt`, then
  `Finish` at the first key of another tag.
* The hash writer is taken as collision-free: `stats.stream` is the
  sequence of values written to it.

### `Snapshot`

* Two threads run together.
* The validation thread connects blocks. `ConnectIndex` writes the
  block's `u` entries (`indexH` moves up). `SetTip` then moves
  `chainActive` (`tip`).
* The RPC thread runs `Snapshot(top)` as actions:
  * `Begin` calls `NewIterator`. `snap` is the database at that moment and
    `snapH` its height.
  * `ReadStart` reads the start height.
  * One action per loop iteration:
    * `ScanIgnored`: an ignored address;
    * `ScanCount`: a counted address;
    * `ScanSkip`: a decodable key of another tag;
    * `ScanEnd`: an invalid iterator or an undecodable key.
  * `Report` sorts, cuts and totals.
  * `Interrupt` may end the scan at any iteration.
* The uninitialized `ignoredAddresses` starts at a value chosen from
  `Garbage`.
* `KeyBytes` gives the serialized length of the other indices' keys. A key
  shorter than `chType` plus a `CAddressIndexIteratorKey` (22 bytes) ends
  the loop.

## 4. Runs

| Run | Config | Expect | Shows |
|---|---|---|---|
| `coins_flush` | `MC_CoinsViewDB.cfg` | pass | `TypeOK`, `FlushKeepsView` (an action property) and `Refinement` (`CoinsView!Spec`). About 337k distinct states. |
| `address_scans` | `MC_AddressIndex.cfg` | pass | `ScanMatchesRequest`: in every reachable database, including those with up to two damaged values or index keys cut at the start of or inside a range, and those holding tx and spent keys, each scan returns entries in key order, of the requested hash, within the end height, never a damaged value, and every requested entry unless damage of that address sorts before it. A scan that returns `true` short of the request was stopped by a key that failed to parse and sorts before each missing entry: it fails open (the finding at line 364). About 23k states. |
| `address_scan_other_type` | `MC_AddressIndex_type.cfg` | violation | `ScanReturnsOnlyAddress`: the stop test at lines 349 and 410 compares `hashBytes` only. |
| `address_scan_start_ignored` | `MC_AddressIndex_start.cfg` | violation | `ScanRespectsStart`: line 393 ignores a start height without an end height. |
| `block_tree` | `MC_BlockTreeDB.cfg` | pass | `StatsBestBlockIndexed` (the chainstate's best block always has a loaded index node, so `GetStats` at line 264 never dereferences `end()`, even after a crash between the two writes of a flush; it fails if the coins are written first), `TimestampScanComplete`, `BlockIndexDurable` (every loaded block with a header was flushed or still dirty), `LoadedGraphClosed` (no placeholders after a reload), `IndexedBlocksAccounted` (while up, every block index entry on disk names a file whose info holds the block and that is not past `nLastBlockFile`) and `DirtyEventuallyWritten` (liveness). About 6.5k states. |
| `block_tree_active_scan` | `MC_BlockTreeDB_active.cfg` | violation | `TimestampActiveScanSafe`: after a connect, a crash before the flush and a restart, an active-only scan meets a timestamp key whose hash has no block index and dereferences null. |
| `coin_stats` | `MC_CoinStats.cfg` | pass | `StatsMatchCoinSet`: the counts, the total and the best block match the chainstate, whatever other tags surround the `c` range. |
| `coin_stats_divergence` | `MC_CoinStats_divergence.cfg` | violation | `StatsHashDetectsDivergence`: two coin sets that differ only in which txid holds an output hash alike. |
| `snapshot` | `MC_Snapshot.cfg` | pass | `SnapshotTotals`: the listing holds the top balances of the database the iterator read, sorted, with the right utxo count. The scan passes `z`, `t` and `p` and stops at the 1-byte `l` key only after the `u` range. |
| `snapshot_ignored_count` | `MC_Snapshot_ignored.cfg` | violation | `IgnoredCountReported`: the counter starts uninitialized. |
| `snapshot_top_count` | `MC_Snapshot_top.cfg` | violation | `AddressCountMatchesList`: with `top` above the number of addresses, `total_addresses` and the average's divisor are `top`. |
| `snapshot_heights` | `MC_Snapshot_heights.cfg` | violation | `SnapshotHeightsBracket`: a block connected between `NewIterator` and the height read puts `start_height` above the data's height. |

Every passing property has a mutant in `PROJECT.json`: a plausible bug in a
mapped definition that makes TLC report the property violated.

### Bounds and why they suffice

* `MC_CoinsViewDB`:
  * one transaction with a live value and `Pruned`;
  * two pools sharing a non-empty root;
  * one nullifier and one block;
  * `MaxEntries = 2`, the cache size that forces a flush.
* `MC_AddressIndex`:
  * `address_scans`: two types sharing one hash, so that each address's
    range has the other's beside it; two heights, so that a damaged entry
    can lie inside a history range; `MaxFaults = 2`, so that a truncated
    key and a damaged value can coexist, and a key cut after its height
    sorts between the two heights' entries. Two hashes or two outputs
    with the faults take minutes;
  * the violation runs: two types and two hashes, the smallest case where
    another type or hash follows a range, without faults;
  * bounds in `{0, 1, 2}`;
  * batches of up to two keys;
  * one key of every other index.
* `MC_BlockTreeDB`:
  * four blocks forming a fork (`2` and `3` both follow `1`, and `4`
    follows `2`), so that a disconnect leaves stale timestamp entries;
  * `R`, `f` and `l` keys around the `S` range;
  * `block_tree` uses two block files, so that a block can start a new
    file and a crash can come between that and the flush. It uses one
    timestamp shared by all four blocks, which still orders entries by
    hash within a timestamp and puts bounds on both sides of it. Two
    files with two timestamps take nearly four minutes;
  * `block_tree_active_scan` uses two timestamps and one block file.
* `MC_CoinStats`:
  * three txids, two values and up to three outputs per record in the
    pass run (about 385k states), so that spent outputs sit before and
    between unspent ones and the scan crosses several records; the
    divergence run keeps two txids and two outputs, which already
    shows the collision;
  * other tags on both sides of `c`;
  * one node for the pass run, two for the divergence run.
* `MC_Snapshot`:
  * a chain of two blocks over four addresses, one of them ignored;
  * two addresses with equal balances at height 1, so that the sort's
    tie-break is exercised;
  * `top` in `{0, 1, 3}`, where 3 exceeds the number of addresses;
  * the other indices' keys on both sides of `u`, with their real lengths.

### Fairness

* Only `block_tree` checks liveness, under weak fairness of
  `FlushStateToDisk` and `FlushStateToDiskFinish`. The node flushes the
  block index periodically (`FlushStateToDisk` in `main.cpp`), so a flush
  that stays possible eventually happens. A call that has made its first
  write goes on to its second unless the node crashes. No other action
  is assumed fair.
* `MC_CoinStats` and `MC_Snapshot` disable deadlock checking, because an
  RPC call that has returned is a final state. The other runs check
  deadlock.

## 5. Findings

* Both address scans are type-blind (lines 349, 410).
* `ReadAddressIndex` drops a start height given without an end height
  (line 393).
* `blockOnchainActive` (line 653) dereferences a null `CBlockIndex*` for a
  timestamp key whose block was not flushed before a crash. The timestamp
  entries are written at once (a `WriteBatch` without sync, which survives
  a process crash), while the block index is flushed later.
* `GetStats` never hashes the txid (line 247), so its summary hash cannot
  tell apart coin sets that differ only in it.
* The address scans return `true` with partial results when a key fails
  to parse (line 364), and `false` when a value does (line 359). Spec
  section 7 asks for explicit errors on decode failure.
* `Snapshot`:
  * it reports an uninitialized counter (line 442);
  * it reports `top` as the address count (line 553);
  * it reads the chain height without `cs_main` (line 469).

## 6. Not modelled (yet)

* `WriteReindexing`/`ReadReindexing`, `WriteFlag`/`ReadFlag`,
  `EraseBatchSync`, `WriteTxIndex`/`ReadTxIndex`, `UpdateSpentIndex`/
  `ReadSpentIndex` as point operations, and `ReadTimestampBlockIndex`.
  Each is a single `Read`, `Write`, `Erase` or `Exists`. Their callers and
  the protocols around them are in `main.cpp` and `init.cpp`, outside
  `src/`. The reindex flag is an unsynced write: a process crash keeps it,
  and a power loss after a wipe loses reindexing work but no indexed data.
  (`WriteTxIndex` and `UpdateSpentIndex` do appear in `AddressIndex`, as
  writers of neighbouring keys.)
* No property checks the empty-root filter of `BatchWriteAnchors` (line
  150). Anchor trees are modelled as present or absent, and
  `GetSproutAnchorAt`/`GetSaplingAnchorAt` answer the empty root before
  they read the database (lines 53-73). A stored empty tree would never be
  read, so nothing observable tells the filter's presence apart; the views
  that `Refinement` and `FlushKeepsView` compare exclude the empty root.
* `nSerializedSize` in `GetStats`.
* `GetStats` with an empty chainstate (line 264 with `uint256()`). It
  arises only before `InitBlockIndex` connects the genesis block, and in a
  `-reindex` between the wipe and the import of the genesis block. Both
  protocols are in `init.cpp` and `main.cpp`.
* `GetStats` racing a flush: the coins come from the iterator's snapshot
  (line 229), but the best block is read from the live database (line
  233). `CoinStats` keeps a node's chainstate fixed during the scan, since
  the caller and its locking are outside `src/`.
* Formatting and logging (`LogPrint`, `Snapshot`'s JSON and `%.8f`
  amounts) are left out for good.
* The leveldb engine is external: the model provides its interface (atomic
  batches, ordered iteration) and nothing of its internals.
* The tags `S` and `z` occur in both databases. Since the databases are
  separate instances, the overlap cannot confuse keys.
