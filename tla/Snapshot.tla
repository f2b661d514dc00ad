------------------------------- MODULE Snapshot --------------------------------
(***************************************************************************)
(* CBlockTreeDB::Snapshot(top) (src/src/txdb.cpp): a backward scan of the  *)
(* whole block-tree database that sums the address-unspent ('u') entries   *)
(* per address, skips an ignore list, sorts the balances and reports the   *)
(* top of them with totals and the chain heights.  The RPC thread runs it  *)
(* without cs_main while the validation thread connects blocks: each       *)
(* connection first writes the block's 'u' entries (ConnectBlock) and then *)
(* moves the tip (chainActive.SetTip).  The iterator reads the database as *)
(* it was when NewIterator() was called.                                  *)
(*                                                                         *)
(* An address is getAddressFromIndex(type, hash), taken as the pair; it is *)
(* injective for the two address types the index holds.  The order of     *)
(* their base58 strings, which breaks ties in the sort, is AddrRank.       *)
(***************************************************************************)
EXTENDS Naturals, Sequences, FiniteSets, SequencesExt, FiniteSetsExt, OrderedKeys

CONSTANTS
    UnspentAt,      \* [0..MaxHeight -> [u-keys -> nValue]]: the 'u' entries with the chain at each height
    MaxHeight,      \* bound: blocks the validation thread connects
    OtherKeys,      \* keys of the other indices present in the database
    KeyBytes,       \* [OtherKeys -> Nat]: serialized length of each
    Ignored,        \* the addresses of ignoredMap
    AddrRank,       \* [addresses -> Nat]: the order of the address strings
    Tops,           \* the values of top a caller passes (0: all addresses)
    Garbage,        \* the values an uninitialized int64_t can hold
    COIN

DB_ADDRESSUNSPENTINDEX == 117   \* 'u'
\* chType followed by a CAddressIndexIteratorKey: 1 + 1 + 20 bytes.
IteratorKeyBytes == 22
\* 'u' + type + hashBytes + txhash + index.
UnspentKeyBytes == 58

ASSUME /\ MaxHeight \in Nat /\ COIN \in Nat \ {0} /\ Tops \subseteq Nat
       /\ \A h \in 0..MaxHeight : \A k \in DOMAIN UnspentAt[h] :
            k[1] = DB_ADDRESSUNSPENTINDEX /\ UnspentAt[h][k] \in Nat \ {0}
       /\ \A k \in OtherKeys : k[1] # DB_ADDRESSUNSPENTINDEX /\ KeyBytes[k] \in Nat

VARIABLES
    tip,        \* chainActive.Height()
    indexH,     \* the height whose 'u' entries are on disk
    snap,       \* the iterator's view: key -> value
    snapH,      \* the height of the entries the iterator sees
    cursor,     \* the key under iter (NoKey when not Valid())
    top,        \* the argument
    addressAmounts,
    totalAddresses,
    utxos,
    ignoredAddresses,
    startingHeight,
    result,     \* the returned object
    pc          \* "idle", "height", "scan", "report", "done" or "interrupted"

vars == <<tip, indexH, snap, snapH, cursor, top, addressAmounts, totalAddresses,
          utxos, ignoredAddresses, startingHeight, result, pc>>

\* The database at index height h: the 'u' entries and the other indices.
DbAt(h) == UnspentAt[h] @@ [k \in OtherKeys |-> "other"]

Address(k) == <<k[2], k[3]>>

\* ssKey >> chType >> indexKey throws when the key is shorter than both.
Decodes(k) ==
    IF k[1] = DB_ADDRESSUNSPENTINDEX THEN UnspentKeyBytes >= IteratorKeyBytes
    ELSE KeyBytes[k] >= IteratorKeyBytes

-----------------------------------------------------------------------------
(* The validation thread.                                                  *)

\* ConnectBlock writes the block's address-unspent entries.
ConnectIndex ==
    /\ indexH = tip /\ tip < MaxHeight
    /\ indexH' = tip + 1
    /\ UNCHANGED <<tip, snap, snapH, cursor, top, addressAmounts, totalAddresses,
                   utxos, ignoredAddresses, startingHeight, result, pc>>

\* Then the tip moves.
SetTip ==
    /\ indexH = tip + 1
    /\ tip' = tip + 1
    /\ UNCHANGED <<indexH, snap, snapH, cursor, top, addressAmounts, totalAddresses,
                   utxos, ignoredAddresses, startingHeight, result, pc>>

-----------------------------------------------------------------------------
(* Snapshot(top) on the RPC thread.                                        *)

\* The declarations and NewIterator(); ignoredAddresses is never initialized.
Begin(t) ==
    /\ pc = "idle"
    /\ snap' = DbAt(indexH) /\ snapH' = indexH
    /\ top' = t
    /\ addressAmounts' = <<>> /\ totalAddresses' = 0 /\ utxos' = 0
    /\ ignoredAddresses' \in Garbage
    /\ pc' = "height"
    /\ UNCHANGED <<tip, indexH, cursor, startingHeight, result>>

\* startingHeight = chainActive.Height(); iter->SeekToLast().
ReadStart ==
    /\ pc = "height"
    /\ startingHeight' = tip
    /\ cursor' = LastIn(DOMAIN snap)
    /\ pc' = "scan"
    /\ UNCHANGED <<tip, indexH, snap, snapH, top, addressAmounts, totalAddresses,
                   utxos, ignoredAddresses, result>>

\* boost::this_thread::interruption_point() at the head of the loop.
Interrupt ==
    /\ pc = "scan"
    /\ pc' = "interrupted"
    /\ UNCHANGED <<tip, indexH, snap, snapH, cursor, top, addressAmounts,
                   totalAddresses, utxos, ignoredAddresses, startingHeight, result>>

IsUnspent(k) == k # NoKey /\ Decodes(k) /\ k[1] = DB_ADDRESSUNSPENTINDEX

\* A 'u' entry of an ignored address: counted, then continue (iter->Prev()).
ScanIgnored ==
    /\ pc = "scan" /\ IsUnspent(cursor) /\ Address(cursor) \in Ignored
    /\ ignoredAddresses' = ignoredAddresses + 1
    /\ cursor' = PrevIn(DOMAIN snap, cursor)
    /\ UNCHANGED <<tip, indexH, snap, snapH, top, addressAmounts, totalAddresses,
                   utxos, startingHeight, result, pc>>

\* Mutant of ScanCount: the ignoredMap lookup is missing.
ScanCountAnyAddress ==
    /\ pc = "scan" /\ IsUnspent(cursor)
    /\ LET a == Address(cursor) IN
       IF a \in DOMAIN addressAmounts
       THEN /\ addressAmounts' = [addressAmounts EXCEPT ![a] = @ + snap[cursor]]
            /\ UNCHANGED totalAddresses
       ELSE /\ addressAmounts' = (a :> snap[cursor]) @@ addressAmounts
            /\ totalAddresses' = totalAddresses + 1
    /\ utxos' = utxos + 1
    /\ cursor' = PrevIn(DOMAIN snap, cursor)
    /\ UNCHANGED <<tip, indexH, snap, snapH, top, ignoredAddresses, startingHeight, result, pc>>

\* A 'u' entry of another address: added to its balance, a new address counted.
ScanCount ==
    /\ pc = "scan" /\ IsUnspent(cursor) /\ Address(cursor) \notin Ignored
    /\ LET a == Address(cursor) IN
       IF a \in DOMAIN addressAmounts
       THEN /\ addressAmounts' = [addressAmounts EXCEPT ![a] = @ + snap[cursor]]
            /\ UNCHANGED totalAddresses
       ELSE /\ addressAmounts' = (a :> snap[cursor]) @@ addressAmounts
            /\ totalAddresses' = totalAddresses + 1
    /\ utxos' = utxos + 1
    /\ cursor' = PrevIn(DOMAIN snap, cursor)
    /\ UNCHANGED <<tip, indexH, snap, snapH, top, ignoredAddresses, startingHeight, result, pc>>

\* Mutant of ScanSkip: a key of another tag ends the loop.
ScanSkipBreaks ==
    /\ pc = "scan" /\ cursor # NoKey /\ Decodes(cursor) /\ ~IsUnspent(cursor)
    /\ pc' = "report"
    /\ UNCHANGED <<tip, indexH, snap, snapH, cursor, top, addressAmounts,
                   totalAddresses, utxos, ignoredAddresses, startingHeight, result>>

\* A decodable key of another tag is passed over.
ScanSkip ==
    /\ pc = "scan" /\ cursor # NoKey /\ Decodes(cursor) /\ ~IsUnspent(cursor)
    /\ cursor' = PrevIn(DOMAIN snap, cursor)
    /\ UNCHANGED <<tip, indexH, snap, snapH, top, addressAmounts, totalAddresses,
                   utxos, ignoredAddresses, startingHeight, result, pc>>

\* The loop ends past the first key, or at a key too short to decode.
ScanEnd ==
    /\ pc = "scan" /\ (cursor = NoKey \/ ~Decodes(cursor))
    /\ pc' = "report"
    /\ UNCHANGED <<tip, indexH, snap, snapH, cursor, top, addressAmounts,
                   totalAddresses, utxos, ignoredAddresses, startingHeight, result>>

\* std::sort(vaddr.rbegin(), vaddr.rend()): descending by amount, then by
\* address string.
PairAfter(p, q) == p[1] > q[1] \/ (p[1] = q[1] /\ AddrRank[p[2]] > AddrRank[q[2]])

\* The balances, sorted, cut after the top-th when top is reached.
Listed(amounts, t) ==
    LET vaddr == SetToSortSeq({<<amounts[a], a>> : a \in DOMAIN amounts}, PairAfter)
    IN IF t \in 1..Len(vaddr) THEN SubSeq(vaddr, 1, t) ELSE vaddr

\* Everything after the loop: the listing, the totals and the heights.
Report ==
    /\ pc = "report"
    /\ LET listed == Listed(addressAmounts, top)
           total == FoldSeq(LAMBDA p, s : s + p[1], 0, listed)
           n == IF top # 0 THEN top ELSE totalAddresses
       IN result' = [shown |-> n > 0, addresses |-> listed, total |-> total,
                     average |-> <<total \div COIN, n>>, utxos |-> utxos,
                     total_addresses |-> n, ignored_addresses |-> ignoredAddresses,
                     start_height |-> startingHeight, ending_height |-> tip]
    /\ pc' = "done"
    /\ UNCHANGED <<tip, indexH, snap, snapH, cursor, top, addressAmounts,
                   totalAddresses, utxos, ignoredAddresses, startingHeight>>

NoResult == [shown |-> FALSE]

Init ==
    /\ tip = 0 /\ indexH = 0
    /\ snap = <<>> /\ snapH = 0 /\ cursor = NoKey /\ top = 0
    /\ addressAmounts = <<>> /\ totalAddresses = 0 /\ utxos = 0
    /\ ignoredAddresses = 0 /\ startingHeight = 0
    /\ result = NoResult
    /\ pc = "idle"

Next ==
    \/ ConnectIndex \/ SetTip
    \/ \E t \in Tops : Begin(t)
    \/ ReadStart \/ Interrupt
    \/ ScanIgnored \/ ScanCount \/ ScanSkip \/ ScanEnd
    \/ Report

Spec == Init /\ [][Next]_vars

-----------------------------------------------------------------------------
(* Properties.                                                             *)

UKeys(d) == {k \in DOMAIN d : k[1] = DB_ADDRESSUNSPENTINDEX}

\* The addresses with counted entries and their balances in a view.
Counted(d) == {Address(k) : k \in {j \in UKeys(d) : Address(j) \notin Ignored}}
Balance(d, a) == MapThenSumSet(LAMBDA k : d[k], {k \in UKeys(d) : Address(k) = a})

TypeOK ==
    /\ tip \in 0..MaxHeight /\ indexH \in {tip, tip + 1} /\ snapH \in 0..MaxHeight
    /\ cursor = NoKey \/ cursor \in DOMAIN snap
    /\ DOMAIN addressAmounts \subseteq Counted(snap)
    /\ pc \in {"idle", "height", "scan", "report", "done", "interrupted"}

\* A finished snapshot lists the top balances of the database it read:
\* every listed balance is the address's sum over its unspent entries, the
\* list is in descending order and no unlisted address ranks above its
\* last entry, it has top entries (all when top is 0 or larger), and the
\* utxo count is the number of non-ignored entries.  The backward scan
\* passes the 'z' keys before the 'u' range and the 't' and 'p' keys after
\* it, and stops at 'l'.
SnapshotTotals ==
    pc = "done" =>
      LET L == result.addresses  C == Counted(snap) IN
      /\ \A i \in DOMAIN L : L[i][2] \in C /\ L[i][1] = Balance(snap, L[i][2])
      /\ \A i \in 1..Len(L) - 1 : PairAfter(L[i], L[i + 1])
      /\ Len(L) = IF top \in 1..Cardinality(C) THEN top ELSE Cardinality(C)
      /\ \A a \in C \ {L[i][2] : i \in DOMAIN L} :
           PairAfter(L[Len(L)], <<Balance(snap, a), a>>)
      /\ result.utxos = Cardinality({k \in UKeys(snap) : Address(k) \notin Ignored})

\* "Total number of ignored addresses in this snapshot": the reported count
\* is the number of ignored entries the scan met.
IgnoredCountReported ==
    pc = "done" =>
      result.ignored_addresses = Cardinality({k \in UKeys(snap) : Address(k) \in Ignored})

\* "Total number of addresses in this snapshot" and the average "in each
\* address of this snapshot" are over the addresses the result lists.
AddressCountMatchesList ==
    pc = "done" => result.total_addresses = Len(result.addresses)

\* "The snapshot began at this block height" / "finished at this block
\* height": the entries the iterator read are those of a height between the
\* two reported heights.
SnapshotHeightsBracket ==
    pc = "done" => result.start_height <= snapH /\ snapH <= result.ending_height

=============================================================================
