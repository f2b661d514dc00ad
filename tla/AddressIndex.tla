----------------------------- MODULE AddressIndex -----------------------------
(***************************************************************************)
(* The address index and the address-unspent index of the block-tree      *)
(* database (class CBlockTreeDB in src/src/txdb.cpp): their batched        *)
(* writes and their two prefix scans.                                      *)
(*                                                                         *)
(* A key is a sequence of fields compared lexicographically, which is how  *)
(* leveldb orders the serialized bytes: every field has a fixed width and  *)
(* the integers are serialized big-endian, so comparing field by field is  *)
(* comparing byte by byte.  A key of the address index is                  *)
(*   <<'d', type, hashBytes, blockHeight, output>>                         *)
(* and one of the address-unspent index <<'u', type, hashBytes, output>>;  *)
(* output stands for (txindex, txhash, index, spending).  Keys of the      *)
(* database's other indices are present too: a scan that runs past its     *)
(* own prefix reaches them.                                                *)
(*                                                                         *)
(* The database is the function db from the keys present to their values.  *)
(* A scan reads a leveldb iterator, which sees one consistent snapshot    *)
(* and writes nothing: it is a recursive operator that follows the loop of *)
(* the code key by key, and the properties state what it returns for every *)
(* request in every reachable database.                                    *)
(*                                                                         *)
(* Faults: an entry of either index can stop parsing, its value (Corrupt)  *)
(* or its key (cut to <<tag, type, hashBytes>>, too short for the key      *)
(* struct), as damaged bytes or a record of another layout do.  A scan     *)
(* returns the code's bool with the entries it appended.                   *)
(***************************************************************************)
EXTENDS Naturals, Sequences, FiniteSets, SequencesExt, TLC, OrderedKeys

CONSTANTS
    Types,            \* address types (P2PKH, P2SH)
    Hashes,           \* uint160 address hashes, as their byte order
    Heights,          \* block heights > 0
    Outputs,          \* (txindex, txhash, index, spending) of an index entry
    Amount,           \* a CAmount value of the address index
    UnspentValue,     \* a non-null CAddressUnspentValue
    NullValue,        \* the CAddressUnspentValue for which IsNull() holds
    TxKeys,           \* keys <<'t', txid>> of the transaction index
    TxPos,            \* a CDiskTxPos value of the transaction index
    SpentKeys,        \* keys <<'p', txid, index>> of the spent index
    SpentValue,       \* a non-null CSpentIndexValue
    NullSpentValue,   \* the CSpentIndexValue for which IsNull() holds
    OtherKeys,        \* keys of the block-tree database that no action here writes
    MaxBatch,         \* bound: entries in one batched write
    Corrupt,          \* a value whose bytes do not deserialize
    MaxFaults         \* bound: entries damaged in a behaviour

\* The tag bytes of txdb.cpp, as the numbers leveldb compares.
DB_ADDRESSINDEX == 100         \* 'd'
DB_ADDRESSUNSPENTINDEX == 117  \* 'u'
DB_SPENTINDEX == 112           \* 'p'
DB_TXINDEX == 116              \* 't'

ASSUME /\ Types \subseteq Nat /\ Hashes \subseteq Nat /\ Heights \subseteq Nat \ {0}
       /\ Outputs \subseteq Nat
       /\ \A k \in OtherKeys : k \in Seq(Nat) /\ k # <<>>
                               /\ k[1] \notin {DB_ADDRESSINDEX, DB_ADDRESSUNSPENTINDEX}
       /\ \A k \in TxKeys : k \in Seq(Nat) /\ k[1] = DB_TXINDEX
       /\ \A k \in SpentKeys : k \in Seq(Nat) /\ k[1] = DB_SPENTINDEX
       /\ MaxBatch \in Nat \ {0} /\ MaxFaults \in Nat

VARIABLES
    db,       \* the leveldb keyspace: present key -> value
    faults    \* entries damaged so far

vars == <<db, faults>>

AddressKeys ==
    {<<DB_ADDRESSINDEX, t, h, ht, o>> : t \in Types, h \in Hashes, ht \in Heights, o \in Outputs}
UnspentKeys ==
    {<<DB_ADDRESSUNSPENTINDEX, t, h, o>> : t \in Types, h \in Hashes, o \in Outputs}

KeyType(k) == k[2]
KeyHash(k) == k[3]
KeyHeight(k) == k[4]

\* The number of fields of a whole key of each index.
KeyFields == (DB_ADDRESSINDEX :> 5) @@ (DB_ADDRESSUNSPENTINDEX :> 4)

\* A key of either index too short for its key struct: ssKey >> indexKey throws.
Malformed(k) == k[1] \in DOMAIN KeyFields /\ Len(k) < KeyFields[k[1]]

\* A loop's exit: return true (a break) or false (return error(...)).
Done(ok, acc) == [ok |-> ok, out |-> acc]

-----------------------------------------------------------------------------
(* The iterator over this database (module OrderedKeys).                   *)

\* pcursor->Seek(key).
Seek(key) == SeekIn(DOMAIN db, key)

\* pcursor->Next().
NextKey(key) == NextIn(DOMAIN db, key)

-----------------------------------------------------------------------------
(* CBlockTreeDB::ReadAddressIndex(addressHash, type, start, end).          *)

\* The seek key: with a start height only when both bounds are given.
HistorySeekKey(type, hash, start, end) ==
    IF start > 0 /\ end > 0 THEN <<DB_ADDRESSINDEX, type, hash, start>>
                            ELSE <<DB_ADDRESSINDEX, type, hash>>

\* The loop: stop at a key that fails to decode as CAddressIndexKey (the
\* catch breaks), at the first key whose tag or hashBytes differ, or whose
\* height is above end; fail at a value that does not deserialize;
\* otherwise append the entry and step.
RECURSIVE HistoryLoop(_, _, _, _)
HistoryLoop(key, hash, end, acc) ==
    IF key = NoKey \/ Malformed(key) THEN Done(TRUE, acc)
    ELSE IF key[1] # DB_ADDRESSINDEX \/ KeyHash(key) # hash THEN Done(TRUE, acc)
    ELSE IF end > 0 /\ KeyHeight(key) > end THEN Done(TRUE, acc)
    ELSE IF db[key] = Corrupt THEN Done(FALSE, acc)
    ELSE HistoryLoop(NextKey(key), hash, end, Append(acc, <<key, db[key]>>))

ReadAddressIndex(type, hash, start, end) ==
    HistoryLoop(Seek(HistorySeekKey(type, hash, start, end)), hash, end, <<>>)

-----------------------------------------------------------------------------
(* CBlockTreeDB::ReadAddressUnspentIndex(addressHash, type).               *)

\* Mutant of UnspentLoop: a value that fails to deserialize is skipped.
RECURSIVE UnspentLoopSkipBad(_, _, _)
UnspentLoopSkipBad(key, hash, acc) ==
    IF key = NoKey \/ Malformed(key) THEN Done(TRUE, acc)
    ELSE IF key[1] # DB_ADDRESSUNSPENTINDEX \/ KeyHash(key) # hash THEN Done(TRUE, acc)
    ELSE IF db[key] = Corrupt THEN UnspentLoopSkipBad(NextKey(key), hash, acc)
    ELSE UnspentLoopSkipBad(NextKey(key), hash, Append(acc, <<key, db[key]>>))

RECURSIVE UnspentLoop(_, _, _)
UnspentLoop(key, hash, acc) ==
    IF key = NoKey \/ Malformed(key) THEN Done(TRUE, acc)
    ELSE IF key[1] # DB_ADDRESSUNSPENTINDEX \/ KeyHash(key) # hash THEN Done(TRUE, acc)
    ELSE IF db[key] = Corrupt THEN Done(FALSE, acc)
    ELSE UnspentLoop(NextKey(key), hash, Append(acc, <<key, db[key]>>))

ReadAddressUnspentIndex(type, hash) ==
    UnspentLoop(Seek(<<DB_ADDRESSUNSPENTINDEX, type, hash>>), hash, <<>>)

-----------------------------------------------------------------------------
(* Batched writes: each is one WriteBatch, applied atomically.             *)

Batches(S) == {B \in SUBSET S : B # {} /\ Cardinality(B) <= MaxBatch}

\* WriteAddressIndex: every pair of the vector is written.
WriteAddressIndex(vect) ==
    db' = [k \in vect |-> Amount] @@ db
    
\* EraseAddressIndex: every key of the vector is erased.
EraseAddressIndex(vect) ==
    db' = [k \in DOMAIN db \ vect |-> db[k]]
    
\* Mutant of UpdateAddressUnspentIndex: the IsNull() test is dropped and a
\* null value is written like any other.
UpdateAddressUnspentIndexNoErase(upd) == db' = upd @@ db

\* UpdateAddressUnspentIndex: a null value erases its key, another is written.
\* upd is the vector as a function from key to value.
UpdateAddressUnspentIndex(upd) ==
    LET erased  == {k \in DOMAIN upd : upd[k] = NullValue}
        written == DOMAIN upd \ erased
    IN db' = [k \in written |-> upd[k]] @@ [k \in DOMAIN db \ erased |-> db[k]]

\* UpdateSpentIndex: the same erase-on-null pattern for the spent index.
UpdateSpentIndex(upd) ==
    LET erased  == {k \in DOMAIN upd : upd[k] = NullSpentValue}
        written == DOMAIN upd \ erased
    IN db' = [k \in written |-> upd[k]] @@ [k \in DOMAIN db \ erased |-> db[k]]

\* WriteTxIndex: every (txid, position) pair of the vector is written.
WriteTxIndex(vect) ==
    db' = [k \in vect |-> TxPos] @@ db

-----------------------------------------------------------------------------
(* Faults of the stored bytes.                                             *)

IndexedKeys == DOMAIN db \cap (AddressKeys \cup UnspentKeys)

\* The value of an entry stops deserializing.
CorruptValue(k) ==
    /\ faults < MaxFaults /\ k \in IndexedKeys
    /\ db' = [db EXCEPT ![k] = Corrupt]
    /\ faults' = faults + 1

\* The key of an entry is cut after its hashBytes or, for a history key,
\* after its height, so that it sorts inside the address's range.
TruncateKey(k, n) ==
    /\ faults < MaxFaults /\ k \in IndexedKeys
    /\ db' = (SubSeq(k, 1, n) :> db[k]) @@ [j \in DOMAIN db \ {k} |-> db[j]]
    /\ faults' = faults + 1

-----------------------------------------------------------------------------

Bounds == {0} \cup Heights

Init ==
    /\ db = [k \in OtherKeys |-> "other"]
    /\ faults = 0

Write ==
    \/ \E vect \in Batches(AddressKeys) : WriteAddressIndex(vect) \/ EraseAddressIndex(vect)
    \/ \E keys \in Batches(UnspentKeys) : \E upd \in [keys -> {UnspentValue, NullValue}] :
         UpdateAddressUnspentIndex(upd)
    \/ \E keys \in Batches(SpentKeys) : \E upd \in [keys -> {SpentValue, NullSpentValue}] :
         UpdateSpentIndex(upd)
    \/ \E vect \in Batches(TxKeys) : WriteTxIndex(vect)

Next ==
    \/ Write /\ UNCHANGED faults
    \/ \E k \in DOMAIN db : CorruptValue(k) \/ \E n \in 3..Len(k) - 1 : TruncateKey(k, n)

Spec == Init /\ [][Next]_vars

-----------------------------------------------------------------------------
(* Properties of the scans.                                                *)

TypeOK ==
    /\ DOMAIN db \subseteq AddressKeys \cup UnspentKeys \cup TxKeys \cup SpentKeys \cup OtherKeys
                          \cup {k \in Seq(Nat) : Malformed(k)}
    /\ \A k \in DOMAIN db \cap AddressKeys : db[k] \in {Amount, Corrupt}
    /\ \A k \in DOMAIN db \cap UnspentKeys : db[k] \in {UnspentValue, Corrupt}
    /\ \A k \in DOMAIN db \cap SpentKeys : db[k] = SpentValue

\* Every request a caller can make: a history scan of an address with its
\* start and end bounds (0: none), or an unspent scan of an address.
Requests ==
    [kind : {"history"}, type : Types, hash : Hashes, start : Bounds, end : Bounds]
    \cup [kind : {"unspent"}, type : Types, hash : Hashes]

Scan(r) ==
    IF r.kind = "history" THEN ReadAddressIndex(r.type, r.hash, r.start, r.end)
                          ELSE ReadAddressUnspentIndex(r.type, r.hash)

IndexOf(r) == IF r.kind = "history" THEN AddressKeys ELSE UnspentKeys

\* The entries a request asks for, by the spec's reading of it: the address
\* (type and hash), and for the history the height bounds.
Requested(r, k) ==
    /\ KeyType(k) = r.type /\ KeyHash(k) = r.hash
    /\ r.kind = "history" =>
         /\ r.start > 0 => KeyHeight(k) >= r.start
         /\ r.end > 0 => KeyHeight(k) <= r.end

ScanKeys(r) == LET out == Scan(r).out IN {out[i][1] : i \in DOMAIN out}

\* A scan returns only entries of the address it was asked for (spec 8,
\* scan termination: a scan for address A never returns an entry of B).
ScanReturnsOnlyAddress ==
    \A r \in Requests : \A k \in ScanKeys(r) : KeyType(k) = r.type /\ KeyHash(k) = r.hash

\* A history scan given a starting height returns no entry below it (spec
\* 4.3: the start height is part of the seek prefix, the end bound is
\* optional).
ScanRespectsStart ==
    \A r \in Requests :
      r.kind = "history" /\ r.start > 0 => \A k \in ScanKeys(r) : KeyHeight(k) >= r.start

\* A key of the requested address's index that no longer parses and sorts
\* before key k.
MalformedBefore(r, k) ==
    \E m \in DOMAIN db :
      /\ Malformed(m) /\ m[2] = r.type /\ m[3] = r.hash /\ KeyLess(m, k)
      /\ m[1] = IF r.kind = "history" THEN DB_ADDRESSINDEX ELSE DB_ADDRESSUNSPENTINDEX

\* A damaged value of the requested address that sorts before key k.
DamagedBefore(r, k) ==
    \E j \in DOMAIN db \cap IndexOf(r) :
      /\ db[j] = Corrupt /\ KeyType(j) = r.type /\ KeyHash(j) = r.hash
      /\ KeyLess(j, k)

\* Both scans are sound and, short of damage, complete. What they return is
\* in key order (height order for the history), of the requested hash and,
\* for a history scan with an end height, not above it, and never a damaged
\* value. Every requested entry is returned unless a damaged value or a key
\* that failed to parse lies before it in the address's range. This holds
\* however the address's entries, other addresses' entries and the other
\* indices' keys lie around them, and wherever a key is cut. A scan that
\* returns true has left out a requested entry only when a key of that
\* address that failed to parse sorts before it (a damaged value makes it
\* return false): it fails open, not closed.
ScanMatchesRequest ==
    \A r \in Requests :
      LET s == Scan(r)
          Missing == {k \in DOMAIN db \cap IndexOf(r) :
                        Requested(r, k) /\ \A i \in DOMAIN s.out : s.out[i][1] # k}
      IN
      /\ \A i \in 1..Len(s.out) - 1 : KeyLess(s.out[i][1], s.out[i + 1][1])
      /\ \A i \in DOMAIN s.out :
           LET k == s.out[i][1] IN
           /\ s.out[i][2] # Corrupt /\ s.out[i][2] = db[k]
           /\ KeyHash(k) = r.hash
           /\ r.kind = "history" /\ r.end > 0 => KeyHeight(k) <= r.end
      /\ \A k \in Missing : db[k] = Corrupt \/ MalformedBefore(r, k) \/ DamagedBefore(r, k)
      /\ s.ok => \A k \in Missing : MalformedBefore(r, k)

=============================================================================
