------------------------------ MODULE CoinStats -------------------------------
(***************************************************************************)
(* CCoinsViewDB::GetStats (src/src/txdb.cpp): one forward scan of the coin *)
(* records of a chainstate database that counts records, unspent outputs  *)
(* and their value and feeds a CHashWriter stream, whose hash the spec     *)
(* (section 4.4) uses to detect divergence between chain states computed   *)
(* independently.  Each node of Nodes runs the scan over its own           *)
(* chainstate, one loop iteration per step; the scan writes nothing, so a  *)
(* chainstate is fixed in a behaviour and the initial states are every     *)
(* chainstate a small bound allows.                                        *)
(*                                                                         *)
(* A coin record is its vout, a sequence whose spent outputs are Null; the *)
(* records on disk are never fully spent (BatchWrite erases those) and end *)
(* with an unspent output (CCoins::Cleanup trims spent ones).  An output   *)
(* stands for its value, which is what the totals read and what a CTxOut   *)
(* serializes besides its script.  The hash writer is taken as            *)
(* collision-free: hashSerialized is the stream of values written to it,  *)
(* one tuple per write: <<hashBlock>>, <<VARINT(i + 1), out>>, <<0>>.      *)
(***************************************************************************)
EXTENDS Naturals, Sequences, FiniteSets, SequencesExt, Folds, OrderedKeys

CONSTANTS
    Nodes,        \* nodes, each computing the statistics of its own chainstate
    Txids,        \* transaction ids, as their byte order
    OutValues,    \* nValue of an unspent output (> 0)
    MaxOutputs,   \* bound: outputs in one coin record
    Blocks,       \* non-null block hashes
    Height,       \* [Blocks -> Nat]: nHeight of each block of mapBlockIndex
    OtherKeys     \* keys of the chainstate's other tags (anchors, nullifiers, best slots)

NullHash == 0            \* uint256()
Null == 0                \* a spent output: CTxOut::IsNull()
DB_COINS == 99           \* 'c'
DB_BEST_BLOCK == 66      \* 'B'

ASSUME /\ Txids \subseteq Nat /\ OutValues \subseteq Nat \ {0} /\ MaxOutputs \in Nat \ {0}
       /\ Blocks \subseteq Nat \ {NullHash} /\ Height \in [Blocks -> Nat]
       /\ \A k \in OtherKeys : k \in Seq(Nat) /\ k # <<>> /\ k[1] \notin {DB_COINS, DB_BEST_BLOCK}

VARIABLES
    db,       \* per node, its chainstate keyspace: key -> value
    cursor,   \* per node, the key under pcursor (NoKey when not Valid())
    stats,    \* per node, the CCoinsStats being filled and the hash stream
    pc        \* per node, "start", "scan", "done" or "interrupted"

vars == <<db, cursor, stats, pc>>

\* The vouts a record on disk can have.
CoinRecords ==
    {v \in BoundedSeq(OutValues \cup {Null}, MaxOutputs) :
        v # <<>> /\ v[Len(v)] # Null}

CoinKey(t) == <<DB_COINS, t>>

\* Chainstates: some coin records and a best block (the RPC that calls
\* GetStats runs after the genesis block has been connected and flushed).
Chainstates ==
    {[k \in {CoinKey(t) : t \in DOMAIN c} \cup {<<DB_BEST_BLOCK>>} \cup OtherKeys |->
         IF k = <<DB_BEST_BLOCK>> THEN b ELSE IF k \in OtherKeys THEN "other" ELSE c[k[2]]] :
       b \in Blocks, c \in UNION {[S -> CoinRecords] : S \in SUBSET Txids}}

\* GetBestBlock(): uint256() when the slot is unset.
GetBestBlock(d) == IF <<DB_BEST_BLOCK>> \in DOMAIN d THEN d[<<DB_BEST_BLOCK>>] ELSE NullHash

-----------------------------------------------------------------------------
(* The scan.                                                               *)

\* The unspent outputs of a record as <<i + 1, out>>, in vout order (the
\* indices of a TLA+ sequence already start at 1).
RecordStream(v) ==
    LET idx == SelectSeq([i \in DOMAIN v |-> i], LAMBDA i : v[i] # Null)
    IN [j \in DOMAIN idx |-> <<idx[j], v[idx[j]]>>]

\* Mutant of StatsStep: the IsNull() test is dropped and spent outputs are
\* counted and hashed too.
StatsStepAllOutputs(s, v) ==
    LET outs == [i \in DOMAIN v |-> <<i, v[i]>>] IN
    [s EXCEPT !.nTransactions = @ + 1,
              !.nTransactionOutputs = @ + Len(outs),
              !.nTotalAmount = @ + FoldSeq(LAMBDA o, a : a + o[2], 0, outs),
              !.stream = @ \o outs \o << <<0>> >>]

\* One coin record: count it, and each unspent output is counted, hashed
\* after its index and summed; VARINT(0) ends the record.
StatsStep(s, v) ==
    LET outs == RecordStream(v) IN
    [s EXCEPT !.nTransactions = @ + 1,
              !.nTransactionOutputs = @ + Len(outs),
              !.nTotalAmount = @ + FoldSeq(LAMBDA o, a : a + o[2], 0, outs),
              !.stream = @ \o outs \o << <<0>> >>]

NoStats == [nTransactions |-> 0, nTransactionOutputs |-> 0, nTotalAmount |-> 0,
            hashBlock |-> NullHash, nHeight |-> 0, stream |-> <<>>]

\* Seek to DB_COINS; hashBlock = GetBestBlock() is the first value hashed.
Start(n) ==
    /\ pc[n] = "start"
    /\ cursor' = [cursor EXCEPT ![n] = SeekIn(DOMAIN db[n], <<DB_COINS>>)]
    /\ stats' = [stats EXCEPT ![n].hashBlock = GetBestBlock(db[n]),
                              ![n].stream = << <<GetBestBlock(db[n])>> >>]
    /\ pc' = [pc EXCEPT ![n] = "scan"]
    /\ UNCHANGED db

\* The interruption point at the head of the loop.
Interrupt(n) ==
    /\ pc[n] = "scan"
    /\ pc' = [pc EXCEPT ![n] = "interrupted"]
    /\ UNCHANGED <<db, cursor, stats>>

IsCoinKey(k) == k # NoKey /\ k[1] = DB_COINS

\* An iteration on a coin record, then pcursor->Next().
Step(n) ==
    /\ pc[n] = "scan"
    /\ IsCoinKey(cursor[n])
    /\ stats' = [stats EXCEPT ![n] = StatsStep(@, db[n][cursor[n]])]
    /\ cursor' = [cursor EXCEPT ![n] = NextIn(DOMAIN db[n], @)]
    /\ UNCHANGED <<db, pc>>

\* The loop ends at the first key of another tag or at the end; nHeight is
\* read from mapBlockIndex under cs_main.
Finish(n) ==
    /\ pc[n] = "scan"
    /\ ~IsCoinKey(cursor[n])
    /\ stats' = [stats EXCEPT ![n].nHeight = Height[stats[n].hashBlock]]
    /\ pc' = [pc EXCEPT ![n] = "done"]
    /\ UNCHANGED <<db, cursor>>

Init ==
    /\ db \in [Nodes -> Chainstates]
    /\ cursor = [n \in Nodes |-> NoKey]
    /\ stats = [n \in Nodes |-> NoStats]
    /\ pc = [n \in Nodes |-> "start"]

Next ==
    \E n \in Nodes : Start(n) \/ Interrupt(n) \/ Step(n) \/ Finish(n)

Spec == Init /\ [][Next]_vars

-----------------------------------------------------------------------------
(* Properties.                                                             *)

CoinKeys(d) == {k \in DOMAIN d : k[1] = DB_COINS}

TypeOK ==
    /\ \A n \in Nodes :
         /\ db[n] \in Chainstates
         /\ cursor[n] = NoKey \/ cursor[n] \in DOMAIN db[n]
         /\ pc[n] \in {"start", "scan", "done", "interrupted"}
         /\ \A i \in 2..Len(stats[n].stream) :
              stats[n].stream[i] = <<0>> \/ stats[n].stream[i] \in (1..MaxOutputs) \X OutValues

\* A finished scan counts every coin record of the chainstate, every
\* unspent output of them and their total value, whatever other tags lie
\* around the coin prefix, and reports the best block and its height.
StatsMatchCoinSet ==
    \A n \in Nodes :
      pc[n] = "done" =>
        LET s == stats[n]  d == db[n] IN
        /\ s.nTransactions = Cardinality(CoinKeys(d))
        /\ s.nTransactionOutputs =
             MapThenSumSet(LAMBDA k : Cardinality({i \in DOMAIN d[k] : d[k][i] # Null}), CoinKeys(d))
        /\ s.nTotalAmount = MapThenSumSet(LAMBDA k : FoldSeq(LAMBDA x, a : a + x, 0, d[k]), CoinKeys(d))
        /\ s.hashBlock = GetBestBlock(d) /\ s.nHeight = Height[GetBestBlock(d)]

\* Two nodes whose finished scans give the same best block and the same
\* hashSerialized hold the same coin records (spec 4.4: the summary hash
\* represents the entire coin set's content and detects divergence).
StatsHashDetectsDivergence ==
    \A m, n \in Nodes :
      pc[m] = "done" /\ pc[n] = "done" /\ stats[m].stream = stats[n].stream =>
        [k \in CoinKeys(db[m]) |-> db[m][k]] = [k \in CoinKeys(db[n]) |-> db[n][k]]

=============================================================================
