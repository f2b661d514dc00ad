----------------------------- MODULE OrderedKeys ------------------------------
(***************************************************************************)
(* The ordered keyspace of leveldb as the scans of src/src/txdb.cpp use it *)
(* through CDBIterator.  A key is a sequence of fields; every field has a  *)
(* fixed width and integers are serialized big-endian, so comparing field  *)
(* by field is comparing the serialized bytes.  The iterator operators     *)
(* take the set of keys present, so that every database module shares     *)
(* them.                                                                   *)
(***************************************************************************)
EXTENDS Naturals, Sequences

NoKey == <<>>    \* !pcursor->Valid()

\* leveldb's bytewise comparator: a proper prefix sorts first.
RECURSIVE KeyLess(_, _)
KeyLess(a, b) ==
    IF a = <<>> THEN b # <<>>
    ELSE IF b = <<>> THEN FALSE
    ELSE IF Head(a) # Head(b) THEN Head(a) < Head(b)
    ELSE KeyLess(Tail(a), Tail(b))

LeastKey(S) == IF S = {} THEN NoKey ELSE CHOOSE k \in S : \A j \in S : ~KeyLess(j, k)

GreatestKey(S) == IF S = {} THEN NoKey ELSE CHOOSE k \in S : \A j \in S : ~KeyLess(k, j)

\* pcursor->Seek(key): the first key present that is not before key.
SeekIn(D, key) == LeastKey({k \in D : ~KeyLess(k, key)})

\* pcursor->Next(): the first key present after key.
NextIn(D, key) == LeastKey({k \in D : KeyLess(key, k)})

\* iter->SeekToLast() and iter->Prev().
LastIn(D) == GreatestKey(D)
PrevIn(D, key) == GreatestKey({k \in D : KeyLess(k, key)})
=============================================================================
