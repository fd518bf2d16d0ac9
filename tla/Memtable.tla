------------------------------ MODULE Memtable ------------------------------
(***************************************************************************)
(* The memtable as it is stored: a slice of entries sorted by key, with    *)
(* binary search.  Every method holds the memtable's lock, so each is one  *)
(* operator on the slice.                                                  *)
(*                                                                         *)
(* Source: internal/memtable/memtable.go.                                  *)
(***************************************************************************)
EXTENDS Integers, Sequences, SequencesExt

\* A common.KVEntry: v > 0 is the value of the v-th write, v < 0 the tombstone of
\* the (-v)-th write.
Entry(k, v) == [key |-> k, v |-> v]

\* sort.Search: binary search of the n places from 0 for the first one that
\* holds; n if there is none.
SortSearch(n, holds) ==
    LET search[ij \in (0 .. n) \X (0 .. n)] ==
            IF ij[1] >= ij[2] THEN ij[1]
            ELSE LET h == (ij[1] + ij[2]) \div 2
                 IN  IF holds[h] THEN search[<<ij[1], h>>] ELSE search[<<h + 1, ij[2]>>]
    IN  search[<<0, n>>]

\* The place of the key, or the one it belongs at.
Search(slice, key) == SortSearch(Len(slice), [i \in 0 .. Len(slice) - 1 |-> slice[i + 1].key >= key])

\* The key is at place i.
FoundAt(slice, i, key) == i < Len(slice) /\ slice[i + 1].key = key

\* Mutant of Upsert: an entry of the key is not replaced.
UpsertMutant(slice, e) == InsertAt(slice, Search(slice, e.key) + 1, e)

\* Put and Delete: replace the entry of the key, or insert one before place i.
Upsert(slice, e) ==
    LET i == Search(slice, e.key)
    IN  IF FoundAt(slice, i, e.key) THEN [slice EXCEPT ![i + 1] = e]
        ELSE InsertAt(slice, i + 1, e)

\* Get: 0 is a miss, and so is a tombstone.
MemGet(slice, key) ==
    LET i == Search(slice, key)
    IN  IF FoundAt(slice, i, key) /\ slice[i + 1].v > 0 THEN slice[i + 1].v ELSE 0
=============================================================================
