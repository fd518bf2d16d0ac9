------------------------------ MODULE Segments ------------------------------
(***************************************************************************)
(* The data the storage engine moves around: entries, the tables that hold *)
(* them (a memtable, a flush buffer, the data block of a segment, the map  *)
(* a compaction merges into) and the metadata of a segment.                *)
(*                                                                         *)
(* Source: internal/common/types.go, internal/sstable/writer/writer.go and *)
(* the lookups of internal/sstable/reader/reader.go.                       *)
(***************************************************************************)
EXTENDS Integers, FiniteSets, Sequences, SequencesExt

CONSTANTS
    Keys,        \* the keys of the workload; their order is the code's string order
    EntrySize,   \* bytes one encoded entry takes in a segment, in model units
    Overhead     \* bytes of a segment's header, sparse index and footer

ASSUME KeysAssumption == Keys \subseteq Nat /\ Keys # {} /\ IsFiniteSet(Keys)
ASSUME SizeAssumption == EntrySize \in Nat \ {0} /\ Overhead \in Nat

(***************************************************************************)
(* An entry is named by the client write that produced it: n > 0 is the    *)
(* value stored by the n-th write, -n the tombstone stored by the n-th     *)
(* write, 0 says that there is no entry.  So of two entries of a key the   *)
(* one with the larger Version is the newer one.                           *)
(***************************************************************************)
Absent == 0

Version(e) == IF e < 0 THEN -e ELSE e

Table == [Keys -> Int]

EmptyTable == [k \in Keys |-> Absent]

KeysOf(table) == {k \in Keys : table[k] # Absent}

\* The keys a table holds a value for: an entry that is not a tombstone.
ValueKeys(table) == {k \in Keys : table[k] > 0}

-----------------------------------------------------------------------------
TIERED == "tiered"
LEVELED == "leveled"
CompactionType == {TIERED, LEVELED}

(***************************************************************************)
(* SegmentMeta, with the data block its Offset and Length point to.  Reads *)
(* of a segment see exactly the block that was appended for it.  "origin"  *)
(* is history: which caller of WriteSegment produced the segment.          *)
(***************************************************************************)
SegmentMeta ==
    [level : Nat, created : Nat, strategy : CompactionType, data : Table,
     overlapCount : Nat, origin : {"flush", "compaction"}]

NewSegment(data, strategy, level, now, origin) ==
    [level |-> level, created |-> now, strategy |-> strategy, data |-> data,
     overlapCount |-> 0, origin |-> origin]

MinKey(seg) == Min(KeysOf(seg.data))

MaxKey(seg) == Max(KeysOf(seg.data))

Length(seg) == Overhead + EntrySize * Cardinality(KeysOf(seg.data))

Overlap(a, b) ==
    ~ (MaxKey(a) < MinKey(b) \/ MinKey(a) > MaxKey(b))

\* Mutant of InRange: the range test excludes the largest key.
InRangeMutant(seg, key) == MinKey(seg) <= key /\ key < MaxKey(seg)

InRange(seg, key) == MinKey(seg) <= key /\ key <= MaxKey(seg)

\* The entry Reader.Get answers with: a tombstone is a miss, like no entry.
Lookup(seg, key) == IF seg.data[key] > 0 THEN seg.data[key] ELSE Absent
=============================================================================
