------------------------------ MODULE ReadPath ------------------------------
(***************************************************************************)
(* Memtable, encoded segments and sparse index down to their offsets, and  *)
(* the read handler on top of them.                                        *)
(*                                                                         *)
(* Source: internal/memtable/memtable.go, internal/sstable/writer and      *)
(* reader, internal/sparseindex/sparseindex.go, internal/read/read.go.     *)
(* One client at a time and no compaction: this module is about the data.  *)
(* A flush and a lookup of the handler are one step each, so that what     *)
(* could run between the handler's look into the memtable and its call of  *)
(* the tracker is left out.  Beside the encoded file the module keeps the  *)
(* tables that Segments.tla abstracts it to.                               *)
(***************************************************************************)
EXTENDS Tracker, Memtable

CONSTANTS
    Stride,       \* the sparse index samples every Stride-th key
    MaxWrites,    \* bound: puts and deletes
    MaxClock      \* bound: seconds that pass

ASSUME ReadPathAssumption ==
    /\ Stride \in Nat \ {0}
    /\ MaxWrites \in Nat /\ MaxClock \in Nat

VARIABLES
    mem,          \* the memtable's slice
    file,         \* the data file, unit by unit
    meta,         \* per segment: where it is in the file, and its sparse index
    clock,        \* the second of the last flush
    writes,       \* puts and deletes so far
    table         \* history: the table that the memtable should be

vars == <<trackerVars, mem, file, meta, clock, writes, table>>

\* The bytes of the value that write n stores: none, one or two of them.
ValueOf(n) == [i \in 1 .. n % 3 |-> n]

Miss == [ok |-> FALSE, bytes |-> <<>>]

Hit(bytes) == [ok |-> TRUE, bytes |-> bytes]

Init ==
    /\ TrackerInit
    /\ mem = <<>>
    /\ file = <<>>
    /\ meta = <<>>
    /\ clock = 0
    /\ writes = 0
    /\ table = EmptyTable

-----------------------------------------------------------------------------
(***************************************************************************)
(* The sparse index.                                                       *)
(***************************************************************************)
\* Build: every Stride-th key with its offset, the first one included.
Build(sortedKeys, offsets) ==
    LET n == (Len(sortedKeys) + Stride - 1) \div Stride
        sample(i) == 1 + (i - 1) * Stride
    IN  [keys |-> [i \in 1 .. n |-> sortedKeys[sample(i)]],
         offsets |-> [i \in 1 .. n |-> offsets[sample(i)]]]

\* Mutant of Seek: the first sample that is not smaller.
SeekMutant(index, target) ==
    LET n == Len(index.keys)
        i == SortSearch(n, [j \in 0 .. n - 1 |-> index.keys[j + 1] >= target])
    IN  IF i = n THEN 0 ELSE index.offsets[i + 1]

\* Mutant of Seek: the data block is always walked from its start.
SeekStartMutant(index, target) == 0

\* Seek: the offset of the last sample that is not greater than the target.
Seek(index, target) ==
    LET n == Len(index.keys)
        i == SortSearch(n, [j \in 0 .. n - 1 |-> index.keys[j + 1] > target])
    IN  IF i = 0 THEN 0 ELSE index.offsets[i]

-----------------------------------------------------------------------------
(***************************************************************************)
(* The writer.  An entry is its header, its key and its value; the header  *)
(* of a segment and its footer are one unit each, a sample of the index    *)
(* one as well.                                                            *)
(***************************************************************************)
Header(vLen, tomb) == [vLen |-> vLen, tomb |-> tomb]

Encode(e) ==
    IF e.v < 0 THEN <<Header(0, TRUE), e.key>>
    ELSE <<Header(Len(ValueOf(e.v)), FALSE), e.key>> \o ValueOf(e.v)

DataStartOffset == 1

\* Mutant of WriteSegment: the start of the index is noted after it is written.
WriteSegmentLateMutant(slice) ==
    LET block == FlattenSeq([i \in DOMAIN slice |-> Encode(slice[i])])
        offset(i) == Len(FlattenSeq([j \in 1 .. i - 1 |-> Encode(slice[j])]))
        index == Build([i \in DOMAIN slice |-> slice[i].key], [i \in DOMAIN slice |-> offset(i)])
    IN  [bytes |-> <<"header">> \o block \o index.keys \o <<"footer">>,
         index |-> index,
         sparseIndexOffset |-> DataStartOffset + Len(block) + Len(index.keys)]

\* WriteSegment: header, entries, samples, footer.  The offsets in the index count
\* from the start of the entries.
WriteSegment(slice) ==
    LET block == FlattenSeq([i \in DOMAIN slice |-> Encode(slice[i])])
        offset(i) == Len(FlattenSeq([j \in 1 .. i - 1 |-> Encode(slice[j])]))
        index == Build([i \in DOMAIN slice |-> slice[i].key], [i \in DOMAIN slice |-> offset(i)])
    IN  [bytes |-> <<"header">> \o block \o index.keys \o <<"footer">>,
         index |-> index,
         sparseIndexOffset |-> DataStartOffset + Len(block)]

-----------------------------------------------------------------------------
(***************************************************************************)
(* The reader.                                                             *)
(***************************************************************************)
\* The entry that starts at place p of the file, and where the next one starts.
EntryAt(p) ==
    LET h == file[p]
    IN  [key |-> file[p + 1], bytes |-> SubSeq(file, p + 2, p + 1 + h.vLen),
         tomb |-> h.tomb, next |-> p + 2 + h.vLen]

\* The places of the file at which the entries of segment s end and start.
DataEnd(s) == meta[s].offset + meta[s].sparseIndexOffset

DataStart(s) == meta[s].offset + DataStartOffset

\* The entry at p can be read: a read past the end of the block fails.
EndsInBlock(s, p) == EntryAt(p).next \in p + 1 .. DataEnd(s) + 1

\* The walk of Reader.Get from the place Seek names: what it returns, and how many
\* entries it looks at.
Walk(s, target) ==
    LET walk[p \in 1 .. DataEnd(s) + 1] ==
            IF p > DataEnd(s) THEN [result |-> Miss, visited |-> 0]
            ELSE LET e == EntryAt(p)
                 IN  IF EndsInBlock(s, p) /\ e.key < target
                     THEN LET rest == walk[e.next]
                          IN  [rest EXCEPT !.visited = @ + 1]
                     ELSE [result |-> IF EndsInBlock(s, p) /\ e.key = target /\ ~ e.tomb
                                      THEN Hit(e.bytes) ELSE Miss,
                           visited |-> 1]
    IN  walk[DataStart(s) + Seek(meta[s].index, target) + 1]

\* Reader.Get of a segment that is not obsolete.
ReaderGet(s, target) ==
    IF InRange(segs[s], target) THEN Walk(s, target).result ELSE Miss

\* Mutant of Scan: tombstones are passed over.
ScanMutant(s) ==
    LET scan[p \in 1 .. DataEnd(s) + 1] ==
            IF p <= DataEnd(s) /\ EndsInBlock(s, p)
            THEN {EntryAt(p)} \cup scan[EntryAt(p).next] ELSE {}
        entries == {e \in scan[DataStart(s) + 1] : ~ e.tomb}
    IN  [k \in {e.key : e \in entries} |-> (CHOOSE e \in entries : e.key = k).bytes]

\* Reader.Scan: the entries by key, with no bytes for a tombstone.
Scan(s) ==
    LET scan[p \in 1 .. DataEnd(s) + 1] ==
            IF p <= DataEnd(s) /\ EndsInBlock(s, p)
            THEN {EntryAt(p)} \cup scan[EntryAt(p).next] ELSE {}
        entries == scan[DataStart(s) + 1]
    IN  [k \in {e.key : e \in entries} |->
            LET e == CHOOSE x \in entries : x.key = k
            IN  IF e.tomb THEN <<>> ELSE e.bytes]

-----------------------------------------------------------------------------
(***************************************************************************)
(* Operations.                                                             *)
(***************************************************************************)
WriteTo(k, v) ==
    /\ writes < MaxWrites
    /\ writes' = writes + 1
    /\ mem' = Upsert(mem, Entry(k, v))
    /\ table' = [table EXCEPT ![k] = v]
    /\ UNCHANGED <<trackerVars, file, meta, clock>>

Put(k) == WriteTo(k, writes + 1)

Delete(k) == WriteTo(k, - (writes + 1))

\* Flush the memtable into a segment and register it.  The memtable is flushed at
\* any size: the sizes of all limits.  It may be some seconds since the last flush.
FlushSegment(now) ==
    LET seg == WriteSegment(mem)
        s == Len(segs) + 1
        new == NewSegment(table, TIERED, 0, now, "flush")
        overlapping == {t \in Live : Overlap(segs[t], new)}
    IN  /\ mem # <<>>
        /\ segs' = Append(segs, [new EXCEPT !.overlapCount = Cardinality(overlapping)])
        /\ ordered' = <<s>> \o ordered
        /\ file' = file \o seg.bytes
        /\ meta' = Append(meta, [offset |-> Len(file), length |-> Len(seg.bytes),
                                 index |-> seg.index,
                                 sparseIndexOffset |-> seg.sparseIndexOffset])
        /\ mem' = <<>>
        /\ table' = EmptyTable
        /\ clock' = now
        /\ UNCHANGED <<obsolete, writes>>

\* How many of the candidates p Handler.Get asks: up to the first hit.
Asked(k, p) ==
    LET hits == {i \in DOMAIN p : ReaderGet(p[i], k).ok}
    IN  IF hits = {} THEN Len(p) ELSE Min(hits)

\* What Handler.Get returns: from the memtable, or from the candidates p in order.
\* (The counters of the segments it asks are in Adaptive.tla.)
HandlerResult(k, p) ==
    IF MemGet(mem, k) # 0 THEN Hit(ValueOf(MemGet(mem, k)))
    ELSE IF p = <<>> THEN Miss ELSE ReaderGet(p[Asked(k, p)], k)

Next ==
    \/ \E k \in Keys : Put(k) \/ Delete(k)
    \/ \E now \in clock .. MaxClock : FlushSegment(now)

Spec == Init /\ [][Next]_vars

-----------------------------------------------------------------------------
(***************************************************************************)
(* Properties.                                                             *)
(***************************************************************************)
\* The file is exactly the segments one after the other, and its metadata cuts
\* each into header, entries, samples and footer.
LayoutOK ==
    /\ TrackerTypeOK
    /\ DOMAIN meta = DOMAIN segs
    /\ \A s \in DOMAIN meta :
        /\ meta[s].offset + meta[s].length =
              IF s = Len(meta) THEN Len(file) ELSE meta[s + 1].offset
        /\ DataStart(s) < DataEnd(s)
        /\ DataEnd(s) + Len(meta[s].index.keys) + 1 = meta[s].offset + meta[s].length

\* However puts, deletes and flushes mix, binary search and insertion keep the slice
\* strictly sorted, and it holds exactly the entries of the table.
MemtableIsTable ==
    /\ \A i, j \in DOMAIN mem : i < j => mem[i].key < mem[j].key
    /\ {<<mem[i].key, mem[i].v>> : i \in DOMAIN mem} =
          {<<k, table[k]>> : k \in KeysOf(table)}

\* Reader.Get on the encoded segment, by way of the sparse index and the offsets,
\* returns what Segments!Lookup does on the table the segment was made from: the
\* abstraction the other modules work with is exact, for values of length zero and
\* keys outside the range too.
GetImplementsLookup ==
    \A s \in SegmentID, k \in Keys :
        ReaderGet(s, k) = IF Lookup(segs[s], k) = Absent THEN Miss
                          ELSE Hit(ValueOf(Lookup(segs[s], k)))

\* Reader.Scan returns every key of the segment; it has no bytes for a tombstone and
\* none for a value of length zero, and bytes for every other value.  (So a merge,
\* which keeps what has bytes, keeps exactly the values that are not empty.)
ScanReturnsBlock ==
    \A s \in SegmentID :
        Scan(s) = [k \in KeysOf(segs[s].data) |->
                      IF segs[s].data[k] < 0 THEN <<>> ELSE ValueOf(segs[s].data[k])]

\* The sparse index bounds the work of a lookup: the walk looks at no more entries
\* than there are between two samples, and the one that ends it.
WalkBounded ==
    \A s \in SegmentID, k \in Keys :
        InRange(segs[s], k) => Walk(s, k).visited <= Stride + 1

\* The live segments that hold a value for k.
Holders(k) == {s \in Live : segs[s].data[k] > 0}

\* No tombstone is stored for k.
Undeleted(k) == table[k] >= 0 /\ \A s \in Live : segs[s].data[k] >= 0

\* By way of the memtable, the tracker's order, the sparse indexes and the file,
\* Handler.Get returns the value of a key that is not deleted: the memtable's, or that
\* of a segment that is older than another one with the key only if the two were
\* flushed in the same second; a miss only if no value is stored.
HandlerReadsWithinSecond ==
    \A k \in Keys : \A p \in GetSegmentsForKey(k) : Undeleted(k) =>
        /\ table[k] > 0 => HandlerResult(k, p) = Hit(ValueOf(table[k]))
        /\ table[k] = 0 /\ Holders(k) = {} => HandlerResult(k, p) = Miss
        /\ table[k] = 0 /\ Holders(k) # {} =>
               \E s \in Holders(k) :
                   /\ HandlerResult(k, p) = Hit(ValueOf(segs[s].data[k]))
                   /\ \A t \in Holders(k) : segs[t].data[k] > segs[s].data[k] =>
                          segs[t].created = segs[s].created

\* "Memtable first", then the segments "newest -> oldest" (read.go): the first of them
\* with an entry for the key decides, so that a key with a tombstone in the memtable is
\* not found.  A tombstone there is a miss, though, and the search goes on.
DeletedIsMiss ==
    \A k \in Keys : \A p \in GetSegmentsForKey(k) :
        table[k] < 0 => HandlerResult(k, p) = Miss
=============================================================================
