# Amethyst: a verification project

Amethyst (`src/README.md`) is a prototype LSM-tree storage engine in Go. Writes go
to a write-ahead log and a memtable; a full memtable is flushed to an immutable
segment of one append-only data file; a metadata tracker keeps the segments in
memory; a background goroutine merges segments under a *tiered* or a *leveled*
policy, which an FSM controller may switch segment by segment. This directory
holds TLA+ models of the running program and of its components, the TLC
configurations that check them, and TLAPS proofs of the program's main safety
properties.

## Inventory

| Part | State | Operations | Used by |
|---|---|---|---|
| `common` | `SegmentMeta`: level, range, size, strategy, creation second, counters, `obsolete` (mutex), `InCompaction` (atomic) | `MarkObsolete`, `IsObsolete`, counters, cooldown | everyone |
| `wal` | one file | `LogPut`, `LogDelete`, `ReadAll` (nobody calls it), `Truncate` | main, engine |
| `memtable` | sorted slice, limit | `Put`, `Delete`, `Get`, `ShouldFlush`, `Flush` | main, engine, read |
| `sstable/writer`, `sparseindex` | - | `WriteSegment`: encode, index, append | main (flush), engine, executor |
| `sstable/reader` | comparison counter | `Get` (point), `Scan` (whole segment) | main, read, executor |
| `segmentfile` | file, mapping and its size, calls in progress | `Append` (write and sync), `GetMmapData`, `ReleaseMmap`, `Delete` | writer, reader |
| `metadata` | registry of segments, newest registration first | `RegisterSegment`, `MarkObsolete`, `GetAllSegments`, `GetSegmentsForKey`, `GetOverlappingSegments`, `UpdateStats` | main, director, executor |
| `adaptive` | histories per segment, last switch | `ShouldRewrite` | director |
| `compaction` director | current policy | `MaybePlan` | background goroutine, main |
| `compaction` executor | - | `Execute` | background goroutine, main |
| `cmd/amethystd` | workload, phase, metrics | seven workloads | - |
| `engine` | - | `Put`, `ExecuteFlush` | nobody (library code) |
| `read` | - | `Get` | nobody (library code) |

Two goroutines run: **main** works through a workload (writes, flushes, lookups;
the workloads *mixed*, *read-heavy* and *write-heavy* end with one compaction of
its own), and the **background goroutine** plans and executes a compaction at
every tick. They share the tracker (a lock per call), the segments' flags, the
data file, and the director's policy. Nothing is locked across calls, so
everything read from the tracker may be stale when it is used.

What is hard here:

* a lookup walks a list of segments that a compaction retires under it;
* a plan is made from a snapshot, validated later, scanned still later;
* two compactors can take the same inputs, and the `InCompaction` flag they share
  is a single bit;
* one step of several can fail (a scan, the write of the output, the write of a
  flush), and the others are carried out regardless;
* the order of the inputs decides which value of a key survives a merge, and the
  order of the segments which one is found; both depend on timestamps of one second;
* the log is truncated as a whole after a flush, is never synced, and a record is
  three writes, any of which can fail;
* the data file is mapped into memory, and remapped when it has grown, while other
  goroutines read through the old mapping;
* the FSM controller takes and releases its lock several times in one decision.

What makes each part correct, in a line: the log and the data file together always
hold the last write of every key; the tracker's live segments together hold every
key; a plan's inputs are live until its own execution retires them; a flag is set
only inside an `Execute`; compaction comes to rest; the mapping a reader gets covers
the segment it reads; a log reads back as it was written or not at all; an encoded
segment answers like the table it was made from; a segment changes its strategy only under access.

## Modules

| Module | What it models |
|---|---|
| `Segments` | entries, tables, segment metadata and its range tests |
| `Tracker` | `metadata.go`: the registry, its queries and their sort, appending to the data file |
| `Compaction` | `director.go`, `executor.go`: the calls `MaybePlan` and `Execute`, one compactor at a time |
| `Amethyst` | `main.go` with the log, the memtable, flushes and lookups: the whole program |
| `VersionStore` | an abstract specification: which versions of a key are still stored |
| `AmethystProps` | the properties, the refinement mapping, and the repository's claims |
| `SegmentFile` | `segmentfile.go` with the readers' calls of it: the file, its mapping, the locked sections |
| `Memtable` | `memtable.go` as operators on the sorted slice |
| `WAL` | `wal.go`: the log as a file of encoded records, torn ones included, and `ReadAll` |
| `Engine`, `MCEngine` | `engine.go` over `WAL` and `Memtable`: concurrent clients, failures, restarts |
| `ReadPath` | memtable, writer, sparse index and reader down to their offsets, `read.go` on top; over `Tracker` and `Memtable` |
| `Adaptive` | `controller.go` with the counters and cooldowns of segments, and what a switch rewrites |
| `AmethystProofs` | proofs: types, flags, what the log protects, no key lost |
| `CompactionProofs` | proofs: the sole compactor, lookups, the order of flushes, `OverlapCount`, the refinement of `VersionStore` |
| `SegmentFileProofs`, `AdaptiveProofs`, `EngineProofs`, `ReadPathProofs` | proofs about the component of the name |
| `MemtableProofs` | lemmas on binary search and insertion |
| `Induction` | induction on the naturals, and what recursive functions are |

`Amethyst` is the whole program at the grain of calls between components. The modules
from `SegmentFile` on take one component apart below that grain, each with the part
of its surroundings that it meets. `ReadPath` ties the two levels together: it keeps the
encoded file beside the tables of `Segments` and shows that they agree.
A configuration only gives values to the constants.

### How the state corresponds to the code

*Entries.* A write gets the next number; value `n` is what write `n` put, `-n` the
tombstone of write `n`, 0 is no entry. Contents of values are irrelevant to every
property; their age is not. A memtable, a flush buffer, the data block of a
segment and the merge map are functions from keys to entries.

*Segments.* `segs` is the data file: a segment's ID is its place in it (the code
uses a UUID, of which only uniqueness matters). `ordered` and `obsolete` are the
tracker's list and the obsolete flags. A record carries the block that its offset
and length point to; sizes are counted in model units, `Overhead` and `EntrySize`.

*Compactors.* `pc`, `todo`, `plan`, `merged` and `newSeg` are the locals of a
`MaybePlan`/`Execute` in progress, for `"bg"` and for `"main"`; `todo` is what the
current loop still has to visit.

*main.* `phases` is what is left of the workload, `mpc` the place in a loop body.
The seven workloads are main's functions `runShift` to `runZipfian`; of each the `map` names the
stretch where its phases follow each other, the loop bodies are mapped once, to the actions.
`wal` has the entries that can be read back from the log, whether a torn record ends it,
and, as history, the entries it has not taken since it was last emptied.
`latest` is history (the last entry written for each key). The workload `client`
is not one of main's: it runs the same loops and also deletes, with `LogDelete` and
`memtable.Delete`, which main never calls; the packages offer them, and merging
tombstones is part of the executor.

*Data file (`SegmentFile`).* Segments have length 1, so a segment's number is also where
it ends. A mapping is a number; `maps` has its length, `mapped` the ones that are in the
address space. `slice` is what a goroutine's last call returned. Reading an unmapped
slice is a fault of the process in the code; here it is the state that
`UsesLiveMapping` forbids.

*Log (`WAL`).* A record takes two units for its header, one for its key and as many as
the value is long; `log` lists how many units of which record are in the file. `ReadAll` is
computed from the units. Where it takes units for a header that were not written as
one, its result is `"unknown"`: the lengths it reads are arbitrary.

*Engine.* `mem` and `disk` hold slices of entries, an entry names the write it comes
from. `acked`, `overlapped`, `dropped`, `boot` and `forfeited` are history: which writes
were acknowledged, ran beside another, are held by the log alone since a slice could not
be written (`LostWith`: the slice's own writes and the older ones of its keys that it had replaced),
precede the last start, and are given up. They only say what `AckedRecoverable` may promise.

*Encoded segments (`ReadPath`).* `file` is a sequence of units: a header of an entry
(value length, tombstone), a key, a byte of a value. Values have 0, 1 or 2 bytes. `meta` has the
offsets and the sparse index that the writer leaves in `SegmentMeta`. A read past the end of the
data block fails (`EndsInBlock`), so the reader's walk ends on any file, also at places where
no entry starts.

*Controller (`Adaptive`).* The strategy of a segment never changes, and the controller
looks at the reads of a tiered segment and the writes of a leveled one; the model keeps
that one counter. The moving average is computed in integers, scaled by a power
of five. `plan` has the inputs of a rewrite: a switch to leveled takes any set of live
segments along (`Collect`; which ones overlap is left open), with no look at their
cooldowns, as in director.go:62-64. `Execute` is a single step: it turns the plan down,
writes the output and retires all inputs, or fails to write after its scans. `switchedAt` (when a
compactor last decided to switch) and `quiet` (snapshots recorded since a segment's counter
changed) are history.

### Granularity

A step is a stretch of one goroutine between two places where another goroutine
can see or cause a change. The log and the memtable belong to main alone, so a
write is one step up to the flush; a flush is three (the append, the registration,
the truncation). The director is split at each call to the tracker; `Execute` at
validation, flags, every scan, the write, the registration and every input it
retires. Loops that only read `obsolete`, which never goes back, are one step: what
they conclude is what they would have concluded at a single moment. That includes
the background goroutine's own check of its inputs (main.go:173), which repeats the
one at the head of `Execute`. Setting the flags is one step, and so is clearing
them: a compaction that has retired the inputs makes the flags irrelevant, and one
that has not is a failure (see *Observations*). `currentPolicy` is read
and written without a lock by both compactors; it is treated as atomic (one word).

In the component modules a step is what the code does under one lock: a section of
`GetMmapData` under the read or the write lock, a method of the log or the memtable, a
section of `ShouldRewrite`. The gaps between two such sections are where other goroutines run.
`ReadPath` has one client, and a flush or a lookup is one step there. The lookups of `Amethyst` are main's, which start
at the tracker. What may come between the read handler's look into the memtable and its call of the
tracker (a flush that has emptied the one and not yet registered its segment with the other) is
modelled nowhere: no program in the repository runs a handler.

Further choices:

* *FSM controller.* In `Compaction`, `PlanSwitch` may switch any live segment of the
  snapshot, up to `MaxSwitches` times: more than the histories and cooldowns allow,
  never less. `Adaptive` has the decision itself.
* *Sorting.* `sort.Slice` is not stable; up to 12 elements its insertion sort happens to
  be. The default workload has far more candidates than that in a second. `StableSort` selects either; no property
  and no theorem about the order of reads assumes it, and `shift`, `settles` and `read_path` use the unstable one. In
  the other runs the order decides nothing the properties look at, and the stable sort only saves states.
* *Time.* `Second` advances the clock at any moment. The creation second of a
  segment is taken when it is appended; the code takes it at the start of
  `WriteSegment`, before the encoding.
* *Lookups* may ask for any key; phase 2 of `shift` asks for the first nine tenths.
  The loops' iteration counts are open, bounded by `MaxWrites`.
* *Failures.* `"append"`: the write or sync of a segment; `"mmap"`: mapping the data
  file. A failed append leaves bytes in the file that nothing refers to, so it
  leaves the model's file as it was. `"log"`: a write of the log, which leaves nothing or a torn record, or its
  truncation; main drops both errors (main.go:393, main.go:410), and they are not counted against `MaxFaults`.
* *Panics* end the process: the nil dereferences at executor.go:122 (nothing to
  write), main.go:859 (main lost a race) and main.go:407 (a flush failed).
* *Shutdown.* main waits five seconds for the background goroutine; in the model it
  waits until the goroutine has stopped, or stops for good.
* *Final flush.* It asks `ShouldFlush`, which a write loop never leaves true (its last act is a flush if
  it is), so the model has it find a memtable that is not full. What is left in the memtable stays there, and
  the workloads' lookups, which start at the tracker, do not see it (see *Observations*).

## Runs

| Run | Constants | Shows |
|---|---|---|
| `shift` | 3 keys, memtable 2, 4 writes, clock 0..1, unstable sort, any failures of the log | types; no key lost; a last write is logged, stored, or still in memory because the log did not take it; plans stay valid while one goroutine compacts; a miss means a lookup was overtaken; flushes are searched newest second first; `OverlapCount` |
| `mixed` | 2 keys, memtable 1, 3 writes, clock 0..1 | two compactors: skipped inputs are obsolete, no key lost, flags |
| `client` | 2 keys, memtable 1, 3 writes, one failed append | puts and deletes: refinement of `VersionStore`, no key lost, the log truncated in time |
| `settles` | 2 keys, memtable 1, 3 writes, 1 switch, 2 inputs per plan, unstable sort, one failure of a segment's write or a mapping | flags and valid plans in spite of failures; liveness: compaction comes to rest |
| `segment_file` | 2 goroutines, 3 appends, 1 failed `mmap`, 1 release or deletion | mappings do not leak or shrink, are live when returned, and cover what a reader asks for |
| `engine` | 2 clients, 2 keys, memtable 2, 4 writes of 2 and 0 bytes in turn, 1 failed call, 1 restart or power failure | the log reads back; acknowledged writes are recoverable; replay rebuilds the memtable |
| `read_path` | 4 keys, every 2nd sampled, 4 writes, clock 0..1, unstable sort | layout; slice, encoding, index and walk against a table; walks are bounded; the handler finds a value older than the newest only if both were flushed in one second |
| `adaptive` | 1 compactor, 2 segments, window 3, thresholds 1, intervals 1, clock 0..2, counters 0..3 | histories stay in their window; a switch needs an access within it |

Four more runs each refute a statement the repository makes about itself:
`merge_order`, `tombstones`, `failed_scan` and `mapping_race`. `PROJECT.json`
quotes the statement beside what the code does. Further disagreements are under *Observations*.

Why the bounds suffice. Three segments are enough for a merge, its output and a
flush beside them, and for two compactors that share one input, two or none; two
keys give disjoint, equal and nested ranges (segments of two keys arise by merging),
three keys with a memtable of two give ranges that overlap in part and a memtable
that is left half full. `EntrySize = 2` and `Overhead = 1` make the sizes of one,
two and three entries 3, 5 and 7: one and two entries are similar runs (within a factor
of two of each other), one and three are not. One tick of the clock gives both equal and different creation
seconds. `MaxInputs = 2` makes the director's limit bind. Deadlock is checked in the
runs of the program, which stops only where `Ended` says so, and in
`segment_file`; clients of the engine, of the read path and of the controller may stop
for good, so these runs do not check it.

For `segment_file`, three appends let a goroutine hold a size that the other has
overtaken twice; the same properties also hold with three goroutines and two appends, and
with two failures and two closes. For `engine`, four writes fill the memtable twice, so that a flush follows a
failed flush or a restart; values of two bytes and none let a torn record swallow the
next one exactly or in part. For `read_path`, four keys with a stride of two give
segments whose length is and is not a multiple of the stride, and targets before, at,
between and behind the samples; four writes over two seconds give up to four segments, of equal and
different age. For `adaptive`, a window of three is the shortest that decides, and a
fourth snapshot slides it, so that a counter can rest for longer than the window; `MinSegmentSize` is left out (all segments count as
large). It has one compactor, as four of the seven workloads do and as src/README.md:96 says;
with two its property fails (see *Observations*).

Fairness. `CompactionSettles` assumes weak fairness of the background goroutine's
step: the Go scheduler runs every runnable goroutine and the ticker keeps firing
until the process ends. Nothing is assumed of main: it may stop writing at any
point. The property says that the background goroutine reaches a set of segments it
has nothing more to do with, unless main stops it or a panic ends the process. It
needs the argument that every merge either lowers the number of live segments or
pushes one down once, which TLC checks on the graph of the small instance. A failed
compaction is tried again at the next tick; the model's failures run out, as an
environment must let them for the property to hold.

`ImplementsVersionStore` maps the program to the set of versions still stored per key
(memtable, flush under way, live segments). It is checked with one compactor. With two it does not hold: both may write an
output from the same inputs, and the second can store again a version that the
first one dropped.

### Observations

What was found beyond the findings in `PROJECT.json`, and what the exemptions in the
properties stand for. The formulas below state what the repository promises, and TLC refutes each in the
instance named. None of these instances is one of the runs: seven formulas are in no run and stand at the end of their
modules, and `LastWriteDurable` and `SwitchNeedsAccess` hold in their runs, under the other constants given there.

| Formula | Promise | Instance that refutes it |
|---|---|---|
| `FinalFlushEmptiesMemtable` | "Final flush" (main.go:446) | `shift` without failures and 3 writes |
| `NewestFirst` | "newest → oldest" (src/README.md:20) | `merge_order` with clock 0..1 |
| `LastWriteDurable` with `"log"` in `Faults` | "for crash durability" (src/README.md:28) | workload `pureWrite`, 2 keys, memtable 2, 2 writes |
| `DeletedIsMiss` | "Memtable first", then segments (read.go:28-33) | `read_path` with 2 keys, 3 writes |
| `SwitchesSpaced` | "a minimum interval between strategy switches" (src/README.md:100) | `adaptive` with 2 compactors, counters 0..2 |
| `SwitchNeedsAccess` with 2 compactors | "sustained read pressure" (src/README.md:42) | 1 segment, intervals 0, counters 0..2 |
| `NoThrashing` | "A cooldown period prevents thrashing" (src/README.md:43) | 1 compactor, 3 segments, `MinSwitchInterval = 0`, clock 0..1, counters 0..2 |
| `TruncatesStoredOnly` | "only truncate WAL after disk write is confirmed" (engine.go:62) | `engine` with 2 clients and no failure; with 1 client, 3 keys and a restart; with 1 client, memtable 1 and a failed call |
| `ReturnsMapped` | "now safe to copy using the new map" (reader.go:204) | `segment_file` with 4 appends and 1 failed `mmap` |

* *Final flush.* A memtable that is partly full when a loop ends stays in memory, and lookups, which start
  at the tracker, miss its keys. Its entries stay in the log: `LastWriteDurable` and `LastWriteKept` cover them.
* *Newest first.* A merge output carries a fresh creation second and is registered last, so it is searched before a
  flush with a newer value. Flushes of one second come in whatever order `sort.Slice` leaves. So
  `FlushesReadWithinSecond` and `HandlerReadsWithinSecond` speak of flushes, and of seconds.
* *Errors of the log.* main drops them: an entry that could not be logged, or that follows a torn record, goes into the
  memtable all the same and is durable only once it is flushed. `LastWriteKept` says that this is the only way.
* *Strategy switches.* The time of the last switch is read under one lock and written under another. Two compactors can
  both pass the check and switch in the same second: one overtakes the other between `CheckSwitch` and `Decide`. What
  holds is that each compactor's own switches are spaced (`OwnSwitchesSpaced`), so that an interval has never more
  switches than there are compactors.
* *Trends.* A compactor takes its snapshot before the lock, and may record it after another one's later ones:
  of `<<2, 2, 2>>` it makes `<<2, 2, 0>>`, which slides to `<<0, 2, 2>>`, a rising trend without an access. With one compactor a
  snapshot can only be older than an access that came between it and its record, which is why `SwitchNeedsAccess`
  counts snapshots and not seconds.
* *Cooldown.* The segment that switches has passed its cooldown; the overlapping ones that a switch to leveled takes along
  (up to 49) are not asked. The merges of the planners look at no cooldown at all.
* *Lookups beside compaction.* A lookup whose candidates are all retired under it
  misses a key that is stored; `MissMeansOvertaken` says that nothing else makes it miss.
* *Two compactors.* main plans and executes on its own in three workloads although
  src/README.md:96 speaks of a single compaction thread. If, with two, a write of an output fails
  (`Faults = {"append"}` in the workload `mixed`), `SkippedInputsAreObsolete` fails: the
  deferred reset of the one clears flags that the other relies on.
* *Failed remap.* After it, `mmapData` and `mmappedSize` still describe the removed mapping.
  A goroutine that went to remap with an older size is then given it (`ReturnsMapped`); or it maps the
  file with that older size, and one that went to make the first mapping, where the
  second look compares no sizes, is given a mapping that is too short. Hence the conditions on `failures` in
  `ReturnsLiveMapping` and `MappingCoversSegment`.
* *Overlapping Puts.* The flush of one client truncates the record that another has
  logged and not yet put into the memtable; a flush that finds the memtable empty (two
  clients saw it full) truncates the log before the other has written its segment.
  src/README.md:105 excludes concurrent flushes. `AckedRecoverable` exempts such Puts.
* *Torn records.* The record after a torn one can be read as its key and value in
  silence; `LogReadsBack` asks for logs in which nothing follows a torn record. An error
  makes `ReadAll` return no entries, the intact ones before it neither.
* *Restarts and failed flushes.* Nothing calls `ReadAll`; the log is appended to, and the next flush
  truncates what only the log held, be it from before a restart or from a slice that could not be written.
* *Tombstones on the read path.* `Handler.Get` takes a tombstone for a miss, in the memtable
  and in a segment, and goes on to older values; `HandlerReadsWithinSecond` speaks of keys without tombstones.
* *Back to tiered.* The counter a leveled segment is judged by moves only when a
  compaction scans it, and a compaction that succeeds retires it: the switch from
  leveled to tiered takes several failed compactions of one segment.

## Proofs

Constants are arbitrary, subject to the named assumptions of the modules: `Keys` is a
finite, non-empty set of naturals, the sizes, limits and bounds are naturals
(`MaxInputs > 1`, `maxEntries > 0`), `Workload` is one of the workloads. Nothing is
assumed of their values, so the theorems cover every workload, both compactors and
any number of writes, switches and segments.

`AmethystProofs`

* `TypeInvariance`, `TypeCorrectness`: `Spec => []TypeOK`. The type invariant is made
  inductive by two facts: what plans and loops hold is registered
  (`InputsRegistered`), and an output or a flush that waits for its registration is
  in the data file (`PendingWritten`). IDs are positions in a growing file, so every
  action needs the argument that the old IDs stay valid (`Grows`).
* `Durability`: `Spec => []LastWriteDurable`, assuming that the log does not fail (`"log" \notin Faults`); appends and
  mappings may. `LastWriteIsKept`: `Spec => []LastWriteKept`, without that assumption. Both from `MainInv`:
  every entry of the memtable and of the buffer of a flush is in the log or was not taken by it, until the
  segment is in the file, and only entries that are in a segment are truncated.
* `FlagsCleared`: `Spec => []FlagsAlwaysCleared`, failures included. Every flag that is
  set belongs to the inputs of an `Execute` in progress (`FlagOwned`).
* `SkippedAreObsolete`, `NoKeyIsLost`: `Spec => []SkippedInputsAreObsolete` and
  `Spec => []NoKeyLost`, both assuming `MergesAreSafe`: mapping never fails, and if
  appends may fail, only the background goroutine compacts. The run `failed_scan` refutes
  the property without the first half; the observation on two compactors above is the second.

The argument for `NoKeyIsLost`: *whatever a registered segment holds is held by a live
segment whose ID is not smaller* (`Succession`). A compaction's output is appended
after its inputs, so its ID is larger; it holds every value key of its inputs
(`MergeCovers`, then `OutputHolds`), or else of inputs that another compactor retired
before the scan, and for those `Succession` names a live segment; and it is registered
before the first input is retired. An input retired later by the second compactor
is covered in the same way, because following larger IDs ends. The flags matter only
here: while a compactor has an input to scan, the input is flagged or already retired
(`InputsFlagged`), since the only `Execute` that clears a flag it shares has
retired the inputs first.

`CompactionProofs`

* `SoleCompactorKeeps`: `Spec => []SoleCompactorKeepsInputs`, assuming
  `OnlyBackgroundCompacts` (the workload has no compaction on main), failures included. `PlanKept`
  follows the candidates through the planners: they are live when taken, and nobody else retires.
* `MissIsOvertaken`: `Spec => []MissMeansOvertaken`, assuming `MergesAreSafe`, for two
  compactors. `ReadInv`: until the lookup hits, every candidate that holds the key is retired or
  still to be asked; with no such candidate no registered segment holds the key (by `Succession`),
  and a compaction publishes only keys that it has read (`MergeInv`).
* `OverlapCountIsBound`: `Spec => []OverlapCountBounds`. `CountInv` states it for every
  place of the list, against the segments registered before.
* `FlushesWithinSecond`: `Spec => []FlushesReadWithinSecond`, for any sort, stable or not. `WrittenInOrder`:
  segments are written in the order of their creation seconds, and of two flushes the later
  one has the later entries of the keys they share; so whatever comes first in a sort by level and second, a newer
  flush has the same second.
* `StoreImplemented`: `Spec => ImplementsVersionStore`, the refinement, assuming
  `OnlyBackgroundCompacts` and that mapping never fails. Every step maps to a step of
  `VersionStore` or a stutter (`NextStore`): a write replaces at most the newest version
  (`VersionInv`: nothing is newer than the last write); the registration of an output adds no
  version that is not in its inputs, which are still live (`PlanKept`); retiring the inputs keeps a
  version of each key, since the output holds one.

`SegmentFileProofs`, for any number of goroutines, appends and failures

* `FileTypes`, `NoLeak`, `CoversSegment`, `NeverShrinks`, `LiveMappingReturned`. `FileInv`: the only
  mapping is `mmapData`, `isMMapped` says whether it is mapped, its length is `mmappedSize`
  and at most the file's size (`MappingInv`); a goroutine on its way to remap has seen a size that
  covers what it reads (`CallInv`, `CoverInv`), so that the second look under the write lock
  is enough although the size is stale.

`AdaptiveProofs`, for any number of compactors, segments and any window

* `AdaptiveTypes`, `OwnSpaced`. `AdaptiveInv`: histories are not longer than the window, and a window read for a
  decision is not shorter than three; when a compactor decides, its own last switch is an interval ago, since it
  checked against that one or a later one (`SpacedInv`), and others only move the last switch forward.
* `NeedsAccess`: `Spec => SwitchNeedsAccess`, assuming one compactor. `QuietInv`: the last snapshots of a segment that has
  been quiet are its counter, but for the first of them. A switch needs a trend, and if no count of a window is below the
  last one, the moving average is not below it either (`TrendNeedsGrowth`, by induction along the window).

`MemtableProofs`, `ReadPathProofs`

* `SortSearch` returns the boundary of its predicate, `Upsert` replaces or inserts
  at that place, and keeps a slice sorted without duplicates.
* `SliceIsTable`: `Spec => []MemtableIsTable`. The slice and the table of `Amethyst` are the same
  memtable.
* `FileLayout`: `Spec => []LayoutOK`. `FileInv` ties the file to the tables: for every segment there
  are a sorted slice with the entries of its table, and the places where they end, such
  that the file has each entry at its place and the index has every `Stride`-th key with its
  offset (`BlockAt`). A flush appends (`SegmentWritten`), and what the file had stays where it was (`BlockKept`).
* `GetIsLookup`, `WalkIsBounded`: `Spec => []GetImplementsLookup` and `Spec => []WalkBounded`. `Seek` names the start
  of an entry, with only smaller keys before it and the end or a key that is not smaller within `Stride`
  entries (`SeekStarts`, from `SortSearchFinds`); from there the walk finds the key if an entry
  has it and stops at the first greater one (`WalkFinds`, from the last entry backwards);
  a key of the table is in the range that the metadata gives (`KeyInRange`).
* `ScanIsBlock`: `Spec => []ScanReturnsBlock`. The scan takes each entry of the slice once (`ScanTakes`).
* `HandlerWithinSecond`: `Spec => []HandlerReadsWithinSecond`, for any sort, stable or not. `OrderInv`: all segments are of level 0,
  with creation seconds that do not decrease; `AgeInv`: a later segment has the greater values, and the memtable the
  greatest. So a candidate that comes before a later one shares its second (`LatestFirst`), and the handler stops at the
  first with a value (`HandlerAsks`).

Together `FileLayout`, `GetIsLookup` and `ScanIsBlock` say that what `Amethyst` takes a lookup and a scan of a segment to be is
what the reader computes from the file.

`EngineProofs`, for any number of clients, keys, writes, failures and restarts

* `EngineTypes`: `Spec => []EngineTypeOK`. The bound on the memtable is the interesting part: its
  excess over the limit is paid for by clients between their put and their flush (`Crowd`).
* `ReadsBack`: `Spec => []LogReadsBack`. The file is the concatenation of the records' units
  (`BytesLayout`); `ReadAll` at the end of record `i` returns the records behind it, or an error if the
  last one is torn (`RestStep`, from the last record backwards).
* `Recoverable`: `Spec => []AckedRecoverable`. `RecoveryInv` follows each promised write (`Kept`):
  nothing in the memtable or in a slice under way is an older write of its key; and either
  the log has the write, and the write or a newer one is under way to the data file (in the memtable, in a
  slice to be written, in the file), or the file has it and the log has only later records.
  `UnderWay` is what makes a truncation harmless: a client that truncates has written its slice,
  and no other client is between taking a slice and truncating (`FlushesAlone`). The rest is
  bookkeeping on overlaps: Puts under way together know of each other (`OverlapsNoted`), and one that
  began after another had returned has the higher number (`LaterIsNewer`), so an upsert never
  puts an older write over a promised one. A recovery then finds the last record of
  the key, or else the last entry of the key in the segments in order.

* `ReplayRebuilds`: `Spec => []ReplayRebuildsMemtable`. `ReplayInv`: there is a sequence of slices, one per
  record of the log, each made from the one before by an upsert; the memtable is the last of
  them, the one before it while the last record is on its way to the memtable, and empty from a flush to its
  truncation. It is the sequence that `Replayed` computes (`ReplayedLast`).

`EngineInv` and `RecoveryInv` hold by the theorems for instances that the run `engine` does not
contain. One of those showed, while the proof was being made, that `dropped` has to name superseded writes
as well: with three keys, a memtable of two and five writes (`k`, `k`, `j`, a failed flush, `j`, `l`, a successful
flush), the second `k` leaves memory with the failed flush and the first with the truncation that follows.
The run's four writes of two keys do not reach that.

*Recursion.* `Induction` states induction for sets (`NatInd`: a set that holds 0 and with every
number the next one holds all naturals), which needs no operator parameter, and derives the functions
that recursive definitions denote: `f[i + 1]` from `f[i]`, a binary search over intervals, a recursion towards
the end of a range, `FlattenSeq` as a layout of its parts. Proofs about a recursive function of the model first show
that such a function exists, so that the `CHOOSE` behind the definition has its property.

The inductive invariants were model-checked on small instances before they were proved:
those of the whole program in `mixed` and `client` (without failures), `RecoveryInv` in `engine`, in an instance
with one client, three keys and five writes, and in one with three clients.

`OwnSwitchesSpaced` is proved for any number of compactors and is in no run; TLC has checked it for two, as it has
checked the other properties proved here before their proofs.

Only model-checked:

* `CompactionSettles`: liveness under fairness is outside TLAPS's reach.
* The findings, and the refuted formulas under *Observations*.

## Plan

Every component is modelled, main and the read handler in part, and every safety property that a passing run checks is
proved for all values of the constants, under the assumptions named above. What is left:

1. A descent argument for `CompactionSettles` in safety terms: the measure that every merge
   lowers, as an action property that TLC checks and a theorem states. (The eventuality itself
   stays with TLC.)
2. `ReadPath` with a merge beside the flush, so that the exactness of the encoding is
   stated for the outputs of compactions as well.
3. The read handler beside a flush: a lookup that finds a key neither in the memtable nor in a registered segment.

## Not modelled

What runs between the read handler's two looks, into the memtable and at the tracker (see *Granularity*).
Metrics (amplification, comparison counts, byte counters except for the level that
selects one), the Zipfian sampler, the JSON report and the command line. They are
computed from the state modelled here and do not feed back into it. `ReadAt`,
`ReadWriteRatio`, `IncrementReads` and `IncrementWrites` are never called. `LogDelete` writes a
record without a value; `WAL` has such records through values of length zero and leaves
the tombstone byte out, which `ReadAll` only copies. Space reclamation is not implemented
in the program.
