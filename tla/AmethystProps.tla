--------------------------- MODULE AmethystProps ----------------------------
(***************************************************************************)
(* What the running program of Amethyst.tla must satisfy, and what the     *)
(* repository says of it.                                                  *)
(***************************************************************************)
EXTENDS Amethyst

\* Every variable keeps its type: IDs in the tracker, in the plans and in the
\* reader's list are IDs of segments in the data file.
TypeOK == TrackerTypeOK /\ CompactionTypeOK /\ MainTypeOK

\* The segments that hold a value for k.
Holders(k) == {s \in SegmentID : segs[s].data[k] > 0}

(***************************************************************************)
(* Safety that holds.                                                      *)
(***************************************************************************)
\* Compaction and flushing never lose a key: a key whose last write is a Put has
\* a value in the memtable, in the buffer of a flush under way, or in a segment
\* that is registered and not obsolete.
NoKeyLost ==
    \A k \in liveKeys : mem[k] > 0 \/ buf[k] > 0 \/ Holders(k) \cap Live # {}

Stored(k, e) == \E s \in SegmentID : segs[s].data[k] = e

\* The log is truncated only when it is no longer needed: the last write of each
\* key is in the log or in a segment of the (synced) data file.
LastWriteDurable ==
    \A k \in KeysOf(latest) : <<k, latest[k]>> \in wal.entries \/ Stored(k, latest[k])

\* The same when the log may fail too: only an entry that could not be logged, and is
\* still in memory or in the buffer of a flush, is in neither of them.
LastWriteKept ==
    \A k \in KeysOf(latest) :
        \/ <<k, latest[k]>> \in wal.entries
        \/ Stored(k, latest[k])
        \/ <<k, latest[k]>> \in wal.unlogged /\ latest[k] \in {mem[k], buf[k]}

\* InCompaction flags do not leak: outside Execute no segment is flagged,
\* whichever way the calls of the two compactors ended.
FlagsAlwaysCleared ==
    (\A c \in Compactors : pc[c] \notin Executing) => inCompaction = {}

\* While only the background goroutine compacts, the inputs of a plan stay live
\* until Execute itself retires them: validation cannot fail and no input is
\* skipped by the check before a scan.
SoleCompactorKeepsInputs ==
    pc["bg"] \in {"validate", "flag", "scan", "register"} =>
        /\ Inputs("bg") \cap obsolete = {}
        /\ pc["bg"] \in {"scan", "register"} => Inputs("bg") \subseteq inCompaction

\* A check before a scan that finds the InCompaction flag down finds a segment
\* another compactor has retired: skipping it drops nothing that is not stored
\* elsewhere.
SkippedInputsAreObsolete ==
    \A c \in Compactors : pc[c] = "scan" =>
        \A s \in ToSet(todo[c]) : s \in inCompaction \/ s \in obsolete

\* A lookup that returns without a hit was overtaken by a compaction: every
\* candidate that held the key is now obsolete, and if the key is in a segment at
\* all there was such a candidate.
MissMeansOvertaken ==
    LET held == ToSet(rd.segs) \cap Holders(rd.key)
    IN  mpc = "reading" /\ rd.rest = <<>> /\ rd.hit = Absent =>
            held \subseteq obsolete /\ (Holders(rd.key) \cap Live # {} => held # {})

\* The live segments that hold an entry for k.
Candidates(k) == {s \in Live : segs[s].data[k] # Absent}

\* As long as no compaction output holds a key, the segment a lookup finds it in first
\* is older than another one only if both were flushed in the same second: the sort
\* knows nothing finer, and need not keep the order of equal segments.
FlushesReadWithinSecond ==
    \A k \in Keys :
        (\A s \in Candidates(k) : segs[s].origin = "flush") =>
            \A p \in SortedOrders(Candidates(k)), s \in Candidates(k) :
                Version(segs[s].data[k]) > Version(segs[p[1]].data[k]) =>
                    segs[s].created = segs[p[1]].created

\* OverlapCount, computed once when a segment is registered, stays an upper bound
\* on the live segments registered before it that overlap it.
OverlapCountBounds ==
    \A i \in DOMAIN ordered :
        Cardinality({j \in DOMAIN ordered :
            /\ j > i
            /\ ordered[j] \in Live
            /\ Overlap(segs[ordered[i]], segs[ordered[j]])})
        <= segs[ordered[i]].overlapCount

(***************************************************************************)
(* The abstract store, implemented while only the background goroutine     *)
(* compacts.                                                               *)
(***************************************************************************)
\* The versions of k that are stored: in the memtable, in a flush under way, or
\* in a live segment.
Kept(k) ==
    {e \in {mem[k], buf[k]} : e > 0} \cup {segs[s].data[k] : s \in Holders(k) \cap Live}

Store == INSTANCE VersionStore WITH kept <- [k \in Keys |-> Kept(k)], written <- writes

\* The program implements the abstract store: a write replaces at most the newest
\* version, compaction drops versions but never the last one of a key, and a
\* version that was dropped never comes back.
ImplementsVersionStore == Store!StoreSpec

(***************************************************************************)
(* What the repository says and the code does not do.                      *)
(***************************************************************************)
\* "Higher index (newer) will overwrite older values": the output of a merge holds
\* the newest of its inputs' values of each key (executor.go).
NewerInputWins ==
    \A c \in Compactors, k \in Keys : pc[c] = "register" =>
        \A s \in Inputs(c) : merged[c][k] >= segs[s].data[k]

\* "nil from Scan correctly becomes a Tombstone": a key of which the inputs hold
\* only tombstones has a tombstone in the output (executor.go).
TombstoneSurvivesMerge ==
    \A c \in Compactors, k \in Keys :
        /\ pc[c] = "register"
        /\ \E s \in Inputs(c) : segs[s].data[k] < 0
        /\ \A s \in Inputs(c) : segs[s].data[k] <= 0
        => merged[c][k] < 0

\* "SSTable scan (newest -> oldest)": of the segments that hold a key, a lookup finds
\* it in the one with the newest entry (README.md, read.go).
NewestFirst ==
    \A k \in Keys : \A p \in SortedOrders(Candidates(k)), s \in Candidates(k) :
        Version(segs[p[1]].data[k]) >= Version(segs[s].data[k])

\* "Final flush": it leaves nothing in the memtable (main.go).
FinalFlushEmptiesMemtable ==
    [][InPhase({"flush"}) /\ phases' = Tail(phases) => mem' = EmptyTable]_vars

(***************************************************************************)
(* Liveness.                                                               *)
(***************************************************************************)
\* Nothing is left to plan without a strategy switch.
Settled ==
    /\ \A s \in Live : GetOverlappingSegments(s) = {}
    /\ currentPolicy = TIERED =>
           \A s, t \in Live : s # t => ~ SimilarRuns(s, t)

\* Background compaction works its backlog off: once writes stop, and unless main
\* stops it first, it reaches a set of segments it has nothing left to do with.
CompactionSettles == <>[](Settled \/ stop \/ panicked)
=============================================================================
